SPECIFICATION ReleaseSpec
CONSTANTS
  readme = readme
  changelog = changelog
  sdk = sdk
  vendored = vendored
  errors = errors
  tests = tests
  gate = gate
  Torn = Torn
  Missing = Missing
  Order <- AllFiles
  Optional = {}
  Synced = {sdk}
  Boilerplate = {readme}
  Readme = readme
  Changelog = changelog
  Tests = tests
  ErrorsPy = errors
  GateScript = gate
  SubstrateTests = {}
  Touched = {readme}
  MaxVersion = 1
  PassContracts <- NewTests
  Pinned = 0
  HomeIsSource = TRUE
  MaxCommits = 2
  MaxChanges = 3
  MaxStagings = 1
INVARIANTS GateJudgesTheClone
