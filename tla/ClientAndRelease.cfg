SPECIFICATION BothSpec
CONSTANTS
  Threads = {t1, t2}
  Clients = {c1, c2, c3}
  Methods = {"issue_passport", "verify_passport"}
  None = None
  readme = readme
  changelog = changelog
  sdk = sdk
  vendored = vendored
  errors = errors
  tests = tests
  gate = gate
  Torn = Torn
  Missing = Missing
  Order <- SomeFiles
  Optional = {vendored}
  Synced = {}
  Boilerplate = {readme}
  Readme = readme
  Changelog = readme
  Tests = readme
  ErrorsPy = errors
  GateScript = errors
  SubstrateTests = {}
  Touched = {errors}
  MaxVersion = 1
  PassContracts <- NewTests
  Pinned = 0
  HomeIsSource = FALSE
  MaxCommits = 2
  MaxChanges = 2
  MaxStagings = 2
INVARIANTS
  TypeOK
  RequestsHaveOpenClient
  NoClientLost
  ReleaseTypeOK
  StagedIsCurrent
  ReleasesGoForward
PROPERTIES
  SharingNeverRaises
  IsPool
  CallsReturn
  MismatchIsExplained
  VerifierEnds
