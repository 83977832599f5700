SPECIFICATION BundleSpec
CONSTANTS
  k1 = k1
  k2 = k2
  list = list
  Keys = {k1, k2}
  Dids <- AllDids
  HitLists = {list}
  HitValues = {"text keys", "number keys", "not JSON"}
  Policies = {policy}
  PolicyValues <- AllPolicyValues
  Drafts <- AllDrafts
  Windows <- AllWindows
  BundleIds = {b1}
  MaxEvents = 3
  Absent = Absent
CHECK_DEADLOCK FALSE
INVARIANTS
  AgentsCanBuild
