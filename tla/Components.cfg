SPECIFICATION AllSpec
CONSTANTS
  phone = phone
  twin = twin
  tablet = tablet
  server = server
  rack = rack
  vm = vm
  bare = bare
  n1 = n1
  w1 = w1
  w2 = w2
  short = short
  Hosts = {phone, twin, tablet, server, rack, vm, bare}
  System <- AllSystems
  Nodes <- AllNodes
  Measurements = {"image", "placeholder"}
  Image <- Images
  Registered = {phone, twin}
  Certs = {"EK", "root"}
  Issuer <- Issuers
  VendorRoot <- Roots
  Nonces = {n1, short}
  NonceBytes <- Lengths
  SignCountMax = 2
  SubstrateError = SubstrateError
  RuntimeError = RuntimeError
  Zeros = Zeros
  None = None
  Window = 1
  NoDid = NoDid
  Malformed = Malformed
  NoDate = NoDate
  Enrolled = {phone, server, rack, vm, bare}
  Reaches <- Neighbours
  Workers = {w1, w2}
  Agents = {agent, other}
  OperatorKeys = {1, 2}
  StartCount <- Counts
  FirstCounters = {0}
  MaxTime = 2
  AnswerBudget = 2
  ProofBudget = 1
  BindLast = TRUE
  e1 = e1
  e2 = e2
  Objects = {e1, e2}
  Codes = {"SHAPE_INVALID", "NONCE_REPLAY"}
  NotCode = "shape invalid"
  Raws <- SomeRaws
  TypeNames <- Names
  Messages <- SecretMessages
  MAX_DETAIL_LEN = 4
  TRUNC_MARKER <- Marker
  Unset = Unset
  Nothing = Nothing
  Base = 3
  Radix = 2
  Multicodec <- Prefix
  KeyLength = 1
  MaxPayload = 3
  k1 = k1
  k2 = k2
  list = list
  Keys = {k1, k2}
  Dids <- AllDids
  HitLists = {list}
  HitValues = {"text keys", "number keys", "not JSON"}
  Policies = {policy}
  PolicyValues <- AllPolicyValues
  Drafts <- AllDrafts
  Windows <- AllWindows
  BundleIds = {b1}
  MaxEvents = 3
  Absent = Absent
SYMMETRY Interchangeable
CHECK_DEADLOCK FALSE
INVARIANTS
  TypeOK
  AcceptedAnswersItsChallenge
  AssertionsCountOnce
  ValidBindingTracesBack
  ErrTypeOK
  DetailsAreSafe
  CopiesAgree
  DecodesBack
  DidsTellApart
  BundleTypeOK
  AcceptedIsComplete
  UneditedVerifies
  AttestationAccountedFor
PROPERTIES
  StoredCountersRise
  RefusedForCause
  IsLedger
  FrozenUnlessOpened
