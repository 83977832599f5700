SPECIFICATION Spec
CONSTANTS
  phone = phone
  twin = twin
  tablet = tablet
  server = server
  rack = rack
  vm = vm
  bare = bare
  n1 = n1
  w1 = w1
  w2 = w2
  short = short
  Hosts = {phone, twin, tablet, server, rack, vm, bare}
  System <- AllSystems
  Nodes <- AllNodes
  Measurements = {"image", "placeholder"}
  Image <- Images
  Registered = {phone, twin}
  Certs = {"EK", "root"}
  Issuer <- Issuers
  VendorRoot <- Roots
  Nonces = {n1, short}
  NonceBytes <- Lengths
  SignCountMax = 2
  SubstrateError = SubstrateError
  RuntimeError = RuntimeError
  Zeros = Zeros
  None = None
  Window = 1
  NoDid = NoDid
  Malformed = Malformed
  NoDate = NoDate
  Enrolled = {phone, server, rack, vm, bare}
  Reaches <- Neighbours
  Workers = {w1, w2}
  Agents = {agent, other}
  OperatorKeys = {1, 2}
  StartCount <- Counts
  FirstCounters <- MinusOne
  MaxTime = 2
  AnswerBudget = 2
  ProofBudget = 1
  BindLast = TRUE
SYMMETRY Alike
CHECK_DEADLOCK FALSE
INVARIANTS
  MinusOneStartsAHost
