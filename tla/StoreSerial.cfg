SPECIFICATION SerialSpec
CONSTANTS
  Procs = {p1, p2}
  Names = {bot, slashed, hidden}
  Plain = {bot}
  Paths = {path}
  PathOf <- SharedPath
  StemOf <- OneStem
  Keys = {k1, k2}
  Ops = {}
  Calls = {"load", "load_or_create", "create", "delete", "list_agents", "sign"}
  Faults = {"crash", "backend", "wipe"}
  None = None
  Empty = Empty
  Torn = Torn
  bot = bot
  shop = shop
  slashed = slashed
  hidden = hidden
  path = path
  path2 = path2
SYMMETRY Symmetry
INVARIANTS
  DidMatchesKey
PROPERTIES
  ShownAgentsCanSign
  SignaturesVerify
