SPECIFICATION FairWriterSpec
CONSTANTS
  Procs = {p1, p2}
  Names = {bot}
  Plain = {bot}
  Paths = {path}
  PathOf <- OneName
  StemOf <- OneStem
  Keys = {k1, k2}
  Ops = {}
  Calls = {"list_agents", "load_or_create", "delete"}
  Faults = {"crash", "backend", "wipe"}
  None = None
  Empty = Empty
  Torn = Torn
  bot = bot
  shop = shop
  slashed = slashed
  hidden = hidden
  path = path
  path2 = path2
INVARIANTS
  SidecarWhole
  OnlyIdentityErrors
PROPERTIES
  IsRegistry
  CallsReturn
