SPECIFICATION Spec
CONSTANTS
  Procs = {p1}
  Names = {bot}
  Plain = {bot}
  Paths = {path}
  PathOf <- OneName
  StemOf <- OneStem
  Keys = {k1, k2, k3}
  Ops = {}
  Calls = {"load_or_create", "delete"}
  Faults = {"wipe"}
  None = None
  Empty = Empty
  Torn = Torn
  bot = bot
  shop = shop
  slashed = slashed
  hidden = hidden
  path = path
  path2 = path2
SYMMETRY Symmetry
PROPERTIES
  WipedKeyRegenerated
