SPECIFICATION Spec
CONSTANTS
  Procs = {p1, p2}
  Names = {bot, shop, hidden}
  Plain = {bot, shop}
  Paths = {path, path2}
  PathOf <- TwoNames
  StemOf <- TwoStems
  Keys = {k1, k2}
  Ops = {o1}
  Calls = {"load_or_create", "delete"}
  Faults = {"crash", "backend"}
  None = None
  Empty = Empty
  Torn = Torn
  bot = bot
  shop = shop
  slashed = slashed
  hidden = hidden
  path = path
  path2 = path2
SYMMETRY Symmetry
INVARIANTS
  TypeOK
  KeyStoredBeforeDid
  OneSlotPerKey
PROPERTIES
  OldKeysStayGone
