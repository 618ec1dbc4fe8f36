SPECIFICATION MCSpec
CONSTANTS
  c1 = c1
  c2 = c2
  Conns <- MCConns
  print = print
  shop = shop
  door = door
  noSlug = noSlug
  Files <- MCFiles
  Stems = {print, shop, door, noSlug}
  BadStems = {noSlug}
  Builtins = {print}
  MaxPresets = 2
  MaxFiles = 3
  MaxChanges = 1
  Tokens <- MCTokens
  NumberOf <- MCNumberOf
  Units <- MCUnits
  RateUnits = {"s", "min"}
  MaxInt = 32767
  LoopbackHosts <- MCLoopback
  Commands <- MCCommands
  Environs <- MCEnvirons
CHECK_DEADLOCK FALSE
INVARIANT TypesOK
INVARIANT OrderlyEnd
INVARIANT PresetsSound
INVARIANT DenyByDefault
INVARIANT SettingsTold
INVARIANT ExitTells
PROPERTY AllEnds
