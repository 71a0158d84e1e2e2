SPECIFICATION Spec
CONSTANTS
  Names = {dot, dotted, mount}
  Dot = dot
  HiddenNames = {dotted}
  Mounts = {mount}
  ApproxSize <- Sizes
  BufferSize = 5
  NoName = NoName
  Offsets = {0, 1}
  Selections <- SomeFacts
INVARIANTS
  TypeOK
  ListingExact
  BatchSound
  SettingsFresh
  HiddenNeedsAsk
  RestFits
  TypeHonoured
  FactsUniform
CHECK_DEADLOCK FALSE
