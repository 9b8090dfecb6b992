SPECIFICATION FairSpec
CONSTANTS
  hr = hr  hp = hp  he = he  hd = hd
  kr = kr  kp = kp  ke = ke
  NoHook = NoHook
  Hooks = {hr, hp, he, hd}
  Configured <- AsConfigured
  SourceOf <- Sources
  Functions = {hr}
  KeyOf <- Keys
  EventsOf <- Listens
  TargetsOf <- Matchers
  Serial = {hp}
  DisabledKeys = {}
  Stubborn = {he}
  Occasions <- Firings
  SaysTo <- Sayings
INVARIANTS
  SeesEarlierEdits
  DecisionsCount
PROPERTIES
  EveryFiringEnds
