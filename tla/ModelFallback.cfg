SPECIFICATION Spec
CONSTANTS
  pro = pro  flash = flash  lite = lite
  Models = {pro, flash, lite}
  AutoAlias = auto
  Lite = lite
  Preview = {}
  MainChain <- TheMainChain
  LiteChain <- TheLiteChain
  Transition <- TheTransition
  Calls = {chat, util}
  Chats = {chat}
  MaxAttempts = 2
  MaxConsents = 1
  MaxSwitches = 1
INVARIANTS
  DialogIsOne
  OfferStaysGood
PROPERTIES
  SwitchNeedsConsent
  EveryCallEnds
CHECK_DEADLOCK FALSE
