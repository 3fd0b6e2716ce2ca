CONSTANTS
  alice = alice
  bob = bob
  gold = gold
  silver = silver
  This = this
  Parties = {alice, bob}
  Tokens = {gold, silver}
  MaxAmount = 3
  CountMax = 2
  Requests <- PairRequests
  Amounts = {1}
  Gifts = {3}
  Times = {0, 1, 2, 3}
  Funding = 3
SPECIFICATION Spec
PROPERTIES
  UnauthorizedGetsNoCode
CHECK_DEADLOCK FALSE
