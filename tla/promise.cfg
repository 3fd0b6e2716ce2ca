CONSTANTS
  alice = alice
  bob = bob
  gold = gold
  silver = silver
  This = this
  Parties = {alice, bob}
  Tokens = {gold}
  MaxAmount = 3
  CountMax = 2
  Requests <- PromiseRequests
  Amounts = {1}
  Gifts = {3}
  Times = {0, 1, 2, 3}
  Funding = 3
SPECIFICATION FairSpec
CHECK_DEADLOCK FALSE
PROPERTIES
  KeepsThePromise
  EveryStreamIsPaidOut
