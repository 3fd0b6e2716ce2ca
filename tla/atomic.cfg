CONSTANTS
  alice = alice
  bob = bob
  gold = gold
  silver = silver
  This = this
  Parties = {alice, bob}
  Tokens = {gold}
  Conforming = {gold}
  MaxAmount = 3
  CountMax = 2
  Requests <- AtomicRequests
  Amounts = {1}
  Gifts = {2}
  Times = {0, 1, 2, 3}
  Funding = 3
SPECIFICATION HostSpec
CHECK_DEADLOCK FALSE
PROPERTIES
  InvocationsAreAtomic
