CONSTANTS
  alice = alice
  bob = bob
  gold = gold
  silver = silver
  This = this
  Parties = {alice, bob}
  Tokens = {gold, silver}
  Conforming = {gold}
  MaxAmount = 2
  CountMax = 2
  Requests <- HostRequests
  Amounts = {}
  Gifts = {}
  Times = {0, 1, 2}
  Funding = 2
SPECIFICATION HostFairSpec
CHECK_DEADLOCK FALSE
INVARIANTS
  HostTypeOK
  HonestTokensSolvent
  EventsExplainCommitted
PROPERTIES
  FailedCallsCanBeRetried
  HonestPromisesKept
  HonestStreamsArePaidOut
