CONSTANTS
  alice = alice
  bob = bob
  gold = gold
  silver = silver
  This = this
  Parties = {alice, bob}
  Tokens = {gold}
  MaxAmount = 4
  CountMax = 1
  Requests <- SingleRequests
  Amounts = {0, 1, 2}
  Gifts = {}
  Times = {0, 1, 2, 3, 4}
  Funding = 4
SPECIFICATION Spec
CHECK_DEADLOCK FALSE
INVARIANTS
  ClaimsInOrder
  FaithfulToTerms
  EventsExplainRecords
  RaceHasOneOutcome
PROPERTIES
  CancelKeepsItsPreview
  RetriesAreRefused
  StatusMovesForward
  EntitlementNeverShrinks
