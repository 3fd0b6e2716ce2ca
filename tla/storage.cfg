CONSTANTS
  CountMax = 2
  EntryTtl = 5
  BumpThreshold = 2
  MinTtls = {1, 7}
SPECIFICATION Spec
INVARIANTS
  TypeOK
  AttendedStaysLive
PROPERTIES
  TouchBuysTheThreshold
  IdsSurviveArchival
  OnlyTimeShortens
