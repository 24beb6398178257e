\* Two publishers that live, one event at a time.
CONSTANTS
  Rows = {1, 2}
  Publishers = {p1, p2}
  Nobody = Nobody
  BatchLimit = 1
  MaxDeaths = 0
  PatientLeases = TRUE
SPECIFICATION LiveOutboxSpec
PROPERTIES
  SendsOnlyItsLease
