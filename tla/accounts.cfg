SPECIFICATION Spec
CONSTANTS
  Workers = {w1, w2}
  Words <- MCWords
  Fields <- MCFields
  ShippedFile <- MCShippedFile
  MaxRequests = 3
  MaxFaults = 1
INVARIANTS TypeOK NameTakenOnce RegisteredCanLogIn
PROPERTY LoginsStay
CHECK_DEADLOCK FALSE
