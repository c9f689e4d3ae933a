SPECIFICATION RecordedSpec
CONSTANTS
  Peers = {p1, p2, p3}
  NoPeer = NoPeer
  Nicknames = {n1, n2}
  USERS_UID = 2
  MAXIMUM_USERS = 3
  TABLES_UID = 10
  NbTables = 2
  NbPlayers = 2
  Uids = {0, 2, 3, 9}
  ClientFaults = {}
SYMMETRY MCSymmetry
INVARIANTS
  UnseatedMayJoin
CHECK_DEADLOCK FALSE
