SPECIFICATION FairSpec
CONSTANTS
  BurstSize = 1
  SendsDone = TRUE
  Missions = 2
  CreateUser = TRUE
  AnswersRelogin = FALSE
  SharedAccount = FALSE
  QuietUser = TRUE
  MaxExtras = 2
  Zones <- MCZones
  User = User
  Other = Other
  LoggedOut = LoggedOut
  Absent = Absent
  z1 = z1
  z2 = z2
CHECK_DEADLOCK FALSE
INVARIANTS  RosterAgrees DropReports CameraKept
PROPERTIES  LoginHappens
