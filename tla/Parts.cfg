SPECIFICATION Spec
CONSTANTS
  r1 = r1
  r2 = r2
  u1 = u1
  u2 = u2
  t1 = t1
  t2 = t2
  Users = {u1, u2}
  Tokens = {t1, t2}
  Requests = {r1, r2}
  Parts <- MCParts
  None = None
SYMMETRY Symmetry
INVARIANTS
  AccountsInv
  SessionsInv
  StatusShown
  ClientInv
  ArchiveInv
  GroupsInv
  NotificationsInv
  ReadsInv
  HistoryViewInv
  DashboardInv
  RecipientInv
  PagesInv
PROPERTIES
  ChangesByAdmins
CHECK_DEADLOCK FALSE
