SPECIFICATION PeopleSpec
CONSTANTS
  Calls = {c1, c2}
  Sessions = {s1}
  MaxWrong = 2
  MaxCodes = 1
  MaxTokens = 2
  MaxAccountVersion = 3
  Staff = {p1, p2}
  Accounts = {u1}
  Branches = {b1, b2}
  NoUser = NoUser
  NoBranch = NoBranch
  MaxUnderWay = 2
INVARIANTS
  AuthTypeOK AcceptedOnce
   OneProfilePerUser
PROPERTY
  ClosedStaysClosed
CHECK_DEADLOCK FALSE
