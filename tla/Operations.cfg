SPECIFICATION OperationsSpec
CONSTANTS
  Bookings = {1, 2}
  Stylists = {sA}
  NoStylist = NoStylist
  DayEnd = 3
  Lengths = {1, 2}
  MaxRequests = 2
  MaxBookVersion = 2
  Shared = FALSE
  Channels = {"sms"}
  Offset = 1
  LastMinute = 4
  Attempts = 3
  LeaveIds = {l1, l2}
  LastDay = 1
  Managers = {boss}
  Employee = emp
  MaxFilings = 2
INVARIANTS
  BookTypeOK NoDoubleBooking
  ReminderTypeOK 
  LeaveTypeOK
PROPERTIES
  StartedStaysPut DecisionStands
CHECK_DEADLOCK FALSE
