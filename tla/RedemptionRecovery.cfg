SPECIFICATION Spec
CONSTANTS
  a1 = a1
  l1 = l1
  l2 = l2
  s1 = s1
  s2 = s2
  NoChallenge = NoChallenge
  NoLine = NoLine
  NoAppt = NoAppt
  Appointments = {a1}
  Lines = {l1}
  ApptOf <- MCOneAppointment
  Subscriptions = {s1}
  SubOf <- MCSharedSubscription
  Quota = 2
  Challenges = {c1, c2}
  Workers = {w1, w2}
  Sweepers = {p1}
  MaxAttempts = 1
  Transactional = FALSE
  SlowProcesses = FALSE
  TTLMonitor = TRUE
  SweepFailures = 1
SYMMETRY MCSymmetry
INVARIANTS
  ReconciledIsSettled
  CompletedIsPaid
CHECK_DEADLOCK FALSE
