SPECIFICATION NotifyFairSpec
CONSTANTS
  r1 = r1
  m1 = m1
  Run = {r1, r2}
  Monitor = {m1}
  RunOf <- OnTheFirst
  Tick = {t1, t2}
  Limit = 2
  Ending = {"failed"}
  MaxStart = 1
  MaxAck = 1
  MaxFault = 1
CHECK_DEADLOCK FALSE
INVARIANTS
  DeliveryIsExact
PROPERTIES
  MonitorsExit
  EveryNotificationIsPushed
