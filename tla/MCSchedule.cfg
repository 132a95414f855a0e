SPECIFICATION ScheduleSafety
CONSTANTS
  b1 = b1
  b2 = b2
  b3 = b3
  b4 = b4
  e1 = e1
  e2 = e2
  Bookings <- FourBookings
  Student <- StudentOf
  Instructor <- InstructorOf
  Slots <- ThreeSlots
  Buffer = 1
  Offset <- OffsetOf
  Editors <- TwoEditors
  Days <- TwoDays
  Date = "mon"
INVARIANTS ScheduleTypeOK NoDoubleBooking BufferKept
PROPERTIES OtherDaysSurvive
CONSTRAINT InTurn
CHECK_DEADLOCK FALSE
