------------------------------ MODULE Schedule ------------------------------
(***************************************************************************)
(* An instructor's calendar: the week that is open, and the bookings of    *)
(* one of its days.                                                        *)
(***************************************************************************)
EXTENDS Calendar, WeekSave

CONSTANT Date   \* the day the bookings are for

ASSUME DateOfWeek == Date \in Days

vars == <<calendarVars, weekVars>>

ScheduleTypeOK == CalendarTypeOK /\ WeekTypeOK

ScheduleInit == CalendarInit /\ WeekInit

(* _validate_against_availability_bits asks before the transaction, and    *)
(* nobody asks again.                                                      *)
BookingStep(b) == /\ rows[b].status = "none" /\ req[b] = "none" => week[Date]
                  /\ CalendarStep(b)

ScheduleNext == \/ \E b \in Bookings : BookingStep(b) /\ UNCHANGED weekVars
                \/ \E e \in Editors : WeekStep(e) /\ UNCHANGED calendarVars

ScheduleSafety == ScheduleInit /\ [][ScheduleNext]_vars
=============================================================================
