------------------------------ MODULE Calendar ------------------------------
(***************************************************************************)
(* Bookings of one date that want the same time: the creation path in      *)
(* services/booking/creation_service.py, creation_payment.py and           *)
(* availability_conflicts.py, services/conflict_checker.py, and the two    *)
(* exclusion constraints of the bookings table.                            *)
(*                                                                         *)
(* A lesson takes one slot, which is a reading of its instructor's clock   *)
(* (booking_date, start_time): the checks and the constraints compare      *)
(* readings, and clocks of two instructors may differ (timezone).  Each    *)
(* booking is an attempt of its student to book its instructor; a lesson   *)
(* that is over (COMPLETED, NO_SHOW) keeps its slot as a CONFIRMED one     *)
(* does, and is not told apart from it.                                    *)
(***************************************************************************)
EXTENDS Integers

CONSTANTS Bookings,
          Student(_), Instructor(_),
          Slots,
          Buffer,      \* the slots an instructor needs between two lessons
          Offset(_)    \* what an instructor's clock is ahead of UTC on the date

ASSUME CalendarBounds == Slots \subseteq Int /\ Buffer \in Nat /\ "free" \notin Bookings
ASSUME Clocks == \A b \in Bookings : Offset(Instructor(b)) \in Int

VARIABLES rows,   \* the bookings table
          req,    \* where the request that works on a booking stands
          guard   \* who holds the advisory lock of an instructor's date

calendarVars == <<rows, req, guard>>

Instructors == {Instructor(b) : b \in Bookings}

(* declined: auth_failure_count, and whether it ever was above zero.       *)
RowType == [status : {"none", "PENDING", "CONFIRMED", "CANCELLED"},
            slot : Slots \cup {0},
            declined : {"never", "now", "once"}]

CalendarTypeOK ==
    /\ rows \in [Bookings -> RowType]
    /\ req \in [Bookings -> {"none", "validated", "locked", "insert", "authorize"}]
    /\ guard \in [Instructors -> Bookings \cup {"free"}]
    /\ \A b \in Bookings : guard[Instructor(b)] = b <=> req[b] \in {"locked", "insert"}

NoRow == [status |-> "none", slot |-> 0, declined |-> "never"]

CalendarInit == /\ rows = [b \in Bookings |-> NoRow]
                /\ req = [b \in Bookings |-> "none"]
                /\ guard = [i \in Instructors |-> "free"]

-----------------------------------------------------------------------------
(* The readings of the two clocks are more than the gap apart. *)
Apart(b, c, gap) == \/ rows[b].slot + gap < rows[c].slot
                    \/ rows[c].slot + gap < rows[b].slot

(* _conflict_status_filter. *)
Blocks(b) == \/ rows[b].status = "CONFIRMED"
             \/ rows[b].status = "PENDING" /\ rows[b].declined # "now"

(* check_booking_conflicts, with the buffer, and                           *)
(* check_student_booking_conflicts, without one.                           *)
Conflicts(b) ==
    \E c \in Bookings \ {b} :
       /\ Blocks(c)
       /\ \/ Instructor(c) = Instructor(b) /\ ~Apart(b, c, Buffer)
          \/ Student(c) = Student(b) /\ ~Apart(b, c, 0)

(* Mutant of Excluded: the constraint of the student is missing. *)
ExcludedForInstructor(b) ==
    \E c \in Bookings \ {b} : /\ rows[c].status = "CONFIRMED"
                              /\ Instructor(c) = Instructor(b)
                              /\ ~Apart(b, c, 0)

(* bookings_no_overlap_per_instructor and bookings_no_overlap_per_student, *)
(* over booking_span, which is a tsrange of readings: the row cannot       *)
(* become CONFIRMED.  A row that is CONFIRMED has no cancelled_at.         *)
Excluded(b) ==
    \E c \in Bookings \ {b} : /\ rows[c].status = "CONFIRMED"
                              /\ Instructor(c) = Instructor(b) \/ Student(c) = Student(b)
                              /\ ~Apart(b, c, 0)

-----------------------------------------------------------------------------
Goes(b, step) == req' = [req EXCEPT ![b] = step]

(* create_booking and create_booking_with_payment_setup, up to the         *)
(* transaction; the slot was found open.                                   *)
Request(b, slot) == /\ req[b] = "none"
                    /\ rows[b].status = "none"
                    /\ rows' = [rows EXCEPT ![b].slot = slot]
                    /\ Goes(b, "validated")
                    /\ UNCHANGED guard

(* Mutant of Lock: one does not wait for the other. *)
LockNothing(b) == /\ req[b] = "validated"
                  /\ Goes(b, "locked")
                  /\ UNCHANGED <<rows, guard>>

(* _acquire_booking_create_advisory_lock. *)
Lock(b) == /\ req[b] = "validated"
           /\ guard[Instructor(b)] = "free"
           /\ guard' = [guard EXCEPT ![Instructor(b)] = b]
           /\ Goes(b, "locked")
           /\ UNCHANGED rows

(* Mutant of Ends: the lock outlives the transaction. *)
EndsHolding(b) == UNCHANGED guard /\ Goes(b, "none")

(* The end of the transaction, which gives the advisory lock back. *)
Ends(b) == /\ guard' = [guard EXCEPT ![Instructor(b)] = "free"]
           /\ Goes(b, "none")

(* _check_conflicts_and_rules, in the transaction. *)
Check(b) == /\ req[b] = "locked"
            /\ IF Conflicts(b)
               THEN Ends(b) /\ rows' = [rows EXCEPT ![b] = NoRow]
               ELSE Goes(b, "insert") /\ UNCHANGED <<rows, guard>>

(* _create_booking_record: PENDING until it is paid for, or CONFIRMED at   *)
(* once if it replaces a booking that was paid.  A conflict is an          *)
(* IntegrityError.                                                         *)
Insert(b) == /\ req[b] = "insert"
             /\ \/ rows' = [rows EXCEPT ![b].status = "PENDING"]
                \/ ~Excluded(b) /\ rows' = [rows EXCEPT ![b].status = "CONFIRMED"]
                \/ Excluded(b) /\ rows' = [rows EXCEPT ![b] = NoRow]
             /\ Ends(b)

-----------------------------------------------------------------------------
AtRest(b) == req[b] = "none" /\ rows[b].status = "PENDING"

Forgiven(row) == [row EXCEPT !.declined = IF @ = "now" THEN "once" ELSE @]

(* confirm_booking_payment, for a lesson that is authorized later.  An     *)
(* IntegrityError takes everything back.                                   *)
ConfirmLater(b) == /\ AtRest(b)
                   /\ ~Excluded(b)
                   /\ rows' = [rows EXCEPT ![b] = [Forgiven(@) EXCEPT !.status = "CONFIRMED"]]
                   /\ UNCHANGED <<req, guard>>

(* The same for a lesson that is authorized at once: what was declined is  *)
(* forgotten first.                                                        *)
ConfirmNow(b) == /\ AtRest(b)
                 /\ rows' = [rows EXCEPT ![b] = Forgiven(@)]
                 /\ Goes(b, "authorize")
                 /\ UNCHANGED guard

(* retry_failed_authorizations. *)
Retry(b) == /\ AtRest(b)
            /\ rows[b].declined = "now"
            /\ Goes(b, "authorize")
            /\ UNCHANGED <<rows, guard>>

(* _persist_auth_failure. *)
AuthorizeFails(b) == /\ req[b] = "authorize"
                     /\ rows' = [rows EXCEPT ![b].declined = "now"]
                     /\ Goes(b, "none")
                     /\ UNCHANGED guard

(* Stripe holds the money.  _persist_auth_success: the constraint may      *)
(* refuse the status, and with it the record of the authorization.         *)
AuthorizeOK(b) ==
    /\ req[b] = "authorize"
    /\ rows' = IF Excluded(b) THEN rows
               ELSE [rows EXCEPT ![b] = [Forgiven(@) EXCEPT !.status = "CONFIRMED"]]
    /\ Goes(b, "none")
    /\ UNCHANGED guard

(* The booking is cancelled, and its money let go. *)
Cancel(b) == /\ req[b] = "none"
             /\ rows[b].status \in {"PENDING", "CONFIRMED"}
             /\ rows' = [rows EXCEPT ![b] = [NoRow EXCEPT !.status = "CANCELLED"]]
             /\ UNCHANGED <<req, guard>>

CalendarStep(b) == \/ \E slot \in Slots : Request(b, slot)
                   \/ Lock(b)
                   \/ Check(b)
                   \/ Insert(b)
                   \/ ConfirmLater(b)
                   \/ ConfirmNow(b)
                   \/ Retry(b)
                   \/ AuthorizeOK(b)
                   \/ AuthorizeFails(b)
                   \/ Cancel(b)

-----------------------------------------------------------------------------
(* The instant a lesson begins: booking_start_utc. *)
Begins(b) == rows[b].slot - Offset(Instructor(b))

(* No instructor has two lessons at one instant, and no student has two    *)
(* with instructors whose clocks agree, whichever way and in whatever      *)
(* order they were confirmed: the student is checked under the lock of one *)
(* instructor only, so it is the constraint that decides                   *)
(* (bookings_no_overlap_per_student).  Of lessons in two timezones it      *)
(* compares the readings, and lets a student have two at one instant.      *)
NoDoubleBooking ==
    LET Taught == {b \in Bookings : rows[b].status = "CONFIRMED"} IN
    \A b \in Taught : \A c \in Taught \ {b} :
       (/\ Student(b) = Student(c) \/ Instructor(b) = Instructor(c)
        /\ Offset(Instructor(b)) = Offset(Instructor(c))) => Begins(b) # Begins(c)

(* The instructor has the buffer between any two lessons, though no        *)
(* constraint of the table knows of it, unless the payment of one of them  *)
(* was declined and its slot was up for others meanwhile: who is paying    *)
(* for a lesson does not find its slot taken when the money is held        *)
(* (_acquire_booking_create_advisory_lock, _conflict_status_filter).       *)
BufferKept ==
    LET Sound == {b \in Bookings : /\ rows[b].status \in {"PENDING", "CONFIRMED"}
                                   /\ rows[b].declined = "never"} IN
    \A b \in Sound : \A c \in Sound \ {b} :
       Instructor(b) = Instructor(c) => Apart(b, c, Buffer)
=============================================================================
