------------------------------ MODULE Credits ------------------------------
(***************************************************************************)
(* The student's wallet: services/credit_service.py,                       *)
(* repositories/credit_repository.py, the charge context of                *)
(* services/stripe/payment_flow.py, and the suspension of a student in     *)
(* services/student_admin_service.py.                                      *)
(*                                                                         *)
(* A cancelled lesson issued a credit of two units.  "next" is the booking *)
(* the student pays for with it, in part or in whole, and after it another;*)
(* a credit that is not used up is split, and "rest" is what is left of it.*)
(* A student is suspended once.                                            *)
(*                                                                         *)
(* Every operation is one transaction.  Only a reservation locks the rows  *)
(* it reads; the others read them, and write at their commit what they     *)
(* decided then, each under the mutex of its own booking or under none: a  *)
(* step reads, another writes, and "reads" is what was read in between.    *)
(* Transactions are apart that one mutex keeps apart (those on "next",     *)
(* those of the dispute), and so are an administrator's.                   *)
(* expire_old_credits has no caller outside the tests.                     *)
(***************************************************************************)
EXTENDS Integers

VARIABLES credit,   \* the credits that the lesson issued
          next,     \* the booking the credit is reserved for
          student,  \* what the users row says of the student
          reads     \* what the transactions under way have read

creditVars == <<credit, next, student, reads>>

Credits == {"issued", "rest"}
CreditStatuses == {"absent", "available", "reserved", "forfeited", "expired", "frozen",
                   "revoked"}

(* held: reserved_for_booking_id is set.  used: used_at is set.  why: the   *)
(* reason of the revocation.                                               *)
CreditType == [status : CreditStatuses, units : 0..2, held : BOOLEAN, used : BOOLEAN,
               why : {"none", "lost", "suspended"}]

(* applied: credits_reserved_cents, and after the capture what it was. *)
NextType == [status : {"none", "open", "done", "cancelled"}, applied : 0..2]

StudentType == [balance : Int, restricted : BOOLEAN, suspended : {"never", "now", "lifted"}]

Readers == {"booking", "admin", "dispute"}

(* The rows that the operation is going to write, those of them that were  *)
(* reserved for a booking, and what had been spent of the credits.         *)
ReadType == [op : {"none", "release", "forfeit", "suspend", "restore", "freeze", "unfreeze",
                   "revoke"},
             rows : SUBSET Credits, held : SUBSET Credits, spent : 0..2]
NoRead == [op |-> "none", rows |-> {}, held |-> {}, spent |-> 0]

CreditsTypeOK == /\ credit \in [Credits -> CreditType]
                 /\ next \in NextType
                 /\ student \in StudentType
                 /\ reads \in [Readers -> ReadType]

NoCredit == [status |-> "absent", units |-> 0, held |-> FALSE, used |-> FALSE, why |-> "none"]

CreditsInit ==
    /\ credit = [k \in Credits |->
                    IF k = "issued" THEN [NoCredit EXCEPT !.status = "available", !.units = 2]
                    ELSE NoCredit]
    /\ next = [status |-> "none", applied |-> 0]
    /\ student = [balance |-> 0, restricted |-> FALSE, suspended |-> "never"]
    /\ reads = [who \in Readers |-> NoRead]

UnitsIn(some) == (IF "issued" \in some THEN credit["issued"].units ELSE 0)
                 + (IF "rest" \in some THEN credit["rest"].units ELSE 0)

Reserved(k) == credit[k].held /\ credit[k].status = "reserved"

(* The first half of a transaction, ...                                    *)
Read(who, op, some, spent) ==
    /\ reads[who].op = "none"
    /\ reads' = [reads EXCEPT ![who] = [op |-> op, rows |-> some,
                                        held |-> {k \in some : credit[k].held},
                                        spent |-> spent]]

(* ... what it makes of a row it has read, which may have changed since:   *)
(* only the columns are written whose values are other than those read, ...*)
Rewritten(read, k, after) ==
    CASE read.op = "release" -> [credit[k] EXCEPT !.status = after, !.held = FALSE]
      [] read.op = "forfeit" -> [credit[k] EXCEPT !.status = "forfeited", !.used = TRUE]
      [] read.op = "suspend" -> [credit[k] EXCEPT !.status = "revoked", !.why = "suspended",
                                                  !.held = @ /\ k \notin read.held]
      [] read.op = "restore" -> [credit[k] EXCEPT !.status = after, !.why = "none"]
      [] read.op = "freeze" -> [credit[k] EXCEPT !.status = "frozen"]
      [] read.op = "unfreeze" -> [credit[k] EXCEPT !.status = IF k \in read.held
                                                             THEN "reserved" ELSE after]
      [] OTHER -> [credit[k] EXCEPT !.status = "revoked", !.why = "lost"]

(* ... and its commit.  What comes back after its day has expired. *)
Write(who) ==
    /\ \E after \in {"available", "expired"} :
          credit' = [k \in Credits |-> IF k \in reads[who].rows
                                      THEN Rewritten(reads[who], k, after) ELSE credit[k]]
    /\ reads' = [reads EXCEPT ![who] = NoRead]

-----------------------------------------------------------------------------
(* _validate_booking_prerequisites: an indebted or restricted student does *)
(* not book.                                                               *)
Book == /\ next.status # "open"
        /\ student.suspended # "now"
        /\ ~student.restricted
        /\ student.balance >= 0
        /\ next' = [status |-> "open", applied |-> 0]
        /\ UNCHANGED <<credit, student, reads>>

Available == {k \in Credits : credit[k].status = "available"}

(* First in, first out; only a credit of two units is ever split. *)
Taken(units) == IF units = 1 /\ "issued" \in Available THEN {"issued"} ELSE Available
Splits(units) == units = 1 /\ "issued" \in Available /\ credit["issued"].units = 2

(* Mutant of Kept: the credit that is split keeps its amount.              *)
KeptWhole(k, units) == credit[k].units

(* What a credit that is taken is worth. *)
Kept(k, units) == IF Splits(units) THEN 1 ELSE credit[k].units

(* Mutant of Reserve: no account is taken of an earlier reservation. *)
ReserveAgain(units) ==
    /\ next.status = "open"
    /\ Available # {}
    /\ credit' = [k \in Credits |-> IF k \in Available
                                    THEN [credit[k] EXCEPT !.status = "reserved", !.held = TRUE]
                                    ELSE credit[k]]
    /\ reads["booking"].op = "none"
    /\ next' = [next EXCEPT !.applied = units]
    /\ UNCHANGED <<student, reads>>

(* reserve_credits_for_booking, from build_charge_context: the rows are    *)
(* locked, and what was applied before stands.                             *)
Reserve(units) ==
    /\ next.status = "open"
    /\ next.applied = 0
    /\ reads["booking"].op = "none"
    /\ \A k \in Credits : ~Reserved(k)
    /\ Available # {}
    /\ credit' = [k \in Credits |->
                     IF k \in Taken(units)
                     THEN [credit[k] EXCEPT !.status = "reserved", !.held = TRUE,
                                            !.units = Kept(k, units)]
                     ELSE IF Splits(units) /\ k = "rest"
                     THEN [NoCredit EXCEPT !.status = "available", !.units = 1]
                     ELSE credit[k]]
    /\ next' = [next EXCEPT !.applied = IF Splits(units) THEN 1 ELSE UnitsIn(Taken(units))]
    /\ UNCHANGED <<student, reads>>

(* get_reserved_credits_for_booking, in the transaction that ends the      *)
(* booking.                                                                *)
ReadReserved(op) == /\ next.status = "open"
                    /\ Read("booking", op, {k \in Credits : Reserved(k)}, 0)
                    /\ UNCHANGED <<credit, next, student>>

(* release_credits_for_booking, with the cancellation of the booking. *)
Release == /\ reads["booking"].op = "release"
           /\ Write("booking")
           /\ next' = [next EXCEPT !.status = "cancelled"]
           /\ UNCHANGED student

(* forfeit_credits_for_booking, with the capture of the payment or with a  *)
(* late cancellation.                                                      *)
Forfeit == /\ reads["booking"].op = "forfeit"
           /\ Write("booking")
           /\ \E after \in {"done", "cancelled"} : next' = [next EXCEPT !.status = after]
           /\ UNCHANGED student

-----------------------------------------------------------------------------
(* What the dispute handlers read of the credits of the lesson: those that *)
(* are frozen, thawed or revoked, ...                                      *)
Affected(op) ==
    {k \in Credits : CASE op = "freeze" -> credit[k].status \in {"available", "reserved"}
                       [] op = "unfreeze" -> credit[k].status = "frozen"
                       [] OTHER -> credit[k].status \notin {"absent", "revoked"}}

(* ... and, in get_spent_credits_for_booking, those that are spent while   *)
(* these are, in memory, what they are going to be.                        *)
Spent(changed) ==
    UnitsIn({k \in Credits : \/ credit[k].used
                             \/ k \notin changed /\ credit[k].status \in {"forfeited", "expired"}})

Debited(amount) == [student EXCEPT !.balance = @ - amount,
                                   !.restricted = @ \/ student.balance - amount < 0]
Cleared(amount) == [student EXCEPT !.balance = @ + amount,
                                   !.restricted = @ /\ student.balance + amount < 0]

-----------------------------------------------------------------------------
(* An administrator suspends the student, with _forfeit_all_credits or     *)
(* without it.                                                             *)
SuspendReads ==
    /\ student.suspended = "never"
    /\ Read("admin", "suspend",
            {k \in Credits :
                credit[k].status \notin {"absent", "revoked", "forfeited", "expired"}}, 0)
    /\ UNCHANGED <<credit, next, student>>

Suspend == /\ student.suspended = "never"
           /\ student' = [student EXCEPT !.suspended = "now"]
           /\ \/ reads["admin"].op = "none" /\ UNCHANGED <<credit, reads>>
              \/ reads["admin"].op = "suspend" /\ Write("admin")
           /\ UNCHANGED next

(* Mutant of ToRestore: whatever was revoked comes back. *)
AllRevoked == {k \in Credits : credit[k].status = "revoked"}

(* get_revoked_credits_for_user, by the reason of the suspension. *)
ToRestore == {k \in Credits : credit[k].status = "revoked" /\ credit[k].why = "suspended"}

(* The suspension is lifted, with _restore_forfeited_credits or without.   *)
RestoreReads == /\ student.suspended = "now"
                /\ Read("admin", "restore", ToRestore, 0)
                /\ UNCHANGED <<credit, next, student>>

Restore == /\ student.suspended = "now"
           /\ student' = [student EXCEPT !.suspended = "lifted"]
           /\ \/ reads["admin"].op = "none" /\ UNCHANGED <<credit, reads>>
              \/ reads["admin"].op = "restore" /\ Write("admin")
           /\ UNCHANGED next

(* A transaction fails, or its worker dies: it is rolled back. *)
RolledBack(who) == /\ reads[who].op # "none"
                   /\ reads' = [reads EXCEPT ![who] = NoRead]
                   /\ UNCHANGED <<credit, next, student>>
=============================================================================
