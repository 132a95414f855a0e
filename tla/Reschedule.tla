----------------------------- MODULE Reschedule -----------------------------
(***************************************************************************)
(* Moving a lesson: services/booking/reschedule_service.py, _execution.py, *)
(* _creation.py and lock_service.py.                                       *)
(*                                                                         *)
(* "old" is the booking that is moved and "new" the one that replaces it;  *)
(* while there is no replacement, "old" is any ordinary booking.  A student*)
(* who moves a lesson 12 to 24 hours ahead has the charge captured and its *)
(* transfer reversed: the platform holds the money of "old" (its payment is*)
(* locked) until the fate of "new" decides who gets it.                    *)
(*                                                                         *)
(* "account" is the charge at Stripe and what was given out of it, in      *)
(* halves of the lesson price.  A call repeated under its key is answered  *)
(* as the first time; with LostReplies a call may take effect although the *)
(* caller sees an error.  Every operation holds the mutex of the booking it*)
(* was asked about.  MaxFaults bounds what goes wrong beyond a call: deaths*)
(* of workers, lapses of a mutex under its holder, and compensations that  *)
(* fail themselves.                                                        *)
(***************************************************************************)
EXTENDS Naturals, FiniteSets

CONSTANTS Workers, LostReplies, MaxFaults

ASSUME RescheduleModes == LostReplies \in BOOLEAN /\ MaxFaults \in Nat

VARIABLES rows,       \* status, payment and has_locked_funds of both bookings
          resolution, \* lock_resolution of "old", "none" before lock_resolved_at
          contested,  \* a completion_disputed event is on record
          account, mutex, work, window,
          faults      \* deaths, lapses and failed compensations so far

caseVars == <<rows, resolution, contested, account>>

Rows == {"old", "new"}
Resolutions == {"new_lesson_completed", "new_lesson_cancelled_ge12",
                "new_lesson_cancelled_lt12", "instructor_cancelled"}
Verdicts == {"confirmed_no_dispute", "confirmed_after_review", "dispute_upheld", "cancelled"}

RowType == [status : {"absent", "PENDING", "CONFIRMED", "COMPLETED", "CANCELLED", "NO_SHOW"},
            pay : {"none", "scheduled", "authorized", "locked", "manual_review",
                   "payment_method_required", "settled"},
            locked : BOOLEAN]

(* credited: captured, taken back and given to the student as a credit.    *)
(* by: the operation that captured or released the hold.  at: the row that *)
(* names the intent.  credit: halves issued to the student for the lock.   *)
AccountType == [pi : {"none", "hold", "captured", "void", "refunded", "credited"},
                by : {"none", "lock", "noshow"}, at : Rows, reversed : BOOLEAN,
                paid : SUBSET {"half", "full"}, credit : 0..2]

(* plan: how the lock is to be resolved.  verdict: how a no-show is.       *)
(* ok: what the last Stripe call answered.                                 *)
WorkType == [kind : {"idle", "lock", "fresh", "cancel", "auto", "capture", "noshow"},
             row : Rows,
             at : {"none", "capture", "reverse", "save", "replace", "confirm", "swap",
                   "resolve", "call", "record", "finish", "settle"},
             plan : {"none"} \cup Resolutions, verdict : {"none"} \cup Verdicts,
             ok : BOOLEAN]

Job(kind, r, at) == [kind |-> kind, row |-> r, at |-> at, plan |-> "none",
                     verdict |-> "none", ok |-> FALSE]
Idle == Job("idle", "old", "none")

ge24 == 0
from12to24 == 1
lt12 == 2
running == 3
ended == 4
ended24 == 5

(* The booking whose lesson is ahead or being settled. *)
Carrier == IF rows["new"].status \in {"absent", "PENDING"} THEN "old" ELSE "new"

RescheduleTypeOK == /\ rows \in [Rows -> RowType]
                    /\ resolution \in {"none"} \cup Resolutions
                    /\ contested \in BOOLEAN
                    /\ account \in AccountType
                    /\ mutex \in [Rows -> BOOLEAN]
                    /\ work \in [Workers -> WorkType]
                    /\ window \in 0..5
                    /\ faults \in 0..MaxFaults

(* A confirmed booking: authorized with a hold, or scheduled for T-24h. *)
RescheduleInit ==
    /\ \E pay \in {"scheduled", "authorized"} :
          /\ rows = [r \in Rows |->
                        [status |-> IF r = "old" THEN "CONFIRMED" ELSE "absent",
                         pay |-> IF r = "old" THEN pay ELSE "none", locked |-> FALSE]]
          /\ account = [pi |-> IF pay = "authorized" THEN "hold" ELSE "none", by |-> "none",
                        at |-> "old", reversed |-> FALSE, paid |-> {}, credit |-> 0]
          /\ window \in IF pay = "authorized" THEN {ge24, from12to24} ELSE {ge24}
    /\ resolution = "none"
    /\ contested = FALSE
    /\ mutex = [r \in Rows |-> FALSE]
    /\ work = [c \in Workers |-> Idle]
    /\ faults = 0

-----------------------------------------------------------------------------
(* async with booking_lock(id), the value of "acquired" looked at. *)
Enter(c, job) == /\ work[c] = Idle
                 /\ ~mutex[job.row]
                 /\ mutex' = [mutex EXCEPT ![job.row] = TRUE]
                 /\ work' = [work EXCEPT ![c] = job]
                 /\ UNCHANGED <<window, faults>>

GoOn(c, job) == /\ work' = [work EXCEPT ![c] = job]
                /\ UNCHANGED <<mutex, window, faults>>

Leave(c) == /\ mutex' = [mutex EXCEPT ![work[c].row] = FALSE]
            /\ work' = [work EXCEPT ![c] = Idle]
            /\ UNCHANGED <<window, faults>>

(* A compensation failed, which is only logged. *)
GiveUp(c) == /\ faults < MaxFaults
             /\ faults' = faults + 1
             /\ mutex' = [mutex EXCEPT ![work[c].row] = FALSE]
             /\ work' = [work EXCEPT ![c] = Idle]
             /\ UNCHANGED window

(* A whole operation in one transaction under the mutex of a row. *)
Under(c, r) == /\ work[c] = Idle
               /\ ~mutex[r]
               /\ UNCHANGED <<mutex, work, window, faults>>

At(c, kinds, step) == work[c].kind \in kinds /\ work[c].at = step

(* A call to Stripe.  done: it already succeeded under this key.  able: it *)
(* can take effect.                                                        *)
Call(done, able, after, ok) ==
    \/ done /\ ok /\ UNCHANGED account
    \/ ~done /\ able /\ (ok \/ LostReplies) /\ account' = after
    \/ ~done /\ ~ok /\ UNCHANGED account

(* PaymentIntent.capture or .cancel on the hold. *)
HoldCall(key, state, ok) ==
    Call(account.pi = state /\ account.by = key, account.pi = "hold",
         [account EXCEPT !.pi = state, !.by = key], ok)

-----------------------------------------------------------------------------
(* validate_reschedule_allowed: the status is not looked at.               *)
(* late_reschedule_used is set with the lock: while it is locked, or once  *)
(* it is resolved.  (What a second operation put in review after a lapse   *)
(* is refused by the code, and not here.)  One replacement is followed.    *)
MayMove == /\ rows["new"].status = "absent"
           /\ rows["old"].pay # "locked"
           /\ resolution = "none"
           /\ window <= from12to24

TriggersLock == rows["old"].pay = "authorized" /\ window = from12to24

(* activate_lock_for_reschedule, after an authorization made on the spot   *)
(* for a scheduled booking (module Authorization).                         *)
LockStart(c) == /\ MayMove
                /\ TriggersLock
                /\ Enter(c, Job("lock", "old", "capture"))
                /\ UNCHANGED caseVars

(* A failed capture is an error to the student; nothing is written. *)
LockCapture(c) == /\ At(c, {"lock"}, "capture")
                  /\ \E ok \in BOOLEAN :
                        /\ HoldCall("lock", "captured", ok)
                        /\ IF ok THEN GoOn(c, [work[c] EXCEPT !.at = "reverse"]) ELSE Leave(c)
                  /\ UNCHANGED <<rows, resolution, contested>>

LockReverse(c) == /\ At(c, {"lock"}, "reverse")
                  /\ \E ok \in BOOLEAN :
                        /\ Call(account.reversed, account.pi = "captured",
                                [account EXCEPT !.reversed = TRUE], ok)
                        /\ GoOn(c, [work[c] EXCEPT !.at = "save", !.ok = ok])
                  /\ UNCHANGED <<rows, resolution, contested>>

(* Mutant of LockSave: a transfer that was not reversed is passed over.    *)
LockSaveAnyway(c) ==
    /\ At(c, {"lock"}, "save")
    /\ rows' = [rows EXCEPT !["old"].pay = "locked"]
    /\ GoOn(c, [work[c] EXCEPT !.at = "replace"])
    /\ UNCHANGED <<resolution, contested, account>>

(* Nobody looks at the row again before it is written. *)
LockSave(c) == /\ At(c, {"lock"}, "save")
               /\ rows' = [rows EXCEPT !["old"].pay =
                              IF work[c].ok THEN "locked" ELSE "manual_review"]
               /\ IF work[c].ok THEN GoOn(c, [work[c] EXCEPT !.at = "replace"]) ELSE Leave(c)
               /\ UNCHANGED <<resolution, contested, account>>

(* create_rescheduled_booking_with_locked_funds and the cancellation of the*)
(* original, in one transaction; the new slot may turn out to be taken.    *)
LockReplace(c) == /\ At(c, {"lock"}, "replace")
                  /\ \/ /\ rows["old"].status = "CONFIRMED"
                        /\ rows["new"].status = "absent"
                        /\ rows' = [rows EXCEPT !["old"].status = "CANCELLED",
                                                !["new"] = [status |-> "CONFIRMED",
                                                            pay |-> "locked", locked |-> TRUE]]
                        /\ window' \in {ge24, lt12}
                     \/ UNCHANGED <<rows, window>>
                  /\ mutex' = [mutex EXCEPT !["old"] = FALSE]
                  /\ work' = [work EXCEPT ![c] = Idle]
                  /\ UNCHANGED <<resolution, contested, account, faults>>

(* _reschedule_with_existing_payment: the intent moves to the replacement; *)
(* the original must be one that can be cancelled.  The route admits only  *)
(* the student, who locks in the window of the lock.                       *)
MoveWithPayment(c) == /\ MayMove
                      /\ ~TriggersLock
                      /\ rows["old"].status = "CONFIRMED"
                      /\ rows["old"].pay \in {"authorized", "settled"}
                      /\ Under(c, "old")
                      /\ rows' = [rows EXCEPT !["old"].status = "CANCELLED",
                                              !["new"] = [status |-> "CONFIRMED",
                                                          pay |-> rows["old"].pay,
                                                          locked |-> FALSE]]
                      /\ account' = [account EXCEPT !.at = "new"]
                      /\ UNCHANGED <<resolution, contested>>

(* _reschedule_with_new_payment: the replacement is created pending, for   *)
(* any original without a charge to take over, ...                         *)
FreshStart(c) == /\ MayMove
                 /\ rows["old"].pay \in {"scheduled", "manual_review",
                                         "payment_method_required"}
                 /\ Enter(c, Job("fresh", "old", "confirm"))
                 /\ rows' = [rows EXCEPT !["new"] = [status |-> "PENDING",
                                                     pay |-> "payment_method_required",
                                                     locked |-> FALSE]]
                 /\ UNCHANGED <<resolution, contested, account>>

NoRow == [status |-> "absent", pay |-> "none", locked |-> FALSE]

(* ... then confirmed, with a charge of its own to come or made at once    *)
(* ("scheduled", either way); or left pending, when the charge at once     *)
(* failed, which is no error to the caller.  An error is answered by       *)
(* abort_pending_booking: it deletes the replacement, or fails, or finds it*)
(* confirmed and leaves it, and what it says is ignored.                   *)
FreshConfirm(c) ==
    /\ At(c, {"fresh"}, "confirm")
    /\ LET confirmed == [rows EXCEPT !["new"].status = "CONFIRMED", !["new"].pay = "scheduled"]
       IN  \/ /\ rows' \in {rows, confirmed}
              /\ GoOn(c, [work[c] EXCEPT !.at = "swap"])
           \/ /\ rows' = [rows EXCEPT !["new"] = NoRow]
              /\ Leave(c)
           \/ /\ rows' \in {rows, confirmed}
              /\ GiveUp(c)
    /\ UNCHANGED <<resolution, contested, account>>

(* What cancel_booking of the original, 12 hours ahead or more, makes of   *)
(* its charge, when the payment is settled and when it is not.  (Module    *)
(* Cancellation has the steps, and the transfer of an amount that Stripe   *)
(* does not tell.)                                                         *)
Released == CASE account.pi = "hold"     -> {"void", "credited"}
              [] account.pi = "captured" -> {"credited"}
              [] OTHER                   -> {account.pi}
Stuck == IF account.pi = "none" THEN {}
         ELSE {account.pi} \cup (IF account.pi = "hold" THEN {"captured"} ELSE {})
                           \cup (IF LostReplies THEN Released ELSE {})

CancelOriginal(new) ==
    \/ /\ rows["old"].status = "CANCELLED"
       /\ rows' = [rows EXCEPT !["new"] = new]
       /\ UNCHANGED account
    \/ /\ rows["old"].status = "CONFIRMED"
       /\ rows["old"].pay # "locked"
       /\ \E pay \in {"settled", "manual_review", "payment_method_required"},
             pi \in {"none", "hold", "captured", "void", "refunded", "credited"} :
             /\ pi \in IF pay = "settled" THEN Released ELSE Stuck
             /\ rows' = [rows EXCEPT !["old"].status = "CANCELLED", !["old"].pay = pay,
                                     !["new"] = new]
             /\ account' = [account EXCEPT !.pi = pi]

(* What _rollback_reschedule_replacement leaves; it fails for a lesson that*)
(* was completed meanwhile.                                                *)
RolledBack ==
    LET cancelled == [rows["new"] EXCEPT !.status = "CANCELLED", !.pay = "settled"] IN
    CASE rows["new"].status = "PENDING"   -> {NoRow, cancelled}
      [] rows["new"].status = "CONFIRMED" -> {cancelled}
      [] rows["new"].status = "CANCELLED" -> {rows["new"]}
      [] OTHER                            -> {}

(* Mutant of FreshSwap: a failed cancellation is logged and passed over. *)
FreshSwapKeepsBoth(c) ==
    /\ At(c, {"fresh"}, "swap")
    /\ CancelOriginal(rows["new"]) \/ UNCHANGED <<rows, account>>
    /\ Leave(c)
    /\ UNCHANGED <<resolution, contested>>

(* ... and the original is cancelled.  An error, before or after that was  *)
(* committed, is answered by the rollback of the replacement, which may    *)
(* fail as well.                                                           *)
FreshSwap(c) ==
    /\ At(c, {"fresh"}, "swap")
    /\ \/ /\ \E new \in {rows["new"]} \cup RolledBack : CancelOriginal(new)
          /\ Leave(c)
       \/ /\ \E new \in RolledBack : rows' = [rows EXCEPT !["new"] = new]
          /\ Leave(c)
          /\ UNCHANGED account
       \/ /\ GiveUp(c)
          /\ UNCHANGED <<rows, account>>
    /\ UNCHANGED <<resolution, contested>>

(* After a lapse of the mutex the original may have been locked meanwhile: *)
(* then its cancellation resolves the lock.                                *)
FreshSwapLocked(c) ==
    /\ At(c, {"fresh"}, "swap")
    /\ rows["old"].status = "CONFIRMED"
    /\ rows["old"].pay = "locked"
    /\ GoOn(c, [Job("cancel", "old", "resolve") EXCEPT !.plan = "new_lesson_cancelled_ge12"])
    /\ UNCHANGED caseVars

RescheduleStep(c) == \/ LockStart(c)
                     \/ LockCapture(c)
                     \/ LockReverse(c)
                     \/ LockSave(c)
                     \/ LockReplace(c)
                     \/ MoveWithPayment(c)
                     \/ FreshStart(c)
                     \/ FreshConfirm(c)
                     \/ FreshSwap(c)
                     \/ FreshSwapLocked(c)

-----------------------------------------------------------------------------
(* A worker dies; the key of its mutex expires with it. *)
Dies(c) == /\ work[c] # Idle
           /\ GiveUp(c)
           /\ UNCHANGED caseVars

(* The mutex expires under a holder that is still at work. *)
Lapses(r) == /\ mutex[r]
             /\ faults < MaxFaults
             /\ faults' = faults + 1
             /\ mutex' = [mutex EXCEPT ![r] = FALSE]
             /\ UNCHANGED <<caseVars, work, window>>
=============================================================================
