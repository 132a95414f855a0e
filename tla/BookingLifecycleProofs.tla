----------------------- MODULE BookingLifecycleProofs -----------------------
(* Proofs about BookingLifecycle for any number of workers.                *)
EXTENDS BookingLifecycle, BookingLockProofs

(* What the phases of an operation do to the lock. *)
LEMMA PhaseLock ==
    ASSUME NEW c \in Clients
    PROVE  /\ \A job : Begin(c, job) => LockNext
           /\ \A job : Proceed(c, job) => UNCHANGED lockVars
           /\ Finish(c) => LockNext
           /\ UnderLock(c) => UNCHANGED lockVars
  BY DEF Begin, Proceed, Finish, UnderLock, Enter, Leave, LockNext, ClientStep

(* Every operation of every component steps through the mutex or leaves it *)
(* alone: none writes the key in a way of its own.                         *)
LEMMA OperationLock ==
    ASSUME NEW c \in Clients, Operation(c)
    PROVE  LockNext \/ UNCHANGED lockVars
<1>1. CASE AuthorizationStep(c)
  BY <1>1, PhaseLock DEF AuthorizationStep, ConfirmNow, ConfirmLater, AuthorizeStart,
     RetryStart, StudentRetryStart, AuthorizeStripe, AuthorizeCommit,
     PersistAuthorize, PersistRetry, PersistStudentRetry, PlanMarkFailed,
     PlannedMarkFailed, ImmediateTimeout
<1>2. CASE CaptureStep(c)
  BY <1>2, PhaseLock DEF CaptureStep, CaptureStart, AutoComplete, ExpiredCapture,
     ExpireAuthorization, RetryCapture, CaptureStripe, PersistCapture,
     PersistExpired, Reauthorize, Recapture, RecaptureCommit, PersistReauth,
     ReauthFailed, EscalateStart, EscalateStripe, PersistEscalate
<1>3. CASE CancellationStep(c)
  BY <1>3, PhaseLock DEF CancellationStep, CancelStart, CancelVoid, CancelRefund,
     CancelCapture, CancelDetails, CancelReverse, CancelNoAmount, CancelPayout,
     PersistCancel
<1>4. CASE CompletionStep(c)
  BY <1>4, PhaseLock DEF CompletionStep, CompleteBooking, DisputeCompletion
<1>5. QED
  BY <1>1, <1>2, <1>3, <1>4 DEF Operation

LEMMA LifecycleLockStep == [LifecycleNext]_allVars => [LockNext]_lockVars
<1>1. CASE Environment
  BY <1>1 DEF Environment, MutexExpires, Tick, FailureAges, AuthorizationAges,
     WorkerCrash, LockNext, ClientStep
<1>2. CASE InstructorMarkComplete
  BY <1>2 DEF InstructorMarkComplete
<1>3. CASE \E c \in Clients : Operation(c)
  BY <1>3, OperationLock
<1>4. CASE UNCHANGED allVars
  BY <1>4 DEF allVars
<1>5. QED
  BY <1>1, <1>2, <1>3, <1>4 DEF LifecycleNext

(* The money operations use the mutex by its protocol and in no other way: *)
(* every behaviour of the lifecycle is one of BookingLock.                 *)
LEMMA LifecycleUsesLock == LifecycleSafety => LockSafety
<1>1. StoreInit => LockInit
  BY DEF StoreInit
<1>2. QED
  BY <1>1, LifecycleLockStep, PTL DEF LifecycleSafety, LockSafety

-----------------------------------------------------------------------------
(* What the phases do to the workers' jobs. *)
LEMMA JobTyped ==
    ASSUME StoreTypeOK, NEW kind \in {"idle"} \cup TaskKinds \cup CaptureReasons \cup Scenarios
                                     \cup AdminKinds,
           NEW at \in {"none", "planned", "stripe", "commit", "details", "refund", "reverse",
                       "payout", "persist", "reauth", "recapture", "recommit", "resettle",
                       "giveup"}
    PROVE  Job(kind, at) \in JobType /\ NoJob \in JobType
  BY DEF StoreTypeOK, BookingType, Job, NoJob, JobType, MaxIntents, Whole

(* What the phases of an operation do to the variable work, the clock and  *)
(* the count of crashes: what the typing of an operation needs of them.    *)
LEMMA PhaseWork ==
    ASSUME StoreTypeOK, NEW c \in Clients
    PROVE  /\ \A job \in JobType : Begin(c, job) => work' \in [Clients -> JobType]
           /\ \A job \in JobType : Proceed(c, job) =>
                 work' \in [Clients -> JobType] /\ window' \in 0..5 /\ crashes' \in 0..MaxCrashes
           /\ Finish(c) =>
                 work' \in [Clients -> JobType] /\ window' \in 0..5 /\ crashes' \in 0..MaxCrashes
           /\ UnderLock(c) =>
                 /\ work' \in [Clients -> JobType]
                 /\ stripe' \in StripeType
                 /\ window' \in 0..5
                 /\ crashes' \in 0..MaxCrashes
<1>1. NoJob \in JobType
  BY JobTyped
<1>2. QED
  BY <1>1 DEF StoreTypeOK, Begin, Proceed, Finish, UnderLock

(* What the calls do to the account. *)
LEMMA CallsTyped ==
    ASSUME StoreTypeOK, NEW ok \in BOOLEAN, NEW intent \in 0..MaxIntents
    PROVE  /\ CreateCall(ok) => stripe' \in StripeType
           /\ ConfirmCall(intent, ok) => stripe' \in StripeType
           /\ \A key \in CaptureKeys : CaptureCall(intent, key, ok) => stripe' \in StripeType
           /\ \A key \in VoidKeys : VoidCall(intent, key, ok) => stripe' \in StripeType
           /\ \A key \in ReverseKeys : ReverseCall(intent, key, ok) => stripe' \in StripeType
           /\ \A key \in RefundKeys, amount \in 0..Whole :
                 RefundCall(intent, key, amount, ok) => stripe' \in StripeType
           /\ \A part \in {"half", "full"} : PayoutCall(part, ok) => stripe' \in StripeType
<1> USE DEF StoreTypeOK, StripeType, TakesEffect, Replays, Fails, MaxIntents
<1>1. CreateCall(ok) => stripe' \in StripeType
  <2>1. Superseded \in {"none", "kept", "reversed", "partly_refunded"}
    BY DEF Superseded
  <2>2. stripe.gen < 2 => stripe.gen + 1 \in 0..2
    OBVIOUS
  <2>3. QED
    BY <2>1, <2>2 DEF CreateCall
<1>2. ConfirmCall(intent, ok) => stripe' \in StripeType
  BY DEF ConfirmCall
<1>3. ASSUME NEW key \in CaptureKeys PROVE CaptureCall(intent, key, ok) => stripe' \in StripeType
  BY DEF CaptureCall, HoldCall
<1>4. ASSUME NEW key \in VoidKeys PROVE VoidCall(intent, key, ok) => stripe' \in StripeType
  BY DEF VoidCall, HoldCall
<1>5. ASSUME NEW key \in ReverseKeys PROVE ReverseCall(intent, key, ok) => stripe' \in StripeType
  BY DEF ReverseCall
<1>6. ASSUME NEW key \in RefundKeys, NEW amount \in 0..Whole
      PROVE  RefundCall(intent, key, amount, ok) => stripe' \in StripeType
  BY DEF RefundCall
<1>7. ASSUME NEW part \in {"half", "full"} PROVE PayoutCall(part, ok) => stripe' \in StripeType
  BY DEF PayoutCall
<1>8. QED
  BY <1>1, <1>2, <1>3, <1>4, <1>5, <1>6, <1>7

(* The operations of Authorization keep the store well typed. *)
LEMMA AuthorizationTyped ==
    ASSUME StoreTypeOK, NEW c \in Clients, AuthorizationStep(c)
    PROVE  /\ booking' \in BookingType
           /\ stripe' \in StripeType
           /\ window' \in 0..5
           /\ work' \in [Clients -> JobType]
           /\ crashes' \in 0..MaxCrashes
<1> DEFINE Typed == /\ booking' \in BookingType
                    /\ stripe' \in StripeType
                    /\ window' \in 0..5
                    /\ work' \in [Clients -> JobType]
                    /\ crashes' \in 0..MaxCrashes
<1>j. work[c] \in JobType /\ work[c].intent \in 0..MaxIntents
  BY DEF StoreTypeOK, JobType
<1>1. CASE ConfirmNow(c) \/ AuthorizeStart(c) \/ RetryStart(c) \/ StudentRetryStart(c)
  <2>1. /\ Job("authorize", "stripe") \in JobType
        /\ Job("retry", "stripe") \in JobType
        /\ Job("student_retry", "stripe") \in JobType
    BY JobTyped DEF TaskKinds
  <2>2. work' \in [Clients -> JobType]
    BY <1>1, <2>1, PhaseWork DEF ConfirmNow, AuthorizeStart, RetryStart, StudentRetryStart
  <2>3. booking' \in BookingType /\ UNCHANGED <<stripe, window, crashes>>
    BY <1>1 DEF ConfirmNow, AuthorizeStart, RetryStart, StudentRetryStart,
       StoreTypeOK, BookingType, PaymentStatuses
  <2>4. QED
    BY <2>2, <2>3 DEF StoreTypeOK
<1>2. CASE ConfirmLater(c)
  BY <1>2, PhaseWork DEF ConfirmLater, StoreTypeOK, BookingType, PaymentStatuses, Statuses
<1>3. CASE AuthorizeStripe(c)
  <2>1. PICK ok \in BOOLEAN :
           /\ CreateCall(ok) \/ ConfirmCall(work[c].intent, ok)
           /\ Proceed(c, [work[c] EXCEPT !.ok = ok, !.at = "commit"])
              \/ Proceed(c, [work[c] EXCEPT !.ok = ok, !.at = "persist"])
    BY <1>3 DEF AuthorizeStripe
  <2>2. stripe' \in StripeType
    BY <2>1, <1>j, CallsTyped
  <2>3. /\ [work[c] EXCEPT !.ok = ok, !.at = "commit"] \in JobType
        /\ [work[c] EXCEPT !.ok = ok, !.at = "persist"] \in JobType
    BY <1>j DEF JobType
  <2>4. QED
    BY <1>3, <2>1, <2>2, <2>3, PhaseWork DEF AuthorizeStripe, StoreTypeOK
<1>4. CASE AuthorizeCommit(c)
  <2>1. [work[c] EXCEPT !.at = "persist"] \in JobType
    BY <1>j DEF JobType
  <2>2. Authorized(booking) \in BookingType
    BY DEF Authorized, StoreTypeOK, BookingType, StripeType, PaymentStatuses
  <2>3. booking' \in BookingType /\ UNCHANGED stripe
    BY <1>4, <2>2 DEF AuthorizeCommit
  <2>4. QED
    BY <1>4, <2>1, <2>3, PhaseWork DEF AuthorizeCommit, StoreTypeOK
<1>5. CASE PersistAuthorize(c) \/ PersistRetry(c) \/ PersistStudentRetry(c)
  <2>a. Authorized(booking) \in BookingType
    BY DEF Authorized, StoreTypeOK, BookingType, StripeType, PaymentStatuses
  <2>b. ASSUME PersistAuthorize(c) PROVE booking' \in BookingType /\ UNCHANGED stripe
    <3>1. [Authorized(booking) EXCEPT
             !.authAge = IF @ = "none" THEN "recent" ELSE @,
             !.status = IF @ = "PENDING" THEN "CONFIRMED" ELSE @] \in BookingType
      BY <2>a DEF BookingType, Statuses
    <3>2. [booking EXCEPT !.pay = "payment_method_required",
                          !.timer = @ \/ work[c].near] \in BookingType
      BY <1>j DEF StoreTypeOK, BookingType, JobType, PaymentStatuses
    <3>3. QED
      BY <2>b, <3>1, <3>2 DEF PersistAuthorize
  <2>c. ASSUME PersistRetry(c) PROVE booking' \in BookingType /\ UNCHANGED stripe
    BY <2>a, <2>c DEF PersistRetry, StoreTypeOK, BookingType, PaymentStatuses
  <2>d. ASSUME PersistStudentRetry(c) PROVE booking' \in BookingType /\ UNCHANGED stripe
    BY <2>d DEF PersistStudentRetry, Authorized, StoreTypeOK, BookingType, StripeType,
       PaymentStatuses
  <2>1. booking' \in BookingType /\ UNCHANGED stripe
    BY <1>5, <2>b, <2>c, <2>d
  <2>2. QED
    BY <1>5, <2>1, PhaseWork DEF PersistAuthorize, PersistRetry, PersistStudentRetry, StoreTypeOK
<1>6. CASE PlanMarkFailed(c)
  <2>1. Job("mark_failed", "planned") \in JobType
    BY JobTyped DEF TaskKinds
  <2>2. QED
    BY <1>6, <2>1 DEF PlanMarkFailed, StoreTypeOK
<1>7. CASE PlannedMarkFailed(c) \/ ImmediateTimeout(c)
  <2>a. ASSUME NEW b \in BookingType PROVE MarkedFailed(b) \in BookingType
    <3>1. /\ "PAYMENT_FAILED" \in Statuses
          /\ "settled" \in PaymentStatuses
          /\ "payment_failed_no_charge" \in Outcomes
          /\ 0 \in 0..Whole
      BY DEF PaymentStatuses, Statuses, Outcomes, NoChargeOutcomes, Whole
    <3>2. QED
      BY <3>1 DEF MarkedFailed, BookingType
  <2>b. booking \in BookingType /\ [booking EXCEPT !.timer = FALSE] \in BookingType
    BY DEF StoreTypeOK, BookingType
  <2>c. PlannedMarkFailed(c) => booking' \in BookingType
    BY <2>a, <2>b DEF PlannedMarkFailed
  <2>d. ASSUME ImmediateTimeout(c) PROVE booking' \in BookingType
    <3> DEFINE b == [booking EXCEPT !.timer = FALSE]
    <3>1. booking' = b \/ booking' = MarkedFailed(b)
      BY <2>d DEF ImmediateTimeout
    <3>2. QED
      BY <3>1, <2>a, <2>b
  <2>1. booking' \in BookingType
    BY <1>7, <2>c, <2>d
  <2>2. NoJob \in JobType
    BY JobTyped
  <2>3. QED
    BY <1>7, <2>1, <2>2 DEF PlannedMarkFailed, ImmediateTimeout, StoreTypeOK
<1>8. QED
  BY <1>1, <1>2, <1>3, <1>4, <1>5, <1>6, <1>7 DEF AuthorizationStep

(* The operations of Capture keep the store well typed. *)
LEMMA CaptureTyped ==
    ASSUME StoreTypeOK, NEW c \in Clients, CaptureStep(c)
    PROVE  /\ booking' \in BookingType
           /\ stripe' \in StripeType
           /\ window' \in 0..5
           /\ work' \in [Clients -> JobType]
           /\ crashes' \in 0..MaxCrashes
<1>j. work[c] \in JobType /\ work[c].intent \in 0..MaxIntents
  BY DEF StoreTypeOK, JobType
<1>b. booking \in BookingType /\ stripe \in StripeType
  BY DEF StoreTypeOK
<1>m. /\ "COMPLETED" \in Statuses
      /\ {"settled", "authorized", "payment_method_required", "manual_review"} \subseteq PaymentStatuses
      /\ {"lesson_completed_full_payout", "capture_failure_instructor_paid",
          "capture_failure_escalated"} \subseteq Outcomes
      /\ 0 \in 0..Whole
  BY DEF Statuses, PaymentStatuses, Outcomes, Whole
<1>f. ASSUME NEW b \in BookingType
      PROVE  CaptureFailed(b) \in BookingType /\ CaptureSettled(b) \in BookingType
  <2>1. CaptureFailed(b) \in BookingType
    BY <1>m DEF CaptureFailed, BookingType
  <2>2. CaptureSettled(b) \in BookingType
    BY <1>m DEF CaptureSettled, BookingType
  <2>3. QED
    BY <2>1, <2>2
<1>r. CaptureResult(c) \in BookingType
  BY <1>b, <1>f DEF CaptureResult
<1>1. CASE CaptureStart(c) \/ AutoComplete(c) \/ ExpiredCapture(c) \/ RetryCapture(c)
           \/ EscalateStart(c)
  <2>1. /\ Job("instructor_completed", "stripe") \in JobType
        /\ Job("auto_completed", "stripe") \in JobType
        /\ Job("expired_auth", "stripe") \in JobType
        /\ Job("retry_failed_capture", "stripe") \in JobType
        /\ Job("escalate", "stripe") \in JobType
    BY JobTyped DEF CaptureReasons, TaskKinds
  <2>2. work' \in [Clients -> JobType]
    BY <1>1, <2>1, PhaseWork DEF CaptureStart, AutoComplete, ExpiredCapture, RetryCapture,
       EscalateStart
  <2>3. booking' \in BookingType /\ UNCHANGED <<stripe, window, crashes>>
    BY <1>1, <1>b, <1>m DEF CaptureStart, AutoComplete, ExpiredCapture, RetryCapture,
       EscalateStart, BookingType
  <2>4. QED
    BY <2>2, <2>3 DEF StoreTypeOK
<1>2. CASE ExpireAuthorization(c)
  BY <1>2, <1>b, <1>f, PhaseWork DEF ExpireAuthorization
<1>3. CASE CaptureStripe(c)
  <2>1. PICK ok \in BOOLEAN :
           /\ CaptureCall(work[c].intent, work[c].kind, ok)
           /\ Proceed(c, [work[c] EXCEPT !.ok = ok, !.at = "persist"])
    BY <1>3 DEF CaptureStripe
  <2>2. work[c].kind \in CaptureKeys
    BY <1>3 DEF CaptureStripe, Running, CaptureReasons, CaptureKeys
  <2>3. [work[c] EXCEPT !.ok = ok, !.at = "persist"] \in JobType
    BY <1>j DEF JobType
  <2>4. stripe' \in StripeType
    BY <1>j, <2>1, <2>2, CallsTyped
  <2>5. QED
    BY <1>3, <1>b, <2>1, <2>3, <2>4, PhaseWork DEF CaptureStripe
<1>4. CASE PersistCapture(c) \/ PersistExpired(c)
  <2>1. [work[c] EXCEPT !.at = "reauth"] \in JobType
    BY <1>j DEF JobType
  <2>2. QED
    BY <1>4, <1>b, <1>r, <2>1, PhaseWork DEF PersistCapture, PersistExpired
<1>5. CASE Reauthorize(c)
  <2>1. PICK ok \in BOOLEAN :
           /\ CreateCall(ok)
           /\ Proceed(c, [work[c] EXCEPT !.at = IF ok THEN "recapture" ELSE "giveup",
                                         !.intent = IF ok THEN stripe'.gen ELSE @])
    BY <1>5 DEF Reauthorize
  <2>2. stripe' \in StripeType
    BY <2>1, CallsTyped DEF MaxIntents
  <2>3. stripe'.gen \in 0..MaxIntents
    BY <2>2 DEF StripeType
  <2>4. [work[c] EXCEPT !.at = IF ok THEN "recapture" ELSE "giveup",
                        !.intent = IF ok THEN stripe'.gen ELSE @] \in JobType
    BY <1>j, <2>3 DEF JobType
  <2>5. QED
    BY <1>5, <1>b, <2>1, <2>2, <2>4, PhaseWork DEF Reauthorize
<1>6. CASE Recapture(c)
  <2>1. PICK ok \in BOOLEAN :
           /\ CaptureCall(work[c].intent, "reauth", ok)
           /\ Proceed(c, [work[c] EXCEPT !.at = IF ok THEN "recommit" ELSE "giveup"])
    BY <1>6 DEF Recapture
  <2>2. [work[c] EXCEPT !.at = IF ok THEN "recommit" ELSE "giveup"] \in JobType
    BY <1>j DEF JobType
  <2>3. stripe' \in StripeType
    BY <1>j, <2>1, CallsTyped DEF CaptureKeys
  <2>4. QED
    BY <1>6, <1>b, <2>1, <2>2, <2>3, PhaseWork DEF Recapture
<1>7. CASE RecaptureCommit(c)
  <2>1. [work[c] EXCEPT !.at = "resettle"] \in JobType
    BY <1>j DEF JobType
  <2>2. booking' \in BookingType
    BY <1>7, <1>b, <1>j, <1>m DEF RecaptureCommit, BookingType
  <2>3. QED
    BY <1>7, <1>b, <2>1, <2>2, PhaseWork DEF RecaptureCommit
<1>8. CASE PersistReauth(c) \/ ReauthFailed(c) \/ PersistEscalate(c)
  <2>1. [booking EXCEPT !.intent = work[c].intent] \in BookingType
    BY <1>b, <1>j DEF BookingType
  <2>2. PersistEscalate(c) => booking' \in BookingType
    BY <1>b, <1>m DEF PersistEscalate, BookingType
  <2>3. booking' \in BookingType /\ UNCHANGED stripe
    BY <1>8, <1>b, <1>f, <2>1, <2>2 DEF PersistReauth, ReauthFailed, PersistEscalate
  <2>4. QED
    BY <1>8, <1>b, <2>3, PhaseWork DEF PersistReauth, ReauthFailed, PersistEscalate
<1>9. CASE EscalateStripe(c)
  <2>1. PICK ok \in BOOLEAN :
           /\ PayoutCall("full", ok)
           /\ Proceed(c, [work[c] EXCEPT !.ok = ok, !.at = "persist"])
    BY <1>9 DEF EscalateStripe
  <2>2. [work[c] EXCEPT !.ok = ok, !.at = "persist"] \in JobType
    BY <1>j DEF JobType
  <2>3. stripe' \in StripeType
    BY <1>j, <2>1, CallsTyped
  <2>4. QED
    BY <1>9, <1>b, <2>1, <2>2, <2>3, PhaseWork DEF EscalateStripe
<1>10. QED
  BY <1>1, <1>2, <1>3, <1>4, <1>5, <1>6, <1>7, <1>8, <1>9 DEF CaptureStep

(* What a cancellation writes is a row of the table. *)
LEMMA FinalizedTyped ==
    ASSUME NEW b \in BookingType, NEW job \in JobType, job.kind \in Scenarios
    PROVE  Finalized(b, job) \in BookingType
<1>m. /\ {"settled", "payment_method_required", "manual_review"} \subseteq PaymentStatuses
      /\ {"student_cancel_gt24_no_charge", "instructor_cancel_full_refund",
          "student_cancel_12_24_full_credit", "student_cancel_lt12_split_50_50"} \subseteq Outcomes
      /\ 0 \in 0..Whole
  BY DEF PaymentStatuses, Outcomes, NoChargeOutcomes, Whole
<1>1. ASSUME NEW d \in BookingType
      PROVE  /\ InReview(d) \in BookingType
             /\ CaptureNotDone(d) \in BookingType
             /\ \A o \in Outcomes : SettledAs(d, o) \in BookingType
             /\ \A n \in 0..2 : Credited(d, n) \in BookingType
             /\ Reversed(d, job) \in BookingType
  <2>1. InReview(d) \in BookingType /\ CaptureNotDone(d) \in BookingType
    BY <1>m DEF InReview, CaptureNotDone, BookingType
  <2>2. \A o \in Outcomes : SettledAs(d, o) \in BookingType
    BY <1>m DEF SettledAs, BookingType
  <2>3. \A n \in 0..2 : Credited(d, n) \in BookingType
    BY DEF Credited, BookingType
  <2>4. Reversed(d, job) \in BookingType
    <3>1. (d.reversed \/ job.rev = "done") \in BOOLEAN
      OBVIOUS
    <3>2. \A r \in BOOLEAN : [d EXCEPT !.reversed = r] \in BookingType
      BY DEF BookingType
    <3>3. QED
      BY <3>1, <3>2 DEF Reversed
  <2>5. QED
    BY <2>1, <2>2, <2>3, <2>4
<1>2. FullCredit(b, job) \in BookingType
  <2> DEFINE settled == SettledAs(Reversed(b, job), "student_cancel_12_24_full_credit")
  <2>1. settled \in BookingType
    BY <1>1, <1>m
  <2>2. Credited(settled, 2) \in BookingType
    BY <1>1, <2>1
  <2>3. InReview(b) \in BookingType /\ CaptureNotDone(b) \in BookingType
    BY <1>1
  <2>4. QED
    BY <2>2, <2>3 DEF FullCredit
<1>3. SplitInHalves(b, job) \in BookingType
  <2> DEFINE settled == SettledAs(Reversed(b, job), "student_cancel_lt12_split_50_50")
             split == Credited(settled, 1)
  <2>1. settled \in BookingType
    BY <1>1, <1>m
  <2>2. split \in BookingType
    BY <1>1, <2>1
  <2>3. InReview(split) \in BookingType /\ InReview(b) \in BookingType
        /\ CaptureNotDone(b) \in BookingType
    BY <1>1, <2>2
  <2>4. QED
    BY <2>2, <2>3 DEF SplitInHalves
<1>4. NoCharge(b, job) \in BookingType
  <2>1. SettledAs(b, "student_cancel_gt24_no_charge") \in BookingType
    BY <1>1, <1>m
  <2>2. InReview(SettledAs(b, "student_cancel_gt24_no_charge")) \in BookingType
    BY <1>1, <2>1
  <2>3. QED
    BY <2>1, <2>2 DEF NoCharge
<1>5. InstructorRefund(b, job) \in BookingType
  <2> DEFINE settled == SettledAs(b, "instructor_cancel_full_refund")
  <2>1. settled \in BookingType
    BY <1>1, <1>m
  <2>2. [settled EXCEPT !.refunded = job.refund] \in BookingType
    BY <2>1 DEF BookingType, JobType
  <2>3. QED
    BY <1>1, <2>2 DEF InstructorRefund
<1>6. InReview(b) \in BookingType /\ SettledAs(b, "student_cancel_gt24_no_charge") \in BookingType
  BY <1>1, <1>m
<1>7. QED
  BY <1>2, <1>3, <1>4, <1>5, <1>6 DEF Finalized, Scenarios

(* The operations of Cancellation keep the store well typed. *)
LEMMA CancellationTyped ==
    ASSUME StoreTypeOK, NEW c \in Clients, CancellationStep(c)
    PROVE  /\ booking' \in BookingType
           /\ stripe' \in StripeType
           /\ window' \in 0..5
           /\ work' \in [Clients -> JobType]
           /\ crashes' \in 0..MaxCrashes
<1>j. work[c] \in JobType /\ work[c].intent \in 0..MaxIntents
  BY DEF StoreTypeOK, JobType
<1>b. booking \in BookingType /\ stripe \in StripeType
  BY DEF StoreTypeOK
<1>e. ASSUME NEW ok \in BOOLEAN,
             NEW at \in {"persist", "reverse", "payout"}
      PROVE  /\ [work[c] EXCEPT !.ok = ok, !.at = at] \in JobType
             /\ [work[c] EXCEPT !.paid = ok, !.at = at] \in JobType
  BY <1>j DEF JobType
<1>v. ASSUME NEW rev \in {"done", "failed"}, NEW at \in {"persist", "payout"}
      PROVE  [work[c] EXCEPT !.rev = rev, !.at = at] \in JobType
  BY <1>j DEF JobType
<1>1. ASSUME NEW role \in Roles, CancelStart(c, role)
      PROVE  /\ work' \in [Clients -> JobType]
             /\ UNCHANGED <<booking, stripe, window, crashes>>
  <2>1. Scenario(role) \in Scenarios
    BY DEF Scenario, Scenarios
  <2>2. FirstStep(Scenario(role)) \in {"persist", "details", "refund", "stripe"}
    BY <2>1 DEF FirstStep, Scenarios, Capturing, Voiding
  <2>3. Job(Scenario(role), FirstStep(Scenario(role))) \in JobType
    BY <2>1, <2>2, JobTyped
  <2>4. QED
    BY <1>1, <2>3, PhaseWork DEF CancelStart
<1>2. CASE CancelVoid(c)
  <2>1. PICK ok \in BOOLEAN :
           /\ VoidCall(work[c].intent, work[c].kind, ok)
           /\ Proceed(c, [work[c] EXCEPT !.ok = ok, !.at = "persist"])
    BY <1>2 DEF CancelVoid
  <2>2. work[c].kind \in VoidKeys
    BY <1>2 DEF CancelVoid, Running, Voiding, VoidKeys
  <2>3. stripe' \in StripeType
    BY <1>j, <2>1, <2>2, CallsTyped
  <2>4. QED
    BY <1>2, <1>b, <1>e, <2>1, <2>3, PhaseWork DEF CancelVoid
<1>3. CASE CancelRefund(c)
  <2>1. PICK ok \in BOOLEAN :
           /\ RefundCall(work[c].intent, "instructor", work[c].refund, ok)
           /\ Proceed(c, [work[c] EXCEPT !.ok = ok, !.at = "persist"])
    BY <1>3 DEF CancelRefund
  <2>2. stripe' \in StripeType
    BY <1>j, <2>1, CallsTyped DEF RefundKeys, JobType
  <2>3. QED
    BY <1>3, <1>b, <1>e, <2>1, <2>2, PhaseWork DEF CancelRefund
<1>4. CASE CancelCapture(c)
  <2>1. PICK ok \in BOOLEAN :
           /\ CaptureCall(work[c].intent, work[c].kind, ok)
           /\ Proceed(c, [work[c] EXCEPT !.ok = ok,
                                         !.at = IF ok THEN "reverse" ELSE "persist"])
    BY <1>4 DEF CancelCapture
  <2>2. work[c].kind \in CaptureKeys
    BY <1>4 DEF CancelCapture, Running, Capturing, CaptureKeys
  <2>3. stripe' \in StripeType
    BY <1>j, <2>1, <2>2, CallsTyped
  <2>4. [work[c] EXCEPT !.ok = ok, !.at = IF ok THEN "reverse" ELSE "persist"] \in JobType
    BY <1>e
  <2>5. QED
    BY <1>4, <1>b, <2>1, <2>3, <2>4, PhaseWork DEF CancelCapture
<1>5. CASE CancelDetails(c)
  <2>1. PICK ok \in BOOLEAN :
           Proceed(c, [work[c] EXCEPT !.ok = ok, !.at = IF ok THEN "reverse" ELSE "persist"])
    BY <1>5 DEF CancelDetails
  <2>2. [work[c] EXCEPT !.ok = ok, !.at = IF ok THEN "reverse" ELSE "persist"] \in JobType
    BY <1>e
  <2>3. QED
    BY <1>5, <1>b, <2>1, <2>2, PhaseWork DEF CancelDetails
<1>6. CASE CancelReverse(c)
  <2>1. PICK ok \in BOOLEAN :
           /\ ReverseCall(work[c].intent, work[c].kind, ok)
           /\ Proceed(c, [work[c] EXCEPT !.rev = IF ok THEN "done" ELSE "failed",
                                         !.at = AfterReversal(work[c], ok)])
    BY <1>6 DEF CancelReverse
  <2>2. work[c].kind \in ReverseKeys
    BY <1>6 DEF CancelReverse, Running, Capturing, ReverseKeys
  <2>3. stripe' \in StripeType
    BY <1>j, <2>1, <2>2, CallsTyped
  <2>4. [work[c] EXCEPT !.rev = IF ok THEN "done" ELSE "failed",
                        !.at = AfterReversal(work[c], ok)] \in JobType
    BY <1>v DEF AfterReversal
  <2>5. QED
    BY <1>6, <1>b, <2>1, <2>3, <2>4, PhaseWork DEF CancelReverse
<1>7. CASE CancelNoAmount(c)
  <2>1. [work[c] EXCEPT !.at = "persist"] \in JobType
    BY <1>j DEF JobType
  <2>2. QED
    BY <1>7, <1>b, <2>1, PhaseWork DEF CancelNoAmount
<1>8. CASE CancelPayout(c)
  <2>1. PICK ok \in BOOLEAN :
           /\ PayoutCall("half", ok)
           /\ Proceed(c, [work[c] EXCEPT !.paid = ok, !.at = "persist"])
    BY <1>8 DEF CancelPayout
  <2>2. stripe' \in StripeType
    BY <1>j, <2>1, CallsTyped
  <2>3. QED
    BY <1>8, <1>b, <1>e, <2>1, <2>2, PhaseWork DEF CancelPayout
<1>9. CASE PersistCancel(c)
  <2>1. Finalized(booking, work[c]) \in BookingType
    BY <1>9, <1>b, <1>j, FinalizedTyped DEF PersistCancel, Running
  <2>2. [Finalized(booking, work[c]) EXCEPT !.status = "CANCELLED"] \in BookingType
    BY <2>1 DEF BookingType, Statuses
  <2>3. QED
    BY <1>9, <1>b, <2>2, PhaseWork DEF PersistCancel
<1>10. QED
  BY <1>1, <1>2, <1>3, <1>4, <1>5, <1>6, <1>7, <1>8, <1>9 DEF CancellationStep, StoreTypeOK

(* Every step that is not a worker's keeps the store well typed. *)
LEMMA EnvironmentTyped ==
    ASSUME StoreTypeOK, Environment \/ InstructorMarkComplete
    PROVE  /\ booking' \in BookingType
           /\ stripe' \in StripeType
           /\ window' \in 0..5
           /\ work' \in [Clients -> JobType]
           /\ crashes' \in 0..MaxCrashes
<1>b. booking \in BookingType /\ stripe \in StripeType /\ window \in 0..5
  BY DEF StoreTypeOK
<1>n. NoJob \in JobType
  BY JobTyped
<1>1. CASE MutexExpires
  BY <1>1 DEF MutexExpires, storeVars, StoreTypeOK
<1>2. CASE Tick
  BY <1>2 DEF Tick, ended24, StoreTypeOK
<1>3. CASE FailureAges
  <2>1. booking' \in BookingType
    BY <1>3, <1>b DEF FailureAges, BookingType
  <2>2. QED
    BY <1>3, <2>1 DEF FailureAges, StoreTypeOK
<1>4. CASE AuthorizationAges
  <2>1. booking' \in BookingType
    BY <1>4, <1>b DEF AuthorizationAges, BookingType
  <2>2. stripe' \in StripeType
    BY <1>4, <1>b DEF AuthorizationAges, Outdated, StripeType
  <2>3. window' \in 0..5
    BY <1>4, <1>b DEF AuthorizationAges, ended24
  <2>4. QED
    BY <1>4, <2>1, <2>2, <2>3 DEF AuthorizationAges, StoreTypeOK
<1>5. ASSUME NEW c \in Clients, WorkerCrash(c)
      PROVE  /\ UNCHANGED <<booking, stripe, window>>
             /\ work' \in [Clients -> JobType]
             /\ crashes' \in 0..MaxCrashes
  BY <1>5, <1>n, MaxCrashesNat DEF WorkerCrash, StoreTypeOK
<1>6. CASE InstructorMarkComplete
  <2>1. booking' \in BookingType
    BY <1>6, <1>b DEF InstructorMarkComplete, BookingType, Statuses
  <2>2. QED
    BY <1>6, <2>1 DEF InstructorMarkComplete, StoreTypeOK
<1>7. QED
  BY <1>1, <1>2, <1>3, <1>4, <1>5, <1>6, <1>b DEF Environment

LEMMA InitTyped == StoreInit /\ LockTypeOK => StoreTypeOK
  BY MaxCrashesNat DEF StoreInit, StripeInit, Whole, StoreTypeOK, BookingType, StripeType, JobType, NoJob, Statuses,
     PaymentStatuses, Outcomes, NoChargeOutcomes, MaxIntents, ge24, from12to24, lt12

LEMMA LifecycleTypedStep == StoreTypeOK /\ LockTypeOK' /\ [LifecycleNext]_allVars => StoreTypeOK'
<1> SUFFICES ASSUME StoreTypeOK, LockTypeOK', [LifecycleNext]_allVars
             PROVE  StoreTypeOK'
  OBVIOUS
<1>1. CASE Environment \/ InstructorMarkComplete
  BY <1>1, EnvironmentTyped DEF StoreTypeOK
<1>2. ASSUME NEW c \in Clients, Operation(c)
      PROVE  StoreTypeOK'
  <2>1. CASE AuthorizationStep(c)
    BY <2>1, AuthorizationTyped DEF StoreTypeOK
  <2>2. CASE CaptureStep(c)
    BY <2>2, CaptureTyped DEF StoreTypeOK
  <2>3. CASE CancellationStep(c)
    BY <2>3, CancellationTyped DEF StoreTypeOK
  <2>4. CASE CompletionStep(c)
    <3>1. booking' \in BookingType
      BY <2>4 DEF CompletionStep, CompleteBooking, DisputeCompletion, StoreTypeOK,
         BookingType, Statuses, PaymentStatuses
    <3>2. QED
      BY <2>4, <3>1, PhaseWork DEF CompletionStep, CompleteBooking, DisputeCompletion, StoreTypeOK
  <2>5. QED
    BY <1>2, <2>1, <2>2, <2>3, <2>4 DEF Operation
<1>3. CASE UNCHANGED allVars
  BY <1>3 DEF allVars, lockVars, storeVars, StoreTypeOK, LockTypeOK
<1>4. QED
  BY <1>1, <1>2, <1>3 DEF LifecycleNext

(* Every reachable state of the lifecycle is well typed, for any number of *)
(* workers, crashes and whatever faults.                                   *)
THEOREM LifecycleTyping == LifecycleSafety => []StoreTypeOK
  BY InitTyped, LifecycleTypedStep, LifecycleUsesLock, LockTyping, PTL DEF LifecycleSafety
-----------------------------------------------------------------------------
(* Who is busy.  The invariant that ties the jobs to the lock: a worker    *)
(* between the first read and the last write of an operation is inside.    *)
BusyInside == \A c \in Clients : Busy(c) => pc[c] = "inside"

(* What the phases do to one worker and to the others. *)
LEMMA PhaseBusy ==
    ASSUME StoreTypeOK, NEW c \in Clients
    PROVE  /\ \A job : Begin(c, job) =>
                 work[c] = NoJob /\ work'[c] = job /\ pc'[c] = "inside"
           /\ \A job : Proceed(c, job) =>
                 pc[c] = "inside" /\ work'[c] = job /\ pc'[c] = "inside"
           /\ Finish(c) => work'[c] = NoJob
           /\ UnderLock(c) => /\ UNCHANGED <<work, pc, stripe>>
                              /\ work[c] = NoJob
                              /\ ~mutexKey \/ RedisFaults
  BY DEF StoreTypeOK, LockTypeOK, Begin, Proceed, Finish, UnderLock, Enter, Leave, Acquire,
     AcquireFailOpen, Release, ReleaseLost, lockVars

(* The phases of one worker leave the place and the job of every other     *)
(* worker as they are.                                                     *)
LEMMA PhaseOthers ==
    ASSUME StoreTypeOK, NEW c \in Clients, NEW d \in Clients, d # c
    PROVE  /\ \A job : Begin(c, job) => work'[d] = work[d] /\ pc'[d] = pc[d]
           /\ \A job : Proceed(c, job) => work'[d] = work[d] /\ pc'[d] = pc[d]
           /\ Finish(c) => work'[d] = work[d] /\ pc'[d] = pc[d]
           /\ UnderLock(c) => work'[d] = work[d] /\ pc'[d] = pc[d]
  BY DEF StoreTypeOK, LockTypeOK, Begin, Proceed, Finish, UnderLock, Enter, Leave, Acquire,
     AcquireFailOpen, Release, ReleaseLost, lockVars

(* An operation of one worker leaves the others alone. *)
LEMMA OthersUntouched ==
    ASSUME StoreTypeOK, NEW c \in Clients, Operation(c), NEW d \in Clients, d # c
    PROVE  work'[d] = work[d] /\ pc'[d] = pc[d]
<1>1. CASE AuthorizationStep(c)
  <2>1. CASE PlanMarkFailed(c) \/ PlannedMarkFailed(c) \/ ImmediateTimeout(c)
    BY <2>1 DEF PlanMarkFailed, PlannedMarkFailed, ImmediateTimeout, lockVars, StoreTypeOK
  <2>2. QED
    BY <1>1, <2>1, PhaseOthers DEF AuthorizationStep, ConfirmNow, ConfirmLater, AuthorizeStart,
     RetryStart, StudentRetryStart, AuthorizeStripe, AuthorizeCommit,
     PersistAuthorize, PersistRetry, PersistStudentRetry
<1>2. CASE CaptureStep(c)
  BY <1>2, PhaseOthers DEF CaptureStep, CaptureStart, AutoComplete, ExpiredCapture,
     ExpireAuthorization, RetryCapture, CaptureStripe, PersistCapture,
     PersistExpired, Reauthorize, Recapture, RecaptureCommit, PersistReauth,
     ReauthFailed, EscalateStart, EscalateStripe, PersistEscalate
<1>3. CASE CancellationStep(c)
  BY <1>3, PhaseOthers DEF CancellationStep, CancelStart, CancelVoid, CancelRefund,
     CancelCapture, CancelDetails, CancelReverse, CancelNoAmount, CancelPayout,
     PersistCancel
<1>4. CASE CompletionStep(c)
  BY <1>4, PhaseOthers DEF CompletionStep, CompleteBooking, DisputeCompletion
<1>5. QED
  BY <1>1, <1>2, <1>3, <1>4 DEF Operation

(* A worker that is busy after its operation is inside. *)
LEMMA BusyAfterOperation ==
    ASSUME StoreTypeOK, BusyInside, NEW c \in Clients, Operation(c), Busy(c)'
    PROVE  pc'[c] = "inside"
<1>n. ~ (work'[c] = NoJob)
  BY DEF Busy
<1>1. CASE AuthorizationStep(c)
  <2>1. CASE PlanMarkFailed(c)
    <3>1. work'[c].at = "planned"
      BY <2>1 DEF PlanMarkFailed, StoreTypeOK, Job
    <3>2. QED
      BY <3>1 DEF Busy
  <2>2. CASE PlannedMarkFailed(c)
    BY <1>n, <2>2 DEF PlannedMarkFailed, StoreTypeOK
  <2>3. CASE ImmediateTimeout(c)
    BY <1>n, <2>3 DEF ImmediateTimeout
  <2>4. QED
    BY <1>1, <1>n, <2>1, <2>2, <2>3, PhaseBusy DEF AuthorizationStep, ConfirmNow, ConfirmLater,
     AuthorizeStart, RetryStart, StudentRetryStart, AuthorizeStripe, AuthorizeCommit,
     PersistAuthorize, PersistRetry, PersistStudentRetry
<1>2. CASE CaptureStep(c)
  BY <1>2, <1>n, PhaseBusy DEF CaptureStep, CaptureStart, AutoComplete, ExpiredCapture,
     ExpireAuthorization, RetryCapture, CaptureStripe, PersistCapture,
     PersistExpired, Reauthorize, Recapture, RecaptureCommit, PersistReauth,
     ReauthFailed, EscalateStart, EscalateStripe, PersistEscalate
<1>3. CASE CancellationStep(c)
  BY <1>3, <1>n, PhaseBusy DEF CancellationStep, CancelStart, CancelVoid, CancelRefund,
     CancelCapture, CancelDetails, CancelReverse, CancelNoAmount, CancelPayout,
     PersistCancel
<1>4. CASE CompletionStep(c)
  BY <1>4, <1>n, PhaseBusy DEF CompletionStep, CompleteBooking, DisputeCompletion
<1>5. QED
  BY <1>1, <1>2, <1>3, <1>4 DEF Operation

(* A worker that is in the middle of an operation is inside the mutex: the *)
(* with-block of booking_lock_sync spans all three phases.                 *)
LEMMA LifecycleBusyStep ==
    ASSUME StoreTypeOK, BusyInside, [LifecycleNext]_allVars
    PROVE  BusyInside'
<1> SUFFICES ASSUME NEW d \in Clients, Busy(d)'
             PROVE  pc'[d] = "inside"
  BY DEF BusyInside
<1>1. CASE UNCHANGED <<work, pc>>
  BY <1>1 DEF BusyInside, Busy
<1>2. ASSUME NEW c \in Clients, WorkerCrash(c) PROVE pc'[d] = "inside"
  <2>1. CASE d = c
    BY <1>2, <2>1 DEF WorkerCrash, StoreTypeOK, Busy
  <2>2. CASE d # c
    <3>1. work'[d] = work[d] /\ pc'[d] = pc[d]
      BY <1>2, <2>2 DEF WorkerCrash, Crash, StoreTypeOK, LockTypeOK
    <3>2. QED
      BY <3>1 DEF BusyInside, Busy
  <2>3. QED
    BY <2>1, <2>2
<1>3. ASSUME NEW c \in Clients, Operation(c) PROVE pc'[d] = "inside"
  <2>1. CASE d = c
    BY <1>3, <2>1, BusyAfterOperation
  <2>2. CASE d # c
    <3>1. work'[d] = work[d] /\ pc'[d] = pc[d]
      BY <1>3, <2>2, OthersUntouched
    <3>2. QED
      BY <3>1 DEF BusyInside, Busy
  <2>3. QED
    BY <2>1, <2>2
<1>4. CASE MutexExpires \/ Tick \/ FailureAges \/ AuthorizationAges \/ InstructorMarkComplete
           \/ UNCHANGED allVars
  <2>1. UNCHANGED <<work, pc>>
    BY <1>4 DEF MutexExpires, Expire, Tick, FailureAges, AuthorizationAges,
       InstructorMarkComplete, allVars, lockVars, storeVars
  <2>2. QED
    BY <1>1, <2>1
<1>5. QED
  BY <1>2, <1>3, <1>4 DEF LifecycleNext, Environment

LEMMA BusyInvariance == LifecycleSafety => []BusyInside
<1>1. StoreInit => BusyInside
  BY DEF StoreInit, BusyInside, Busy
<1>2. StoreTypeOK /\ BusyInside /\ [LifecycleNext]_allVars => BusyInside'
  BY LifecycleBusyStep
<1>3. QED
  BY <1>1, <1>2, LifecycleTyping, PTL DEF LifecycleSafety

(* With Redis reachable and every operation shorter than the TTL, at most  *)
(* one worker is in the middle of a money operation of the booking: from   *)
(* its first read to its last write nobody else moves money, whatever dies *)
(* and whatever Stripe answers.                                            *)
THEOREM MoneyActionsExclude ==
    ASSUME ~SlowHolders, ~RedisFaults
    PROVE  LifecycleSafety => []OneMoneyAction
<1>1. BusyInside /\ MutualExclusion => OneMoneyAction
  BY DEF BusyInside, MutualExclusion, AtMostOneInside, Inside, OneMoneyAction
<1>2. QED
  BY <1>1, BusyInvariance, LifecycleUsesLock, LockIsMutex, PTL
-----------------------------------------------------------------------------
(* Statuses.                                                               *)
StatusMoves == \/ booking'.status = booking.status
               \/ booking'.status \in AllowedTransitions[booking.status]

(* The rows of _ALLOWED_TRANSITIONS the operations use.                    *)
LEMMA TableRows ==
    /\ {"CONFIRMED", "COMPLETED", "CANCELLED", "PAYMENT_FAILED"} = AllowedTransitions["PENDING"]
    /\ {"COMPLETED", "CANCELLED", "NO_SHOW"} = AllowedTransitions["CONFIRMED"]
    /\ {"CANCELLED", "NO_SHOW"} = AllowedTransitions["COMPLETED"]
    /\ {"CONFIRMED", "COMPLETED", "CANCELLED"} = AllowedTransitions["NO_SHOW"]
    /\ AllowedTransitions["CANCELLED"] = {}
    /\ AllowedTransitions["PAYMENT_FAILED"] = {}
  BY DEF AllowedTransitions, Statuses

(* Only a cancellation ends a no-show.                                     *)
NoShowStays == booking.status = "NO_SHOW" => booking'.status \in {"NO_SHOW", "CANCELLED"}

(* An operation moves the status along the table or leaves it alone. *)
LEMMA OperationStatus ==
    ASSUME StoreTypeOK, NEW c \in Clients, Operation(c)
    PROVE  StatusMoves /\ NoShowStays
<1> USE TableRows DEF StatusMoves, NoShowStays
<1>b. booking \in BookingType
  BY DEF StoreTypeOK
<1>1. CASE AuthorizationStep(c)
  <2>1. CASE AuthorizeStart(c) \/ RetryStart(c) \/ StudentRetryStart(c) \/ AuthorizeStripe(c)
             \/ PlanMarkFailed(c)
    BY <2>1 DEF AuthorizeStart, RetryStart, StudentRetryStart, AuthorizeStripe, PlanMarkFailed
  <2>2. CASE ConfirmNow(c) \/ ConfirmLater(c) \/ AuthorizeCommit(c) \/ PersistRetry(c)
             \/ PersistStudentRetry(c)
    BY <2>2, <1>b DEF ConfirmNow, ConfirmLater, AuthorizeCommit, PersistRetry,
       PersistStudentRetry, Authorized, BookingType
  <2>3. CASE PersistAuthorize(c)
    BY <2>3, <1>b DEF PersistAuthorize, Authorized, BookingType
  <2>4. CASE PlannedMarkFailed(c) \/ ImmediateTimeout(c)
    BY <2>4, <1>b DEF PlannedMarkFailed, ImmediateTimeout, MarkedFailed, BookingType
  <2>5. QED
    BY <1>1, <2>1, <2>2, <2>3, <2>4 DEF AuthorizationStep
<1>2. CASE CaptureStep(c)
  <2>1. CASE CaptureStart(c) \/ ExpiredCapture(c) \/ RetryCapture(c) \/ CaptureStripe(c)
             \/ Reauthorize(c) \/ Recapture(c) \/ ReauthFailed(c) \/ EscalateStart(c)
             \/ EscalateStripe(c)
    BY <2>1 DEF CaptureStart, ExpiredCapture, RetryCapture, CaptureStripe, Reauthorize,
       Recapture, ReauthFailed, EscalateStart, EscalateStripe
  <2>2. CASE AutoComplete(c) \/ ExpireAuthorization(c) \/ RecaptureCommit(c) \/ PersistEscalate(c)
    BY <2>2, <1>b DEF AutoComplete, ExpireAuthorization, CaptureFailed, RecaptureCommit,
       PersistEscalate, BookingType
  <2>3. CASE PersistCapture(c) \/ PersistExpired(c) \/ PersistReauth(c)
    BY <2>3, <1>b DEF PersistCapture, PersistExpired, PersistReauth, CaptureResult, CaptureFailed,
       CaptureSettled, BookingType
  <2>4. QED
    BY <1>2, <2>1, <2>2, <2>3 DEF CaptureStep
<1>3. CASE CancellationStep(c)
  <2>1. CASE PersistCancel(c)
    <3>1. Finalized(booking, work[c]) \in BookingType
      BY <2>1, <1>b, FinalizedTyped DEF PersistCancel, Running, StoreTypeOK
    <3>2. QED
      BY <2>1, <3>1 DEF PersistCancel, CanTransitionTo, BookingType
  <2>2. CASE ~PersistCancel(c)
    BY <1>3, <2>2 DEF CancellationStep, CancelStart, CancelVoid, CancelRefund, CancelCapture,
       CancelDetails, CancelReverse, CancelNoAmount, CancelPayout
  <2>3. QED
    BY <2>1, <2>2
<1>4. CASE CompletionStep(c)
  BY <1>4, <1>b DEF CompletionStep, CompleteBooking, DisputeCompletion, BookingType
<1>5. QED
  BY <1>1, <1>2, <1>3, <1>4 DEF Operation

LEMMA LifecycleStatusStep ==
    ASSUME StoreTypeOK, LifecycleNext
    PROVE  StatusMoves
<1> USE TableRows DEF StatusMoves
<1>1. CASE Environment
  BY <1>1 DEF Environment, MutexExpires, Tick, FailureAges, AuthorizationAges, WorkerCrash,
     storeVars, StoreTypeOK, BookingType
<1>2. CASE InstructorMarkComplete
  BY <1>2 DEF InstructorMarkComplete, StoreTypeOK, BookingType
<1>3. CASE \E c \in Clients : Operation(c)
  BY <1>3, OperationStatus
<1>4. QED
  BY <1>1, <1>2, <1>3 DEF LifecycleNext

(* No interleaving, crash, lapse of the lock or lost reply takes a booking *)
(* along a transition that _ALLOWED_TRANSITIONS lacks: a cancelled or      *)
(* failed booking never comes back to life.                                *)
THEOREM StatusesFollowTable == LifecycleSafety => StatusFollowsTable
<1>1. StoreTypeOK /\ [LifecycleNext]_allVars => [StatusMoves]_allVars
  BY LifecycleStatusStep
<1>2. QED
  BY <1>1, LifecycleTyping, PTL DEF LifecycleSafety, StatusFollowsTable, StatusMoves
-----------------------------------------------------------------------------
(* Dead bookings.  A worker is charging when it is in the middle of an     *)
(* operation other than the escalation, the only one that is begun without *)
(* a look at the status.  The inductive invariant is that nobody charges   *)
(* for a dead booking: DeadBookingUnclaimed alone is not inductive, since  *)
(* a worker that began earlier writes "authorized" without looking.        *)
Charging(c) == Busy(c) /\ work[c].kind # "escalate"

NobodyChargesTheDead ==
    \A c \in Clients : Charging(c) => booking.status \notin Terminal

Claimed == {"scheduled", "authorized"}

(* The start of an operation, and the lock as the finder of a free mutex.  *)
StartsAlive(c) == Charging(c)' => Charging(c) \/ booking.status \notin Terminal
EndsAlone(c) ==
    booking.status \notin Terminal /\ booking'.status \in Terminal =>
       /\ booking'.pay \notin Claimed
       /\ ~Busy(c)'
       /\ Busy(c) \/ ~mutexKey \/ RedisFaults
ClaimsAlive(c) ==
    booking.status \in Terminal /\ ~Charging(c) =>
       booking'.pay = booking.pay \/ booking'.pay \notin Claimed
ChargesBusy(c) == Charges' = Charges \/ Charging(c)

(* A worker that runs a step of any operation but an escalation is one     *)
(* that is charging.                                                       *)
LEMMA RunningBusy ==
    ASSUME NEW c \in Clients, NEW kinds, NEW at, Running(c, kinds, at),
           kinds \cap {"idle", "escalate"} = {}, at # "planned"
    PROVE  Charging(c)
  BY DEF Running, Charging, Busy, NoJob

(* The phases of an operation as StartsAlive and EndsAlone see them. *)
LEMMA PhaseCharging ==
    ASSUME StoreTypeOK, NEW c \in Clients
    PROVE  /\ Finish(c) => ~Busy(c)'
           /\ UnderLock(c) => /\ ~Busy(c)'
                              /\ ~mutexKey \/ RedisFaults
                              /\ Charges' = Charges
  BY PhaseBusy DEF Busy, Charges

(* Confirmation, authorization, retries and the timeout begin only for a   *)
(* live booking, and those that end its life leave nothing claimed.        *)
LEMMA AuthorizationAlive ==
    ASSUME StoreTypeOK, NEW c \in Clients, AuthorizationStep(c)
    PROVE  StartsAlive(c) /\ EndsAlone(c) /\ ClaimsAlive(c) /\ ChargesBusy(c)
<1> USE DEF StartsAlive, EndsAlone, ClaimsAlive, ChargesBusy
<1>b. booking \in BookingType
  BY DEF StoreTypeOK
<1>1. CASE ConfirmNow(c) \/ ConfirmLater(c)
  <2>1. booking.status = "PENDING" /\ booking'.status \in {"PENDING", "CONFIRMED"}
    BY <1>1, <1>b DEF ConfirmNow, ConfirmLater, BookingType
  <2>2. Charges' = Charges
    BY <1>1, PhaseCharging DEF ConfirmNow, ConfirmLater, Charges
  <2>3. QED
    BY <2>1, <2>2 DEF Terminal
<1>2. CASE AuthorizeStart(c) \/ RetryStart(c) \/ StudentRetryStart(c)
  <2>1. booking.status \notin Terminal /\ UNCHANGED <<booking, stripe>>
    BY <1>2 DEF AuthorizeStart, AuthorizeDue, RetryStart, RetryDue, StudentRetryStart, Terminal
  <2>2. QED
    BY <2>1 DEF Charges
<1>3. CASE AuthorizeStripe(c) \/ AuthorizeCommit(c)
  <2>1. Charging(c)
    BY <1>3, RunningBusy DEF AuthorizeStripe, AuthorizeCommit
  <2>2. booking'.status = booking.status
    BY <1>3, <1>b DEF AuthorizeStripe, AuthorizeCommit, Authorized, BookingType
  <2>3. QED
    BY <2>1, <2>2
<1>4. CASE PersistAuthorize(c) \/ PersistRetry(c) \/ PersistStudentRetry(c)
  <2>1. Charging(c) /\ ~Busy(c)'
    BY <1>4, RunningBusy, PhaseCharging DEF PersistAuthorize, PersistRetry, PersistStudentRetry
  <2>2. booking'.status = booking.status \/ booking'.status = "CONFIRMED"
    BY <1>4, <1>b DEF PersistAuthorize, PersistRetry, PersistStudentRetry, Authorized, BookingType
  <2>3. QED
    BY <2>1, <2>2 DEF Charging, Terminal
<1>5. CASE PlanMarkFailed(c)
  <2>1. work'[c].at = "planned"
    BY <1>5 DEF PlanMarkFailed, StoreTypeOK, Job
  <2>2. QED
    BY <1>5, <2>1 DEF PlanMarkFailed, Charging, Busy, Charges
<1>6. CASE PlannedMarkFailed(c)
  <2>1. ~Busy(c)' /\ UNCHANGED stripe
    BY <1>6 DEF PlannedMarkFailed, StoreTypeOK, Busy
  <2>2. \/ UNCHANGED booking
        \/ /\ ~mutexKey \/ RedisFaults
           /\ booking' = MarkedFailed(booking)
    BY <1>6 DEF PlannedMarkFailed
  <2>3. QED
    BY <1>b, <2>1, <2>2 DEF MarkedFailed, BookingType, Charging, Charges, Claimed, Terminal
<1>7. CASE ImmediateTimeout(c)
  <2>1. ~Busy(c)' /\ UNCHANGED stripe
    BY <1>7 DEF ImmediateTimeout, StoreTypeOK, Busy
  <2> DEFINE b == [booking EXCEPT !.timer = FALSE]
  <2>2. b \in BookingType /\ b.status = booking.status /\ b.pay = booking.pay
    BY <1>b DEF BookingType
  <2>3. \/ booking' = b
        \/ /\ ~mutexKey \/ RedisFaults
           /\ booking' = MarkedFailed(b)
    BY <1>7 DEF ImmediateTimeout
  <2> HIDE DEF b
  <2>4. QED
    BY <2>1, <2>2, <2>3 DEF MarkedFailed, BookingType, Charging, Charges, Claimed, Terminal
<1>8. QED
  BY <1>1, <1>2, <1>3, <1>4, <1>5, <1>6, <1>7 DEF AuthorizationStep

(* The capture jobs begin only for a live booking and never end its life;  *)
(* the escalation, which does not look, charges nobody.                    *)
LEMMA CaptureAlive ==
    ASSUME StoreTypeOK, NEW c \in Clients, CaptureStep(c)
    PROVE  StartsAlive(c) /\ EndsAlone(c) /\ ClaimsAlive(c) /\ ChargesBusy(c)
<1> USE DEF StartsAlive, EndsAlone, ClaimsAlive, ChargesBusy
<1>b. booking \in BookingType
  BY DEF StoreTypeOK
<1>1. CASE CaptureStart(c) \/ AutoComplete(c) \/ ExpiredCapture(c) \/ RetryCapture(c)
  <2>1. booking.status \notin Terminal /\ booking'.status \notin Terminal /\ UNCHANGED stripe
    BY <1>1, <1>b DEF CaptureStart, AutoComplete, ExpiredCapture, RetryCapture, Terminal, BookingType
  <2>2. QED
    BY <2>1 DEF Charges
<1>2. CASE ExpireAuthorization(c)
  <2>1. booking.status \notin Terminal /\ booking'.status = booking.status
    BY <1>2, <1>b DEF ExpireAuthorization, CaptureFailed, BookingType
  <2>2. QED
    BY <1>2, <2>1, PhaseCharging DEF ExpireAuthorization
<1>3. CASE CaptureStripe(c) \/ Reauthorize(c) \/ Recapture(c)
  <2>1. Charging(c) /\ UNCHANGED booking
    BY <1>3, RunningBusy DEF CaptureStripe, Reauthorize, Recapture, CaptureReasons
  <2>2. QED
    BY <2>1
<1>4. CASE PersistCapture(c) \/ PersistExpired(c) \/ RecaptureCommit(c) \/ PersistReauth(c)
           \/ ReauthFailed(c)
  <2>1. Charging(c) /\ UNCHANGED stripe
    BY <1>4, RunningBusy DEF PersistCapture, PersistExpired, RecaptureCommit, PersistReauth,
       ReauthFailed, CaptureReasons
  <2>2. booking'.status = booking.status
    BY <1>4, <1>b DEF PersistCapture, PersistExpired, RecaptureCommit, PersistReauth,
       ReauthFailed, CaptureResult, CaptureFailed, CaptureSettled, BookingType
  <2>3. QED
    BY <2>1, <2>2
<1>5. CASE EscalateStart(c) \/ EscalateStripe(c)
  <2>1. ~Charging(c)'
    <3>1. CASE EscalateStart(c)
      BY <3>1, PhaseBusy DEF EscalateStart, Job, Charging
    <3>2. CASE EscalateStripe(c)
      <4>1. PICK ok \in BOOLEAN : Proceed(c, [work[c] EXCEPT !.ok = ok, !.at = "persist"])
        BY <3>2 DEF EscalateStripe
      <4>2. work'[c] = [work[c] EXCEPT !.ok = ok, !.at = "persist"]
        BY <4>1, PhaseBusy
      <4>3. QED
        BY <3>2, <4>2 DEF EscalateStripe, Running, Charging, StoreTypeOK, JobType
    <3>3. QED
      BY <1>5, <3>1, <3>2
  <2>2. UNCHANGED booking
    BY <1>5 DEF EscalateStart, EscalateStripe
  <2>3. Charges' = Charges
    <3>1. stripe'.pi = stripe.pi /\ stripe'.older = stripe.older
      BY <1>5 DEF EscalateStart, EscalateStripe, PayoutCall, Replays, TakesEffect, Fails,
         StoreTypeOK, StripeType
    <3>2. QED
      BY <3>1 DEF Charges
  <2>4. QED
    BY <2>1, <2>2, <2>3
<1>6. CASE PersistEscalate(c)
  <2>1. ~Busy(c)' /\ UNCHANGED stripe
    BY <1>6, PhaseCharging DEF PersistEscalate
  <2>2. booking'.status = booking.status /\ booking'.pay \notin Claimed
    BY <1>6, <1>b DEF PersistEscalate, BookingType, Claimed
  <2>3. QED
    BY <2>1, <2>2 DEF Charging, Charges
<1>7. QED
  BY <1>1, <1>2, <1>3, <1>4, <1>5, <1>6 DEF CaptureStep

(* Whatever the scenario and the answers of Stripe, a cancellation leaves  *)
(* no payment behind that the jobs would pick up.                          *)
LEMMA FinalizedUnclaimed ==
    ASSUME NEW b \in BookingType, NEW job \in JobType, job.kind \in Scenarios
    PROVE  Finalized(b, job).pay \notin Claimed
<1>1. ASSUME NEW d \in BookingType
      PROVE  /\ InReview(d).pay \notin Claimed
             /\ CaptureNotDone(d).pay \notin Claimed
             /\ \A o \in Outcomes : SettledAs(d, o).pay \notin Claimed
  BY DEF InReview, CaptureNotDone, SettledAs, BookingType, Claimed
<1>2. QED
  BY <1>1 DEF Finalized, Scenarios, FullCredit, SplitInHalves, NoCharge, InstructorRefund,
     Credited, SettledAs, InReview, CaptureNotDone, BookingType, Claimed

(* A cancellation begins for a live booking only, and with its last write  *)
(* it has given up its claim on the money.                                 *)
LEMMA CancellationAlive ==
    ASSUME StoreTypeOK, NEW c \in Clients, CancellationStep(c)
    PROVE  StartsAlive(c) /\ EndsAlone(c) /\ ClaimsAlive(c) /\ ChargesBusy(c)
<1> USE DEF StartsAlive, EndsAlone, ClaimsAlive, ChargesBusy
<1>b. booking \in BookingType
  BY DEF StoreTypeOK
<1>1. ASSUME NEW role \in Roles, CancelStart(c, role)
      PROVE  booking.status \notin Terminal /\ UNCHANGED <<booking, stripe>>
  BY <1>1 DEF CancelStart, Terminal
<1>2. CASE CancelVoid(c) \/ CancelRefund(c) \/ CancelCapture(c) \/ CancelDetails(c)
           \/ CancelReverse(c) \/ CancelNoAmount(c) \/ CancelPayout(c)
  <2>1. Charging(c) /\ UNCHANGED booking
    BY <1>2, RunningBusy DEF CancelVoid, CancelRefund, CancelCapture, CancelDetails,
       CancelReverse, CancelNoAmount, CancelPayout, Capturing, Voiding
  <2>2. QED
    BY <2>1
<1>3. CASE PersistCancel(c)
  <2>1. Charging(c) /\ ~Busy(c)' /\ UNCHANGED stripe
    BY <1>3, RunningBusy, PhaseCharging DEF PersistCancel, Scenarios
  <2>2. booking' = booking \/ booking'.pay \notin Claimed
    <3>1. Finalized(booking, work[c]) \in BookingType
      BY <1>3, <1>b, FinalizedTyped DEF PersistCancel, Running, StoreTypeOK
    <3>2. Finalized(booking, work[c]).pay \notin Claimed
      <4>1. work[c].kind \in Scenarios /\ work[c] \in JobType
        BY <1>3 DEF PersistCancel, Running, StoreTypeOK
      <4>2. QED
        BY <4>1, <1>b, FinalizedUnclaimed
    <3>3. booking' = booking
          \/ booking' = [Finalized(booking, work[c]) EXCEPT !.status = "CANCELLED"]
      BY <1>3 DEF PersistCancel
    <3>4. QED
      BY <3>1, <3>2, <3>3 DEF BookingType
  <2>3. QED
    BY <2>1, <2>2 DEF Charging, Charges
<1>4. QED
  BY <1>1, <1>2, <1>3 DEF CancellationStep, Charges

(* Neither the clock, nor a death, nor the unlocked completion by the      *)
(* instructor kills a booking, claims it or charges for it.                *)
LEMMA EnvironmentAlive ==
    ASSUME StoreTypeOK, Environment \/ InstructorMarkComplete
    PROVE  /\ \A c \in Clients : Charging(c)' => Charging(c)
           /\ booking'.status \in Terminal <=> booking.status \in Terminal
           /\ booking'.pay = booking.pay
           /\ Charges' = Charges
<1>b. booking \in BookingType /\ stripe \in StripeType
  BY DEF StoreTypeOK
<1>1. CASE MutexExpires
  BY <1>1 DEF MutexExpires, storeVars, Charging, Busy, Charges
<1>2. CASE Tick
  BY <1>2 DEF Tick, Charging, Busy, Charges
<1>3. CASE FailureAges
  BY <1>3, <1>b DEF FailureAges, Charging, Busy, Charges, BookingType
<1>4. CASE AuthorizationAges
  <2>1. booking'.status = booking.status /\ booking'.pay = booking.pay
    BY <1>4, <1>b DEF AuthorizationAges, BookingType
  <2>2. Charges' = Charges
    BY <1>4, <1>b DEF AuthorizationAges, Outdated, StripeType, Charges
  <2>3. QED
    BY <1>4, <2>1, <2>2 DEF AuthorizationAges, Charging, Busy
<1>5. ASSUME NEW c \in Clients, WorkerCrash(c)
      PROVE  /\ UNCHANGED <<booking, stripe>>
             /\ \A d \in Clients : Charging(d)' => Charging(d)
  BY <1>5 DEF WorkerCrash, StoreTypeOK, Charging, Busy
<1>6. CASE InstructorMarkComplete
  BY <1>6, <1>b DEF InstructorMarkComplete, Charging, Busy, Charges, BookingType, Terminal
<1>7. QED
  BY <1>1, <1>2, <1>3, <1>4, <1>5, <1>6 DEF Environment, Charges

(* The four facts for every operation of a worker. *)
LEMMA OperationAlive ==
    ASSUME StoreTypeOK, NEW c \in Clients, Operation(c)
    PROVE  StartsAlive(c) /\ EndsAlone(c) /\ ClaimsAlive(c) /\ ChargesBusy(c)
<1>1. CASE CompletionStep(c)
  <2>1. Charges' = Charges /\ ~Busy(c)'
    BY <1>1, PhaseCharging DEF CompletionStep, CompleteBooking, DisputeCompletion
  <2>2. /\ booking.status \notin Terminal => booking'.status \notin Terminal
        /\ booking'.pay = booking.pay \/ booking'.pay \notin Claimed
    BY <1>1 DEF CompletionStep, CompleteBooking, DisputeCompletion, StoreTypeOK, BookingType,
       Terminal, Claimed
  <2>3. QED
    BY <2>1, <2>2 DEF StartsAlive, EndsAlone, ClaimsAlive, ChargesBusy, Charging
<1>2. QED
  BY <1>1, AuthorizationAlive, CaptureAlive, CancellationAlive DEF Operation

(* What holds of every lifecycle without lapses, put together: the         *)
(* inductive invariant of the two theorems below.                          *)
DeadInv == NobodyChargesTheDead /\ DeadBookingUnclaimed

(* DeadInv is inductive.  It needs mutual exclusion, so the theorems about *)
(* dead bookings assume that no holder outlives the TTL and that Redis     *)
(* answers.                                                                *)
LEMMA DeadInvariance ==
    ASSUME ~SlowHolders, ~RedisFaults
    PROVE  LifecycleSafety => []DeadInv
<1>1. StoreInit => DeadInv
  BY DEF StoreInit, DeadInv, NobodyChargesTheDead, DeadBookingUnclaimed, Terminal
<1>2. StoreTypeOK /\ BusyInside /\ OneMoneyAction /\ KeyHeldWhileInside /\ ~overlap
        /\ DeadInv /\ [LifecycleNext]_allVars => DeadInv'
  <2> SUFFICES ASSUME StoreTypeOK, BusyInside, OneMoneyAction, KeyHeldWhileInside, ~overlap,
                      DeadInv, [LifecycleNext]_allVars
               PROVE  DeadInv'
    OBVIOUS
  <2>1. CASE Environment \/ InstructorMarkComplete
    BY <2>1, EnvironmentAlive DEF DeadInv, NobodyChargesTheDead, DeadBookingUnclaimed
  <2>2. ASSUME NEW c \in Clients, Operation(c)
        PROVE  DeadInv'
    <3>1. StartsAlive(c) /\ EndsAlone(c) /\ ClaimsAlive(c)
      BY <2>2, OperationAlive
    <3>2. ASSUME NEW d \in Clients, d # c, Charging(d)
          PROVE  ~Busy(c) /\ mutexKey
      BY <3>2 DEF Charging, OneMoneyAction, BusyInside, KeyHeldWhileInside, Inside
    <3>3. ASSUME NEW d \in Clients, Charging(d)'
          PROVE  booking'.status \notin Terminal
      <4>1. CASE d = c
        BY <3>1, <3>3, <4>1 DEF StartsAlive, EndsAlone, DeadInv, NobodyChargesTheDead, Charging
      <4>2. CASE d # c
        <5>1. Charging(d)
          <6>1. work'[d] = work[d]
            BY <2>2, <4>2, OthersUntouched
          <6>2. QED
            BY <3>3, <6>1 DEF Charging, Busy
        <5>2. booking.status \notin Terminal
          BY <5>1 DEF DeadInv, NobodyChargesTheDead
        <5>3. QED
          BY <3>1, <3>2, <4>2, <5>1, <5>2 DEF EndsAlone
      <4>3. QED
        BY <4>1, <4>2
    <3>4. ASSUME booking'.status \in Terminal PROVE booking'.pay \notin Claimed
      <4>1. CASE booking.status \notin Terminal
        BY <3>1, <3>4, <4>1 DEF EndsAlone
      <4>2. CASE booking.status \in Terminal
        BY <3>1, <4>2 DEF ClaimsAlive, DeadInv, NobodyChargesTheDead, DeadBookingUnclaimed, Claimed
      <4>3. QED
        BY <4>1, <4>2
    <3>5. QED
      BY <3>3, <3>4 DEF DeadInv, NobodyChargesTheDead, DeadBookingUnclaimed, Claimed
  <2>3. CASE UNCHANGED allVars
    BY <2>3 DEF allVars, storeVars, DeadInv, NobodyChargesTheDead, DeadBookingUnclaimed, Charging, Busy
  <2>4. QED
    BY <2>1, <2>2, <2>3 DEF LifecycleNext
<1>3. LockInv => KeyHeldWhileInside
  BY DEF LockInv
<1>4. LifecycleSafety => []~overlap
  BY NoOverlapWithoutFaults, LifecycleUsesLock, PTL
<1>5. LifecycleSafety => []OneMoneyAction
  BY MoneyActionsExclude
<1>6. QED
  BY <1>1, <1>2, <1>3, <1>4, <1>5, LifecycleTyping, BusyInvariance, LifecycleUsesLock,
     LockInvariance, PTL DEF LifecycleSafety

(* Without lapses of the lock, a cancelled or failed booking is never left *)
(* with a payment that a job would authorize or capture: no writer that    *)
(* began before its death writes after it.                                 *)
THEOREM DeadBookingsUnclaimed ==
    ASSUME ~SlowHolders, ~RedisFaults
    PROVE  LifecycleSafety => []DeadBookingUnclaimed
<1>1. DeadInv => DeadBookingUnclaimed
  BY DEF DeadInv
<1>2. QED
  BY <1>1, DeadInvariance, PTL

(* Without lapses of the lock, the charges of a dead booking never change, *)
(* even when replies of Stripe are lost and workers die.                   *)
THEOREM NoChargeAfterDeath ==
    ASSUME ~SlowHolders, ~RedisFaults
    PROVE  LifecycleSafety => TerminalStopsCharges
<1>1. StoreTypeOK /\ DeadInv /\ [LifecycleNext]_allVars =>
         [booking.status \in Terminal => Charges' = Charges]_allVars
  <2> SUFFICES ASSUME StoreTypeOK, DeadInv, LifecycleNext, booking.status \in Terminal
               PROVE  Charges' = Charges
    OBVIOUS
  <2>1. CASE Environment \/ InstructorMarkComplete
    BY <2>1, EnvironmentAlive
  <2>2. ASSUME NEW c \in Clients, Operation(c)
        PROVE  Charges' = Charges
    BY <2>2, OperationAlive DEF ChargesBusy, DeadInv, NobodyChargesTheDead
  <2>3. QED
    BY <2>1, <2>2 DEF LifecycleNext
<1>2. QED
  BY <1>1, LifecycleTyping, DeadInvariance, PTL DEF LifecycleSafety, TerminalStopsCharges
-----------------------------------------------------------------------------
(* Payments at rest.  Without lapses nobody is in the middle of moving the *)
(* money of a closed payment, and for one in manual review only            *)
(* cancellations are: whoever closes a payment or has it reviewed was      *)
(* alone, and no operation but a cancellation begins on it.  That none     *)
(* begins on a paid lesson needs the last conjunct.                        *)
InstructorPaid == "lesson_completed_full_payout"
ReviewRests == booking.pay = "manual_review" =>
                  \A c \in Clients : Busy(c) => work[c].kind \in Scenarios
ClosedRests == Closed => \A c \in Clients : ~Busy(c)
PaidIsComplete == booking.outcome = InstructorPaid =>
                     booking.status \notin {"PENDING", "CONFIRMED"}
RestInv == ReviewRests /\ ClosedRests /\ PaidIsComplete

(* What an operation of worker c does to a payment at rest, or that comes  *)
(* to rest.                                                                *)
SameMoney == Charges' = Charges /\ InstructorNet' = InstructorNet
SameVerdict == booking'.pay = booking.pay /\ booking'.outcome = booking.outcome
WasAlone(c) == ~Busy(c)' /\ (Busy(c) \/ ~mutexKey \/ RedisFaults)
PaysCompleted == booking'.outcome = InstructorPaid =>
                    booking.outcome = InstructorPaid \/ booking'.status = "COMPLETED"
RestsWell(c) ==
    /\ ~Busy(c) => SameMoney
    /\ booking'.pay = "manual_review" /\ booking.pay # "manual_review" => WasAlone(c)
    /\ booking'.pay = "manual_review" /\ Busy(c)' =>
          work'[c].kind \in Scenarios \/ (Busy(c) /\ work'[c].kind = work[c].kind)
    /\ Closed' /\ ~Closed => WasAlone(c)
    /\ Closed /\ ~Busy(c) => ~Busy(c)' /\ SameVerdict
    /\ PaysCompleted

(* A busy worker either ends its operation or leaves no verdict behind. *)
LEMMA BusyRests ==
    ASSUME StoreTypeOK, NEW c \in Clients, Busy(c), PaysCompleted,
           \/ ~Busy(c)'
           \/ /\ work'[c].kind = work[c].kind
              /\ UNCHANGED booking \/ booking'.pay \notin {"manual_review", "settled"}
    PROVE  RestsWell(c)
<1>1. CASE ~Busy(c)'
  BY <1>1 DEF RestsWell, WasAlone
<1>2. CASE /\ work'[c].kind = work[c].kind
           /\ UNCHANGED booking
  <2>1. Closed' <=> Closed
    BY <1>2 DEF Closed
  <2>2. QED
    BY <1>2, <2>1 DEF RestsWell
<1>3. CASE /\ work'[c].kind = work[c].kind
           /\ booking'.pay \notin {"manual_review", "settled"}
  <2>1. ~Closed'
    BY <1>3 DEF Closed
  <2>2. QED
    BY <1>3, <2>1 DEF RestsWell
<1>4. QED
  BY <1>1, <1>2, <1>3

(* A worker that begins an operation. *)
LEMMA StartRests ==
    ASSUME StoreTypeOK, NEW c \in Clients, UNCHANGED stripe, ~Busy(c), ~Closed, PaysCompleted,
           booking'.pay = "manual_review" =>
              booking.pay = "manual_review" /\ work'[c].kind \in Scenarios,
           ~Closed'
    PROVE  RestsWell(c)
  BY DEF RestsWell, SameMoney, Charges, InstructorNet

(* An operation of a single transaction. *)
LEMMA OneStepRests ==
    ASSUME StoreTypeOK, NEW c \in Clients, UNCHANGED stripe, ~Busy(c), ~Busy(c)', PaysCompleted,
           SameVerdict \/ ~mutexKey \/ RedisFaults,
           Closed' /\ ~Closed => ~mutexKey \/ RedisFaults,
           Closed => SameVerdict
    PROVE  RestsWell(c)
  BY DEF RestsWell, SameMoney, WasAlone, SameVerdict, Charges, InstructorNet

(* A worker that goes on stays in its operation. *)
LEMMA KindKept ==
    ASSUME StoreTypeOK, NEW c \in Clients, NEW ok, NEW at, NEW i,
           \/ Proceed(c, [work[c] EXCEPT !.at = at])
           \/ Proceed(c, [work[c] EXCEPT !.at = at, !.intent = i])
           \/ Proceed(c, [work[c] EXCEPT !.ok = ok, !.at = at])
           \/ Proceed(c, [work[c] EXCEPT !.rev = ok, !.at = at])
           \/ Proceed(c, [work[c] EXCEPT !.paid = ok, !.at = at])
    PROVE  work'[c].kind = work[c].kind
<1>1. work[c] \in JobType
  BY DEF StoreTypeOK
<1>2. \A next : Proceed(c, next) /\ next.kind = work[c].kind => work'[c].kind = work[c].kind
  BY PhaseBusy
<1> DEFINE moved == [work[c] EXCEPT !.at = at]
           renewed == [work[c] EXCEPT !.at = at, !.intent = i]
           answered == [work[c] EXCEPT !.ok = ok, !.at = at]
           reversed == [work[c] EXCEPT !.rev = ok, !.at = at]
           sent == [work[c] EXCEPT !.paid = ok, !.at = at]
<1>3. /\ moved.kind = work[c].kind /\ renewed.kind = work[c].kind
      /\ answered.kind = work[c].kind /\ reversed.kind = work[c].kind
      /\ sent.kind = work[c].kind
  BY <1>1 DEF JobType
<1>4. \/ Proceed(c, moved) \/ Proceed(c, renewed) \/ Proceed(c, answered)
      \/ Proceed(c, reversed) \/ Proceed(c, sent)
  OBVIOUS
<1> HIDE DEF moved, renewed, answered, reversed, sent
<1>5. QED
  BY <1>2, <1>3, <1>4

(* Authorizations begin for open payments only, and end in no verdict; the *)
(* timeouts that settle a payment find the mutex free.                     *)
LEMMA AuthorizationRests ==
    ASSUME StoreTypeOK, PaidIsComplete, NEW c \in Clients, AuthorizationStep(c)
    PROVE  RestsWell(c)
<1>b. booking \in BookingType
  BY DEF StoreTypeOK
<1>1. CASE ConfirmNow(c)
  <2>1. /\ UNCHANGED stripe /\ ~Busy(c)
        /\ booking.status = "PENDING"
    BY <1>1, PhaseBusy DEF ConfirmNow, Busy
  <2>2. booking'.pay = "scheduled" /\ booking'.outcome = booking.outcome
    BY <1>1, <1>b DEF ConfirmNow, BookingType
  <2>3. ~Closed /\ ~Closed'
    BY <2>1, <2>2 DEF Closed, PaidIsComplete, InstructorPaid, Terminal
  <2>4. QED
    BY <2>1, <2>2, <2>3, StartRests DEF PaysCompleted
<1>2. CASE ConfirmLater(c)
  <2>1. /\ UNCHANGED stripe /\ ~Busy(c) /\ ~Busy(c)'
        /\ ~mutexKey \/ RedisFaults
        /\ booking.status = "PENDING"
    BY <1>2, PhaseBusy, PhaseCharging DEF ConfirmLater, Busy
  <2>2. booking'.outcome = booking.outcome
    BY <1>2, <1>b DEF ConfirmLater, BookingType
  <2>3. ~Closed
    BY <2>1 DEF Closed, PaidIsComplete, InstructorPaid, Terminal
  <2>4. QED
    BY <2>1, <2>2, <2>3, OneStepRests DEF PaysCompleted
<1>3. CASE AuthorizeStart(c) \/ RetryStart(c) \/ StudentRetryStart(c)
  <2>1. /\ UNCHANGED <<booking, stripe>> /\ ~Busy(c)
        /\ booking.pay \in {"payment_method_required", "scheduled"}
    BY <1>3, PhaseBusy DEF AuthorizeStart, AuthorizeDue, RetryStart, RetryDue, StudentRetryStart, Busy
  <2>2. QED
    BY <2>1, StartRests DEF PaysCompleted, Closed
<1>4. CASE AuthorizeStripe(c)
  <2>1. Busy(c) /\ UNCHANGED booking
    BY <1>4, RunningBusy DEF AuthorizeStripe, Charging
  <2>2. work'[c].kind = work[c].kind
    <3>1. \E ok \in BOOLEAN : \E at \in {"commit", "persist"} :
             Proceed(c, [work[c] EXCEPT !.ok = ok, !.at = at])
      BY <1>4 DEF AuthorizeStripe
    <3>2. QED
      BY <3>1, KindKept
  <2>3. QED
    BY <2>1, <2>2, BusyRests DEF PaysCompleted
<1>5. CASE AuthorizeCommit(c)
  <2>1. Busy(c)
    BY <1>5, RunningBusy DEF AuthorizeCommit, Charging
  <2>2. booking'.pay = "authorized" /\ booking'.outcome = booking.outcome
    BY <1>5, <1>b DEF AuthorizeCommit, Authorized, BookingType
  <2>3. work'[c].kind = work[c].kind
    BY <1>5, PhaseBusy DEF AuthorizeCommit, StoreTypeOK, JobType
  <2>4. QED
    BY <2>1, <2>2, <2>3, BusyRests DEF PaysCompleted
<1>6. CASE PersistAuthorize(c) \/ PersistRetry(c) \/ PersistStudentRetry(c)
  <2>1. Busy(c) /\ ~Busy(c)'
    BY <1>6, RunningBusy, PhaseCharging DEF PersistAuthorize, PersistRetry, PersistStudentRetry,
       Charging
  <2>2. booking'.outcome = booking.outcome
    BY <1>6, <1>b DEF PersistAuthorize, PersistRetry, PersistStudentRetry, Authorized, BookingType
  <2>3. QED
    BY <2>1, <2>2, BusyRests DEF PaysCompleted
<1>7. CASE PlanMarkFailed(c)
  <2>1. work[c] = NoJob /\ work'[c].at = "planned" /\ UNCHANGED <<booking, stripe>>
    BY <1>7 DEF PlanMarkFailed, StoreTypeOK, Job
  <2>2. ~Busy(c) /\ ~Busy(c)'
    BY <2>1 DEF Busy
  <2>3. QED
    BY <2>1, <2>2, OneStepRests DEF SameVerdict, PaysCompleted, Closed
<1>8. CASE PlannedMarkFailed(c)
  <2>1. ~Busy(c) /\ ~Busy(c)' /\ UNCHANGED stripe
    BY <1>8 DEF PlannedMarkFailed, StoreTypeOK, Running, Busy
  <2>2. \/ UNCHANGED booking
        \/ /\ ~mutexKey \/ RedisFaults
           /\ booking.status = "PENDING"
           /\ booking'.outcome = "payment_failed_no_charge"
    BY <1>8, <1>b DEF PlannedMarkFailed, MarkedFailed, BookingType
  <2>3. Closed => UNCHANGED booking
    BY <2>2 DEF Closed, PaidIsComplete, InstructorPaid, Terminal
  <2>4. QED
    BY <2>1, <2>2, <2>3, OneStepRests DEF SameVerdict, PaysCompleted, Closed, InstructorPaid
<1>9. CASE ImmediateTimeout(c)
  <2>1. ~Busy(c) /\ ~Busy(c)' /\ UNCHANGED stripe
    BY <1>9 DEF ImmediateTimeout, Busy
  <2> DEFINE b == [booking EXCEPT !.timer = FALSE]
  <2>2. /\ b.status = booking.status /\ b.pay = booking.pay /\ b.outcome = booking.outcome
        /\ b \in BookingType
    BY <1>b DEF BookingType
  <2>3. \/ booking' = b
        \/ /\ ~mutexKey \/ RedisFaults
           /\ b.pay = "payment_method_required"
           /\ booking' = MarkedFailed(b)
    BY <1>9 DEF ImmediateTimeout
  <2> HIDE DEF b
  <2>4. \/ SameVerdict /\ booking'.status = booking.status
        \/ /\ ~mutexKey \/ RedisFaults
           /\ booking.pay = "payment_method_required"
           /\ booking'.outcome = "payment_failed_no_charge" \/ SameVerdict
    BY <2>2, <2>3 DEF MarkedFailed, BookingType, SameVerdict
  <2>5. /\ SameVerdict \/ ~mutexKey \/ RedisFaults
        /\ Closed => SameVerdict
        /\ Closed' /\ ~Closed => ~mutexKey \/ RedisFaults
    BY <2>4 DEF Closed, SameVerdict
  <2>6. PaysCompleted
    BY <2>4 DEF SameVerdict, PaysCompleted, InstructorPaid
  <2>7. QED
    BY <2>1, <2>5, <2>6, OneStepRests
<1>10. QED
  BY <1>1, <1>2, <1>3, <1>4, <1>5, <1>6, <1>7, <1>8, <1>9 DEF AuthorizationStep

(* The capture jobs begin for a held or a due payment, and give their      *)
(* verdict, full payout for a completed lesson, at their end.              *)
LEMMA CaptureRests ==
    ASSUME StoreTypeOK, NEW c \in Clients, CaptureStep(c)
    PROVE  RestsWell(c)
<1>b. booking \in BookingType
  BY DEF StoreTypeOK
<1>1. CASE CaptureStart(c) \/ ExpiredCapture(c) \/ RetryCapture(c) \/ EscalateStart(c)
  <2>1. /\ UNCHANGED <<booking, stripe>> /\ ~Busy(c)
        /\ booking.pay \in {"payment_method_required", "authorized"}
    BY <1>1, PhaseBusy DEF CaptureStart, ExpiredCapture, RetryCapture, EscalateStart, ExpiredAuth,
       OnHold, Busy
  <2>2. QED
    BY <2>1, StartRests DEF PaysCompleted, Closed
<1>2. CASE AutoComplete(c)
  <2>1. /\ UNCHANGED stripe /\ ~Busy(c)
        /\ booking.pay = "authorized"
    BY <1>2, PhaseBusy DEF AutoComplete, OnHold, Busy
  <2>2. booking'.pay = booking.pay /\ booking'.outcome = booking.outcome
    BY <1>2, <1>b DEF AutoComplete, BookingType
  <2>3. QED
    BY <2>1, <2>2, StartRests DEF PaysCompleted, Closed
<1>3. CASE ExpireAuthorization(c)
  <2>1. /\ UNCHANGED stripe /\ ~Busy(c) /\ ~Busy(c)'
        /\ ~mutexKey \/ RedisFaults
        /\ booking.pay = "authorized"
    BY <1>3, PhaseBusy, PhaseCharging DEF ExpireAuthorization, ExpiredAuth, OnHold, Busy
  <2>2. booking'.outcome = booking.outcome
    BY <1>3, <1>b DEF ExpireAuthorization, CaptureFailed, BookingType
  <2>3. QED
    BY <2>1, <2>2, OneStepRests DEF PaysCompleted, Closed
<1>4. CASE CaptureStripe(c) \/ Reauthorize(c) \/ Recapture(c) \/ EscalateStripe(c)
  <2>1. UNCHANGED booking
    BY <1>4 DEF CaptureStripe, Reauthorize, Recapture, EscalateStripe
  <2>2. Busy(c)
    <3>1. work[c].at \in {"stripe", "reauth", "recapture"}
      BY <1>4 DEF CaptureStripe, Reauthorize, Recapture, EscalateStripe, Running
    <3>2. QED
      BY <3>1 DEF Busy, NoJob
  <2>3. work'[c].kind = work[c].kind
    <3>1. CASE CaptureStripe(c) \/ EscalateStripe(c)
      <4>1. \E ok \in BOOLEAN : Proceed(c, [work[c] EXCEPT !.ok = ok, !.at = "persist"])
        BY <3>1 DEF CaptureStripe, EscalateStripe
      <4>2. QED
        BY <4>1, KindKept
    <3>2. CASE Reauthorize(c)
      <4>1. \E i : \E at \in {"recapture", "giveup"} :
               Proceed(c, [work[c] EXCEPT !.at = at, !.intent = i])
        BY <3>2 DEF Reauthorize
      <4>2. QED
        BY <4>1, KindKept
    <3>3. CASE Recapture(c)
      <4>1. \E at \in {"recommit", "giveup"} : Proceed(c, [work[c] EXCEPT !.at = at])
        BY <3>3 DEF Recapture
      <4>2. QED
        BY <4>1, KindKept
    <3>4. QED
      BY <1>4, <3>1, <3>2, <3>3
  <2>4. QED
    BY <2>1, <2>2, <2>3, BusyRests DEF PaysCompleted
<1>5. CASE PersistExpired(c) \/ RecaptureCommit(c)
  <2>1. Busy(c)
    BY <1>5, RunningBusy DEF PersistExpired, RecaptureCommit, Charging
  <2>2. /\ booking'.pay \notin {"manual_review", "settled"}
        /\ booking'.outcome = booking.outcome
    BY <1>5, <1>b DEF PersistExpired, RecaptureCommit, Reauthorizes, CaptureResult, CaptureFailed,
       BookingType
  <2>3. work'[c].kind = work[c].kind
    BY <1>5, KindKept DEF PersistExpired, RecaptureCommit
  <2>4. QED
    BY <2>1, <2>2, <2>3, BusyRests DEF PaysCompleted
<1>6. CASE PersistCapture(c) \/ PersistReauth(c) \/ ReauthFailed(c)
  <2>1. Busy(c) /\ ~Busy(c)'
    BY <1>6, RunningBusy, PhaseCharging DEF PersistCapture, PersistReauth, ReauthFailed,
       CaptureReasons, Charging
  <2>2. \A d \in BookingType : CaptureSettled(d).outcome = InstructorPaid =>
           d.outcome = InstructorPaid \/ CaptureSettled(d).status = "COMPLETED"
    BY DEF CaptureSettled, BookingType
  <2>3. CASE PersistCapture(c)
    BY <1>b, <2>1, <2>2, <2>3, BusyRests DEF PersistCapture, CaptureResult, CaptureFailed,
       BookingType, PaysCompleted
  <2>4. CASE PersistReauth(c)
    <3> DEFINE d == [booking EXCEPT !.intent = work[c].intent]
    <3>1. d \in BookingType /\ d.outcome = booking.outcome
      BY <1>b DEF BookingType, StoreTypeOK, JobType
    <3>2. booking' = CaptureSettled(d)
      BY <2>4 DEF PersistReauth
    <3> HIDE DEF d
    <3>3. QED
      BY <2>1, <2>2, <3>1, <3>2, BusyRests DEF PaysCompleted
  <2>5. CASE ReauthFailed(c)
    BY <2>1, <2>5, BusyRests DEF ReauthFailed, PaysCompleted
  <2>6. QED
    BY <1>6, <2>3, <2>4, <2>5
<1>7. CASE PersistEscalate(c)
  <2>1. Busy(c) /\ ~Busy(c)'
    BY <1>7, PhaseCharging DEF PersistEscalate, Running, Busy, NoJob
  <2>2. booking'.outcome # InstructorPaid
    BY <1>7, <1>b DEF PersistEscalate, BookingType, InstructorPaid
  <2>3. QED
    BY <2>1, <2>2, BusyRests DEF PaysCompleted
<1>8. QED
  BY <1>1, <1>2, <1>3, <1>4, <1>5, <1>6, <1>7 DEF CaptureStep

(* A cancellation begins on a lesson that is not over, so on no closed     *)
(* payment, and is the one operation that begins on a payment in review.   *)
LEMMA CancellationRests ==
    ASSUME StoreTypeOK, PaidIsComplete, NEW c \in Clients, CancellationStep(c)
    PROVE  RestsWell(c)
<1>b. booking \in BookingType
  BY DEF StoreTypeOK
<1>1. ASSUME NEW role \in Roles, CancelStart(c, role)
      PROVE  RestsWell(c)
  <2>1. UNCHANGED <<booking, stripe>> /\ ~Busy(c) /\ booking.status \in {"PENDING", "CONFIRMED"}
    BY <1>1, PhaseBusy DEF CancelStart, Busy
  <2>2. work'[c].kind \in Scenarios
    <3>1. Scenario(role) \in Scenarios
      BY DEF Scenario, Scenarios
    <3>2. QED
      BY <1>1, <3>1, PhaseBusy DEF CancelStart, Job
  <2>3. ~Closed /\ ~Closed'
    BY <2>1 DEF Closed, PaidIsComplete, InstructorPaid, Terminal
  <2>4. QED
    BY <2>1, <2>2, <2>3, StartRests DEF PaysCompleted
<1>2. CASE CancelVoid(c) \/ CancelRefund(c) \/ CancelCapture(c) \/ CancelDetails(c)
           \/ CancelReverse(c) \/ CancelNoAmount(c) \/ CancelPayout(c)
  <2>1. Busy(c) /\ UNCHANGED booking
    BY <1>2, RunningBusy DEF CancelVoid, CancelRefund, CancelCapture, CancelDetails,
       CancelReverse, CancelNoAmount, CancelPayout, Capturing, Voiding, Charging
  <2>2. \/ \E ok \in BOOLEAN : \E at \in {"persist", "reverse"} :
              Proceed(c, [work[c] EXCEPT !.ok = ok, !.at = at])
        \/ \E rev \in {"done", "failed"} : \E at \in {"persist", "payout"} :
              Proceed(c, [work[c] EXCEPT !.rev = rev, !.at = at])
        \/ Proceed(c, [work[c] EXCEPT !.at = "persist"])
        \/ \E ok \in BOOLEAN : Proceed(c, [work[c] EXCEPT !.paid = ok, !.at = "persist"])
    BY <1>2 DEF CancelVoid, CancelRefund, CancelCapture, CancelDetails, CancelReverse,
       CancelNoAmount, CancelPayout, AfterReversal
  <2>3. work'[c].kind = work[c].kind
    BY <2>2, KindKept
  <2>4. QED
    BY <2>1, <2>3, BusyRests DEF PaysCompleted
<1>3. CASE PersistCancel(c)
  <2>1. Busy(c) /\ ~Busy(c)'
    BY <1>3, RunningBusy, PhaseCharging DEF PersistCancel, Scenarios, Charging
  <2>2. PaysCompleted
    <3>1. /\ work[c].kind \in Scenarios /\ work[c] \in JobType
          /\ Finalized(booking, work[c]) \in BookingType
      BY <1>3, <1>b, FinalizedTyped DEF PersistCancel, Running, StoreTypeOK
    <3>2. Finalized(booking, work[c]).outcome # InstructorPaid
             \/ Finalized(booking, work[c]).outcome = booking.outcome
      BY <1>b, <3>1 DEF Finalized, Scenarios, FullCredit, SplitInHalves, NoCharge,
         InstructorRefund, Credited, SettledAs, InReview, CaptureNotDone, BookingType, InstructorPaid
    <3>3. booking' = booking
          \/ booking' = [Finalized(booking, work[c]) EXCEPT !.status = "CANCELLED"]
      BY <1>3 DEF PersistCancel
    <3>4. QED
      BY <3>1, <3>2, <3>3 DEF BookingType, PaysCompleted
  <2>3. QED
    BY <2>1, <2>2, BusyRests
<1>4. QED
  BY <1>1, <1>2, <1>3 DEF CancellationStep

LEMMA OperationRests ==
    ASSUME StoreTypeOK, PaidIsComplete, NEW c \in Clients, Operation(c)
    PROVE  RestsWell(c)
<1>1. CASE CompletionStep(c)
  <2>1. /\ ~Busy(c) /\ ~Busy(c)' /\ UNCHANGED stripe
        /\ ~mutexKey \/ RedisFaults
        /\ booking.status = "CONFIRMED" \/ booking.pay = "authorized"
    BY <1>1, PhaseBusy, PhaseCharging DEF CompletionStep, CompleteBooking, DisputeCompletion, Busy
  <2>2. booking'.outcome = booking.outcome
    BY <1>1 DEF CompletionStep, CompleteBooking, DisputeCompletion, StoreTypeOK, BookingType
  <2>3. ~Closed
    BY <2>1 DEF Closed, PaidIsComplete, InstructorPaid, Terminal
  <2>4. QED
    BY <2>1, <2>2, <2>3, OneStepRests DEF PaysCompleted
<1>2. QED
  BY <1>1, AuthorizationRests, CaptureRests, CancellationRests DEF Operation

(* The clock, a death and the unlocked completion by the instructor leave  *)
(* verdicts and money alone.                                               *)
LEMMA EnvironmentRests ==
    ASSUME StoreTypeOK, Environment \/ InstructorMarkComplete
    PROVE  /\ SameMoney /\ SameVerdict
           /\ \/ booking'.status = booking.status
              \/ booking.status = "CONFIRMED" /\ booking'.status = "COMPLETED"
           /\ \A c \in Clients : Busy(c)' => Busy(c) /\ work'[c] = work[c]
<1> USE DEF SameMoney, SameVerdict
<1>b. booking \in BookingType /\ stripe \in StripeType
  BY DEF StoreTypeOK
<1>1. CASE MutexExpires \/ Tick
  BY <1>1 DEF MutexExpires, Tick, storeVars, Busy, Charges, InstructorNet
<1>2. CASE FailureAges \/ InstructorMarkComplete
  BY <1>2, <1>b DEF FailureAges, InstructorMarkComplete, Busy, Charges, InstructorNet, BookingType
<1>3. CASE AuthorizationAges
  <2>1. /\ booking'.status = booking.status /\ booking'.pay = booking.pay
        /\ booking'.outcome = booking.outcome
        /\ UNCHANGED work
    BY <1>3, <1>b DEF AuthorizationAges, BookingType
  <2>2. Charges' = Charges /\ InstructorNet' = InstructorNet
    BY <1>3, <1>b DEF AuthorizationAges, Outdated, StripeType, Charges, InstructorNet
  <2>3. QED
    BY <2>1, <2>2 DEF Busy
<1>4. ASSUME NEW d \in Clients, WorkerCrash(d)
      PROVE  /\ UNCHANGED <<booking, stripe>>
             /\ \A c \in Clients : Busy(c)' => Busy(c) /\ work'[c] = work[c]
  BY <1>4 DEF WorkerCrash, StoreTypeOK, Busy
<1>5. QED
  BY <1>1, <1>2, <1>3, <1>4 DEF Environment, Charges, InstructorNet

(* RestInv is inductive where the mutex excludes: whoever gives a verdict  *)
(* was alone, so nobody is left who began before it.                       *)
LEMMA RestInvariance ==
    ASSUME ~SlowHolders, ~RedisFaults
    PROVE  LifecycleSafety => []RestInv
<1>1. StoreInit => RestInv
  BY DEF StoreInit, RestInv, ReviewRests, ClosedRests, PaidIsComplete, Busy, InstructorPaid
<1>2. StoreTypeOK /\ BusyInside /\ OneMoneyAction /\ KeyHeldWhileInside /\ ~overlap
        /\ RestInv /\ [LifecycleNext]_allVars => RestInv'
  <2> SUFFICES ASSUME StoreTypeOK, BusyInside, OneMoneyAction, KeyHeldWhileInside, ~overlap,
                      RestInv, [LifecycleNext]_allVars
               PROVE  RestInv'
    OBVIOUS
  <2> USE DEF RestInv
  <2>1. CASE Environment \/ InstructorMarkComplete
    <3>1. /\ SameVerdict
          /\ \/ booking'.status = booking.status
             \/ booking.status = "CONFIRMED" /\ booking'.status = "COMPLETED"
          /\ \A c \in Clients : Busy(c)' => Busy(c) /\ work'[c] = work[c]
      BY <2>1, EnvironmentRests
    <3>2. ReviewRests'
      BY <3>1 DEF ReviewRests, SameVerdict
    <3>3. Closed' => Closed
      BY <3>1 DEF Closed, SameVerdict, Terminal
    <3>4. ClosedRests'
      BY <3>1, <3>3 DEF ClosedRests
    <3>5. PaidIsComplete'
      BY <3>1 DEF PaidIsComplete, SameVerdict
    <3>6. QED
      BY <3>2, <3>4, <3>5
  <2>2. ASSUME NEW c \in Clients, Operation(c)
        PROVE  RestInv'
    <3>1. RestsWell(c)
      BY <2>2, OperationRests
    <3>2. ASSUME NEW d \in Clients, d # c, Busy(d)'
          PROVE  Busy(d) /\ work'[d] = work[d] /\ ~Busy(c) /\ mutexKey
      <4>1. work'[d] = work[d]
        BY <2>2, <3>2, OthersUntouched
      <4>2. Busy(d)
        BY <3>2, <4>1 DEF Busy
      <4>3. QED
        BY <3>2, <4>1, <4>2 DEF OneMoneyAction, BusyInside, KeyHeldWhileInside, Inside
    <3>3. ReviewRests'
      <4> SUFFICES ASSUME booking'.pay = "manual_review", NEW d \in Clients, Busy(d)'
                   PROVE  work'[d].kind \in Scenarios
        BY DEF ReviewRests
      <4>1. booking.pay = "manual_review"
        BY <3>1, <3>2 DEF RestsWell, WasAlone
      <4>2. QED
        BY <3>1, <3>2, <4>1 DEF RestsWell, ReviewRests
    <3>4. ClosedRests'
      <4> SUFFICES ASSUME Closed', NEW d \in Clients, Busy(d)'
                   PROVE  FALSE
        BY DEF ClosedRests
      <4>1. Closed
        BY <3>1, <3>2 DEF RestsWell, WasAlone
      <4>2. QED
        BY <3>1, <3>2, <4>1 DEF RestsWell, ClosedRests
    <3>5. PaidIsComplete'
      <4>1. StatusMoves /\ NoShowStays
        BY <2>2, OperationStatus
      <4>2. booking.status \in Statuses
        BY DEF StoreTypeOK, BookingType
      <4>3. QED
        BY <3>1, <4>1, <4>2, TableRows DEF RestsWell, PaysCompleted, PaidIsComplete, StatusMoves,
           NoShowStays, Statuses
    <3>6. QED
      BY <3>3, <3>4, <3>5
  <2>3. CASE UNCHANGED allVars
    BY <2>3 DEF allVars, storeVars, ReviewRests, ClosedRests, PaidIsComplete, Closed, Busy
  <2>4. QED
    BY <2>1, <2>2, <2>3 DEF LifecycleNext
<1>3. LockInv => KeyHeldWhileInside
  BY DEF LockInv
<1>4. LifecycleSafety => []~overlap
  BY NoOverlapWithoutFaults, LifecycleUsesLock, PTL
<1>5. LifecycleSafety => []OneMoneyAction
  BY MoneyActionsExclude
<1>6. QED
  BY <1>1, <1>2, <1>3, <1>4, <1>5, LifecycleTyping, BusyInvariance, LifecycleUsesLock,
     LockInvariance, PTL DEF LifecycleSafety

(* Without lapses of the lock, the payment of a dead booking or of a paid  *)
(* lesson stays settled, with its outcome, and no job, retry or late write *)
(* moves money after it, lost replies and dead workers notwithstanding.    *)
THEOREM SettledPaymentsAreFinal ==
    ASSUME ~SlowHolders, ~RedisFaults
    PROVE  LifecycleSafety => SettledIsFinal
<1>1. StoreTypeOK /\ RestInv /\ [LifecycleNext]_allVars =>
         [Closed => /\ booking'.pay = "settled"
                    /\ booking'.outcome = booking.outcome
                    /\ Charges' = Charges /\ InstructorNet' = InstructorNet]_allVars
  <2> SUFFICES ASSUME StoreTypeOK, RestInv, LifecycleNext, Closed
               PROVE  SameMoney /\ SameVerdict
    BY DEF SameMoney, SameVerdict, Closed
  <2>1. CASE Environment \/ InstructorMarkComplete
    BY <2>1, EnvironmentRests
  <2>2. ASSUME NEW c \in Clients, Operation(c)
        PROVE  SameMoney /\ SameVerdict
    <3>1. ~Busy(c)
      BY DEF RestInv, ClosedRests
    <3>2. QED
      BY <2>2, <3>1, OperationRests DEF RestInv, RestsWell
  <2>3. QED
    BY <2>1, <2>2 DEF LifecycleNext
<1>2. QED
  BY <1>1, LifecycleTyping, RestInvariance, PTL DEF LifecycleSafety, SettledIsFinal

(* Without lapses of the lock, the money of a payment in manual review is  *)
(* moved by a cancellation that is under way and by nothing else.          *)
THEOREM ReviewedPaymentsAreFrozen ==
    ASSUME ~SlowHolders, ~RedisFaults
    PROVE  LifecycleSafety => ReviewFreezesMoney
<1>1. StoreTypeOK /\ RestInv /\ [LifecycleNext]_allVars =>
         [booking.pay = "manual_review" /\ ~Cancelling =>
             Charges' = Charges /\ InstructorNet' = InstructorNet]_allVars
  <2> SUFFICES ASSUME StoreTypeOK, RestInv, LifecycleNext,
                      booking.pay = "manual_review", ~Cancelling
               PROVE  SameMoney
    BY DEF SameMoney
  <2>1. CASE Environment \/ InstructorMarkComplete
    BY <2>1, EnvironmentRests
  <2>2. ASSUME NEW c \in Clients, Operation(c)
        PROVE  SameMoney
    <3>1. ~Busy(c)
      BY DEF RestInv, ReviewRests, Cancelling
    <3>2. QED
      BY <2>2, <3>1, OperationRests DEF RestInv, RestsWell
  <2>3. QED
    BY <2>1, <2>2 DEF LifecycleNext
<1>2. QED
  BY <1>1, LifecycleTyping, RestInvariance, PTL DEF LifecycleSafety, ReviewFreezesMoney
=============================================================================
