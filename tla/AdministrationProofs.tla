------------------------ MODULE AdministrationProofs ------------------------
(* What was proved of the lifecycle, with the administrators' operations   *)
(* among the others; then the money of a booking, which their operations   *)
(* and the lifecycle's settle together.                                    *)
EXTENDS Administration, BookingLifecycleProofs

(* A lifecycle without administrators is one that none of them touches:    *)
(* the theorems below are about it as well.                                *)
LEMMA LifecycleIsAdministered == LifecycleSafety => AdministeredSafety
<1>1. [LifecycleNext]_allVars => [AdministeredNext]_allVars
  BY DEF AdministeredNext
<1>2. QED
  BY <1>1, PTL DEF LifecycleSafety, AdministeredSafety

LEMMA AdministrationLock ==
    ASSUME NEW c \in Clients, AdministrationStep(c)
    PROVE  LockNext \/ UNCHANGED lockVars
<1>1. CASE \/ AdminRefund(c) \/ AdminCancelRefunding(c) \/ AdminCancel(c)
           \/ ForceRefund(c) \/ ForceKeep(c) \/ ForceComplete(c)
  BY <1>1, PhaseLock DEF AdminRefund, AdminCancelRefunding, AdminCancel, ForceRefund, ForceKeep,
     ForceComplete
<1>2. CASE IssueRefund(c) \/ ForceVoid(c) \/ ForceCapture(c) \/ AdminPersist(c)
  BY <1>2, PhaseLock DEF IssueRefund, ForceVoid, ForceCapture, AdminPersist, GoOnIf
<1>3. QED
  BY <1>1, <1>2 DEF AdministrationStep

(* What is proved of BookingLock holds of the mutex that administrators    *)
(* share with everybody.                                                   *)
LEMMA AdministratorsUseLock == AdministeredSafety => LockSafety
<1>1. StoreInit => LockInit
  BY DEF StoreInit
<1>2. [AdministeredNext]_allVars => [LockNext]_lockVars
  <2>1. CASE AdminComplete
    BY <2>1 DEF AdminComplete
  <2>2. CASE \E c \in Clients : AdministrationStep(c)
    BY <2>2, AdministrationLock
  <2>3. QED
    BY <2>1, <2>2, LifecycleLockStep DEF AdministeredNext
<1>3. QED
  BY <1>1, <1>2, PTL DEF AdministeredSafety, LockSafety

-----------------------------------------------------------------------------
LEMMA AdministrationTyped ==
    ASSUME StoreTypeOK, NEW c \in Clients, AdministrationStep(c)
    PROVE  /\ booking' \in BookingType
           /\ stripe' \in StripeType
           /\ window' \in 0..5
           /\ work' \in [Clients -> JobType]
           /\ crashes' \in 0..MaxCrashes
<1> DEFINE Typed == /\ booking' \in BookingType
                    /\ stripe' \in StripeType
                    /\ window' \in 0..5
                    /\ work' \in [Clients -> JobType]
                    /\ crashes' \in 0..MaxCrashes
<1>b. booking \in BookingType /\ stripe \in StripeType /\ window \in 0..5
      /\ crashes \in 0..MaxCrashes
  BY DEF StoreTypeOK
<1>j. work[c] \in JobType /\ work[c].intent \in 0..MaxIntents
  BY DEF StoreTypeOK, JobType
<1>1. CASE AdminRefund(c) \/ AdminCancelRefunding(c) \/ ForceRefund(c)
  <2>1. ASSUME NEW kind \in AdminKinds, NEW at \in {"refund", "stripe", "persist"}
        PROVE  /\ Job(kind, at) \in JobType
               /\ \A amount \in 0..Whole : [Job(kind, at) EXCEPT !.refund = amount] \in JobType
    <3>1. Job(kind, at) \in JobType
      BY JobTyped
    <3>2. QED
      BY <3>1 DEF JobType
  <2>a. /\ "admin_cancel" \in AdminKinds /\ "force_refund" \in AdminKinds
        /\ {"admin_refund", "admin_no_show"} \subseteq AdminKinds
        /\ 1..Whole \subseteq 0..Whole /\ 0 \in 0..Whole /\ Whole \in 0..Whole
    BY DEF AdminKinds, Whole
  <2>b. \E job \in JobType : Begin(c, job)
    <3>1. CASE AdminRefund(c)
      BY <2>1, <2>a, <3>1 DEF AdminRefund
    <3>2. CASE AdminCancelRefunding(c)
      BY <2>1, <2>a, <3>2 DEF AdminCancelRefunding
    <3>3. CASE ForceRefund(c)
      <4> DEFINE first == CASE booking.intent = 0     -> "persist"
                            [] booking.intent # 0 /\ booking.pay = "settled" -> "refund"
                            [] OTHER                  -> "stripe"
                 amount == IF booking.intent = 0 THEN 0 ELSE Whole
      <4>1. first \in {"refund", "stripe", "persist"} /\ amount \in 0..Whole
        BY <2>a
      <4>2. Begin(c, [Job("force_refund", first) EXCEPT !.refund = amount])
        BY <3>3 DEF ForceRefund
      <4> HIDE DEF first, amount
      <4>3. QED
        BY <2>1, <2>a, <4>1, <4>2
    <3>4. QED
      BY <1>1, <3>1, <3>2, <3>3
  <2>3. work' \in [Clients -> JobType]
    BY <2>b, PhaseWork
  <2>4. QED
    BY <1>1, <1>b, <2>3 DEF AdminRefund, AdminCancelRefunding, ForceRefund
<1>2. CASE ForceKeep(c)
  <2>1. Job("force_keep", "stripe") \in JobType /\ Job("force_keep", "persist") \in JobType
    BY JobTyped DEF AdminKinds
  <2>2. PICK job \in JobType : Begin(c, job)
    <3> DEFINE charged == booking.intent # 0 /\ booking.pay = "settled"
    <3>1. [Job("force_keep", "stripe") EXCEPT !.ok = charged] \in JobType
      BY <2>1 DEF JobType
    <3>2. [Job("force_keep", "persist") EXCEPT !.ok = charged] \in JobType
      BY <2>1 DEF JobType
    <3>3. QED
      BY <1>2, <3>1, <3>2 DEF ForceKeep
  <2>3. QED
    BY <1>2, <1>b, <2>2, PhaseWork DEF ForceKeep
<1>3. CASE AdminCancel(c)
  <2>1. booking' \in BookingType
    BY <1>3, <1>b DEF AdminCancel, BookingType, Statuses
  <2>2. QED
    BY <1>3, <2>1, PhaseWork DEF AdminCancel
<1>4. CASE ForceComplete(c)
  <2>1. booking' \in BookingType
    BY <1>4, <1>b DEF ForceComplete, BookingType, Statuses
  <2>2. Job("admin_force_complete", "stripe") \in JobType
    BY JobTyped DEF CaptureReasons
  <2>3. work' \in [Clients -> JobType]
    BY <1>4, <2>2, PhaseWork DEF ForceComplete
  <2>4. QED
    BY <1>4, <1>b, <2>1, <2>3 DEF ForceComplete
<1>5. ASSUME NEW ok \in BOOLEAN, GoOnIf(c, ok)
      PROVE  /\ work' \in [Clients -> JobType]
             /\ window' \in 0..5
             /\ crashes' \in 0..MaxCrashes
  <2>1. [work[c] EXCEPT !.ok = TRUE, !.at = "persist"] \in JobType
    BY <1>j DEF JobType
  <2>2. QED
    BY <1>5, <2>1, PhaseWork DEF GoOnIf
<1>6. CASE IssueRefund(c)
  <2>1. PICK ok \in BOOLEAN :
           /\ RefundCall(work[c].intent, RefundKey(work[c].kind), work[c].refund, ok)
           /\ GoOnIf(c, ok)
    BY <1>6 DEF IssueRefund
  <2>2. RefundKey(work[c].kind) \in RefundKeys
    BY <1>6 DEF IssueRefund, Running, Refunding, RefundKeys, RefundKey
  <2>r. work[c].intent \in 0..MaxIntents /\ work[c].refund \in 0..Whole
    BY <1>j DEF JobType
  <2>3. stripe' \in StripeType
    BY <2>1, <2>2, <2>r, CallsTyped
  <2>4. QED
    BY <1>6, <1>b, <1>5, <2>1, <2>3 DEF IssueRefund
<1>7. CASE ForceVoid(c)
  <2>1. PICK ok \in BOOLEAN : VoidCall(work[c].intent, work[c].kind, ok) /\ GoOnIf(c, ok)
    BY <1>7 DEF ForceVoid
  <2>2. work[c].kind \in VoidKeys
    BY <1>7 DEF ForceVoid, Running, VoidKeys
  <2>3. stripe' \in StripeType
    BY <1>j, <2>1, <2>2, CallsTyped
  <2>4. QED
    BY <1>7, <1>b, <1>5, <2>1, <2>3 DEF ForceVoid
<1>8. CASE ForceCapture(c)
  <2>1. PICK ok \in BOOLEAN :
           /\ CaptureCall(work[c].intent, work[c].kind, ok)
           /\ Proceed(c, [work[c] EXCEPT !.ok = ok, !.at = "persist"])
    BY <1>8 DEF ForceCapture
  <2>2. work[c].kind \in CaptureKeys
    BY <1>8 DEF ForceCapture, Running, CaptureKeys
  <2>3. stripe' \in StripeType
    BY <1>j, <2>1, <2>2, CallsTyped
  <2>4. [work[c] EXCEPT !.ok = ok, !.at = "persist"] \in JobType
    BY <1>j DEF JobType
  <2>5. QED
    BY <1>8, <1>b, <2>1, <2>3, <2>4, PhaseWork DEF ForceCapture
<1>9. CASE AdminPersist(c)
  <2>1. ASSUME NEW outcome \in AdminOutcomes(work[c].kind)
        PROVE  [booking EXCEPT !.status = TargetStatus(work[c].kind), !.outcome = outcome,
                               !.refunded = RefundOnRecord(work[c]),
                               !.pay = IF work[c].ok THEN "settled" ELSE @] \in BookingType
    <3>1. /\ outcome \in Outcomes
          /\ TargetStatus(work[c].kind) \in Statuses
          /\ "settled" \in PaymentStatuses
      BY DEF AdminOutcomes, Outcomes, AdminRefunds, TargetStatus, Statuses, PaymentStatuses
    <3>2. RefundOnRecord(work[c]) \in 0..Whole
      BY <1>b, <1>j DEF RefundOnRecord, BookingType, JobType
    <3>3. QED
      BY <3>1, <3>2, <1>b DEF BookingType
  <2>2. booking' \in BookingType
    BY <1>9, <1>b, <2>1 DEF AdminPersist
  <2>3. QED
    BY <1>9, <1>b, <2>2, PhaseWork DEF AdminPersist
<1>10. QED
  BY <1>1, <1>2, <1>3, <1>4, <1>6, <1>7, <1>8, <1>9 DEF AdministrationStep

LEMMA AdminCompleteTyped == StoreTypeOK /\ AdminComplete => StoreTypeOK'
<1> SUFFICES ASSUME StoreTypeOK, AdminComplete PROVE StoreTypeOK'
  OBVIOUS
<1>1. booking' \in BookingType
  BY DEF AdminComplete, StoreTypeOK, BookingType, Statuses
<1>2. QED
  BY <1>1 DEF AdminComplete, StoreTypeOK, lockVars, LockTypeOK

(* With administrators, too, every reachable state is well typed.          *)
THEOREM AdministeredTyping == AdministeredSafety => []StoreTypeOK
<1>1. StoreTypeOK /\ LockTypeOK' /\ [AdministeredNext]_allVars => StoreTypeOK'
  <2> SUFFICES ASSUME StoreTypeOK, LockTypeOK', [AdministeredNext]_allVars
               PROVE  StoreTypeOK'
    OBVIOUS
  <2>1. CASE \E c \in Clients : AdministrationStep(c)
    BY <2>1, AdministrationTyped DEF StoreTypeOK
  <2>2. QED
    BY <2>1, AdminCompleteTyped, LifecycleTypedStep DEF AdministeredNext
<1>2. QED
  BY <1>1, InitTyped, AdministratorsUseLock, LockTyping, PTL DEF AdministeredSafety

(* Administrators act on bookings in any state, and one of their writes    *)
(* takes no mutex; still no booking leaves _ALLOWED_TRANSITIONS.           *)
THEOREM AdministratorsFollowTable == AdministeredSafety => StatusFollowsTable
<1>1. StoreTypeOK /\ [AdministeredNext]_allVars => [StatusMoves]_allVars
  <2> SUFFICES ASSUME StoreTypeOK, AdministeredNext PROVE StatusMoves
    OBVIOUS
  <2> USE TableRows DEF StatusMoves
  <2>b. booking \in BookingType
    BY DEF StoreTypeOK
  <2>1. CASE AdminComplete
    BY <2>1, <2>b DEF AdminComplete, BookingType
  <2>2. ASSUME NEW c \in Clients, AdministrationStep(c) PROVE StatusMoves
    <3>1. CASE AdminCancel(c) \/ ForceComplete(c)
      BY <3>1, <2>b DEF AdminCancel, ForceComplete, BookingType
    <3>2. CASE AdminPersist(c)
      <4> DEFINE target == TargetStatus(work[c].kind)
      <4>1. CASE ~CanTransitionTo(target)
        BY <3>2, <4>1 DEF AdminPersist
      <4>2. CASE CanTransitionTo(target)
        <5>1. booking'.status = target
          BY <2>b, <3>2, <4>2 DEF AdminPersist, BookingType
        <5>2. QED
          BY <4>2, <5>1 DEF CanTransitionTo
      <4>3. QED
        BY <4>1, <4>2
    <3>3. CASE ~(AdminCancel(c) \/ ForceComplete(c) \/ AdminPersist(c))
      BY <2>2, <3>3 DEF AdministrationStep, AdminRefund, AdminCancelRefunding, ForceRefund,
         ForceKeep, IssueRefund, ForceVoid, ForceCapture
    <3>4. QED
      BY <3>1, <3>2, <3>3
  <2>3. QED
    BY <2>1, <2>2, LifecycleStatusStep DEF AdministeredNext
<1>2. QED
  BY <1>1, AdministeredTyping, PTL DEF AdministeredSafety, StatusFollowsTable, StatusMoves
-----------------------------------------------------------------------------
(* The money.  Without faults of the lock, of the workers or of the        *)
(* network, row and account agree whenever nobody is in the middle of an   *)
(* operation, and an operation under way keeps them in a relation of its   *)
(* own: MoneyInv, the inductive invariant of the theorems on settlements.  *)
Faultless == ~SlowHolders /\ ~RedisFaults /\ ~LostReplies /\ MaxCrashes = 0

Live == booking.status \in {"PENDING", "CONFIRMED", "COMPLETED"}
Undecided == {"none", "capture_failure_instructor_paid", "capture_failure_escalated"}
JobKeys == CaptureReasons \cup {"reauth"}
Uncharged == stripe.pi \in {"none", "void", "refunded"}

(* A second intent never follows a captured one; a reversal is of a        *)
(* captured charge, and half of one is paid out after its reversal only.   *)
AccountSound ==
    /\ stripe.older = "none"
    /\ stripe.gen = 0 => stripe.pi = "none"
    /\ stripe.reversedBy # "none" => stripe.pi = "captured"
    /\ "half" \in stripe.payouts => stripe.reversedBy = "under"

(* A lesson that is not dead was captured by jobs only, if at all, and     *)
(* nothing of it was given back.                                           *)
LiveRow ==
    Live => /\ booking.credit = 0
            /\ stripe.reversedBy = "none"
            /\ ~booking.reversed /\ booking.refunded = 0
            /\ stripe.pi \notin {"partly_refunded", "refunded"}
            /\ stripe.pi = "captured" => stripe.by \in JobKeys
            /\ stripe.keyLive => stripe.pi \in {"hold", "captured"}
            /\ \/ booking.outcome \in Undecided
               \/ booking.outcome = InstructorPaid /\ booking.status = "COMPLETED"
            /\ booking.pay = "settled" => booking.intent # 0 /\ stripe.pi = "captured"
            /\ booking.status = "PENDING" /\ stripe.pi = "captured" => booking.failAge # "none"

FailedRow ==
    booking.status = "PAYMENT_FAILED" =>
       /\ booking.pay = "settled"
       /\ booking.outcome = "payment_failed_no_charge"
       /\ booking.credit = 0
       /\ stripe.reversedBy = "none"
       /\ stripe.pi # "partly_refunded"
       /\ stripe.pi = "captured" => stripe.by \in JobKeys

(* The record of a refund is what was given back, and nothing else was     *)
(* taken from the transfer.                                                *)
Given(amount) == IF amount = Whole THEN stripe.pi \in {"void", "refunded"}
                                   ELSE stripe.pi = "partly_refunded"
TransferWhole == stripe.reversedBy = "none" /\ "half" \notin stripe.payouts
GivenBack == TransferWhole /\ booking.refunded \in 1..Whole /\ Given(booking.refunded)
KeptWhole == TransferWhole /\ booking.refunded = 0 /\ stripe.pi = "captured"

NoShowRow ==
    booking.status = "NO_SHOW" =>
       /\ booking.pay = "settled"
       /\ booking.intent # 0
       /\ booking.outcome = "instructor_no_show_full_refund"
       /\ GivenBack

(* The deal of each outcome that a cancellation is settled with. *)
Deal ==
    /\ booking.outcome \in {"student_cancel_gt24_no_charge", "instructor_cancel_full_refund"} =>
          Uncharged /\ booking.credit = 0
    /\ booking.outcome \in AdminRefunds => GivenBack
    /\ booking.outcome = "student_cancel_12_24_full_credit" =>
          /\ stripe.pi = "captured" /\ booking.credit = 2
          /\ IF booking.reversed THEN stripe.reversedBy \in {"gaming", "between"}
                                 ELSE stripe.reversedBy = "none"
    /\ booking.outcome = "student_cancel_lt12_split_50_50" =>
          "half" \in stripe.payouts /\ booking.credit = 1 /\ booking.reversed
    /\ booking.outcome = "admin_no_refund" => GivenBack \/ KeptWhole

CancelledRow ==
    booking.status = "CANCELLED" =>
       /\ booking.outcome \notin {InstructorPaid, "payment_failed_no_charge"}
       /\ booking.pay = "settled" => Deal

RowSound == AccountSound /\ LiveRow /\ FailedRow /\ NoShowRow /\ CancelledRow
IntentKnown == booking.intent = 0 => stripe.gen = 0
HoldSound ==
    booking.pay = "authorized" =>
       /\ stripe.pi \in {"hold", "void"}
       /\ booking.authAge # "none"
       /\ booking.authAge = "recent" => stripe.pi = "hold" /\ booking.intent = stripe.gen
AtRest == RowSound /\ IntentKnown /\ HoldSound

(* An authorization, up to its commit and its last write. *)
AuthJobs == {"authorize", "retry", "student_retry"}
Authorizing(j) ==
    /\ RowSound
    /\ Live
    /\ booking.pay \in {"scheduled", "payment_method_required", "authorized"}
    /\ j.at \in {"stripe", "commit", "persist"}
    /\ j.at = "stripe" => /\ IntentKnown
                          /\ j.intent = booking.intent
                          /\ j.kind = "retry" => stripe.pi # "captured"
    /\ j.at = "commit" => j.ok /\ stripe.pi = "hold"
    /\ j.at = "persist" => IF j.ok THEN stripe.pi = "hold" ELSE IntentKnown

(* A capture and what follows it.  Only the retry job may find the charge  *)
(* of its own earlier call.                                                *)
Collecting(j) ==
    /\ RowSound
    /\ booking.intent # 0
    /\ booking.pay # "settled"
    /\ IF j.kind = "retry_failed_capture" THEN Live /\ booking.failAge # "none"
                                          ELSE booking.status = "COMPLETED"
    /\ \/ j.at = "stripe" /\ (j.kind = "retry_failed_capture" \/ stripe.pi # "captured")
       \/ j.at = "persist" /\ j.ok /\ stripe.pi = "captured"
       \/ j.at = "persist" /\ ~j.ok /\ (j.kind = "retry_failed_capture" \/ stripe.pi # "captured")
       \/ /\ j.at \in {"reauth", "giveup"}
          /\ stripe.pi # "captured" /\ booking.pay = "payment_method_required"
       \/ /\ j.at = "recapture"
          /\ stripe.pi = "hold" /\ j.intent # 0 /\ booking.pay = "payment_method_required"
       \/ j.at \in {"recommit", "resettle"} /\ stripe.pi = "captured" /\ j.intent # 0

(* A cancellation: what its calls answered is what they did. *)
Cancels(j) ==
    /\ AccountSound
    /\ Live
    /\ booking.outcome \in Undecided
    /\ booking.credit = 0 /\ ~booking.reversed
    /\ IntentKnown
    /\ j.intent = booking.intent
    /\ j.kind = "pending_payment" => booking.intent = 0
    /\ j.kind \in Voiding /\ j.at = "persist" /\ j.ok => stripe.pi \in {"void", "refunded"}
    /\ j.at = "refund" => j.refund = Whole
    /\ j.at \in {"reverse", "payout"} => j.ok
    /\ j.kind \in Capturing /\ j.ok => stripe.pi = "captured"
    /\ IF j.rev = "done" THEN stripe.reversedBy = j.kind
                         ELSE stripe.reversedBy = "none"
    /\ j.at = "payout" => stripe.reversedBy = "under"
    /\ j.paid => "half" \in stripe.payouts

(* A refund or a voiding by an administrator. *)
Refunds(j) ==
    /\ AccountSound
    /\ FailedRow
    /\ IntentKnown
    /\ booking.outcome \in AdminRefunds => booking.status = "NO_SHOW"
    /\ j.kind = "admin_no_show" => booking.status \in {"CONFIRMED", "COMPLETED"}
    /\ j.kind # "force_refund" => booking.intent # 0
    /\ \/ /\ j.at \in {"refund", "stripe"}
          /\ ~j.ok
          /\ j.refund \in 1..Whole
          /\ AtRest
          /\ j.at = "stripe" => Live /\ j.refund = Whole
          /\ booking.status = "PAYMENT_FAILED" => j.refund = Whole
       \/ /\ j.at = "persist" /\ ~j.ok /\ booking.intent = 0
          /\ AtRest
          /\ Live => booking.pay # "settled"
          /\ booking.status # "CANCELLED"
       \/ /\ j.at = "persist" /\ j.ok
          /\ j.refund \in 1..Whole
          /\ Given(j.refund)
          /\ booking.status = "PAYMENT_FAILED" => AtRest

(* An administrator's cancellation without refund. *)
Keeps(j) ==
    /\ booking.status # "CANCELLED"
    /\ j.at = "stripe" => Live
    /\ j.at \in {"stripe", "persist"}
    /\ IF j.at = "persist" /\ j.ok /\ Live
       THEN AccountSound /\ IntentKnown /\ KeptWhole
       ELSE AtRest /\ (Live => booking.pay # "settled")

Halfway(j) ==
    \/ j.kind \in AuthJobs /\ Authorizing(j)
    \/ j.kind \in CaptureReasons /\ Collecting(j)
    \/ j.kind \in Scenarios /\ Cancels(j)
    \/ j.kind = "escalate" /\ AtRest /\ booking.pay = "payment_method_required"
    \/ j.kind \in Refunding /\ Refunds(j)
    \/ j.kind = "force_keep" /\ Keeps(j)

MoneyInv == /\ (\A c \in Clients : ~Busy(c)) => AtRest
            /\ \A c \in Clients : Busy(c) => Halfway(work[c])

-----------------------------------------------------------------------------
(* What the calls do when no reply is lost. *)
LEMMA HoldCallDoes ==
    ASSUME stripe \in StripeType, ~LostReplies, NEW i, NEW key,
           NEW state \in {"captured", "void"}, NEW ok \in BOOLEAN, HoldCall(i, key, state, ok)
    PROVE  /\ ~ok => UNCHANGED stripe
           /\ ok => stripe.pi \in {"hold", state} /\ stripe'.pi = state /\ stripe'.by = key
           /\ stripe'.gen = stripe.gen /\ stripe'.older = stripe.older
           /\ stripe'.keyLive = stripe.keyLive
           /\ stripe'.reversedBy = stripe.reversedBy /\ stripe'.payouts = stripe.payouts
  BY DEF HoldCall, DoneBefore, Replays, Fails, TakesEffect, StripeType

LEMMA RefundCallDoes ==
    ASSUME stripe \in StripeType, ~LostReplies, NEW i, NEW key, NEW amount, NEW ok \in BOOLEAN,
           RefundCall(i, key, amount, ok)
    PROVE  /\ ~ok => UNCHANGED stripe
           /\ ok => /\ stripe'.pi = IF amount = Whole THEN "refunded" ELSE "partly_refunded"
                    /\ \/ stripe.pi = stripe'.pi
                       \/ stripe.pi = "captured" /\ stripe.reversedBy = "none"
           /\ stripe'.gen = stripe.gen /\ stripe'.older = stripe.older
           /\ stripe'.keyLive = stripe.keyLive
           /\ stripe'.reversedBy = stripe.reversedBy /\ stripe'.payouts = stripe.payouts
  BY DEF RefundCall, DoneBefore, Replays, Fails, TakesEffect, StripeType

LEMMA ReverseCallDoes ==
    ASSUME stripe \in StripeType, ~LostReplies, NEW i, NEW key, NEW ok \in BOOLEAN,
           ReverseCall(i, key, ok)
    PROVE  /\ ~ok => UNCHANGED stripe
           /\ ok => /\ stripe'.reversedBy = key
                    /\ \/ stripe.reversedBy = key
                       \/ stripe.pi = "captured" /\ stripe.reversedBy = "none"
           /\ stripe'.pi = stripe.pi
           /\ stripe'.gen = stripe.gen /\ stripe'.older = stripe.older
           /\ stripe'.keyLive = stripe.keyLive
           /\ stripe'.payouts = stripe.payouts
  BY DEF ReverseCall, Replays, Fails, TakesEffect, StripeType

LEMMA PayoutCallDoes ==
    ASSUME stripe \in StripeType, ~LostReplies, NEW part \in {"half", "full"}, NEW ok \in BOOLEAN,
           PayoutCall(part, ok)
    PROVE  /\ ~ok => UNCHANGED stripe
           /\ ok => stripe'.payouts = stripe.payouts \cup {part}
           /\ stripe'.pi = stripe.pi /\ stripe'.by = stripe.by
           /\ stripe'.gen = stripe.gen /\ stripe'.older = stripe.older
           /\ stripe'.keyLive = stripe.keyLive
           /\ stripe'.reversedBy = stripe.reversedBy
  BY DEF PayoutCall, Replays, Fails, TakesEffect, StripeType

LEMMA CreateCallDoes ==
    ASSUME stripe \in StripeType, ~LostReplies, NEW ok \in BOOLEAN, CreateCall(ok)
    PROVE  \/ UNCHANGED stripe /\ (ok => stripe.keyLive)
           \/ /\ ok
              /\ stripe'.gen = stripe.gen + 1 /\ stripe'.pi = "hold"
              /\ stripe'.reversedBy = "none" /\ stripe'.payouts = stripe.payouts
              /\ stripe.pi \notin {"captured", "partly_refunded"} => stripe'.older = stripe.older
  BY DEF CreateCall, Replays, Fails, TakesEffect, Superseded, StripeType

(* The phases of an operation, in the faultless mode. *)
LEMMA MoneyPhases ==
    ASSUME StoreTypeOK, Faultless, NEW c \in Clients
    PROVE  /\ \A job : Begin(c, job) => ~Busy(c) /\ ~mutexKey /\ work'[c] = job
           /\ \A job : Proceed(c, job) => work'[c] = job
           /\ UnderLock(c) => /\ ~Busy(c) /\ ~Busy(c)' /\ ~mutexKey
                              /\ UNCHANGED stripe
           /\ Finish(c) => ~Busy(c)'
<1>1. \A job : Begin(c, job) => ~mutexKey
  BY DEF Begin, Enter, Acquire, AcquireFailOpen, Faultless
<1>2. QED
  BY <1>1, PhaseBusy DEF Busy, Faultless

(* Which relation holds halfway, by the kind of the operation. *)
LEMMA HalfwayKinds ==
    ASSUME NEW c \in Clients
    PROVE  /\ work[c].kind \in AuthJobs => (Halfway(work[c]) <=> Authorizing(work[c]))
           /\ work[c].kind \in CaptureReasons => (Halfway(work[c]) <=> Collecting(work[c]))
           /\ work[c].kind \in Scenarios => (Halfway(work[c]) <=> Cancels(work[c]))
           /\ work[c].kind = "escalate" =>
                 (Halfway(work[c]) <=> AtRest /\ booking.pay = "payment_method_required")
           /\ work[c].kind \in Refunding => (Halfway(work[c]) <=> Refunds(work[c]))
           /\ work[c].kind = "force_keep" => (Halfway(work[c]) <=> Keeps(work[c]))
  BY DEF Halfway, AuthJobs, CaptureReasons, Scenarios, Refunding

(* Nothing changes but the completion of the lesson and the timer. *)
RowStays ==
    /\ UNCHANGED stripe
    /\ booking'.pay = booking.pay /\ booking'.outcome = booking.outcome
    /\ booking'.intent = booking.intent /\ booking'.credit = booking.credit
    /\ booking'.authAge = booking.authAge /\ booking'.failAge = booking.failAge
    /\ booking'.reversed = booking.reversed /\ booking'.refunded = booking.refunded
    /\ \/ booking'.status = booking.status
       \/ booking.status = "CONFIRMED" /\ booking'.status = "COMPLETED"

LEMMA RowFrame ==
    ASSUME RowStays
    PROVE  /\ AtRest => AtRest'
           /\ RowSound => RowSound'
           /\ FailedRow => FailedRow'
           /\ Live => Live'
           /\ IntentKnown => IntentKnown'
<1>1. /\ AccountSound => AccountSound'
      /\ FailedRow => FailedRow'
      /\ IntentKnown => IntentKnown'
      /\ HoldSound => HoldSound'
      /\ Live' <=> Live
  BY DEF RowStays, AccountSound, FailedRow, IntentKnown, HoldSound, Live
<1>2. LiveRow => LiveRow'
  BY <1>1 DEF RowStays, LiveRow
<1>3. (GivenBack' <=> GivenBack) /\ (KeptWhole' <=> KeptWhole)
  BY DEF RowStays, GivenBack, KeptWhole, TransferWhole, Given
<1>4. CancelledRow => CancelledRow'
  BY <1>3 DEF RowStays, CancelledRow, Deal, Uncharged
<1>5. NoShowRow => NoShowRow'
  BY <1>3 DEF RowStays, NoShowRow
<1>6. QED
  BY <1>1, <1>2, <1>4, <1>5 DEF AtRest, RowSound

LEMMA HalfwayFrame ==
    ASSUME NEW d \in Clients, RowStays, work'[d] = work[d], Halfway(work[d])
    PROVE  Halfway(work[d])'
<1> USE RowFrame
<1>2. Collecting(work[d]) => Collecting(work[d])'
  BY DEF Collecting, RowStays
<1>3. Cancels(work[d]) => Cancels(work[d])'
  BY DEF Cancels, RowStays, AccountSound
<1>4. Refunds(work[d]) => Refunds(work[d])'
  <2>1. AccountSound => AccountSound'
    BY DEF RowStays, AccountSound
  <2>2. /\ booking'.status = "PAYMENT_FAILED" => booking.status = "PAYMENT_FAILED"
        /\ booking.status = "NO_SHOW" => booking'.status = "NO_SHOW"
        /\ booking.status \in {"CONFIRMED", "COMPLETED"} =>
              booking'.status \in {"CONFIRMED", "COMPLETED"}
        /\ booking'.status = "CANCELLED" => booking.status = "CANCELLED"
        /\ Live' <=> Live
    BY DEF RowStays, Live
  <2>3. \A amount : Given(amount)' <=> Given(amount)
    BY DEF RowStays, Given
  <2>4. QED
    BY <2>1, <2>2, <2>3 DEF Refunds, RowStays
<1>5. Keeps(work[d]) => Keeps(work[d])'
  <2>1. AccountSound => AccountSound'
    BY DEF RowStays, AccountSound
  <2>2. (Live' <=> Live) /\ (KeptWhole' <=> KeptWhole)
    BY DEF RowStays, Live, KeptWhole, TransferWhole
  <2>3. QED
    BY <2>1, <2>2 DEF Keeps, RowStays
<1>1. Authorizing(work[d]) => Authorizing(work[d])'
  BY DEF Authorizing, RowStays
<1>6. QED
  BY <1>1, <1>2, <1>3, <1>4, <1>5 DEF Halfway, RowStays

-----------------------------------------------------------------------------
(* One operation of worker c: it begins from a row at rest, keeps its      *)
(* relation, and leaves a row at rest, or it leaves row and account alone. *)
MoneyAround(c) == /\ Busy(c) => Halfway(work[c])
                  /\ ~mutexKey => AtRest
MoneyKept(c) == \/ ~Busy(c) /\ ~Busy(c)' /\ RowStays
                \/ /\ Busy(c) \/ ~mutexKey
                   /\ IF Busy(c)' THEN Halfway(work[c])' ELSE AtRest'

(* A worker that begins with an authorization. *)
LEMMA AuthorizationBegins ==
    ASSUME StoreTypeOK, Faultless, NEW c \in Clients, MoneyAround(c),
           ConfirmNow(c) \/ AuthorizeStart(c) \/ RetryStart(c) \/ StudentRetryStart(c)
    PROVE  MoneyKept(c)
<1>1. /\ ~Busy(c) /\ ~mutexKey /\ AtRest /\ UNCHANGED stripe
      /\ booking \in BookingType
  BY MoneyPhases DEF ConfirmNow, AuthorizeStart, RetryStart, StudentRetryStart, MoneyAround,
     StoreTypeOK
<1>2. /\ work'[c].kind \in AuthJobs
      /\ work'[c].at = "stripe" /\ work'[c].intent = booking.intent
      /\ work'[c].kind = "retry" => booking.status = "PENDING" /\ booking.failAge = "none"
  BY MoneyPhases DEF ConfirmNow, AuthorizeStart, RetryStart, RetryDue, StudentRetryStart, Job,
     AuthJobs
<1>3. /\ booking'.intent = booking.intent /\ booking'.status = booking.status
      /\ booking'.outcome = booking.outcome /\ booking'.credit = booking.credit
      /\ booking'.reversed = booking.reversed /\ booking'.refunded = booking.refunded
      /\ booking'.failAge = booking.failAge
      /\ booking'.pay \in {"scheduled", "payment_method_required"}
  BY <1>1 DEF ConfirmNow, AuthorizeStart, AuthorizeDue, RetryStart, RetryDue, StudentRetryStart,
     BookingType
<1>4. Live
  BY <1>1 DEF ConfirmNow, AuthorizeStart, AuthorizeDue, RetryStart, RetryDue, StudentRetryStart,
     BookingType, Statuses, Terminal, Live, AtRest, RowSound, NoShowRow
<1>5. AccountSound' /\ Live' /\ LiveRow' /\ IntentKnown'
  BY <1>1, <1>3, <1>4 DEF AtRest, RowSound, AccountSound, LiveRow, Live, IntentKnown
<1>6. FailedRow' /\ NoShowRow' /\ CancelledRow'
  BY <1>3, <1>4 DEF Live, FailedRow, NoShowRow, CancelledRow
<1>7. work'[c].kind = "retry" => stripe'.pi # "captured"
  BY <1>1, <1>2, <1>4 DEF AtRest, RowSound, LiveRow
<1>8. Authorizing(work[c])'
  BY <1>2, <1>3, <1>5, <1>6, <1>7 DEF Authorizing, RowSound
<1>9. Halfway(work[c])'
  BY <1>2, <1>8 DEF Halfway
<1>10. Busy(c)'
  BY <1>2 DEF Busy, NoJob
<1>11. QED
  BY <1>1, <1>9, <1>10 DEF MoneyKept

(* A call creates a hold only where none was captured. *)
LEMMA AuthorizeStripeMoney ==
    ASSUME StoreTypeOK, Faultless, NEW c \in Clients, MoneyAround(c), AuthorizeStripe(c)
    PROVE  MoneyKept(c)
<1> DEFINE creates == work[c].kind = "retry" \/ work[c].intent = 0
<1>1. /\ work[c].kind \in AuthJobs /\ work[c].at = "stripe"
      /\ UNCHANGED booking /\ stripe \in StripeType /\ work[c] \in JobType
  BY DEF AuthorizeStripe, Running, AuthJobs, StoreTypeOK
<1>2. Busy(c)
  BY <1>1 DEF Busy, NoJob
<1>3. Authorizing(work[c])
  BY <1>1, <1>2, HalfwayKinds DEF MoneyAround
<1>4. PICK ok \in BOOLEAN :
         /\ IF creates THEN CreateCall(ok) ELSE ConfirmCall(work[c].intent, ok)
         /\ Proceed(c, [work[c] EXCEPT
               !.ok = ok,
               !.at = IF ok /\ creates /\ work[c].kind # "student_retry"
                      THEN "commit" ELSE "persist"])
  BY DEF AuthorizeStripe
<1>5. /\ work'[c].kind = work[c].kind /\ work'[c].ok = ok
      /\ work'[c].at \in {"commit", "persist"}
      /\ work'[c].at = "commit" => ok
  <2> DEFINE next == [work[c] EXCEPT !.ok = ok,
                                     !.at = IF ok /\ creates /\ work[c].kind # "student_retry"
                                            THEN "commit" ELSE "persist"]
  <2>1. /\ next.kind = work[c].kind /\ next.ok = ok
        /\ next.at \in {"commit", "persist"}
        /\ next.at = "commit" => ok
    BY <1>1 DEF JobType
  <2>2. Proceed(c, next)
    BY <1>4
  <2> HIDE DEF next
  <2>3. QED
    BY <2>1, <2>2, MoneyPhases
<1>6. /\ stripe.pi \notin {"captured", "partly_refunded"} \/ ~creates
      /\ RowSound /\ Live /\ IntentKnown
      /\ work[c].intent = booking.intent
  BY <1>1, <1>3 DEF Authorizing, RowSound, IntentKnown, AccountSound, LiveRow, StripeType
<1>7. /\ ok => stripe'.pi = "hold"
      /\ ~ok => UNCHANGED stripe
      /\ AccountSound' /\ LiveRow'
  <2>1. CASE creates
    <3>1. \/ UNCHANGED stripe /\ (ok => stripe.keyLive)
          \/ /\ ok
             /\ stripe'.gen = stripe.gen + 1 /\ stripe'.pi = "hold"
             /\ stripe'.reversedBy = "none" /\ stripe'.payouts = stripe.payouts
             /\ stripe'.older = stripe.older
      BY <1>1, <1>4, <1>6, <2>1, CreateCallDoes DEF Faultless
    <3>2. CASE UNCHANGED stripe /\ (ok => stripe.keyLive)
      BY <1>1, <1>6, <2>1, <3>2 DEF RowSound, AccountSound, LiveRow, Live
    <3>3. CASE /\ ok
               /\ stripe'.gen = stripe.gen + 1 /\ stripe'.pi = "hold"
               /\ stripe'.reversedBy = "none" /\ stripe'.payouts = stripe.payouts
               /\ stripe'.older = stripe.older
      <4>1. "half" \notin stripe.payouts
        BY <1>6 DEF RowSound, AccountSound, LiveRow
      <4>2. booking.pay # "settled"
        BY <1>3 DEF Authorizing
      <4>3. stripe'.gen # 0
        BY <1>1, <3>3 DEF StripeType, MaxIntents
      <4>4. QED
        BY <1>1, <1>6, <3>3, <4>1, <4>2, <4>3 DEF RowSound, AccountSound, LiveRow, Live
    <3>4. QED
      BY <3>1, <3>2, <3>3
  <2>2. CASE ~creates
    BY <1>1, <1>4, <1>6, <2>2 DEF ConfirmCall, RowSound, AccountSound, LiveRow, Live
  <2>3. QED
    BY <2>1, <2>2
<1>8. FailedRow' /\ NoShowRow' /\ CancelledRow' /\ Live'
  BY <1>1, <1>6 DEF Live, FailedRow, NoShowRow, CancelledRow
<1>9. ~ok => IntentKnown'
  BY <1>1, <1>6, <1>7 DEF IntentKnown
<1>10. Authorizing(work[c])'
  BY <1>1, <1>3, <1>5, <1>7, <1>8, <1>9 DEF Authorizing, RowSound
<1>11. Halfway(work[c])' /\ Busy(c)'
  BY <1>1, <1>5, <1>10 DEF Halfway, Busy, NoJob
<1>12. QED
  BY <1>2, <1>11 DEF MoneyKept

(* The commit and the last write of an authorization. *)
LEMMA AuthorizationEnds ==
    ASSUME StoreTypeOK, Faultless, NEW c \in Clients, MoneyAround(c),
           \/ AuthorizeCommit(c) \/ PersistAuthorize(c) \/ PersistRetry(c)
           \/ PersistStudentRetry(c)
    PROVE  MoneyKept(c)
<1>1. /\ work[c].kind \in AuthJobs /\ work[c].at \in {"commit", "persist"}
      /\ UNCHANGED stripe
      /\ booking \in BookingType /\ stripe \in StripeType /\ work[c] \in JobType
  BY DEF AuthorizeCommit, PersistAuthorize, PersistRetry, PersistStudentRetry, Running, AuthJobs,
     StoreTypeOK
<1>2. Busy(c)
  BY <1>1 DEF Busy, NoJob
<1>3. Authorizing(work[c])
  BY <1>1, <1>2, HalfwayKinds DEF MoneyAround
<1>4. /\ booking'.status = booking.status
            \/ (booking.status = "PENDING" /\ booking'.status = "CONFIRMED")
      /\ booking'.outcome = booking.outcome /\ booking'.credit = booking.credit
      /\ booking'.reversed = booking.reversed /\ booking'.refunded = booking.refunded
      /\ booking'.failAge = booking.failAge
  BY <1>1 DEF AuthorizeCommit, PersistAuthorize, PersistRetry, PersistStudentRetry, Authorized,
     BookingType
<1>5. \/ booking'.pay = "payment_method_required" /\ booking'.intent = booking.intent
            /\ work[c].at = "persist" /\ ~work[c].ok
      \/ booking'.pay = "authorized" /\ booking'.intent = stripe.gen
            /\ (work[c].at = "persist" => work[c].ok /\ booking'.authAge # "none")
  BY <1>1 DEF AuthorizeCommit, PersistAuthorize, PersistRetry, PersistStudentRetry, Authorized,
     BookingType, Running
<1>6. RowSound'
  <2>1. AccountSound' /\ LiveRow' /\ Live'
    BY <1>1, <1>3, <1>4, <1>5 DEF Authorizing, RowSound, AccountSound, LiveRow, Live
  <2>2. FailedRow' /\ NoShowRow' /\ CancelledRow'
    BY <2>1 DEF Live, FailedRow, NoShowRow, CancelledRow
  <2>3. QED
    BY <2>1, <2>2 DEF RowSound
<1>7. CASE work[c].at = "persist"
  <2>1. ~Busy(c)'
    BY <1>7, MoneyPhases DEF AuthorizeCommit, PersistAuthorize, PersistRetry,
       PersistStudentRetry, Running
  <2>2. IntentKnown' /\ HoldSound'
    BY <1>1, <1>3, <1>5, <1>7 DEF Authorizing, IntentKnown, HoldSound
  <2>3. QED
    BY <1>2, <1>6, <2>1, <2>2 DEF MoneyKept, AtRest
<1>8. CASE work[c].at = "commit"
  <2>1. Proceed(c, [work[c] EXCEPT !.at = "persist"]) /\ booking'.status = booking.status
        /\ booking'.pay = "authorized"
    BY <1>1, <1>8 DEF AuthorizeCommit, PersistAuthorize, PersistRetry, PersistStudentRetry, Running,
       Authorized, BookingType
  <2>2. /\ work'[c].kind = work[c].kind /\ work'[c].at = "persist" /\ work'[c].ok = work[c].ok
    BY <1>1, <2>1, MoneyPhases DEF JobType
  <2>3. QED
    BY <1>1, <1>2, <1>3, <1>6, <1>8, <2>1, <2>2 DEF MoneyKept, Halfway,
       Authorizing, Busy, NoJob, Live
<1>9. QED
  BY <1>1, <1>7, <1>8

(* Whoever gives up on the payment of a PENDING booking finds an account   *)
(* that charged nothing, or by a capture job. *)
LEMMA MarkedFailedMoney ==
    ASSUME booking \in BookingType, UNCHANGED stripe, AtRest, booking.status = "PENDING",
           /\ booking'.status = "PAYMENT_FAILED" /\ booking'.pay = "settled"
           /\ booking'.outcome = "payment_failed_no_charge"
           /\ booking'.credit = booking.credit /\ booking'.intent = booking.intent
           /\ booking'.reversed = booking.reversed /\ booking'.refunded \in {0, booking.refunded}
    PROVE  AtRest'
<1>1. AccountSound' /\ LiveRow' /\ NoShowRow' /\ CancelledRow' /\ IntentKnown' /\ HoldSound'
  BY DEF AtRest, RowSound, AccountSound, LiveRow, Live, NoShowRow, CancelledRow, IntentKnown,
     HoldSound
<1>2. FailedRow'
  BY DEF AtRest, RowSound, LiveRow, Live, FailedRow
<1>3. QED
  BY <1>1, <1>2 DEF AtRest, RowSound

LEMMA AuthorizationMoney ==
    ASSUME StoreTypeOK, Faultless, NEW c \in Clients, MoneyAround(c), AuthorizationStep(c)
    PROVE  MoneyKept(c)
<1>b. booking \in BookingType
  BY DEF StoreTypeOK
<1>1. CASE ConfirmLater(c)
  <2>1. /\ ~Busy(c) /\ ~Busy(c)' /\ ~mutexKey /\ UNCHANGED stripe /\ AtRest
        /\ booking.status = "PENDING"
    BY <1>1, MoneyPhases DEF ConfirmLater, MoneyAround
  <2>2. /\ booking'.status = "CONFIRMED" /\ booking'.pay = "scheduled"
        /\ booking'.outcome = booking.outcome /\ booking'.intent = booking.intent
        /\ booking'.credit = booking.credit
        /\ booking'.reversed = booking.reversed /\ booking'.refunded = booking.refunded
    BY <1>1, <1>b DEF ConfirmLater, BookingType
  <2>3. /\ AccountSound' /\ LiveRow' /\ FailedRow' /\ NoShowRow' /\ CancelledRow'
        /\ IntentKnown' /\ HoldSound'
    BY <2>1, <2>2 DEF AtRest, RowSound, AccountSound, LiveRow, Live, FailedRow, NoShowRow,
       CancelledRow, IntentKnown, HoldSound
  <2>4. QED
    BY <2>1, <2>3 DEF MoneyKept, AtRest, RowSound
<1>2. CASE PlanMarkFailed(c)
  <2>1. work[c] = NoJob /\ work'[c].at = "planned" /\ UNCHANGED <<booking, stripe>>
    BY <1>2 DEF PlanMarkFailed, StoreTypeOK, Job
  <2>2. QED
    BY <2>1 DEF Busy, RowStays, MoneyKept
<1>3. CASE PlannedMarkFailed(c)
  <2>1. ~Busy(c) /\ ~Busy(c)' /\ UNCHANGED stripe
    BY <1>3 DEF PlannedMarkFailed, StoreTypeOK, Running, Busy
  <2>2. \/ UNCHANGED booking
        \/ ~mutexKey /\ booking.status = "PENDING" /\ booking' = MarkedFailed(booking)
    BY <1>3 DEF PlannedMarkFailed, MarkedFailed, Faultless
  <2>3. CASE UNCHANGED booking
    BY <2>1, <2>3 DEF RowStays, MoneyKept
  <2>4. CASE ~mutexKey /\ booking.status = "PENDING" /\ booking' = MarkedFailed(booking)
    <3>1. /\ booking'.status = "PAYMENT_FAILED" /\ booking'.pay = "settled"
          /\ booking'.outcome = "payment_failed_no_charge"
          /\ booking'.credit = booking.credit /\ booking'.intent = booking.intent
          /\ booking'.reversed = booking.reversed /\ booking'.refunded \in {0, booking.refunded}
      BY <1>b, <2>4 DEF MarkedFailed, BookingType
    <3>2. QED
      BY <1>b, <2>1, <2>4, <3>1, MarkedFailedMoney DEF MoneyAround, MoneyKept
  <2>5. QED
    BY <2>2, <2>3, <2>4
<1>4. CASE ImmediateTimeout(c)
  <2>1. ~Busy(c) /\ ~Busy(c)' /\ UNCHANGED stripe
    BY <1>4 DEF ImmediateTimeout, Busy
  <2> DEFINE b == [booking EXCEPT !.timer = FALSE]
  <2>2. /\ b.status = booking.status /\ b.pay = booking.pay /\ b.outcome = booking.outcome
        /\ b.intent = booking.intent /\ b.credit = booking.credit
        /\ b.authAge = booking.authAge /\ b.failAge = booking.failAge
        /\ b.reversed = booking.reversed /\ b.refunded = booking.refunded
        /\ b \in BookingType
    BY <1>b DEF BookingType
  <2>3. booking' = b \/ (~mutexKey /\ booking' = MarkedFailed(b))
    BY <1>4 DEF ImmediateTimeout, Faultless
  <2> HIDE DEF b
  <2>4. booking' = b \/ (~mutexKey /\ b.status = "PENDING" /\ booking' = MarkedFailed(b))
    BY <2>3 DEF MarkedFailed
  <2>5. CASE booking' = b
    BY <2>1, <2>2, <2>5 DEF RowStays, MoneyKept
  <2>6. CASE ~mutexKey /\ b.status = "PENDING" /\ booking' = MarkedFailed(b)
    <3>1. /\ booking'.status = "PAYMENT_FAILED" /\ booking'.pay = "settled"
          /\ booking'.outcome = "payment_failed_no_charge"
          /\ booking'.credit = booking.credit /\ booking'.intent = booking.intent
          /\ booking'.reversed = booking.reversed /\ booking'.refunded \in {0, booking.refunded}
      BY <2>2, <2>6 DEF MarkedFailed, BookingType
    <3>2. QED
      BY <1>b, <2>1, <2>2, <2>6, <3>1, MarkedFailedMoney DEF MoneyAround, MoneyKept
  <2>7. QED
    BY <2>4, <2>5, <2>6
<1>5. QED
  BY <1>1, <1>2, <1>3, <1>4, AuthorizationBegins, AuthorizeStripeMoney, AuthorizationEnds
     DEF AuthorizationStep

-----------------------------------------------------------------------------
(* Captures. *)
LEMMA CaptureBegins ==
    ASSUME StoreTypeOK, Faultless, NEW c \in Clients, MoneyAround(c),
           CaptureStart(c) \/ AutoComplete(c) \/ ExpiredCapture(c) \/ RetryCapture(c)
    PROVE  MoneyKept(c)
<1>1. /\ ~Busy(c) /\ ~mutexKey /\ AtRest /\ UNCHANGED stripe
      /\ booking \in BookingType /\ booking.intent # 0
      /\ booking.pay \in {"authorized", "payment_method_required"}
  BY MoneyPhases DEF CaptureStart, AutoComplete, ExpiredCapture, ExpiredAuth, RetryCapture, OnHold,
     MoneyAround, StoreTypeOK
<1>2. /\ work'[c].kind \in CaptureReasons /\ work'[c].at = "stripe"
      /\ work'[c].kind = "retry_failed_capture" =>
            booking.status \notin Terminal /\ booking.failAge # "none" /\ UNCHANGED booking
      /\ work'[c].kind # "retry_failed_capture" =>
            booking.pay = "authorized" /\ booking.status \in {"CONFIRMED", "COMPLETED"}
            /\ booking'.status = "COMPLETED"
  BY <1>1, MoneyPhases DEF CaptureStart, AutoComplete, ExpiredCapture, ExpiredAuth, RetryCapture,
     OnHold, Job, CaptureReasons, BookingType
<1>3. /\ booking'.intent = booking.intent /\ booking'.pay = booking.pay
      /\ booking'.outcome = booking.outcome /\ booking'.credit = booking.credit
      /\ booking'.reversed = booking.reversed /\ booking'.refunded = booking.refunded
      /\ booking'.authAge = booking.authAge /\ booking'.failAge = booking.failAge
  BY <1>1 DEF CaptureStart, AutoComplete, ExpiredCapture, RetryCapture, BookingType
<1>4. RowStays
  BY <1>1, <1>2, <1>3 DEF RowStays, CaptureStart, AutoComplete, ExpiredCapture, RetryCapture
<1>5. RowSound'
  BY <1>1, <1>4, RowFrame DEF AtRest
<1>6. booking.pay = "authorized" => stripe.pi # "captured"
  BY <1>1 DEF AtRest, HoldSound
<1>7. Collecting(work[c])'
  BY <1>1, <1>2, <1>3, <1>5, <1>6 DEF Collecting, Live, BookingType, Statuses, Terminal, AtRest,
     RowSound, NoShowRow
<1>8. QED
  BY <1>1, <1>2, <1>7 DEF MoneyKept, Halfway, Busy, NoJob

(* A hold that failed to be captured as an old authorization stays one. *)
LEMMA ExpireAuthorizationMoney ==
    ASSUME StoreTypeOK, Faultless, NEW c \in Clients, MoneyAround(c), ExpireAuthorization(c)
    PROVE  MoneyKept(c)
<1>1. /\ ~Busy(c) /\ ~Busy(c)' /\ ~mutexKey /\ AtRest /\ UNCHANGED stripe
      /\ booking \in BookingType
      /\ booking.status \in {"PENDING", "CONFIRMED"}
  <2>1. /\ ~Busy(c) /\ ~Busy(c)' /\ ~mutexKey /\ AtRest /\ UNCHANGED stripe
        /\ booking \in BookingType /\ booking.pay = "authorized"
        /\ booking.status \notin Terminal \cup {"COMPLETED"}
    BY MoneyPhases DEF ExpireAuthorization, ExpiredAuth, OnHold, MoneyAround, StoreTypeOK
  <2>2. QED
    BY <2>1 DEF BookingType, Statuses, Terminal, AtRest, RowSound, NoShowRow
<1>2. /\ booking'.status = booking.status /\ booking'.pay = "payment_method_required"
      /\ booking'.outcome = booking.outcome /\ booking'.intent = booking.intent
      /\ booking'.credit = booking.credit /\ booking'.failAge = "fresh"
      /\ booking'.reversed = booking.reversed /\ booking'.refunded = booking.refunded
  BY <1>1 DEF ExpireAuthorization, CaptureFailed, BookingType
<1>3. /\ AccountSound' /\ LiveRow' /\ FailedRow' /\ NoShowRow' /\ CancelledRow'
      /\ IntentKnown' /\ HoldSound'
  BY <1>1, <1>2 DEF AtRest, RowSound, AccountSound, LiveRow, Live, FailedRow, NoShowRow,
     CancelledRow, IntentKnown, HoldSound
<1>4. QED
  BY <1>1, <1>3 DEF MoneyKept, AtRest, RowSound

(* A worker in the middle of a capture. *)
LEMMA CollectingNow ==
    ASSUME StoreTypeOK, NEW c \in Clients, MoneyAround(c), work[c].kind \in CaptureReasons,
           work[c].at \in {"stripe", "persist", "reauth", "recapture", "recommit", "resettle",
                           "giveup"}
    PROVE  Busy(c) /\ Collecting(work[c])
<1>1. Busy(c)
  BY DEF Busy, NoJob
<1>2. QED
  BY <1>1, HalfwayKinds DEF MoneyAround

(* What the call of a capture job does to a row that stays as it is. *)
LEMMA JobCaptures ==
    ASSUME StoreTypeOK, Faultless, UNCHANGED booking, NEW i, NEW key \in JobKeys,
           NEW ok \in BOOLEAN, CaptureCall(i, key, ok),
           RowSound, booking.pay # "settled",
           booking.status = "COMPLETED" \/ booking.failAge # "none"
    PROVE  /\ RowSound'
           /\ ok => stripe'.pi = "captured"
           /\ ~ok => UNCHANGED stripe
<1>1. stripe \in StripeType
  BY DEF StoreTypeOK
<1>2. /\ ~ok => UNCHANGED stripe
      /\ ok => stripe.pi \in {"hold", "captured"} /\ stripe'.pi = "captured" /\ stripe'.by = key
      /\ stripe'.gen = stripe.gen /\ stripe'.older = stripe.older
      /\ stripe'.keyLive = stripe.keyLive
      /\ stripe'.reversedBy = stripe.reversedBy /\ stripe'.payouts = stripe.payouts
  BY <1>1, HoldCallDoes DEF CaptureCall, Faultless
<1>3. AccountSound'
  BY <1>2 DEF RowSound, AccountSound
<1>4. LiveRow'
  BY <1>2 DEF RowSound, LiveRow, Live
<1>5. FailedRow' /\ NoShowRow' /\ CancelledRow'
  BY <1>2 DEF RowSound, FailedRow, NoShowRow, CancelledRow
<1>6. QED
  BY <1>2, <1>3, <1>4, <1>5 DEF RowSound

LEMMA CaptureStripeMoney ==
    ASSUME StoreTypeOK, Faultless, NEW c \in Clients, MoneyAround(c), CaptureStripe(c)
    PROVE  MoneyKept(c)
<1>1. /\ work[c].kind \in CaptureReasons /\ work[c].at = "stripe"
      /\ UNCHANGED booking /\ work[c] \in JobType
  BY DEF CaptureStripe, Running, StoreTypeOK
<1>2. Busy(c) /\ Collecting(work[c])
  BY <1>1, CollectingNow
<1>3. PICK ok \in BOOLEAN :
         /\ CaptureCall(work[c].intent, work[c].kind, ok)
         /\ Proceed(c, [work[c] EXCEPT !.ok = ok, !.at = "persist"])
  BY DEF CaptureStripe
<1>4. work'[c].kind = work[c].kind /\ work'[c].ok = ok /\ work'[c].at = "persist"
  <2> DEFINE next == [work[c] EXCEPT !.ok = ok, !.at = "persist"]
  <2>1. next.kind = work[c].kind /\ next.ok = ok /\ next.at = "persist"
    BY <1>1 DEF JobType
  <2>2. Proceed(c, next)
    BY <1>3
  <2> HIDE DEF next
  <2>3. QED
    BY <2>1, <2>2, MoneyPhases
<1>5. /\ RowSound'
      /\ ok => stripe'.pi = "captured"
      /\ ~ok => UNCHANGED stripe
  <2>1. RowSound /\ booking.pay # "settled"
        /\ (booking.status = "COMPLETED" \/ booking.failAge # "none")
    BY <1>2 DEF Collecting
  <2>2. work[c].kind \in JobKeys
    BY <1>1 DEF JobKeys
  <2>3. QED
    BY <1>1, <1>3, <2>1, <2>2, JobCaptures
<1>6. Collecting(work[c])'
  BY <1>1, <1>2, <1>4, <1>5 DEF Collecting, Live
<1>7. QED
  BY <1>1, <1>2, <1>4, <1>6 DEF MoneyKept, Halfway, Busy, NoJob

(* A captured lesson is settled, and a completed one is paid in full; what *)
(* was not captured is due again.                                          *)
LEMMA CaptureResultMoney ==
    ASSUME StoreTypeOK, UNCHANGED stripe, RowSound, Live, booking.intent # 0,
           \/ /\ stripe.pi = "captured" /\ booking'.pay = "settled"
              /\ booking'.outcome = IF booking.status = "COMPLETED" THEN InstructorPaid
                                                                    ELSE booking.outcome
              /\ booking'.failAge = booking.failAge
           \/ /\ booking'.pay = "payment_method_required"
              /\ booking'.outcome = booking.outcome
              /\ booking'.failAge = "fresh",
           booking'.status = booking.status, booking'.credit = booking.credit,
           booking'.reversed = booking.reversed, booking'.refunded \in {0, booking.refunded},
           booking'.intent # 0
    PROVE  AtRest'
<1>1. AccountSound' /\ IntentKnown' /\ HoldSound' /\ Live'
  BY DEF RowSound, AccountSound, Live, IntentKnown, HoldSound
<1>2. LiveRow'
  BY DEF RowSound, LiveRow, Live
<1>3. FailedRow' /\ NoShowRow' /\ CancelledRow'
  BY DEF Live, FailedRow, NoShowRow, CancelledRow
<1>4. QED
  BY <1>1, <1>2, <1>3 DEF AtRest, RowSound

LEMMA PersistCaptureMoney ==
    ASSUME StoreTypeOK, Faultless, NEW c \in Clients, MoneyAround(c),
           PersistCapture(c) \/ PersistReauth(c) \/ ReauthFailed(c)
    PROVE  MoneyKept(c)
<1>1. /\ work[c].kind \in CaptureReasons /\ work[c].at \in {"persist", "resettle", "giveup"}
      /\ UNCHANGED stripe /\ booking \in BookingType /\ work[c] \in JobType
  BY DEF PersistCapture, PersistReauth, ReauthFailed, Running, CaptureReasons, StoreTypeOK
<1>2. Busy(c) /\ Collecting(work[c])
  BY <1>1, CollectingNow
<1>3. ~Busy(c)'
  BY MoneyPhases DEF PersistCapture, PersistReauth, ReauthFailed
<1>4. RowSound /\ Live /\ booking.intent # 0
  BY <1>2 DEF Collecting, Live
<1>5. AtRest'
  <2>1. CASE PersistCapture(c)
    <3>1. work[c].ok => stripe.pi = "captured"
      BY <1>2, <2>1 DEF Collecting, PersistCapture, Running
    <3>2. /\ booking'.status = booking.status /\ booking'.credit = booking.credit
          /\ booking'.reversed = booking.reversed /\ booking'.refunded \in {0, booking.refunded}
          /\ booking'.intent = booking.intent
          /\ IF work[c].ok
             THEN /\ booking'.pay = "settled" /\ booking'.failAge = booking.failAge
                  /\ booking'.outcome = IF booking.status = "COMPLETED" THEN InstructorPaid
                                                                        ELSE booking.outcome
             ELSE /\ booking'.pay = "payment_method_required" /\ booking'.failAge = "fresh"
                  /\ booking'.outcome = booking.outcome
      BY <1>1, <2>1 DEF PersistCapture, CaptureResult, CaptureSettled, CaptureFailed, BookingType,
         InstructorPaid
    <3>3. QED
      BY <1>1, <1>4, <3>1, <3>2, CaptureResultMoney
  <2>2. CASE PersistReauth(c)
    <3>1. stripe.pi = "captured" /\ work[c].intent # 0
      BY <1>2, <2>2 DEF Collecting, PersistReauth, Running
    <3> DEFINE b == [booking EXCEPT !.intent = work[c].intent]
    <3>2. /\ b.status = booking.status /\ b.pay = booking.pay /\ b.outcome = booking.outcome
          /\ b.credit = booking.credit /\ b.failAge = booking.failAge
          /\ b.reversed = booking.reversed /\ b.refunded = booking.refunded
          /\ b.intent = work[c].intent /\ b \in BookingType
      BY <1>1 DEF BookingType, JobType
    <3>3. booking' = CaptureSettled(b)
      BY <2>2 DEF PersistReauth
    <3> HIDE DEF b
    <3>4. /\ booking'.status = booking.status /\ booking'.credit = booking.credit
          /\ booking'.reversed = booking.reversed /\ booking'.refunded \in {0, booking.refunded}
          /\ booking'.intent # 0
          /\ booking'.pay = "settled" /\ booking'.failAge = booking.failAge
          /\ booking'.outcome = IF booking.status = "COMPLETED" THEN InstructorPaid
                                                                ELSE booking.outcome
      BY <3>1, <3>2, <3>3 DEF CaptureSettled, BookingType, InstructorPaid
    <3>5. QED
      BY <1>1, <1>4, <3>1, <3>4, CaptureResultMoney
  <2>3. CASE ReauthFailed(c)
    <3>1. UNCHANGED booking /\ booking.pay = "payment_method_required"
      BY <1>2, <2>3 DEF Collecting, ReauthFailed, Running
    <3>2. RowStays
      BY <1>1, <3>1 DEF RowStays
    <3>3. QED
      BY <1>4, <3>1, <3>2, RowFrame DEF AtRest, IntentKnown, HoldSound
  <2>4. QED
    BY <2>1, <2>2, <2>3
<1>6. QED
  BY <1>2, <1>3, <1>5 DEF MoneyKept

(* The reauthorization.  It is reached by a hold only, so the second       *)
(* intent never follows a charge.                                          *)
LEMMA ReauthorizeMoney ==
    ASSUME StoreTypeOK, Faultless, NEW c \in Clients, MoneyAround(c), Reauthorize(c)
    PROVE  MoneyKept(c)
<1>1. /\ work[c].kind = "expired_auth" /\ work[c].at = "reauth"
      /\ UNCHANGED booking /\ work[c] \in JobType /\ stripe \in StripeType
  BY DEF Reauthorize, Running, StoreTypeOK
<1>2. Busy(c) /\ Collecting(work[c])
  BY <1>1, CollectingNow DEF CaptureReasons
<1>3. PICK ok \in BOOLEAN :
         /\ CreateCall(ok)
         /\ Proceed(c, [work[c] EXCEPT !.at = IF ok THEN "recapture" ELSE "giveup",
                                       !.intent = IF ok THEN stripe'.gen ELSE @])
  BY DEF Reauthorize
<1>4. /\ work'[c].kind = "expired_auth"
      /\ work'[c].at = IF ok THEN "recapture" ELSE "giveup"
      /\ ok => work'[c].intent = stripe'.gen
  <2> DEFINE next == [work[c] EXCEPT !.at = IF ok THEN "recapture" ELSE "giveup",
                                     !.intent = IF ok THEN stripe'.gen ELSE @]
  <2>1. /\ next.kind = "expired_auth"
        /\ next.at = IF ok THEN "recapture" ELSE "giveup"
        /\ ok => next.intent = stripe'.gen
    BY <1>1 DEF JobType
  <2>2. Proceed(c, next)
    BY <1>3
  <2> HIDE DEF next
  <2>3. QED
    BY <2>1, <2>2, MoneyPhases
<1>5. /\ RowSound /\ stripe.pi \notin {"captured", "partly_refunded"}
      /\ booking.pay = "payment_method_required"
      /\ booking.status = "COMPLETED" /\ booking.intent # 0
  BY <1>1, <1>2 DEF Collecting, RowSound, LiveRow, Live
<1>6. /\ RowSound'
      /\ ok => stripe'.pi = "hold" /\ stripe'.gen # 0
      /\ ~ok => UNCHANGED stripe
  <2>1. \/ UNCHANGED stripe /\ (ok => stripe.keyLive)
        \/ /\ ok
           /\ stripe'.gen = stripe.gen + 1 /\ stripe'.pi = "hold"
           /\ stripe'.reversedBy = "none" /\ stripe'.payouts = stripe.payouts
           /\ stripe'.older = stripe.older
    BY <1>1, <1>3, <1>5, CreateCallDoes DEF Faultless
  <2>2. CASE UNCHANGED stripe /\ (ok => stripe.keyLive)
    <3>1. ok => stripe.pi = "hold" /\ stripe.gen # 0
      BY <1>5, <2>2 DEF RowSound, AccountSound, LiveRow, Live
    <3>2. RowSound'
      BY <1>1, <1>5, <2>2, RowFrame DEF RowStays
    <3>3. QED
      BY <2>2, <3>1, <3>2
  <2>3. CASE /\ ok
             /\ stripe'.gen = stripe.gen + 1 /\ stripe'.pi = "hold"
             /\ stripe'.reversedBy = "none" /\ stripe'.payouts = stripe.payouts
             /\ stripe'.older = stripe.older
    <3>1. stripe'.gen # 0 /\ "half" \notin stripe.payouts
      BY <1>1, <1>5, <2>3 DEF StripeType, MaxIntents, RowSound, AccountSound, LiveRow, Live
    <3>2. AccountSound' /\ LiveRow' /\ FailedRow' /\ NoShowRow' /\ CancelledRow'
      BY <1>1, <1>5, <2>3, <3>1 DEF RowSound, AccountSound, LiveRow, Live, FailedRow, NoShowRow,
         CancelledRow
    <3>3. QED
      BY <2>3, <3>1, <3>2 DEF RowSound
  <2>4. QED
    BY <2>1, <2>2, <2>3
<1>7. Collecting(work[c])'
  BY <1>1, <1>4, <1>5, <1>6 DEF Collecting
<1>8. QED
  BY <1>2, <1>4, <1>7 DEF MoneyKept, Halfway, Busy, NoJob, CaptureReasons

(* The failed capture of an old hold goes on to the reauthorization. *)
LEMMA PersistExpiredMoney ==
    ASSUME StoreTypeOK, Faultless, NEW c \in Clients, MoneyAround(c), PersistExpired(c)
    PROVE  MoneyKept(c)
<1>1. /\ work[c].kind = "expired_auth" /\ work[c].at = "persist" /\ ~work[c].ok
      /\ UNCHANGED stripe /\ booking \in BookingType /\ work[c] \in JobType
  BY DEF PersistExpired, Running, Reauthorizes, StoreTypeOK
<1>2. Busy(c) /\ Collecting(work[c])
  BY <1>1, CollectingNow DEF CaptureReasons
<1>3. work'[c].kind = "expired_auth" /\ work'[c].at = "reauth"
  BY <1>1, MoneyPhases DEF PersistExpired, JobType
<1>4. /\ booking'.status = booking.status /\ booking'.pay = "payment_method_required"
      /\ booking'.outcome = booking.outcome /\ booking'.intent = booking.intent
      /\ booking'.credit = booking.credit /\ booking'.failAge = "fresh"
      /\ booking'.reversed = booking.reversed /\ booking'.refunded = booking.refunded
  BY <1>1 DEF PersistExpired, CaptureResult, CaptureFailed, BookingType
<1>5. RowSound /\ booking.status = "COMPLETED" /\ booking.intent # 0 /\ stripe.pi # "captured"
  BY <1>1, <1>2 DEF Collecting
<1>6. AccountSound' /\ LiveRow' /\ FailedRow' /\ NoShowRow' /\ CancelledRow'
  BY <1>1, <1>4, <1>5 DEF RowSound, AccountSound, LiveRow, Live, FailedRow, NoShowRow, CancelledRow
<1>7. Collecting(work[c])'
  BY <1>1, <1>3, <1>4, <1>5, <1>6 DEF Collecting, RowSound
<1>8. QED
  BY <1>2, <1>3, <1>7 DEF MoneyKept, Halfway, Busy, NoJob, CaptureReasons

LEMMA RecaptureMoney ==
    ASSUME StoreTypeOK, Faultless, NEW c \in Clients, MoneyAround(c), Recapture(c)
    PROVE  MoneyKept(c)
<1>1. /\ work[c].kind = "expired_auth" /\ work[c].at = "recapture"
      /\ UNCHANGED booking /\ work[c] \in JobType
  BY DEF Recapture, Running, StoreTypeOK
<1>2. Busy(c) /\ Collecting(work[c])
  BY <1>1, CollectingNow DEF CaptureReasons
<1>3. PICK ok \in BOOLEAN :
         /\ CaptureCall(work[c].intent, "reauth", ok)
         /\ Proceed(c, [work[c] EXCEPT !.at = IF ok THEN "recommit" ELSE "giveup"])
  BY DEF Recapture
<1>4. /\ work'[c].kind = "expired_auth" /\ work'[c].intent = work[c].intent
      /\ work'[c].at = IF ok THEN "recommit" ELSE "giveup"
  <2> DEFINE next == [work[c] EXCEPT !.at = IF ok THEN "recommit" ELSE "giveup"]
  <2>1. /\ next.kind = "expired_auth" /\ next.intent = work[c].intent
        /\ next.at = IF ok THEN "recommit" ELSE "giveup"
    BY <1>1 DEF JobType
  <2>2. Proceed(c, next)
    BY <1>3
  <2> HIDE DEF next
  <2>3. QED
    BY <2>1, <2>2, MoneyPhases
<1>5. /\ RowSound /\ stripe.pi = "hold" /\ booking.pay = "payment_method_required"
      /\ booking.status = "COMPLETED" /\ booking.intent # 0 /\ work[c].intent # 0
  BY <1>1, <1>2 DEF Collecting
<1>6. /\ RowSound'
      /\ ok => stripe'.pi = "captured"
      /\ ~ok => UNCHANGED stripe
  <2>1. "reauth" \in JobKeys
    BY DEF JobKeys
  <2>2. QED
    BY <1>1, <1>3, <1>5, <2>1, JobCaptures
<1>7. Collecting(work[c])'
  BY <1>1, <1>4, <1>5, <1>6 DEF Collecting
<1>8. QED
  BY <1>2, <1>4, <1>7 DEF MoneyKept, Halfway, Busy, NoJob, CaptureReasons

LEMMA RecaptureCommitMoney ==
    ASSUME StoreTypeOK, Faultless, NEW c \in Clients, MoneyAround(c), RecaptureCommit(c)
    PROVE  MoneyKept(c)
<1>1. /\ work[c].kind = "expired_auth" /\ work[c].at = "recommit"
      /\ UNCHANGED stripe /\ booking \in BookingType /\ work[c] \in JobType
  BY DEF RecaptureCommit, Running, StoreTypeOK
<1>2. Busy(c) /\ Collecting(work[c])
  BY <1>1, CollectingNow DEF CaptureReasons
<1>3. /\ work'[c].kind = "expired_auth" /\ work'[c].at = "resettle"
      /\ work'[c].intent = work[c].intent
  BY <1>1, MoneyPhases DEF RecaptureCommit, JobType
<1>4. /\ booking'.status = booking.status /\ booking'.pay = "authorized"
      /\ booking'.outcome = booking.outcome /\ booking'.intent = work[c].intent
      /\ booking'.credit = booking.credit /\ booking'.failAge = booking.failAge
      /\ booking'.reversed = booking.reversed /\ booking'.refunded = booking.refunded
  BY <1>1 DEF RecaptureCommit, BookingType
<1>5. RowSound /\ booking.status = "COMPLETED" /\ work[c].intent # 0 /\ stripe.pi = "captured"
  BY <1>1, <1>2 DEF Collecting
<1>6. AccountSound' /\ LiveRow' /\ FailedRow' /\ NoShowRow' /\ CancelledRow'
  BY <1>1, <1>4, <1>5 DEF RowSound, AccountSound, LiveRow, Live, FailedRow, NoShowRow, CancelledRow
<1>7. Collecting(work[c])'
  BY <1>1, <1>3, <1>4, <1>5, <1>6 DEF Collecting, RowSound
<1>8. QED
  BY <1>2, <1>3, <1>7 DEF MoneyKept, Halfway, Busy, NoJob, CaptureReasons

(* The escalation pays the instructor from the platform and never touches  *)
(* the charge.                                                             *)
LEMMA EscalationMoney ==
    ASSUME StoreTypeOK, Faultless, NEW c \in Clients, MoneyAround(c),
           EscalateStart(c) \/ EscalateStripe(c) \/ PersistEscalate(c)
    PROVE  MoneyKept(c)
<1>b. booking \in BookingType /\ stripe \in StripeType /\ work[c] \in JobType
  BY DEF StoreTypeOK
<1>1. CASE EscalateStart(c)
  <2>1. /\ ~mutexKey /\ UNCHANGED <<booking, stripe>> /\ AtRest
        /\ booking.pay = "payment_method_required"
        /\ work'[c].kind = "escalate" /\ work'[c].at = "stripe"
    BY <1>1, MoneyPhases DEF EscalateStart, MoneyAround, Job
  <2>2. AtRest'
    BY <2>1, RowFrame DEF RowStays
  <2>3. QED
    BY <2>1, <2>2 DEF MoneyKept, Halfway, Busy, NoJob
<1>2. CASE EscalateStripe(c)
  <2>1. /\ work[c].kind = "escalate" /\ UNCHANGED booking /\ Busy(c)
    <3>1. work[c].kind = "escalate" /\ work[c].at = "stripe" /\ UNCHANGED booking
      BY <1>2 DEF EscalateStripe, Running
    <3>2. QED
      BY <3>1 DEF Busy, NoJob
  <2>2. AtRest /\ booking.pay = "payment_method_required"
    BY <2>1, HalfwayKinds DEF MoneyAround
  <2>3. PICK ok \in BOOLEAN :
           /\ PayoutCall("full", ok)
           /\ Proceed(c, [work[c] EXCEPT !.ok = ok, !.at = "persist"])
    BY <1>2 DEF EscalateStripe
  <2>4. work'[c].kind = "escalate" /\ work'[c].at = "persist"
    BY <1>b, <2>1, <2>3, MoneyPhases DEF JobType
  <2>5. /\ stripe'.pi = stripe.pi /\ stripe'.by = stripe.by
        /\ stripe'.gen = stripe.gen /\ stripe'.older = stripe.older
        /\ stripe'.keyLive = stripe.keyLive /\ stripe'.reversedBy = stripe.reversedBy
        /\ "half" \in stripe'.payouts <=> "half" \in stripe.payouts
    BY <1>b, <2>3, PayoutCallDoes DEF Faultless
  <2>6. /\ AccountSound' /\ LiveRow' /\ FailedRow' /\ NoShowRow' /\ CancelledRow'
        /\ IntentKnown' /\ HoldSound'
    BY <2>1, <2>2, <2>5 DEF AtRest, RowSound, AccountSound, LiveRow, Live, FailedRow, NoShowRow,
       CancelledRow, Deal, Uncharged, GivenBack, KeptWhole, TransferWhole, Given, IntentKnown,
       HoldSound
  <2>7. QED
    BY <2>1, <2>2, <2>4, <2>6 DEF MoneyKept, Halfway, Busy, NoJob, AtRest, RowSound
<1>3. CASE PersistEscalate(c)
  <2>1. work[c].kind = "escalate" /\ UNCHANGED stripe /\ Busy(c) /\ ~Busy(c)'
    BY <1>3, MoneyPhases DEF PersistEscalate, Running, Busy, NoJob
  <2>2. AtRest /\ booking.pay = "payment_method_required"
    BY <2>1, HalfwayKinds DEF MoneyAround
  <2>3. /\ booking'.status = booking.status /\ booking'.pay = "manual_review"
        /\ booking'.outcome \in Undecided /\ booking'.outcome \notin {"none"}
        /\ booking'.intent = booking.intent
        /\ booking'.credit = booking.credit /\ booking'.failAge = booking.failAge
        /\ booking'.reversed = booking.reversed /\ booking'.refunded \in {0, booking.refunded}
    BY <1>3, <1>b DEF PersistEscalate, BookingType, Undecided
  <2>4. AccountSound' /\ LiveRow' /\ FailedRow' /\ IntentKnown' /\ HoldSound'
    BY <2>1, <2>2, <2>3 DEF AtRest, RowSound, AccountSound, LiveRow, Live, FailedRow,
       IntentKnown, HoldSound
  <2>5. NoShowRow' /\ CancelledRow'
    BY <2>1, <2>2, <2>3 DEF AtRest, RowSound, NoShowRow, CancelledRow, Undecided, InstructorPaid
  <2>6. QED
    BY <2>1, <2>4, <2>5 DEF MoneyKept, AtRest, RowSound
<1>4. QED
  BY <1>1, <1>2, <1>3

LEMMA CaptureMoney ==
    ASSUME StoreTypeOK, Faultless, NEW c \in Clients, MoneyAround(c), CaptureStep(c)
    PROVE  MoneyKept(c)
  BY CaptureBegins, ExpireAuthorizationMoney, CaptureStripeMoney, PersistCaptureMoney,
     PersistExpiredMoney, ReauthorizeMoney, RecaptureMoney, RecaptureCommitMoney, EscalationMoney
     DEF CaptureStep

-----------------------------------------------------------------------------
(* Cancellations. *)
LEMMA CancelsNow ==
    ASSUME NEW c \in Clients, MoneyAround(c), work[c].kind \in Scenarios,
           work[c].at \in {"stripe", "refund", "details", "reverse", "payout", "persist"}
    PROVE  Busy(c) /\ Cancels(work[c])
<1>1. Busy(c)
  BY DEF Busy, NoJob
<1>2. QED
  BY <1>1, HalfwayKinds DEF MoneyAround

LEMMA CancelBegins ==
    ASSUME StoreTypeOK, Faultless, NEW c \in Clients, NEW role \in Roles, MoneyAround(c),
           CancelStart(c, role)
    PROVE  MoneyKept(c)
<1> DEFINE s == Scenario(role)
           first == FirstStep(s)
<1>1. /\ ~mutexKey /\ AtRest /\ UNCHANGED <<booking, stripe>>
      /\ booking.status \in {"PENDING", "CONFIRMED"}
      /\ work'[c] = Job(s, first)
  BY MoneyPhases DEF CancelStart, MoneyAround
<1>2. s \in Scenarios /\ (s = "pending_payment" => booking.intent = 0)
  BY DEF Scenario, Scenarios, PendingPayment
<1>3. first \in {"stripe", "refund", "details", "persist"}
  BY DEF FirstStep
<1> HIDE DEF s, first
<1>4. /\ work'[c].kind = s /\ work'[c].at = first /\ work'[c].intent = booking.intent
      /\ ~work'[c].ok /\ work'[c].rev = "untried" /\ ~work'[c].paid
      /\ first = "refund" => work'[c].refund = Whole
  BY <1>1 DEF Job
<1>5. /\ Live /\ AccountSound /\ IntentKnown /\ booking.outcome \in Undecided
      /\ booking.credit = 0 /\ ~booking.reversed /\ stripe.reversedBy = "none"
  BY <1>1 DEF AtRest, RowSound, LiveRow, Live
<1>6. Cancels(work[c])'
  BY <1>1, <1>2, <1>3, <1>4, <1>5 DEF Cancels, Live, AccountSound, IntentKnown
<1>7. QED
  BY <1>1, <1>2, <1>3, <1>4, <1>6 DEF MoneyKept, Halfway, Busy, NoJob

(* The calls of a cancellation that give the money back. *)
LEMMA CancelGivesBackMoney ==
    ASSUME StoreTypeOK, Faultless, NEW c \in Clients, MoneyAround(c),
           CancelVoid(c) \/ CancelRefund(c)
    PROVE  MoneyKept(c)
<1>1. /\ work[c].kind \in Voiding /\ work[c].at \in {"stripe", "refund"}
      /\ UNCHANGED booking /\ work[c] \in JobType /\ stripe \in StripeType
  BY DEF CancelVoid, CancelRefund, Running, Voiding, StoreTypeOK
<1>s. work[c].kind \in Scenarios
  BY <1>1 DEF Voiding, Scenarios
<1>2. Busy(c) /\ Cancels(work[c])
  BY <1>1, <1>s, CancelsNow
<1>3. PICK ok \in BOOLEAN :
         /\ \/ VoidCall(work[c].intent, work[c].kind, ok)
            \/ /\ work[c].at = "refund"
               /\ RefundCall(work[c].intent, "instructor", work[c].refund, ok)
         /\ Proceed(c, [work[c] EXCEPT !.ok = ok, !.at = "persist"])
  BY DEF CancelVoid, CancelRefund, Running
<1>4. /\ work'[c].kind = work[c].kind /\ work'[c].at = "persist" /\ work'[c].ok = ok
      /\ work'[c].intent = work[c].intent
      /\ work'[c].rev = work[c].rev /\ work'[c].paid = work[c].paid
  <2> DEFINE next == [work[c] EXCEPT !.ok = ok, !.at = "persist"]
  <2>1. /\ next.kind = work[c].kind /\ next.at = "persist" /\ next.ok = ok
        /\ next.intent = work[c].intent
        /\ next.rev = work[c].rev /\ next.paid = work[c].paid
    BY <1>1 DEF JobType
  <2>2. Proceed(c, next)
    BY <1>3
  <2> HIDE DEF next
  <2>3. QED
    BY <2>1, <2>2, MoneyPhases
<1>5. /\ ~ok => UNCHANGED stripe
      /\ ok => stripe'.pi \in {"void", "refunded"} /\ stripe.pi # "none"
      /\ stripe'.gen = stripe.gen /\ stripe'.older = stripe.older
      /\ stripe'.reversedBy = stripe.reversedBy /\ stripe'.payouts = stripe.payouts
  <2>1. CASE VoidCall(work[c].intent, work[c].kind, ok)
    BY <1>1, <2>1, HoldCallDoes DEF VoidCall, Faultless
  <2>2. CASE /\ work[c].at = "refund"
             /\ RefundCall(work[c].intent, "instructor", work[c].refund, ok)
    <3>1. work[c].refund = Whole
      BY <1>2, <2>2 DEF Cancels
    <3>2. QED
      BY <1>1, <2>2, <3>1, RefundCallDoes DEF Faultless
  <2>3. QED
    BY <1>3, <2>1, <2>2
<1>n. stripe.reversedBy = "none"
  <2>1. stripe.reversedBy \in {"none", work[c].kind}
    BY <1>2 DEF Cancels
  <2>2. QED
    BY <1>1, <2>1 DEF StripeType, ReverseKeys, Voiding
<1>6. AccountSound'
  BY <1>2, <1>5, <1>n DEF Cancels, AccountSound
<1>7. Cancels(work[c])'
  <2>1. Live' /\ IntentKnown'
    BY <1>1, <1>2, <1>5 DEF Cancels, Live, IntentKnown
  <2>2. work[c].rev # "done" /\ work[c].kind \notin Capturing \cup {"pending_payment"}
    BY <1>1, <1>2, <1>n DEF Cancels, Voiding, Capturing
  <2>3. /\ work'[c].ok => stripe'.pi \in {"void", "refunded"}
        /\ stripe'.reversedBy = "none"
        /\ work'[c].paid => "half" \in stripe'.payouts
    BY <1>2, <1>4, <1>5, <1>n DEF Cancels
  <2>4. QED
    BY <1>1, <1>2, <1>4, <1>6, <2>1, <2>2, <2>3 DEF Cancels
<1>8. QED
  BY <1>1, <1>s, <1>2, <1>4, <1>7 DEF MoneyKept, Halfway, Busy, NoJob

(* The calls that take the money: the capture, the reversal of its         *)
(* transfer and the payout of the half.                                    *)
LEMMA CancelTakesMoney ==
    ASSUME StoreTypeOK, Faultless, NEW c \in Clients, MoneyAround(c),
           CancelCapture(c) \/ CancelDetails(c)
    PROVE  MoneyKept(c)
<1>1. /\ work[c].kind \in Capturing /\ work[c].at \in {"stripe", "details"}
      /\ UNCHANGED booking /\ work[c] \in JobType /\ stripe \in StripeType
  BY DEF CancelCapture, CancelDetails, Running, StoreTypeOK
<1>s. work[c].kind \in Scenarios /\ work[c].kind \notin Voiding \cup {"pending_payment"}
  BY <1>1 DEF Capturing, Scenarios, Voiding
<1>2. Busy(c) /\ Cancels(work[c])
  BY <1>1, <1>s, CancelsNow
<1>3. PICK ok \in BOOLEAN :
         /\ \/ CaptureCall(work[c].intent, work[c].kind, ok)
            \/ UNCHANGED stripe /\ (ok => stripe.pi = "captured")
         /\ Proceed(c, [work[c] EXCEPT !.ok = ok,
                                       !.at = IF ok THEN "reverse" ELSE "persist"])
  BY DEF CancelCapture, CancelDetails
<1>4. /\ work'[c].kind = work[c].kind /\ work'[c].at = IF ok THEN "reverse" ELSE "persist"
      /\ work'[c].intent = work[c].intent /\ work'[c].ok = ok
      /\ work'[c].rev = work[c].rev /\ work'[c].paid = work[c].paid
  <2> DEFINE next == [work[c] EXCEPT !.ok = ok, !.at = IF ok THEN "reverse" ELSE "persist"]
  <2>1. /\ next.kind = work[c].kind /\ next.at = IF ok THEN "reverse" ELSE "persist"
        /\ next.intent = work[c].intent /\ next.ok = ok
        /\ next.rev = work[c].rev /\ next.paid = work[c].paid
    BY <1>1 DEF JobType
  <2>2. Proceed(c, next)
    BY <1>3
  <2> HIDE DEF next
  <2>3. QED
    BY <2>1, <2>2, MoneyPhases
<1>5. \/ UNCHANGED stripe /\ (ok => stripe.pi = "captured")
      \/ /\ stripe'.pi = "captured" /\ stripe.pi \in {"hold", "captured"}
         /\ stripe'.gen = stripe.gen /\ stripe'.older = stripe.older
         /\ stripe'.reversedBy = stripe.reversedBy /\ stripe'.payouts = stripe.payouts
  BY <1>1, <1>3, HoldCallDoes DEF CaptureCall, Faultless
<1>6. /\ AccountSound' /\ stripe'.reversedBy = stripe.reversedBy
      /\ stripe'.payouts = stripe.payouts /\ stripe'.gen = stripe.gen
      /\ ok => stripe'.pi = "captured"
  BY <1>2, <1>5 DEF Cancels, AccountSound
<1>7. Cancels(work[c])'
  <2>1. Live' /\ IntentKnown'
    BY <1>1, <1>2, <1>6 DEF Cancels, Live, IntentKnown
  <2>2. /\ IF work'[c].rev = "done" THEN stripe'.reversedBy = work'[c].kind
                                    ELSE stripe'.reversedBy = "none"
        /\ work'[c].paid => "half" \in stripe'.payouts
    BY <1>2, <1>4, <1>6 DEF Cancels
  <2>3. QED
    BY <1>1, <1>s, <1>2, <1>4, <1>6, <2>1, <2>2 DEF Cancels
<1>8. QED
  BY <1>1, <1>s, <1>2, <1>4, <1>7 DEF MoneyKept, Halfway, Busy, NoJob

LEMMA CancelReverseMoney ==
    ASSUME StoreTypeOK, Faultless, NEW c \in Clients, MoneyAround(c),
           CancelReverse(c) \/ CancelNoAmount(c)
    PROVE  MoneyKept(c)
<1>1. /\ work[c].kind \in Capturing /\ work[c].at = "reverse"
      /\ UNCHANGED booking /\ work[c] \in JobType /\ stripe \in StripeType
  BY DEF CancelReverse, CancelNoAmount, Running, Capturing, StoreTypeOK
<1>s. work[c].kind \in Scenarios /\ work[c].kind \notin Voiding \cup {"pending_payment"}
  BY <1>1 DEF Capturing, Scenarios, Voiding
<1>2. Busy(c) /\ Cancels(work[c])
  BY <1>1, <1>s, CancelsNow
<1>3. CASE CancelReverse(c)
  <2>1. PICK ok \in BOOLEAN :
           /\ ReverseCall(work[c].intent, work[c].kind, ok)
           /\ Proceed(c, [work[c] EXCEPT !.rev = IF ok THEN "done" ELSE "failed",
                                         !.at = AfterReversal(work[c], ok)])
    BY <1>3 DEF CancelReverse
  <2>2. /\ work'[c].kind = work[c].kind
        /\ work'[c].at = IF ok /\ work[c].kind = "under" THEN "payout" ELSE "persist"
        /\ work'[c].intent = work[c].intent /\ work'[c].ok = work[c].ok
        /\ work'[c].rev = IF ok THEN "done" ELSE "failed"
        /\ work'[c].paid = work[c].paid
    <3> DEFINE next == [work[c] EXCEPT !.rev = IF ok THEN "done" ELSE "failed",
                                       !.at = AfterReversal(work[c], ok)]
    <3>1. /\ next.kind = work[c].kind
          /\ next.at = IF ok /\ work[c].kind = "under" THEN "payout" ELSE "persist"
          /\ next.intent = work[c].intent /\ next.ok = work[c].ok
          /\ next.rev = IF ok THEN "done" ELSE "failed"
          /\ next.paid = work[c].paid
      BY <1>1 DEF JobType, AfterReversal
    <3>2. Proceed(c, next)
      BY <2>1
    <3> HIDE DEF next
    <3>3. QED
      BY <3>1, <3>2, MoneyPhases
  <2>3. /\ ~ok => UNCHANGED stripe
        /\ ok => stripe'.reversedBy = work[c].kind
        /\ stripe'.pi = stripe.pi /\ stripe'.gen = stripe.gen /\ stripe'.older = stripe.older
        /\ stripe'.payouts = stripe.payouts
    BY <1>1, <2>1, ReverseCallDoes DEF Faultless
  <2>4. work[c].ok /\ stripe.pi = "captured"
    BY <1>1, <1>2 DEF Cancels
  <2>5. stripe.reversedBy \in {"none", work[c].kind}
    BY <1>2 DEF Cancels
  <2>6. AccountSound'
    BY <1>1, <1>2, <2>3, <2>4, <2>5 DEF Cancels, AccountSound
  <2>7. stripe'.reversedBy = IF ok THEN work[c].kind ELSE stripe.reversedBy
    BY <2>3
  <2>8. ~ok => stripe.reversedBy = "none"
    BY <2>1, <2>5 DEF ReverseCall, Fails, TakesEffect, Replays, Faultless
  <2>9. Cancels(work[c])'
    BY <1>1, <1>s, <1>2, <2>2, <2>3, <2>4, <2>6, <2>7, <2>8 DEF Cancels, Live, IntentKnown
  <2>10. QED
    BY <1>1, <1>s, <1>2, <2>2, <2>9 DEF MoneyKept, Halfway, Busy, NoJob
<1>4. CASE CancelNoAmount(c)
  <2>1. Proceed(c, [work[c] EXCEPT !.at = "persist"]) /\ UNCHANGED stripe
    BY <1>4 DEF CancelNoAmount
  <2>2. /\ work'[c].kind = work[c].kind /\ work'[c].at = "persist"
        /\ work'[c].intent = work[c].intent /\ work'[c].paid = work[c].paid
        /\ work'[c].ok = work[c].ok /\ work'[c].rev = work[c].rev
    <3> DEFINE next == [work[c] EXCEPT !.at = "persist"]
    <3>1. /\ next.kind = work[c].kind /\ next.at = "persist"
          /\ next.intent = work[c].intent /\ next.paid = work[c].paid
          /\ next.ok = work[c].ok /\ next.rev = work[c].rev
      BY <1>1 DEF JobType
    <3>2. Proceed(c, next)
      BY <2>1
    <3> HIDE DEF next
    <3>3. QED
      BY <3>1, <3>2, MoneyPhases
  <2>3. Cancels(work[c])'
    BY <1>1, <1>s, <1>2, <2>1, <2>2 DEF Cancels, Live, IntentKnown, AccountSound
  <2>4. QED
    BY <1>1, <1>s, <1>2, <2>2, <2>3 DEF MoneyKept, Halfway, Busy, NoJob
<1>5. QED
  BY <1>3, <1>4

LEMMA CancelPayoutMoney ==
    ASSUME StoreTypeOK, Faultless, NEW c \in Clients, MoneyAround(c), CancelPayout(c)
    PROVE  MoneyKept(c)
<1>1. /\ work[c].kind = "under" /\ work[c].at = "payout"
      /\ UNCHANGED booking /\ work[c] \in JobType /\ stripe \in StripeType
  BY DEF CancelPayout, Running, StoreTypeOK
<1>s. work[c].kind \in Scenarios /\ work[c].kind \notin Voiding \cup {"pending_payment"}
  BY <1>1 DEF Scenarios, Voiding
<1>2. Busy(c) /\ Cancels(work[c])
  BY <1>1, <1>s, CancelsNow
<1>3. PICK ok \in BOOLEAN :
         /\ PayoutCall("half", ok)
         /\ Proceed(c, [work[c] EXCEPT !.paid = ok, !.at = "persist"])
  BY DEF CancelPayout
<1>4. /\ work'[c].kind = "under" /\ work'[c].at = "persist"
      /\ work'[c].intent = work[c].intent /\ work'[c].paid = ok
      /\ work'[c].ok = work[c].ok /\ work'[c].rev = work[c].rev
  <2> DEFINE next == [work[c] EXCEPT !.paid = ok, !.at = "persist"]
  <2>1. /\ next.kind = "under" /\ next.at = "persist"
        /\ next.intent = work[c].intent /\ next.paid = ok
        /\ next.ok = work[c].ok /\ next.rev = work[c].rev
    BY <1>1 DEF JobType
  <2>2. Proceed(c, next)
    BY <1>3
  <2> HIDE DEF next
  <2>3. QED
    BY <2>1, <2>2, MoneyPhases
<1>5. /\ ~ok => UNCHANGED stripe
      /\ ok => "half" \in stripe'.payouts
      /\ stripe'.pi = stripe.pi /\ stripe'.gen = stripe.gen /\ stripe'.older = stripe.older
      /\ stripe'.reversedBy = stripe.reversedBy
  BY <1>1, <1>3, PayoutCallDoes DEF Faultless
<1>6. AccountSound'
  BY <1>1, <1>2, <1>5 DEF Cancels, AccountSound
<1>7. Cancels(work[c])'
  BY <1>1, <1>s, <1>2, <1>4, <1>5, <1>6 DEF Cancels, Live, IntentKnown
<1>8. QED
  BY <1>1, <1>s, <1>2, <1>4, <1>7 DEF MoneyKept, Halfway, Busy, NoJob

(* The row that a cancellation leaves, by the scenario and its answers. *)
LEMMA FinalizedDeal ==
    ASSUME NEW b \in BookingType, NEW job \in JobType, job.kind \in Scenarios,
           b.credit = 0, ~b.reversed, b.outcome \in Undecided
    PROVE  LET f == Finalized(b, job) IN
           /\ f.intent = b.intent
           /\ f.pay \in {"settled", "manual_review", "payment_method_required"}
           /\ f.outcome \in {"student_cancel_gt24_no_charge", "instructor_cancel_full_refund",
                             "student_cancel_12_24_full_credit",
                             "student_cancel_lt12_split_50_50"} \cup Undecided
           /\ f.pay = "settled" =>
                 \/ /\ f.outcome = "student_cancel_gt24_no_charge" /\ f.credit = 0
                    /\ \/ job.kind = "pending_payment"
                       \/ job.kind = "regular" /\ (job.intent = 0 \/ job.ok)
                 \/ /\ f.outcome = "instructor_cancel_full_refund" /\ f.credit = 0
                    /\ job.kind = "instructor" /\ (job.intent = 0 \/ job.ok)
                 \/ /\ f.outcome = "student_cancel_12_24_full_credit" /\ f.credit = 2
                    /\ job.kind \in {"gaming", "between"} /\ job.ok
                    /\ f.reversed = (job.rev = "done")
                 \/ /\ f.outcome = "student_cancel_lt12_split_50_50" /\ f.credit = 1
                    /\ job.kind = "under" /\ job.paid
                    /\ f.reversed = (job.rev = "done")
<1>1. ASSUME NEW d \in BookingType
      PROVE  /\ LET r == InReview(d) IN
                  r.pay = "manual_review" /\ r.outcome = d.outcome /\ r.intent = d.intent
             /\ LET n == CaptureNotDone(d) IN
                  n.pay = "payment_method_required" /\ n.outcome = d.outcome /\ n.intent = d.intent
             /\ \A o : LET t == SettledAs(d, o) IN
                  /\ t.pay = "settled" /\ t.outcome = o /\ t.intent = d.intent
                  /\ t.credit = d.credit /\ t.reversed = d.reversed
             /\ \A n : LET k == Credited(d, n) IN
                  /\ k.pay = d.pay /\ k.outcome = d.outcome /\ k.intent = d.intent
                  /\ k.credit = IF d.credit = 0 THEN n ELSE d.credit
                  /\ k.reversed = d.reversed
  BY DEF InReview, CaptureNotDone, SettledAs, Credited, BookingType
<1>2. ASSUME NEW d \in BookingType
      PROVE  /\ \A o \in Outcomes : SettledAs(d, o) \in BookingType
             /\ \A n \in 0..2 : Credited(d, n) \in BookingType
  <2>1. "settled" \in PaymentStatuses /\ 0 \in 0..Whole
    BY DEF PaymentStatuses, Whole
  <2>2. QED
    BY <2>1 DEF SettledAs, Credited, BookingType
<1>r. LET r == Reversed(b, job) IN
      /\ r \in BookingType /\ r.intent = b.intent /\ r.credit = b.credit
      /\ r.outcome = b.outcome /\ r.reversed = (job.rev = "done")
  BY DEF Reversed, BookingType
<1>o. /\ "student_cancel_12_24_full_credit" \in Outcomes
      /\ "student_cancel_lt12_split_50_50" \in Outcomes
      /\ "student_cancel_gt24_no_charge" \in Outcomes
      /\ "instructor_cancel_full_refund" \in Outcomes
  BY DEF Outcomes, NoChargeOutcomes
<1>3. CASE job.kind \in {"gaming", "between"}
  <2> DEFINE settled == SettledAs(Reversed(b, job), "student_cancel_12_24_full_credit")
             full == Credited(settled, 2)
  <2>1. settled \in BookingType /\ settled.pay = "settled" /\ settled.credit = 0
        /\ settled.outcome = "student_cancel_12_24_full_credit" /\ settled.intent = b.intent
        /\ settled.reversed = (job.rev = "done")
    BY <1>1, <1>2, <1>o, <1>r
  <2> HIDE DEF settled
  <2>2. full.pay = "settled" /\ full.credit = 2 /\ full.intent = b.intent
        /\ full.outcome = "student_cancel_12_24_full_credit"
        /\ full.reversed = (job.rev = "done")
    BY <1>1, <2>1
  <2>3. Finalized(b, job) = FullCredit(b, job)
    BY <1>3 DEF Finalized
  <2>4. \/ FullCredit(b, job) = CaptureNotDone(b)
        \/ FullCredit(b, job) = InReview(b)
        \/ FullCredit(b, job) = full /\ job.ok
    BY DEF FullCredit, settled
  <2> HIDE DEF full
  <2>5. QED
    BY <1>1, <1>3, <2>2, <2>3, <2>4
<1>4. CASE job.kind = "under"
  <2> DEFINE settled == SettledAs(Reversed(b, job), "student_cancel_lt12_split_50_50")
             split == Credited(settled, 1)
  <2>1. settled \in BookingType /\ settled.pay = "settled" /\ settled.credit = 0
        /\ settled.outcome = "student_cancel_lt12_split_50_50" /\ settled.intent = b.intent
        /\ settled.reversed = (job.rev = "done")
    BY <1>1, <1>2, <1>o, <1>r
  <2> HIDE DEF settled
  <2>2. split.pay = "settled" /\ split.credit = 1 /\ split.intent = b.intent
        /\ split.outcome = "student_cancel_lt12_split_50_50" /\ split \in BookingType
        /\ split.reversed = (job.rev = "done")
    BY <1>1, <1>2, <2>1
  <2>3. Finalized(b, job) = SplitInHalves(b, job)
    BY <1>4 DEF Finalized
  <2>4. \/ SplitInHalves(b, job) = CaptureNotDone(b)
        \/ SplitInHalves(b, job) = InReview(b)
        \/ SplitInHalves(b, job) = InReview(split)
        \/ SplitInHalves(b, job) = split /\ job.paid
    BY DEF SplitInHalves, settled
  <2> HIDE DEF split
  <2>5. QED
    BY <1>1, <1>4, <2>2, <2>3, <2>4
<1>5. CASE job.kind = "regular"
  <2> DEFINE free == SettledAs(b, "student_cancel_gt24_no_charge")
  <2>1. free \in BookingType /\ free.pay = "settled" /\ free.credit = 0
        /\ free.outcome = "student_cancel_gt24_no_charge" /\ free.intent = b.intent
    BY <1>1, <1>2, <1>o
  <2>2. Finalized(b, job) = NoCharge(b, job)
    BY <1>5 DEF Finalized
  <2>3. \/ NoCharge(b, job) = InReview(free)
        \/ NoCharge(b, job) = free /\ (job.intent = 0 \/ job.ok)
    BY DEF NoCharge
  <2> HIDE DEF free
  <2>4. QED
    BY <1>1, <1>5, <2>1, <2>2, <2>3
<1>6. CASE job.kind = "instructor"
  <2>1. Finalized(b, job) = InstructorRefund(b, job)
    BY <1>6 DEF Finalized
  <2> DEFINE settled == SettledAs(b, "instructor_cancel_full_refund")
             given == [settled EXCEPT !.refunded = job.refund]
  <2>2. settled \in BookingType /\ settled.pay = "settled" /\ settled.credit = 0
        /\ settled.outcome = "instructor_cancel_full_refund" /\ settled.intent = b.intent
    BY <1>1, <1>2, <1>o
  <2> HIDE DEF settled
  <2>3. given.pay = "settled" /\ given.credit = 0 /\ given.intent = b.intent
        /\ given.outcome = "instructor_cancel_full_refund"
    BY <2>2 DEF BookingType
  <2>4. \/ InstructorRefund(b, job) = InReview(b)
        \/ InstructorRefund(b, job) = given /\ (job.intent = 0 \/ job.ok)
    BY DEF InstructorRefund, settled
  <2> HIDE DEF given
  <2>5. QED
    BY <1>1, <1>6, <2>1, <2>3, <2>4
<1>7. CASE job.kind = "under_no_pi"
  <2>1. Finalized(b, job) = InReview(b)
    BY <1>7 DEF Finalized
  <2>2. QED
    BY <1>1, <2>1
<1>8. CASE job.kind = "pending_payment"
  <2>1. Finalized(b, job) = SettledAs(b, "student_cancel_gt24_no_charge")
    BY <1>8 DEF Finalized
  <2>2. QED
    BY <1>1, <1>8, <2>1
<1>9. QED
  BY <1>3, <1>4, <1>5, <1>6, <1>7, <1>8 DEF Scenarios

LEMMA PersistCancelMoney ==
    ASSUME StoreTypeOK, Faultless, NEW c \in Clients, MoneyAround(c), PersistCancel(c)
    PROVE  MoneyKept(c)
<1>1. /\ work[c].kind \in Scenarios /\ work[c].at = "persist"
      /\ UNCHANGED stripe /\ work[c] \in JobType /\ stripe \in StripeType
      /\ booking \in BookingType
  BY DEF PersistCancel, Running, StoreTypeOK
<1>2. Busy(c) /\ ~Busy(c)' /\ Cancels(work[c])
  BY <1>1, CancelsNow, MoneyPhases DEF PersistCancel
<1>3. CanTransitionTo("CANCELLED")
  BY <1>2, TableRows DEF Cancels, Live, CanTransitionTo
<1> DEFINE f == Finalized(booking, work[c])
<1>4. f \in BookingType
  BY <1>1, FinalizedTyped
<1>5. /\ f.intent = booking.intent
      /\ f.pay \in {"settled", "manual_review", "payment_method_required"}
      /\ f.outcome \in {"student_cancel_gt24_no_charge", "instructor_cancel_full_refund",
                        "student_cancel_12_24_full_credit",
                        "student_cancel_lt12_split_50_50"} \cup Undecided
      /\ f.pay = "settled" =>
            \/ /\ f.outcome = "student_cancel_gt24_no_charge" /\ f.credit = 0
               /\ \/ work[c].kind = "pending_payment"
                  \/ work[c].kind = "regular" /\ (work[c].intent = 0 \/ work[c].ok)
            \/ /\ f.outcome = "instructor_cancel_full_refund" /\ f.credit = 0
               /\ work[c].kind = "instructor" /\ (work[c].intent = 0 \/ work[c].ok)
            \/ /\ f.outcome = "student_cancel_12_24_full_credit" /\ f.credit = 2
               /\ work[c].kind \in {"gaming", "between"} /\ work[c].ok
               /\ f.reversed = (work[c].rev = "done")
            \/ /\ f.outcome = "student_cancel_lt12_split_50_50" /\ f.credit = 1
               /\ work[c].kind = "under" /\ work[c].paid
               /\ f.reversed = (work[c].rev = "done")
  BY <1>1, <1>2, FinalizedDeal DEF Cancels
<1>6. booking' = [f EXCEPT !.status = "CANCELLED"]
  BY <1>3 DEF PersistCancel
<1> HIDE DEF f
<1>7. /\ booking'.status = "CANCELLED" /\ booking'.pay = f.pay /\ booking'.outcome = f.outcome
      /\ booking'.intent = f.intent /\ booking'.credit = f.credit
      /\ booking'.reversed = f.reversed
  BY <1>4, <1>6 DEF BookingType
<1>8. /\ AccountSound
      /\ work[c].intent = booking.intent
      /\ booking.intent = 0 => stripe.pi = "none"
      /\ work[c].kind = "pending_payment" => booking.intent = 0
      /\ work[c].kind \in Voiding /\ work[c].ok => stripe.pi \in {"void", "refunded"}
      /\ work[c].kind \in Capturing /\ work[c].ok => stripe.pi = "captured"
      /\ IF work[c].rev = "done" THEN stripe.reversedBy = work[c].kind
                                 ELSE stripe.reversedBy = "none"
      /\ work[c].paid => "half" \in stripe.payouts
  BY <1>1, <1>2 DEF Cancels, IntentKnown, AccountSound
<1>h. work[c].paid => work[c].rev = "done"
  BY <1>8 DEF AccountSound
<1>9. CancelledRow'
  <2>1. booking'.outcome \notin {InstructorPaid, "payment_failed_no_charge"}
    BY <1>5, <1>7 DEF InstructorPaid, Undecided
  <2>2. booking'.pay = "settled" => Deal'
    BY <1>1, <1>5, <1>7, <1>8, <1>h DEF Deal, Uncharged, Voiding, Capturing, AdminRefunds,
       Undecided
  <2>3. QED
    BY <2>1, <2>2 DEF CancelledRow
<1>10. AccountSound' /\ LiveRow' /\ FailedRow' /\ NoShowRow' /\ IntentKnown' /\ HoldSound'
  BY <1>1, <1>2, <1>5, <1>7, <1>8 DEF Cancels, AccountSound, LiveRow, Live, FailedRow, NoShowRow,
     IntentKnown, HoldSound
<1>11. QED
  BY <1>2, <1>9, <1>10 DEF MoneyKept, AtRest, RowSound

LEMMA CancellationMoney ==
    ASSUME StoreTypeOK, Faultless, NEW c \in Clients, MoneyAround(c), CancellationStep(c)
    PROVE  MoneyKept(c)
  BY CancelBegins, CancelGivesBackMoney, CancelTakesMoney, CancelReverseMoney, CancelPayoutMoney,
     PersistCancelMoney DEF CancellationStep

LEMMA CompletionMoney ==
    ASSUME StoreTypeOK, Faultless, NEW c \in Clients, MoneyAround(c), CompletionStep(c)
    PROVE  MoneyKept(c)
<1>1. /\ ~Busy(c) /\ ~Busy(c)' /\ ~mutexKey /\ AtRest /\ UNCHANGED stripe
      /\ booking \in BookingType
  BY MoneyPhases DEF CompletionStep, CompleteBooking, DisputeCompletion, MoneyAround, StoreTypeOK
<1>2. CASE CompleteBooking(c)
  <2>1. RowStays
    BY <1>1, <1>2 DEF CompleteBooking, BookingType, RowStays
  <2>2. QED
    BY <1>1, <2>1 DEF MoneyKept
<1>3. CASE DisputeCompletion(c)
  <2>1. /\ booking.pay = "authorized" /\ booking'.pay = "manual_review"
        /\ booking'.status = booking.status
        /\ booking'.outcome = booking.outcome /\ booking'.intent = booking.intent
        /\ booking'.credit = booking.credit /\ booking'.failAge = booking.failAge
        /\ booking'.reversed = booking.reversed /\ booking'.refunded = booking.refunded
    BY <1>1, <1>3 DEF DisputeCompletion, BookingType
  <2>2. /\ AccountSound' /\ LiveRow' /\ FailedRow' /\ NoShowRow' /\ CancelledRow'
        /\ IntentKnown' /\ HoldSound'
    BY <1>1, <2>1 DEF AtRest, RowSound, AccountSound, LiveRow, Live, FailedRow, NoShowRow,
       CancelledRow, IntentKnown, HoldSound
  <2>3. QED
    BY <1>1, <2>2 DEF MoneyKept, AtRest, RowSound
<1>4. QED
  BY <1>2, <1>3 DEF CompletionStep

(* Every operation of the lifecycle. *)
LEMMA OperationMoney ==
    ASSUME StoreTypeOK, Faultless, NEW c \in Clients, MoneyAround(c), Operation(c)
    PROVE  MoneyKept(c)
  BY AuthorizationMoney, CaptureMoney, CancellationMoney, CompletionMoney DEF Operation

-----------------------------------------------------------------------------
(* Administrators. *)
LEMMA RefundBegins ==
    ASSUME StoreTypeOK, Faultless, NEW c \in Clients, MoneyAround(c),
           AdminRefund(c) \/ AdminCancelRefunding(c) \/ ForceRefund(c)
    PROVE  MoneyKept(c)
<1>1. /\ ~mutexKey /\ AtRest /\ UNCHANGED <<booking, stripe>> /\ booking \in BookingType
  BY MoneyPhases DEF AdminRefund, AdminCancelRefunding, ForceRefund, MoneyAround, StoreTypeOK
<1>2. CASE ForceRefund(c)
  <2> DEFINE first == CASE booking.intent = 0     -> "persist"
                        [] booking.intent # 0 /\ booking.pay = "settled" -> "refund"
                        [] OTHER                  -> "stripe"
             amount == IF booking.intent = 0 THEN 0 ELSE Whole
             job == [Job("force_refund", first) EXCEPT !.refund = amount]
  <2>1. /\ booking.status # "CANCELLED"
        /\ booking.outcome \in AdminRefunds => booking.status = "NO_SHOW"
        /\ booking.pay # "settled" => Live
    BY <1>1, <1>2 DEF ForceRefund, AtRest, RowSound, LiveRow, FailedRow, NoShowRow, Live, Undecided,
       InstructorPaid, AdminRefunds, BookingType, Statuses
  <2>2. \/ first = "refund" /\ amount = Whole
        \/ first = "stripe" /\ amount = Whole /\ booking.pay # "settled"
        \/ first = "persist" /\ booking.intent = 0
    OBVIOUS
  <2>3. job.kind = "force_refund" /\ ~job.ok /\ job.at = first /\ job.refund = amount
    BY DEF Job
  <2>4. work'[c] = job
    BY <1>2, MoneyPhases DEF ForceRefund
  <2> HIDE DEF first, amount, job
  <2>5. AtRest' /\ FailedRow' /\ AccountSound' /\ IntentKnown' /\ (Live' <=> Live)
    BY <1>1, RowFrame DEF RowStays, AtRest, RowSound, Live
  <2>6. Whole \in 1..Whole
    BY DEF Whole
  <2>7. Live => (booking.pay = "settled" => booking.intent # 0)
    BY <1>1 DEF AtRest, RowSound, LiveRow
  <2>8. Refunds(work[c])'
    BY <1>1, <2>1, <2>2, <2>3, <2>4, <2>5, <2>6, <2>7 DEF Refunds
  <2>9. QED
    BY <1>1, <2>2, <2>3, <2>4, <2>8 DEF MoneyKept, Halfway, Busy, NoJob, Refunding
<1>3. ASSUME NEW kind \in Refunding \ {"force_refund"}, NEW amount \in 1..Whole,
             work'[c].kind = kind, work'[c].at = "refund", ~work'[c].ok,
             work'[c].refund = amount,
             booking.intent # 0, ~AlreadyRefunded,
             kind = "admin_no_show" => booking.status \in {"CONFIRMED", "COMPLETED"},
             booking.status # "PAYMENT_FAILED"
      PROVE  MoneyKept(c)
  <2>1. booking.outcome \notin AdminRefunds
    BY <1>3 DEF AlreadyRefunded
  <2>2. AtRest' /\ FailedRow' /\ AccountSound' /\ IntentKnown'
    BY <1>1, RowFrame DEF RowStays, AtRest, RowSound
  <2>3. Refunds(work[c])'
    BY <1>1, <1>3, <2>1, <2>2 DEF Refunds
  <2>4. QED
    BY <1>1, <1>3, <2>3 DEF MoneyKept, Halfway, Busy, NoJob, Refunding
<1>4. CASE AdminRefund(c)
  <2>1. PICK kind \in {"admin_refund", "admin_no_show"}, amount \in 1..Whole :
           /\ CanTransitionTo(TargetStatus(kind))
           /\ Begin(c, [Job(kind, "refund") EXCEPT !.refund = amount])
    BY <1>4 DEF AdminRefund
  <2> DEFINE job == [Job(kind, "refund") EXCEPT !.refund = amount]
  <2>2. job.kind = kind /\ job.at = "refund" /\ ~job.ok /\ job.refund = amount
    BY DEF Job
  <2>3. work'[c] = job
    BY <2>1, MoneyPhases
  <2> HIDE DEF job
  <2>4. ~AlreadyRefunded /\ booking.intent # 0
    BY <1>4 DEF AdminRefund
  <2>5. kind = "admin_no_show" => booking.status \in {"CONFIRMED", "COMPLETED"}
    <3>1. kind = "admin_no_show" => booking.status \in {"CONFIRMED", "COMPLETED", "NO_SHOW"}
      BY <1>1, <2>1, TableRows DEF CanTransitionTo, TargetStatus, BookingType, Statuses
    <3>2. booking.status # "NO_SHOW"
      BY <1>1, <2>4 DEF AtRest, RowSound, NoShowRow, AlreadyRefunded, AdminRefunds
    <3>3. QED
      BY <3>1, <3>2
  <2>6. kind \in Refunding \ {"force_refund"}
    BY DEF Refunding
  <2>7. booking.status # "PAYMENT_FAILED"
    BY <2>1, TableRows DEF CanTransitionTo, TargetStatus
  <2>8. QED
    BY <1>3, <2>2, <2>3, <2>4, <2>5, <2>6, <2>7
<1>5. CASE AdminCancelRefunding(c)
  <2> DEFINE job == Job("admin_cancel", "refund")
  <2>1. job.kind = "admin_cancel" /\ job.at = "refund" /\ ~job.ok /\ job.refund = Whole
    BY DEF Job
  <2>2. /\ work'[c] = job /\ ~AlreadyRefunded /\ booking.intent # 0
        /\ booking.status = "CONFIRMED"
    BY <1>5, MoneyPhases DEF AdminCancelRefunding
  <2> HIDE DEF job
  <2>3. "admin_cancel" \in Refunding \ {"force_refund"} /\ Whole \in 1..Whole
    BY DEF Refunding, Whole
  <2>4. QED
    BY <1>3, <2>1, <2>2, <2>3
<1>6. QED
  BY <1>2, <1>4, <1>5

(* The call that refunds the charge or voids the intent. *)
LEMMA RefundCallMoney ==
    ASSUME StoreTypeOK, Faultless, NEW c \in Clients, MoneyAround(c),
           IssueRefund(c) \/ ForceVoid(c)
    PROVE  MoneyKept(c)
<1>1. /\ work[c].kind \in Refunding /\ work[c].at \in {"refund", "stripe"}
      /\ UNCHANGED booking /\ work[c] \in JobType /\ stripe \in StripeType
  BY DEF IssueRefund, ForceVoid, Running, Refunding, StoreTypeOK
<1>2. Busy(c)
  BY <1>1 DEF Busy, NoJob
<1>3. Refunds(work[c])
  BY <1>1, <1>2, HalfwayKinds DEF MoneyAround
<1>4. /\ AtRest /\ AccountSound /\ FailedRow /\ IntentKnown
      /\ work[c].refund \in 1..Whole
      /\ work[c].at = "stripe" \/ booking.status = "PAYMENT_FAILED" => work[c].refund = Whole
  BY <1>1, <1>3 DEF Refunds
<1>5. PICK ok \in BOOLEAN :
         /\ \/ \E key : RefundCall(work[c].intent, key, work[c].refund, ok)
            \/ work[c].at = "stripe" /\ VoidCall(work[c].intent, work[c].kind, ok)
         /\ GoOnIf(c, ok)
  BY DEF IssueRefund, ForceVoid, Running
<1>6. /\ ~ok => UNCHANGED stripe
      /\ ok => /\ \/ stripe'.pi = "void" /\ work[c].refund = Whole
                  \/ stripe'.pi = IF work[c].refund = Whole THEN "refunded" ELSE "partly_refunded"
               /\ stripe.reversedBy = "none" /\ stripe.pi # "none"
      /\ stripe'.gen = stripe.gen /\ stripe'.older = stripe.older
      /\ stripe'.reversedBy = stripe.reversedBy /\ stripe'.payouts = stripe.payouts
  <2>1. CASE work[c].at = "stripe" /\ VoidCall(work[c].intent, work[c].kind, ok)
    BY <1>1, <1>4, <2>1, HoldCallDoes DEF VoidCall, Faultless, AccountSound
  <2>2. ASSUME NEW key, RefundCall(work[c].intent, key, work[c].refund, ok)
        PROVE  /\ ~ok => UNCHANGED stripe
               /\ ok => /\ stripe'.pi = IF work[c].refund = Whole THEN "refunded"
                                                               ELSE "partly_refunded"
                        /\ stripe.reversedBy = "none" /\ stripe.pi # "none"
               /\ stripe'.gen = stripe.gen /\ stripe'.older = stripe.older
               /\ stripe'.reversedBy = stripe.reversedBy /\ stripe'.payouts = stripe.payouts
    BY <1>1, <1>4, <2>2, RefundCallDoes DEF Faultless, AccountSound
  <2>3. QED
    BY <1>5, <2>1, <2>2
<1>g. ok => /\ stripe'.pi # "captured"
            /\ work[c].refund = Whole => stripe'.pi # "partly_refunded"
  BY <1>6
<1>7. CASE ok
  <2>1. /\ work'[c].kind = work[c].kind /\ work'[c].at = "persist" /\ work'[c].ok
        /\ work'[c].refund = work[c].refund
    <3> DEFINE next == [work[c] EXCEPT !.ok = TRUE, !.at = "persist"]
    <3>1. /\ next.kind = work[c].kind /\ next.at = "persist" /\ next.ok
          /\ next.refund = work[c].refund
      BY <1>1 DEF JobType
    <3>2. Proceed(c, next)
      BY <1>5, <1>7 DEF GoOnIf
    <3> HIDE DEF next
    <3>3. QED
      BY <3>1, <3>2, MoneyPhases
  <2>2. AccountSound' /\ FailedRow' /\ IntentKnown'
    BY <1>1, <1>4, <1>6, <1>7, <1>g DEF AccountSound, FailedRow, AtRest, IntentKnown
  <2>3. booking'.status = "PAYMENT_FAILED" => AtRest'
    BY <1>1, <1>4, <2>2 DEF AtRest, RowSound, LiveRow, Live, NoShowRow, CancelledRow, FailedRow,
       HoldSound
  <2>4. Refunds(work[c])'
    <3>1. Given(work[c].refund)'
      BY <1>6, <1>7, <2>1 DEF Given
    <3>2. /\ booking.outcome \in AdminRefunds => booking.status = "NO_SHOW"
          /\ work[c].kind = "admin_no_show" => booking.status \in {"CONFIRMED", "COMPLETED"}
          /\ work[c].kind # "force_refund" => booking.intent # 0
      BY <1>3 DEF Refunds
    <3>3. QED
      BY <1>1, <1>4, <2>1, <2>2, <2>3, <3>1, <3>2 DEF Refunds
  <2>5. QED
    BY <1>1, <1>2, <2>1, <2>4 DEF MoneyKept, Halfway, Busy, NoJob
<1>8. CASE ~ok
  <2>1. ~Busy(c)'
    BY <1>5, <1>8, MoneyPhases DEF GoOnIf
  <2>2. AtRest'
    BY <1>1, <1>4, <1>6, <1>8, RowFrame DEF RowStays
  <2>3. QED
    BY <1>2, <2>1, <2>2 DEF MoneyKept
<1>9. QED
  BY <1>7, <1>8

LEMMA KeepMoney ==
    ASSUME StoreTypeOK, Faultless, NEW c \in Clients, MoneyAround(c),
           ForceKeep(c) \/ ForceCapture(c)
    PROVE  MoneyKept(c)
<1>b. booking \in BookingType /\ stripe \in StripeType /\ work[c] \in JobType
  BY DEF StoreTypeOK
<1>1. CASE ForceKeep(c)
  <2> DEFINE held == booking.intent # 0 /\ booking.pay = "authorized"
             first == IF held THEN "stripe" ELSE "persist"
             charged == booking.intent # 0 /\ booking.pay = "settled"
             job == [Job("force_keep", first) EXCEPT !.ok = charged]
  <2>1. /\ ~mutexKey /\ AtRest /\ UNCHANGED <<booking, stripe>>
        /\ booking.status # "CANCELLED"
        /\ work'[c] = job
    BY <1>1, MoneyPhases DEF ForceKeep, MoneyAround
  <2>2. job.kind = "force_keep" /\ job.at = first /\ job.ok = charged
    BY DEF Job
  <2> HIDE DEF job
  <2>3. booking.pay # "settled" => Live
    BY <1>b, <2>1 DEF AtRest, RowSound, FailedRow, NoShowRow, Live, BookingType, Statuses
  <2>4. Live => /\ booking.pay = "settled" => charged
                /\ charged => KeptWhole
    BY <2>1 DEF AtRest, RowSound, AccountSound, LiveRow, KeptWhole, TransferWhole
  <2>5. first = "stripe" => booking.pay # "settled"
    OBVIOUS
  <2>6. /\ AtRest' /\ AccountSound' /\ IntentKnown'
        /\ Live' <=> Live
        /\ KeptWhole' <=> KeptWhole
    BY <2>1, RowFrame DEF RowStays, AtRest, RowSound, Live, KeptWhole, TransferWhole
  <2>7. Keeps(work[c])'
    BY <2>1, <2>2, <2>3, <2>4, <2>5, <2>6 DEF Keeps
  <2>8. QED
    BY <2>1, <2>2, <2>7 DEF MoneyKept, Halfway, Busy, NoJob
<1>2. CASE ForceCapture(c)
  <2>1. work[c].kind = "force_keep" /\ work[c].at = "stripe" /\ UNCHANGED booking
    BY <1>2 DEF ForceCapture, Running
  <2>2. Busy(c)
    BY <2>1 DEF Busy, NoJob
  <2>3. Keeps(work[c])
    BY <2>1, <2>2, HalfwayKinds DEF MoneyAround
  <2>4. Live /\ AtRest /\ booking.pay # "settled" /\ booking.status # "CANCELLED"
    BY <2>1, <2>3 DEF Keeps
  <2>5. PICK ok \in BOOLEAN :
           /\ CaptureCall(work[c].intent, work[c].kind, ok)
           /\ Proceed(c, [work[c] EXCEPT !.ok = ok, !.at = "persist"])
    BY <1>2 DEF ForceCapture
  <2>6. work'[c].kind = "force_keep" /\ work'[c].at = "persist" /\ work'[c].ok = ok
    <3> DEFINE next == [work[c] EXCEPT !.ok = ok, !.at = "persist"]
    <3>1. next.kind = "force_keep" /\ next.at = "persist" /\ next.ok = ok
      BY <1>b, <2>1 DEF JobType
    <3>2. Proceed(c, next)
      BY <2>5
    <3> HIDE DEF next
    <3>3. QED
      BY <3>1, <3>2, MoneyPhases
  <2>7. /\ ~ok => UNCHANGED stripe
        /\ ok => stripe.pi \in {"hold", "captured"} /\ stripe'.pi = "captured"
        /\ stripe'.gen = stripe.gen /\ stripe'.older = stripe.older
        /\ stripe'.reversedBy = stripe.reversedBy /\ stripe'.payouts = stripe.payouts
    BY <1>b, <2>5, HoldCallDoes DEF CaptureCall, Faultless
  <2>8. ok => AccountSound' /\ IntentKnown' /\ KeptWhole'
    BY <2>1, <2>4, <2>7 DEF AtRest, RowSound, AccountSound, LiveRow, IntentKnown, KeptWhole,
       TransferWhole
  <2>9. ~ok => AtRest'
    BY <2>1, <2>4, <2>7, RowFrame DEF RowStays
  <2>10. Keeps(work[c])'
    BY <2>1, <2>4, <2>6, <2>8, <2>9 DEF Keeps, Live
  <2>11. QED
    BY <2>2, <2>6, <2>10 DEF MoneyKept, Halfway, Busy, NoJob
<1>3. QED
  BY <1>1, <1>2

(* The last write of an administrator. *)
LEMMA AdminPersistMoney ==
    ASSUME StoreTypeOK, Faultless, NEW c \in Clients, MoneyAround(c), AdminPersist(c)
    PROVE  MoneyKept(c)
<1>1. /\ work[c].kind \in Refunding \cup {"force_keep"} /\ work[c].at = "persist"
      /\ UNCHANGED stripe /\ work[c] \in JobType /\ stripe \in StripeType
      /\ booking \in BookingType /\ booking.status \in Statuses
  BY DEF AdminPersist, Running, AdminKinds, Refunding, StoreTypeOK, BookingType
<1>2. Busy(c)
  BY <1>1 DEF Busy, NoJob
<1>3. ~Busy(c)'
  BY MoneyPhases DEF AdminPersist
<1>4. /\ work[c].kind \in Refunding => Refunds(work[c])
      /\ work[c].kind = "force_keep" => Keeps(work[c])
  BY <1>2, HalfwayKinds DEF MoneyAround
<1>5. CanTransitionTo(TargetStatus(work[c].kind)) <=> booking.status # "PAYMENT_FAILED"
  <2>1. CASE work[c].kind = "admin_no_show"
    BY <1>1, <1>4, <2>1, TableRows DEF CanTransitionTo, TargetStatus, Refunding, Refunds
  <2>2. CASE work[c].kind # "admin_no_show"
    BY <1>1, <2>2, TableRows DEF CanTransitionTo, TargetStatus, Statuses
  <2>3. QED
    BY <2>1, <2>2
<1>6. CASE booking.status = "PAYMENT_FAILED"
  <2>1. UNCHANGED booking
    BY <1>5, <1>6 DEF AdminPersist
  <2>2. AtRest
    BY <1>1, <1>4, <1>6 DEF Refunds, Keeps, Live
  <2>3. AtRest'
    BY <1>1, <2>1, <2>2, RowFrame DEF RowStays
  <2>4. QED
    BY <1>2, <1>3, <2>3 DEF MoneyKept
<1>7. CASE booking.status # "PAYMENT_FAILED"
  <2> DEFINE target == TargetStatus(work[c].kind)
  <2>1. PICK outcome \in AdminOutcomes(work[c].kind) :
           booking' = [booking EXCEPT !.status = target,
                                      !.outcome = outcome,
                                      !.refunded = RefundOnRecord(work[c]),
                                      !.pay = IF work[c].ok THEN "settled" ELSE @]
    BY <1>5, <1>7 DEF AdminPersist
  <2>t. /\ target = IF work[c].kind = "admin_no_show" THEN "NO_SHOW" ELSE "CANCELLED"
        /\ RefundOnRecord(work[c]) = IF work[c].kind = "force_keep" THEN booking.refunded
                                                                   ELSE work[c].refund
    BY DEF TargetStatus, RefundOnRecord
  <2> HIDE DEF target
  <2>2. /\ booking'.status = target /\ booking'.outcome = outcome
        /\ booking'.pay = IF work[c].ok THEN "settled" ELSE booking.pay
        /\ booking'.intent = booking.intent /\ booking'.credit = booking.credit
        /\ booking'.reversed = booking.reversed /\ booking'.refunded = RefundOnRecord(work[c])
        /\ booking'.authAge = booking.authAge
    BY <1>1, <2>1 DEF BookingType
  <2>3. /\ work[c].kind \in Refunding => outcome \in AdminRefunds
        /\ work[c].kind = "admin_no_show" => outcome = "instructor_no_show_full_refund"
        /\ work[c].kind = "force_keep" => outcome = "admin_no_refund"
    BY <2>1 DEF AdminOutcomes, Refunding, AdminRefunds
  <2>4. LiveRow' /\ FailedRow'
    BY <2>t, <2>2 DEF LiveRow, Live, FailedRow
  <2>5. CASE work[c].kind \in Refunding /\ work[c].ok
    <3>1. /\ AccountSound /\ IntentKnown
          /\ work[c].refund \in 1..Whole /\ Given(work[c].refund)
          /\ work[c].kind # "force_refund" => booking.intent # 0
      BY <1>1, <1>4, <2>5 DEF Refunds
    <3>2. work[c].kind # "force_keep"
      BY <2>5 DEF Refunding
    <3>3. booking'.refunded = work[c].refund /\ booking'.pay = "settled"
      BY <2>t, <2>2, <2>5, <3>2
    <3>4. AccountSound' /\ IntentKnown' /\ HoldSound'
      BY <1>1, <2>2, <3>1, <3>3 DEF AccountSound, IntentKnown, HoldSound
    <3>5. TransferWhole' /\ Given(booking.refunded)'
      BY <1>1, <3>1, <3>3 DEF Given, AccountSound, TransferWhole
    <3>6. GivenBack'
      BY <3>1, <3>3, <3>5 DEF GivenBack
    <3>7. CancelledRow'
      BY <2>2, <2>3, <2>5, <3>6 DEF CancelledRow, Deal, AdminRefunds, InstructorPaid
    <3>8. NoShowRow'
      BY <2>t, <2>2, <2>3, <3>1, <3>3, <3>6 DEF NoShowRow
    <3>9. QED
      BY <1>2, <1>3, <2>4, <3>4, <3>7, <3>8 DEF MoneyKept, AtRest, RowSound
  <2>6. CASE work[c].kind \in Refunding /\ ~work[c].ok
    <3>1. /\ AtRest /\ booking.intent = 0 /\ work[c].kind = "force_refund"
          /\ Live => booking.pay # "settled"
          /\ booking.status # "CANCELLED"
      BY <1>1, <1>4, <2>6 DEF Refunds
    <3>2. booking.pay # "settled"
      BY <1>1, <1>7, <3>1 DEF AtRest, RowSound, NoShowRow, Live, Statuses
    <3>3. booking'.pay # "settled" /\ booking'.pay = booking.pay
      BY <2>2, <2>6, <3>2
    <3>4. AccountSound' /\ IntentKnown' /\ HoldSound'
      BY <1>1, <2>2, <3>1, <3>3 DEF AtRest, RowSound, AccountSound, IntentKnown, HoldSound
    <3>5. CancelledRow' /\ NoShowRow'
      BY <2>t, <2>2, <2>3, <2>6, <3>1, <3>3 DEF CancelledRow, NoShowRow, AdminRefunds,
         InstructorPaid
    <3>6. QED
      BY <1>2, <1>3, <2>4, <3>4, <3>5 DEF MoneyKept, AtRest, RowSound
  <2>7. CASE work[c].kind = "force_keep"
    <3>1. booking'.refunded = booking.refunded /\ booking'.status = "CANCELLED"
      BY <2>t, <2>2, <2>7
    <3>2. /\ booking.status # "CANCELLED"
          /\ IF work[c].ok /\ Live
             THEN AccountSound /\ IntentKnown /\ KeptWhole
             ELSE AtRest /\ (Live => booking.pay # "settled")
      BY <1>1, <1>4, <2>7 DEF Keeps
    <3>3. (KeptWhole' <=> KeptWhole) /\ (GivenBack' <=> GivenBack)
      BY <1>1, <3>1 DEF KeptWhole, GivenBack, TransferWhole, Given
    <3>4. AccountSound' /\ IntentKnown' /\ HoldSound'
      BY <1>1, <2>2, <3>2 DEF AtRest, RowSound, AccountSound, IntentKnown, HoldSound
    <3>5. booking'.pay = "settled" => KeptWhole \/ GivenBack
      <4>1. CASE Live
        BY <2>2, <3>2, <4>1
      <4>2. CASE ~Live
        BY <1>1, <1>7, <3>2, <4>2 DEF AtRest, RowSound, NoShowRow, Live, Statuses
      <4>3. QED
        BY <4>1, <4>2
    <3>6. CancelledRow'
      BY <2>2, <2>3, <2>7, <3>3, <3>5 DEF CancelledRow, Deal, AdminRefunds, InstructorPaid
    <3>7. NoShowRow'
      BY <3>1 DEF NoShowRow
    <3>8. QED
      BY <1>2, <1>3, <2>4, <3>4, <3>6, <3>7 DEF MoneyKept, AtRest, RowSound
  <2>8. QED
    BY <1>1, <2>5, <2>6, <2>7
<1>8. QED
  BY <1>6, <1>7

LEMMA AdministrationMoney ==
    ASSUME StoreTypeOK, Faultless, NEW c \in Clients, MoneyAround(c), AdministrationStep(c)
    PROVE  MoneyKept(c)
<1>b. booking \in BookingType
  BY DEF StoreTypeOK
<1>1. CASE AdminCancel(c)
  <2>1. /\ ~Busy(c) /\ ~Busy(c)' /\ ~mutexKey /\ AtRest /\ UNCHANGED stripe
        /\ booking.status = "CONFIRMED"
    BY <1>1, MoneyPhases DEF AdminCancel, MoneyAround
  <2>2. /\ booking'.status = "CANCELLED" /\ booking'.pay = booking.pay
        /\ booking'.outcome = booking.outcome /\ booking'.intent = booking.intent
        /\ booking'.credit = booking.credit /\ booking'.authAge = booking.authAge
        /\ booking'.reversed = booking.reversed /\ booking'.refunded = booking.refunded
    BY <1>1, <1>b DEF AdminCancel, BookingType
  <2>3. AccountSound' /\ LiveRow' /\ FailedRow' /\ IntentKnown' /\ HoldSound'
    BY <2>1, <2>2 DEF AtRest, RowSound, AccountSound, LiveRow, Live, FailedRow, IntentKnown,
       HoldSound
  <2>4. booking.outcome \in Undecided
    BY <2>1 DEF AtRest, RowSound, LiveRow, Live
  <2>5. NoShowRow' /\ CancelledRow'
    BY <2>2, <2>4 DEF NoShowRow, CancelledRow, Deal, Undecided, AdminRefunds, InstructorPaid
  <2>6. QED
    BY <2>1, <2>3, <2>5 DEF MoneyKept, AtRest, RowSound
<1>2. CASE ForceComplete(c)
  <2>1. /\ ~mutexKey /\ AtRest /\ UNCHANGED stripe /\ booking.status = "CONFIRMED"
    BY <1>2, MoneyPhases DEF ForceComplete, MoneyAround
  <2>2. /\ booking'.status = "COMPLETED" /\ booking'.pay = booking.pay
        /\ booking'.intent = booking.intent /\ booking'.outcome = booking.outcome
        /\ booking'.credit = booking.credit
        /\ booking'.reversed = booking.reversed /\ booking'.refunded = booking.refunded
        /\ booking'.authAge = booking.authAge /\ booking'.failAge = booking.failAge
    BY <1>2, <1>b DEF ForceComplete, BookingType
  <2>3. RowStays
    BY <2>1, <2>2 DEF RowStays
  <2>4. CASE OnHold
    <3>1. /\ work'[c].kind = "admin_force_complete" /\ work'[c].at = "stripe"
      BY <1>2, <2>4, MoneyPhases DEF ForceComplete, Job
    <3>2. stripe.pi # "captured"
      BY <2>1, <2>4 DEF OnHold, AtRest, HoldSound
    <3>3. RowSound'
      BY <2>1, <2>3, RowFrame DEF AtRest
    <3>4. Collecting(work[c])'
      BY <2>1, <2>2, <2>4, <3>1, <3>2, <3>3 DEF Collecting, OnHold
    <3>5. QED
      BY <2>1, <3>1, <3>4 DEF MoneyKept, Halfway, Busy, NoJob, CaptureReasons
  <2>5. CASE ~OnHold
    BY <1>2, <2>3, <2>5, MoneyPhases DEF ForceComplete, MoneyKept
  <2>6. QED
    BY <2>4, <2>5
<1>3. QED
  BY <1>1, <1>2, RefundBegins, RefundCallMoney, KeepMoney, AdminPersistMoney DEF AdministrationStep

-----------------------------------------------------------------------------
(* Who is busy, with administrators among the workers. *)
LEMMA AdministrationOthers ==
    ASSUME StoreTypeOK, NEW c \in Clients, AdministrationStep(c), NEW d \in Clients, d # c
    PROVE  work'[d] = work[d] /\ pc'[d] = pc[d]
  BY PhaseOthers DEF AdministrationStep, AdminRefund, AdminCancelRefunding, AdminCancel,
     ForceRefund, ForceKeep, ForceComplete, IssueRefund, ForceVoid, ForceCapture, AdminPersist,
     GoOnIf

LEMMA BusyAfterAdministration ==
    ASSUME StoreTypeOK, NEW c \in Clients, AdministrationStep(c), Busy(c)'
    PROVE  pc'[c] = "inside"
<1>1. ~(work'[c] = NoJob)
  BY DEF Busy
<1>2. QED
  BY <1>1, PhaseBusy DEF AdministrationStep, AdminRefund, AdminCancelRefunding, AdminCancel,
     ForceRefund, ForceKeep, ForceComplete, IssueRefund, ForceVoid, ForceCapture, AdminPersist,
     GoOnIf

LEMMA AdministeredBusyInvariance == AdministeredSafety => []BusyInside
<1>1. StoreInit => BusyInside
  BY DEF StoreInit, BusyInside, Busy
<1>2. StoreTypeOK /\ BusyInside /\ [AdministeredNext]_allVars => BusyInside'
  <2> SUFFICES ASSUME StoreTypeOK, BusyInside, [AdministeredNext]_allVars
               PROVE  BusyInside'
    OBVIOUS
  <2>1. CASE [LifecycleNext]_allVars
    BY <2>1, LifecycleBusyStep
  <2>2. CASE AdminComplete
    BY <2>2 DEF AdminComplete, BusyInside, Busy, lockVars
  <2>3. ASSUME NEW c \in Clients, AdministrationStep(c) PROVE BusyInside'
    <3> SUFFICES ASSUME NEW d \in Clients, Busy(d)' PROVE pc'[d] = "inside"
      BY DEF BusyInside
    <3>1. CASE d = c
      BY <2>3, <3>1, BusyAfterAdministration
    <3>2. CASE d # c
      <4>1. work'[d] = work[d] /\ pc'[d] = pc[d]
        BY <2>3, <3>2, AdministrationOthers
      <4>2. QED
        BY <4>1 DEF BusyInside, Busy
    <3>3. QED
      BY <3>1, <3>2
  <2>4. QED
    BY <2>1, <2>2, <2>3 DEF AdministeredNext
<1>3. QED
  BY <1>1, <1>2, AdministeredTyping, PTL DEF AdministeredSafety

(* With Redis reachable and every operation shorter than the TTL, an       *)
(* administrator's command and any other operation on the money of the     *)
(* same booking exclude one another.                                       *)
THEOREM AdministratorsExclude ==
    ASSUME ~SlowHolders, ~RedisFaults
    PROVE  AdministeredSafety => []OneMoneyAction
<1>1. BusyInside /\ MutualExclusion => OneMoneyAction
  BY DEF BusyInside, MutualExclusion, AtMostOneInside, Inside, OneMoneyAction
<1>2. QED
  BY <1>1, AdministeredBusyInvariance, AdministratorsUseLock, LockIsMutex, PTL

-----------------------------------------------------------------------------
(* The ages of a failure and of the hold, then the clock and the           *)
(* completions outside the mutex.                                          *)
LEMMA QuietMoney ==
    ASSUME StoreTypeOK, Faultless, MoneyInv, FailureAges \/ AuthorizationAges
    PROVE  MoneyInv'
<1>1. /\ Quiescent /\ UNCHANGED work
      /\ booking \in BookingType /\ stripe \in StripeType
  BY DEF FailureAges, AuthorizationAges, StoreTypeOK
<1>2. AtRest
  BY <1>1 DEF Quiescent, MoneyInv, Busy
<1>3. \A c \in Clients : ~Busy(c)'
  BY <1>1 DEF Quiescent, Busy
<1>4. AtRest'
  <2>2. CASE FailureAges
    <3>1. /\ booking'.status = booking.status /\ booking'.pay = booking.pay
          /\ booking'.outcome = booking.outcome /\ booking'.intent = booking.intent
          /\ booking'.credit = booking.credit /\ booking'.authAge = booking.authAge
          /\ booking'.reversed = booking.reversed /\ booking'.refunded = booking.refunded
          /\ booking'.failAge # "none" /\ UNCHANGED stripe
      BY <1>1, <2>2 DEF FailureAges, BookingType
    <3>2. AccountSound' /\ LiveRow' /\ FailedRow' /\ IntentKnown' /\ HoldSound'
      BY <1>2, <3>1 DEF AtRest, RowSound, AccountSound, LiveRow, Live, FailedRow, IntentKnown,
         HoldSound
    <3>3. NoShowRow' /\ CancelledRow'
      BY <1>2, <3>1 DEF AtRest, RowSound, NoShowRow, CancelledRow, Deal, Uncharged, GivenBack,
         KeptWhole, TransferWhole, Given
    <3>4. QED
      BY <3>2, <3>3 DEF AtRest, RowSound
  <2>3. CASE AuthorizationAges
    <3>1. /\ booking'.status = booking.status /\ booking'.pay = booking.pay
          /\ booking'.outcome = booking.outcome /\ booking'.intent = booking.intent
          /\ booking'.credit = booking.credit
          /\ booking'.reversed = booking.reversed /\ booking'.refunded = booking.refunded
          /\ booking'.authAge # "recent" /\ (booking.authAge # "none" => booking'.authAge # "none")
          /\ booking.failAge # "none" => booking'.failAge # "none"
      BY <1>1, <2>3 DEF AuthorizationAges, BookingType
    <3>2. PICK dropped \in BOOLEAN : stripe' = Outdated(dropped)
      BY <2>3 DEF AuthorizationAges
    <3>3. /\ stripe'.pi = stripe.pi \/ (stripe.pi = "hold" /\ stripe'.pi = "void")
          /\ stripe'.gen = stripe.gen /\ stripe'.by = stripe.by
          /\ stripe'.reversedBy = stripe.reversedBy /\ stripe'.payouts = stripe.payouts
          /\ stripe'.older = stripe.older /\ ~stripe'.keyLive
      BY <1>1, <3>2 DEF Outdated, StripeType
    <3>4. AccountSound' /\ LiveRow' /\ FailedRow' /\ IntentKnown' /\ HoldSound'
      BY <1>2, <3>1, <3>3 DEF AtRest, RowSound, AccountSound, LiveRow, Live, FailedRow,
         IntentKnown, HoldSound
    <3>5. (GivenBack => GivenBack') /\ (KeptWhole => KeptWhole')
      BY <3>1, <3>3 DEF GivenBack, KeptWhole, TransferWhole, Given
    <3>6. NoShowRow' /\ CancelledRow'
      BY <1>2, <3>1, <3>3, <3>5 DEF AtRest, RowSound, NoShowRow, CancelledRow, Deal, Uncharged
    <3>7. QED
      BY <3>4, <3>6 DEF AtRest, RowSound
  <2>4. QED
    BY <2>2, <2>3
<1>5. QED
  BY <1>3, <1>4 DEF MoneyInv

LEMMA CompletedMoney ==
    ASSUME RowStays, UNCHANGED work, MoneyInv
    PROVE  MoneyInv'
<1>1. \A c \in Clients : Busy(c)' <=> Busy(c)
  BY DEF Busy
<1>2. \A c \in Clients : Busy(c)' => Halfway(work[c])'
  BY <1>1, HalfwayFrame DEF MoneyInv
<1>3. QED
  BY <1>1, <1>2, RowFrame DEF MoneyInv

(* One operation among those of the other workers. *)
LEMMA WorkerMoney ==
    ASSUME StoreTypeOK, Faultless, BusyInside, OneMoneyAction, KeyHeldWhileInside, ~overlap,
           MoneyInv, NEW c \in Clients, Operation(c) \/ AdministrationStep(c)
    PROVE  MoneyInv'
<1>1. ASSUME NEW d \in Clients, Busy(d) PROVE mutexKey
  BY <1>1 DEF BusyInside, KeyHeldWhileInside, Inside
<1>2. MoneyAround(c)
  BY <1>1 DEF MoneyAround, MoneyInv
<1>3. MoneyKept(c)
  BY <1>2, OperationMoney, AdministrationMoney
<1>4. ASSUME NEW d \in Clients, d # c PROVE work'[d] = work[d] /\ (Busy(d)' <=> Busy(d))
  BY <1>4, OthersUntouched, AdministrationOthers DEF Busy
<1>5. CASE ~Busy(c) /\ ~Busy(c)' /\ RowStays
  <2>1. ASSUME NEW d \in Clients, Busy(d)' PROVE Halfway(work[d])'
    <3>1. d # c /\ work'[d] = work[d] /\ Busy(d)
      BY <1>4, <1>5, <2>1
    <3>2. QED
      BY <1>5, <3>1, HalfwayFrame DEF MoneyInv
  <2>2. (\A d \in Clients : ~Busy(d)') => \A d \in Clients : ~Busy(d)
    BY <1>4, <1>5
  <2>3. QED
    BY <1>5, <2>1, <2>2, RowFrame DEF MoneyInv
<1>6. CASE /\ Busy(c) \/ ~mutexKey
           /\ IF Busy(c)' THEN Halfway(work[c])' ELSE AtRest'
  <2>1. ASSUME NEW d \in Clients, d # c PROVE ~Busy(d)'
    BY <1>1, <1>4, <1>6, <2>1 DEF OneMoneyAction
  <2>2. QED
    BY <1>6, <2>1 DEF MoneyInv
<1>7. QED
  BY <1>3, <1>5, <1>6 DEF MoneyKept

LEMMA MoneyInvariance ==
    ASSUME Faultless
    PROVE  AdministeredSafety => []MoneyInv
<1>1. StoreInit => MoneyInv
  <2> SUFFICES ASSUME StoreInit PROVE MoneyInv
    OBVIOUS
  <2>1. /\ booking.status = "PENDING" /\ booking.pay = "payment_method_required"
        /\ booking.outcome = "none" /\ booking.intent = 0 /\ booking.credit = 0
        /\ ~booking.reversed /\ booking.refunded = 0
        /\ stripe.gen = 0 /\ stripe.pi = "none" /\ stripe.reversedBy = "none"
        /\ stripe.payouts = {} /\ ~stripe.keyLive /\ stripe.older = "none"
        /\ \A c \in Clients : ~Busy(c)
    BY DEF StoreInit, StripeInit, Busy
  <2>2. /\ AccountSound /\ LiveRow /\ FailedRow /\ NoShowRow /\ CancelledRow
        /\ IntentKnown /\ HoldSound
    BY <2>1 DEF AccountSound, LiveRow, Live, Undecided, FailedRow, NoShowRow, CancelledRow,
       IntentKnown,
       HoldSound
  <2>3. QED
    BY <2>1, <2>2 DEF MoneyInv, AtRest, RowSound
<1>2. StoreTypeOK /\ BusyInside /\ OneMoneyAction /\ KeyHeldWhileInside /\ ~overlap
        /\ MoneyInv /\ [AdministeredNext]_allVars => MoneyInv'
  <2> SUFFICES ASSUME StoreTypeOK, BusyInside, OneMoneyAction, KeyHeldWhileInside, ~overlap,
                      MoneyInv, [AdministeredNext]_allVars
               PROVE  MoneyInv'
    OBVIOUS
  <2>1. CASE MutexExpires \/ Tick \/ UNCHANGED allVars
    <3>1. RowStays /\ UNCHANGED work
      BY <2>1 DEF MutexExpires, Tick, allVars, storeVars, RowStays
    <3>2. QED
      BY <3>1, CompletedMoney
  <2>2. CASE FailureAges \/ AuthorizationAges
    BY <2>2, QuietMoney
  <2>3. ASSUME NEW c \in Clients, WorkerCrash(c) PROVE FALSE
    BY <2>3 DEF WorkerCrash, StoreTypeOK, Faultless
  <2>4. CASE InstructorMarkComplete \/ AdminComplete
    <3>1. RowStays /\ UNCHANGED work
      BY <2>4 DEF InstructorMarkComplete, AdminComplete, RowStays, StoreTypeOK, BookingType
    <3>2. QED
      BY <3>1, CompletedMoney
  <2>5. ASSUME NEW c \in Clients, Operation(c) \/ AdministrationStep(c) PROVE MoneyInv'
    BY <2>5, WorkerMoney
  <2>6. QED
    BY <2>1, <2>2, <2>3, <2>4, <2>5 DEF AdministeredNext, LifecycleNext, Environment
<1>3. LockInv => KeyHeldWhileInside
  BY DEF LockInv
<1>4. ~SlowHolders /\ ~RedisFaults
  BY DEF Faultless
<1>5. AdministeredSafety => []~overlap
  BY <1>4, NoOverlapWithoutFaults, AdministratorsUseLock, PTL
<1>6. AdministeredSafety => []OneMoneyAction
  BY <1>4, AdministratorsExclude
<1>7. QED
  BY <1>1, <1>2, <1>3, <1>5, <1>6, AdministeredTyping, AdministeredBusyInvariance,
     AdministratorsUseLock, LockInvariance, PTL DEF AdministeredSafety

-----------------------------------------------------------------------------
(* What the settlement says is what the account has. *)
LEMMA AccountAlwaysSound ==
    ASSUME MoneyInv
    PROVE  AccountSound
<1>1. CASE \A c \in Clients : ~Busy(c)
  BY <1>1 DEF MoneyInv, AtRest, RowSound
<1>2. ASSUME NEW c \in Clients, Busy(c) PROVE AccountSound
  <2>1. Halfway(work[c])
    BY <1>2 DEF MoneyInv
  <2>2. Authorizing(work[c]) \/ Collecting(work[c]) \/ AtRest => AccountSound
    BY DEF Authorizing, Collecting, AtRest, RowSound
  <2>3. Cancels(work[c]) \/ Refunds(work[c]) => AccountSound
    BY DEF Cancels, Refunds
  <2>4. Keeps(work[c]) => AccountSound
    BY DEF Keeps, AtRest, RowSound
  <2>5. QED
    BY <2>1, <2>2, <2>3, <2>4 DEF Halfway
<1>3. QED
  BY <1>1, <1>2

LEMMA SettledRow ==
    ASSUME MoneyInv, booking.pay = "settled", ~Administering
    PROVE  AtRest \/ (Live /\ booking.outcome \in Undecided)
<1>1. CASE \A c \in Clients : ~Busy(c)
  BY <1>1 DEF MoneyInv
<1>2. ASSUME NEW c \in Clients, Busy(c)
      PROVE  AtRest \/ (Live /\ booking.outcome \in Undecided)
  <2>1. Halfway(work[c])
    BY <1>2 DEF MoneyInv
  <2>2. ~Authorizing(work[c]) /\ ~Collecting(work[c])
    BY DEF Authorizing, Collecting
  <2>3. Cancels(work[c]) => Live /\ booking.outcome \in Undecided
    BY DEF Cancels
  <2>4. ASSUME work[c].kind \in Refunding, Refunds(work[c]) PROVE AtRest
    BY <2>4 DEF Refunds, Administering, Running, Refunding, AdminKinds
  <2>5. ASSUME work[c].kind = "force_keep", Keeps(work[c]) PROVE AtRest
    BY <2>5 DEF Keeps, Administering, Running, AdminKinds
  <2>6. QED
    BY <2>1, <2>2, <2>3, <2>4, <2>5 DEF Halfway
<1>3. QED
  BY <1>1, <1>2

(* The figures of an account, from what AccountSound says of it. *)
LEMMA Figures ==
    ASSUME AccountSound, ~Escalated
    PROVE  /\ stripe.pi \notin {"captured", "partly_refunded"} =>
                 Charges = 0 /\ StudentPaid = 0 /\ InstructorNet = 0
           /\ stripe.pi = "partly_refunded" => StudentPaid = 1 /\ InstructorNet = 1
           /\ stripe.pi = "captured" =>
                 /\ Charges = 1 /\ StudentPaid = 2
                 /\ "half" \in stripe.payouts => InstructorNet = 1
                 /\ "half" \notin stripe.payouts =>
                       InstructorNet = IF stripe.reversedBy = "none" THEN 2 ELSE 0
  BY DEF AccountSound, Escalated, Charges, StudentPaid, InstructorNet

(* What GivenBack and KeptWhole say in these figures. *)
LEMMA RecordFigures ==
    ASSUME AccountSound, ~Escalated, GivenBack \/ KeptWhole
    PROVE  /\ StudentPaid = Whole - booking.refunded
           /\ InstructorNet = Whole - booking.refunded
           /\ stripe.pi # "hold"
<1>1. CASE KeptWhole
  BY <1>1, Figures DEF KeptWhole, TransferWhole, Whole
<1>2. CASE GivenBack
  BY <1>2, Figures DEF GivenBack, Given, Whole
<1>3. QED
  BY <1>1, <1>2

LEMMA SettledPays ==
    ASSUME StoreTypeOK, MoneyInv, booking.pay = "settled", ~Escalated, ~Administering
    PROVE  /\ booking.outcome = "payment_failed_no_charge" /\ ~CapturedEarly => MoneyIs(0, 0, 0)
           /\ booking.outcome \in {"student_cancel_gt24_no_charge",
                                   "instructor_cancel_full_refund"} =>
                 MoneyIs(0, 0, 0) /\ stripe.pi # "hold"
           /\ booking.outcome = "lesson_completed_full_payout" => MoneyIs(1, 2, 0)
           /\ booking.outcome = "student_cancel_12_24_full_credit" =>
                 MoneyIs(1, IF booking.reversed THEN 0 ELSE 2, 2)
           /\ booking.outcome = "student_cancel_lt12_split_50_50" =>
                 MoneyIs(1, 1, 1) /\ booking.reversed
           /\ booking.outcome \in AdminRefunds \cup {"admin_no_refund"} =>
                 /\ StudentPaid = Whole - booking.refunded
                 /\ InstructorNet = Whole - booking.refunded
                 /\ stripe.pi # "hold"
<1>1. CASE Live /\ booking.outcome \in Undecided
  BY <1>1 DEF Undecided, AdminRefunds
<1>2. CASE AtRest
  <2>1. AccountSound /\ LiveRow /\ FailedRow /\ NoShowRow /\ CancelledRow
    BY <1>2 DEF AtRest, RowSound
  <2>2. \/ Live \/ booking.status = "PAYMENT_FAILED" \/ booking.status = "NO_SHOW"
        \/ booking.status = "CANCELLED"
    BY DEF StoreTypeOK, BookingType, Statuses, Live
  <2>3. CASE Live
    <3>1. \/ booking.outcome \in Undecided
          \/ /\ booking.outcome = InstructorPaid /\ booking.credit = 0
             /\ stripe.pi = "captured" /\ stripe.reversedBy = "none"
             /\ "half" \notin stripe.payouts
      BY <2>1, <2>3 DEF LiveRow, AccountSound
    <3>2. QED
      BY <2>1, <3>1, Figures DEF MoneyIs, Undecided, InstructorPaid, AdminRefunds
  <2>4. CASE booking.status = "PAYMENT_FAILED"
    <3>1. /\ booking.outcome = "payment_failed_no_charge" /\ booking.credit = 0
          /\ ~CapturedEarly => stripe.pi \notin {"captured", "partly_refunded"}
      BY <2>1, <2>4 DEF FailedRow, CapturedEarly, JobKeys
    <3>2. QED
      BY <2>1, <3>1, Figures DEF MoneyIs, AdminRefunds
  <2>5. CASE booking.status = "NO_SHOW"
    <3>1. booking.outcome = "instructor_no_show_full_refund" /\ GivenBack
      BY <2>1, <2>5 DEF NoShowRow
    <3>2. QED
      BY <2>1, <3>1, RecordFigures
  <2>6. CASE booking.status = "CANCELLED"
    <3>1. /\ booking.outcome \notin {"payment_failed_no_charge", "lesson_completed_full_payout"}
          /\ Deal
      BY <2>1, <2>6 DEF CancelledRow, InstructorPaid
    <3>2. booking.outcome \in AdminRefunds \cup {"admin_no_refund"} => GivenBack \/ KeptWhole
      BY <3>1 DEF Deal
    <3>3. CASE booking.outcome \in {"student_cancel_gt24_no_charge",
                                    "instructor_cancel_full_refund"}
      BY <2>1, <3>1, <3>3, Figures DEF Deal, Uncharged, MoneyIs, AdminRefunds
    <3>4. CASE booking.outcome = "student_cancel_12_24_full_credit"
      <4>1. /\ stripe.pi = "captured" /\ booking.credit = 2 /\ "half" \notin stripe.payouts
            /\ IF booking.reversed THEN stripe.reversedBy # "none"
                                   ELSE stripe.reversedBy = "none"
        BY <2>1, <3>1, <3>4 DEF Deal, AccountSound
      <4>2. QED
        BY <2>1, <3>4, <4>1, Figures DEF MoneyIs, AdminRefunds
    <3>5. CASE booking.outcome = "student_cancel_lt12_split_50_50"
      <4>1. /\ "half" \in stripe.payouts /\ booking.credit = 1 /\ booking.reversed
            /\ stripe.pi = "captured"
        BY <2>1, <3>1, <3>5 DEF Deal, AccountSound
      <4>2. QED
        BY <2>1, <3>5, <4>1, Figures DEF MoneyIs, AdminRefunds
    <3>6. QED
      BY <2>1, <3>1, <3>2, <3>3, <3>4, <3>5, RecordFigures
  <2>7. QED
    BY <2>2, <2>3, <2>4, <2>5, <2>6
<1>3. QED
  BY <1>1, <1>2, SettledRow

(* Without faults of the lock, the workers or the network, a settled       *)
(* payment says what was charged, what the instructor has received and     *)
(* what credit was issued, full credit without a reversal included, for    *)
(* any number of workers, whatever Stripe refuses, in every order of jobs, *)
(* requests and commands.                                                  *)
THEOREM SettlementsMeanMoney ==
    ASSUME Faultless
    PROVE  AdministeredSafety => []SettledMeansMoney
<1>1. StoreTypeOK /\ MoneyInv => SettledMeansMoney
  BY SettledPays DEF SettledMeansMoney
<1>2. QED
  BY <1>1, AdministeredTyping, MoneyInvariance, PTL

(* Under the same assumption, the lesson is charged once: no job,          *)
(* reauthorization or scenario of cancellation follows the charge of       *)
(* another with one of its own.                                            *)
THEOREM OneChargePerLesson ==
    ASSUME Faultless
    PROVE  AdministeredSafety => []AtMostOneCharge
<1>1. MoneyInv => AtMostOneCharge
  <2> SUFFICES ASSUME MoneyInv PROVE AtMostOneCharge
    OBVIOUS
  <2>1. AccountSound
    BY AccountAlwaysSound
  <2>2. QED
    BY <2>1 DEF AccountSound, AtMostOneCharge, Charges
<1>2. QED
  BY <1>1, MoneyInvariance, PTL

(* Under the same assumption, between operations the intent on record of   *)
(* an authorized payment is the hold that Stripe has.                      *)
THEOREM AuthorizationsAreBacked ==
    ASSUME Faultless
    PROVE  AdministeredSafety => []AuthorizationIsBacked
<1>1. StoreTypeOK /\ MoneyInv => AuthorizationIsBacked
  <2> SUFFICES ASSUME StoreTypeOK, MoneyInv, Quiescent, booking.pay = "authorized",
                      booking.authAge # "old"
               PROVE  stripe.pi = "hold" /\ booking.intent = stripe.gen
    BY DEF AuthorizationIsBacked
  <2>1. AtRest
    BY DEF MoneyInv, Quiescent, Busy
  <2>2. QED
    BY <2>1 DEF AtRest, HoldSound, StoreTypeOK, BookingType
<1>2. QED
  BY <1>1, AdministeredTyping, MoneyInvariance, PTL

(* Under the same assumption, what an administrator's refund, of a part or *)
(* the whole, or cancellation put on record is what the student was given  *)
(* back, what the instructor has the rest of, and no hold is left.         *)
THEOREM AdminSettlementsMeanMoney ==
    ASSUME Faultless
    PROVE  AdministeredSafety => []AdminSettlementMeansMoney
<1>1. StoreTypeOK /\ MoneyInv => AdminSettlementMeansMoney
  BY SettledPays DEF AdminSettlementMeansMoney
<1>2. QED
  BY <1>1, AdministeredTyping, MoneyInvariance, PTL

(* Nobody is in the middle of an operation on a booking that an            *)
(* administrator has refunded.                                             *)
LEMMA AdminSettledRests ==
    ASSUME MoneyInv, AdminSettled, NEW c \in Clients
    PROVE  ~Busy(c)
<1> SUFFICES ASSUME Busy(c) PROVE FALSE
  OBVIOUS
<1>1. Halfway(work[c])
  BY DEF MoneyInv
<1>2. ~Authorizing(work[c]) /\ ~Cancels(work[c])
  BY DEF Authorizing, Cancels, AdminSettled, Live
<1>3. ~Collecting(work[c]) /\ ~Refunds(work[c]) /\ ~Keeps(work[c])
  BY DEF Collecting, Refunds, Keeps, AdminSettled
<1>4. booking.pay # "payment_method_required"
  BY DEF AdminSettled
<1>5. QED
  BY <1>1, <1>2, <1>3, <1>4 DEF Halfway

(* What an administrator does to a refunded booking: at most a command     *)
(* begins.                                                                 *)
LEMMA AdministrationRests ==
    ASSUME StoreTypeOK, NEW c \in Clients, AdministrationStep(c), AdminSettled, ~Busy(c)
    PROVE  SameMoney /\ SameVerdict
<1>1. CASE AdminRefund(c) \/ AdminCancelRefunding(c) \/ ForceRefund(c) \/ ForceKeep(c)
  BY <1>1 DEF AdminRefund, AdminCancelRefunding, ForceRefund, ForceKeep, SameMoney, SameVerdict,
     Charges, InstructorNet
<1>2. CASE AdminCancel(c) \/ ForceComplete(c)
  BY <1>2 DEF AdminCancel, ForceComplete, AdminSettled
<1>3. CASE IssueRefund(c) \/ ForceVoid(c) \/ ForceCapture(c) \/ AdminPersist(c)
  <2>1. work[c].kind \in AdminKinds /\ work[c].at \in {"refund", "stripe", "persist"}
    BY <1>3 DEF IssueRefund, ForceVoid, ForceCapture, AdminPersist, Running, Refunding, AdminKinds
  <2>2. QED
    BY <2>1 DEF Busy, NoJob, AdminKinds
<1>4. QED
  BY <1>1, <1>2, <1>3 DEF AdministrationStep

(* Under the same assumption, once an administrator has refunded a         *)
(* booking, nothing moves its money or rewrites its verdict again.         *)
THEOREM AdminRefundsAreFinal ==
    ASSUME Faultless
    PROVE  AdministeredSafety => AdminRefundIsFinal
<1>1. StoreTypeOK /\ MoneyInv /\ [AdministeredNext]_allVars =>
         [AdminSettled => /\ booking'.pay = "settled"
                          /\ booking'.outcome = booking.outcome
                          /\ Charges' = Charges /\ InstructorNet' = InstructorNet]_allVars
  <2> SUFFICES ASSUME StoreTypeOK, MoneyInv, AdministeredNext, AdminSettled
               PROVE  SameMoney /\ SameVerdict
    BY DEF SameMoney, SameVerdict, AdminSettled
  <2>1. \A c \in Clients : ~Busy(c)
    BY AdminSettledRests
  <2>2. Closed /\ PaidIsComplete
    BY DEF AdminSettled, Closed, Terminal, PaidIsComplete, InstructorPaid, AdminRefunds
  <2>3. CASE Environment \/ InstructorMarkComplete
    BY <2>3, EnvironmentRests
  <2>4. ASSUME NEW c \in Clients, Operation(c) PROVE SameMoney /\ SameVerdict
    BY <2>1, <2>2, <2>4, OperationRests DEF RestsWell
  <2>5. CASE AdminComplete
    BY <2>5 DEF AdminComplete, AdminSettled
  <2>6. ASSUME NEW c \in Clients, AdministrationStep(c) PROVE SameMoney /\ SameVerdict
    BY <2>1, <2>6, AdministrationRests
  <2>7. QED
    BY <2>3, <2>4, <2>5, <2>6 DEF AdministeredNext, LifecycleNext
<1>2. QED
  BY <1>1, AdministeredTyping, MoneyInvariance, PTL DEF AdministeredSafety, AdminRefundIsFinal
-----------------------------------------------------------------------------
(* What the instructor receives, with every fault.  However operations     *)
(* overlap and whatever replies are lost, no call takes away what a half   *)
(* was paid out of: the transfer that was reversed stays reversed.         *)
AccountWell ==
    /\ stripe.gen = 0 => stripe.pi = "none"
    /\ stripe.gen < MaxIntents => stripe.older = "none"
    /\ stripe.reversedBy # "none" => stripe.pi = "captured"

Backed == \/ stripe.pi = "captured" /\ stripe.reversedBy # "none"
          \/ stripe.older = "reversed"

JobBacked(job) == job.at = "payout" => Backed
PayoutInv == /\ AccountWell
             /\ "half" \in stripe.payouts => Backed
             /\ \A c \in Clients : JobBacked(work[c])

(* What the calls are, but for the payout of a half.                       *)
AccountMoves ==
    \/ UNCHANGED stripe
    \/ \E ok \in BOOLEAN :
          \/ CreateCall(ok)
          \/ PayoutCall("full", ok)
          \/ \E intent, key, amount :
                \/ HoldCall(intent, key, "captured", ok)
                \/ HoldCall(intent, key, "void", ok)
                \/ key # "none" /\ ReverseCall(intent, key, ok)
                \/ RefundCall(intent, key, amount, ok)
    \/ \E dropped \in BOOLEAN : stripe' = Outdated(dropped)

LEMMA MovesKeepBacking ==
    ASSUME stripe \in StripeType, AccountWell, AccountMoves
    PROVE  /\ AccountWell'
           /\ Backed => Backed'
           /\ "half" \in stripe'.payouts => "half" \in stripe.payouts
<1> DEFINE Kept == /\ AccountWell'
                   /\ Backed => Backed'
                   /\ "half" \in stripe'.payouts => "half" \in stripe.payouts
<1> USE DEF AccountWell, Backed, Replays, Fails, TakesEffect, DoneBefore, StripeType
<1>1. CASE UNCHANGED stripe
  BY <1>1
<1>2. ASSUME NEW ok \in BOOLEAN, CreateCall(ok) PROVE Kept
  <2>1. \/ UNCHANGED stripe
        \/ /\ stripe.gen < MaxIntents
           /\ stripe' = [stripe EXCEPT !.gen = @ + 1, !.pi = "hold",
                                       !.by = "none", !.reversedBy = "none",
                                       !.keyLive = TRUE, !.older = Superseded]
    BY <1>2 DEF CreateCall
  <2>2. CASE /\ stripe.gen < MaxIntents
             /\ stripe' = [stripe EXCEPT !.gen = @ + 1, !.pi = "hold",
                                         !.by = "none", !.reversedBy = "none",
                                         !.keyLive = TRUE, !.older = Superseded]
    <3>1. /\ stripe'.gen = stripe.gen + 1 /\ stripe'.pi = "hold" /\ stripe'.reversedBy = "none"
          /\ stripe'.older = Superseded /\ stripe'.payouts = stripe.payouts
      BY <2>2
    <3>2. stripe.gen = 0 => Superseded = "none"
      BY <2>2 DEF Superseded, MaxIntents
    <3>3. Backed => Superseded = "reversed"
      BY <2>2 DEF Superseded
    <3>4. QED
      BY <2>2, <3>1, <3>2, <3>3 DEF MaxIntents
  <2>3. QED
    BY <1>1, <2>1, <2>2
<1>3. ASSUME NEW ok \in BOOLEAN, PayoutCall("full", ok) PROVE Kept
  BY <1>3 DEF PayoutCall
<1>4. ASSUME NEW ok \in BOOLEAN, NEW intent, NEW key, NEW state \in {"captured", "void"},
             HoldCall(intent, key, state, ok)
      PROVE  Kept
  BY <1>4 DEF HoldCall
<1>5. ASSUME NEW ok \in BOOLEAN, NEW intent, NEW key, key # "none", ReverseCall(intent, key, ok)
      PROVE  Kept
  BY <1>5 DEF ReverseCall
<1>6. ASSUME NEW ok \in BOOLEAN, NEW intent, NEW key, NEW amount,
             RefundCall(intent, key, amount, ok)
      PROVE  Kept
  BY <1>6 DEF RefundCall
<1>7. ASSUME NEW dropped \in BOOLEAN, stripe' = Outdated(dropped) PROVE Kept
  BY <1>7 DEF Outdated
<1>8. QED
  BY <1>1, <1>2, <1>3, <1>4, <1>5, <1>6, <1>7 DEF AccountMoves

(* No step but the reversal of a late cancellation goes on to the payout.  *)
PayoutNotAhead(c) == work'[c] = work[c] \/ work'[c].at # "payout"

LEMMA PhaseAhead ==
    ASSUME StoreTypeOK, NEW c \in Clients
    PROVE  /\ \A job : Begin(c, job) /\ job.at # "payout" => PayoutNotAhead(c)
           /\ \A job : Proceed(c, job) /\ job.at # "payout" => PayoutNotAhead(c)
           /\ Finish(c) => PayoutNotAhead(c)
           /\ UnderLock(c) => PayoutNotAhead(c) /\ UNCHANGED stripe
  BY PhaseBusy DEF PayoutNotAhead, NoJob

LEMMA JobsAhead ==
    ASSUME NEW job \in JobType
    PROVE  /\ \A at, ok : at # "payout" => [job EXCEPT !.ok = ok, !.at = at].at # "payout"
           /\ \A at : at # "payout" => [job EXCEPT !.at = at].at # "payout"
           /\ \A at, paid : at # "payout" => [job EXCEPT !.paid = paid, !.at = at].at # "payout"
           /\ \A at, intent :
                 at # "payout" => [job EXCEPT !.at = at, !.intent = intent].at # "payout"
  BY DEF JobType

LEMMA AuthorizationMoves ==
    ASSUME StoreTypeOK, NEW c \in Clients, AuthorizationStep(c)
    PROVE  AccountMoves /\ PayoutNotAhead(c)
<1>j. work[c] \in JobType
  BY DEF StoreTypeOK
<1>1. CASE \/ ConfirmNow(c) \/ AuthorizeStart(c) \/ RetryStart(c) \/ StudentRetryStart(c)
           \/ ConfirmLater(c)
  BY <1>1, PhaseAhead DEF ConfirmNow, AuthorizeStart, RetryStart, StudentRetryStart, ConfirmLater,
     Job, AccountMoves
<1>2. CASE AuthorizeStripe(c)
  <2> DEFINE creates == work[c].kind = "retry" \/ work[c].intent = 0
             at(ok) == IF ok /\ creates /\ work[c].kind # "student_retry"
                       THEN "commit" ELSE "persist"
  <2>1. PICK ok \in BOOLEAN :
           /\ CreateCall(ok) \/ UNCHANGED stripe
           /\ Proceed(c, [work[c] EXCEPT !.ok = ok, !.at = at(ok)])
    BY <1>2 DEF AuthorizeStripe, ConfirmCall
  <2>2. at(ok) # "payout"
    OBVIOUS
  <2> HIDE DEF at
  <2>3. QED
    BY <1>j, <2>1, <2>2, PhaseAhead, JobsAhead DEF AccountMoves
<1>3. CASE AuthorizeCommit(c)
  <2>1. Proceed(c, [work[c] EXCEPT !.at = "persist"]) /\ UNCHANGED stripe
    BY <1>3 DEF AuthorizeCommit
  <2>2. QED
    BY <1>j, <2>1, PhaseAhead, JobsAhead DEF AccountMoves
<1>4. CASE PersistAuthorize(c) \/ PersistRetry(c) \/ PersistStudentRetry(c)
  BY <1>4, PhaseAhead DEF PersistAuthorize, PersistRetry, PersistStudentRetry, AccountMoves
<1>5. CASE PlanMarkFailed(c) \/ PlannedMarkFailed(c) \/ ImmediateTimeout(c)
  <2>1. UNCHANGED stripe
    BY <1>5 DEF PlanMarkFailed, PlannedMarkFailed, ImmediateTimeout
  <2>2. PayoutNotAhead(c)
    BY <1>5 DEF PlanMarkFailed, PlannedMarkFailed, ImmediateTimeout, PayoutNotAhead, StoreTypeOK,
       Job, NoJob
  <2>3. QED
    BY <2>1, <2>2 DEF AccountMoves
<1>6. QED
  BY <1>1, <1>2, <1>3, <1>4, <1>5 DEF AuthorizationStep

LEMMA CaptureMoves ==
    ASSUME StoreTypeOK, NEW c \in Clients, CaptureStep(c)
    PROVE  AccountMoves /\ PayoutNotAhead(c)
<1>j. work[c] \in JobType
  BY DEF StoreTypeOK
<1>1. CASE \/ CaptureStart(c) \/ AutoComplete(c) \/ ExpiredCapture(c) \/ ExpireAuthorization(c)
           \/ RetryCapture(c) \/ EscalateStart(c)
  BY <1>1, PhaseAhead DEF CaptureStart, AutoComplete, ExpiredCapture, ExpireAuthorization,
     RetryCapture, EscalateStart, Job, AccountMoves
<1>2. CASE CaptureStripe(c) \/ Recapture(c) \/ Reauthorize(c) \/ EscalateStripe(c)
  <2>1. CASE CaptureStripe(c)
    BY <1>j, <2>1, PhaseAhead, JobsAhead DEF CaptureStripe, CaptureCall, AccountMoves
  <2>2. CASE Recapture(c)
    BY <1>j, <2>2, PhaseAhead, JobsAhead DEF Recapture, CaptureCall, AccountMoves
  <2>3. CASE Reauthorize(c)
    BY <1>j, <2>3, PhaseAhead, JobsAhead DEF Reauthorize, AccountMoves
  <2>4. CASE EscalateStripe(c)
    BY <1>j, <2>4, PhaseAhead, JobsAhead DEF EscalateStripe, AccountMoves
  <2>5. QED
    BY <1>2, <2>1, <2>2, <2>3, <2>4
<1>3. CASE PersistExpired(c) \/ RecaptureCommit(c)
  <2>1. /\ UNCHANGED stripe
        /\ \/ Proceed(c, [work[c] EXCEPT !.at = "reauth"])
           \/ Proceed(c, [work[c] EXCEPT !.at = "resettle"])
    BY <1>3 DEF PersistExpired, RecaptureCommit
  <2>2. QED
    BY <1>j, <2>1, PhaseAhead, JobsAhead DEF AccountMoves
<1>4. CASE PersistCapture(c) \/ PersistReauth(c) \/ ReauthFailed(c) \/ PersistEscalate(c)
  BY <1>4, PhaseAhead DEF PersistCapture, PersistReauth, ReauthFailed, PersistEscalate,
     AccountMoves
<1>5. QED
  BY <1>1, <1>2, <1>3, <1>4 DEF CaptureStep

LEMMA CancellationMoves ==
    ASSUME StoreTypeOK, NEW c \in Clients, CancellationStep(c), ~CancelReverse(c), ~CancelPayout(c)
    PROVE  AccountMoves /\ PayoutNotAhead(c)
<1>j. work[c] \in JobType
  BY DEF StoreTypeOK
<1>1. ASSUME NEW role \in Roles, CancelStart(c, role) PROVE AccountMoves /\ PayoutNotAhead(c)
  <2> DEFINE first == FirstStep(Scenario(role))
  <2>1. first # "payout"
    BY DEF FirstStep
  <2>2. Begin(c, Job(Scenario(role), first)) /\ UNCHANGED stripe
    BY <1>1 DEF CancelStart
  <2> HIDE DEF first
  <2>3. QED
    BY <2>1, <2>2, PhaseAhead DEF Job, AccountMoves
<1>2. CASE CancelVoid(c)
  BY <1>j, <1>2, PhaseAhead, JobsAhead DEF CancelVoid, VoidCall, AccountMoves
<1>3. CASE CancelRefund(c)
  BY <1>j, <1>3, PhaseAhead, JobsAhead DEF CancelRefund, AccountMoves
<1>4. CASE CancelCapture(c)
  BY <1>j, <1>4, PhaseAhead, JobsAhead DEF CancelCapture, CaptureCall, AccountMoves
<1>5. CASE CancelDetails(c)
  BY <1>j, <1>5, PhaseAhead, JobsAhead DEF CancelDetails, AccountMoves
<1>6. CASE CancelNoAmount(c)
  BY <1>j, <1>6, PhaseAhead, JobsAhead DEF CancelNoAmount, AccountMoves
<1>7. CASE PersistCancel(c)
  BY <1>7, PhaseAhead DEF PersistCancel, AccountMoves
<1>8. QED
  BY <1>1, <1>2, <1>3, <1>4, <1>5, <1>6, <1>7 DEF CancellationStep

LEMMA AdministrationMoves ==
    ASSUME StoreTypeOK, NEW c \in Clients, AdministrationStep(c)
    PROVE  AccountMoves /\ PayoutNotAhead(c)
<1>j. work[c] \in JobType
  BY DEF StoreTypeOK
<1>1. CASE AdminRefund(c) \/ AdminCancelRefunding(c)
  <2>1. PICK job : Begin(c, job) /\ job.at = "refund"
    <3>1. \A kind, amount : [Job(kind, "refund") EXCEPT !.refund = amount].at = "refund"
      BY DEF Job
    <3>2. \A kind : Job(kind, "refund").at = "refund"
      BY DEF Job
    <3>3. QED
      BY <1>1, <3>1, <3>2 DEF AdminRefund, AdminCancelRefunding
  <2>2. QED
    BY <1>1, <2>1, PhaseAhead DEF AdminRefund, AdminCancelRefunding, AccountMoves
<1>2. CASE ForceRefund(c)
  <2> DEFINE first == CASE booking.intent = 0     -> "persist"
                        [] booking.intent # 0 /\ booking.pay = "settled" -> "refund"
                        [] OTHER                  -> "stripe"
             amount == IF booking.intent = 0 THEN 0 ELSE Whole
             job == [Job("force_refund", first) EXCEPT !.refund = amount]
  <2>1. Begin(c, job) /\ UNCHANGED stripe
    BY <1>2 DEF ForceRefund
  <2>2. job.at = first
    BY DEF Job
  <2>3. first # "payout"
    OBVIOUS
  <2> HIDE DEF first, amount, job
  <2>4. QED
    BY <2>1, <2>2, <2>3, PhaseAhead DEF AccountMoves
<1>3. CASE ForceKeep(c)
  <2> DEFINE first == IF booking.intent # 0 /\ booking.pay = "authorized"
                      THEN "stripe" ELSE "persist"
             charged == booking.intent # 0 /\ booking.pay = "settled"
             job == [Job("force_keep", first) EXCEPT !.ok = charged]
  <2>1. Begin(c, job) /\ UNCHANGED stripe
    BY <1>3 DEF ForceKeep
  <2>2. job.at = first
    BY DEF Job
  <2>3. first # "payout"
    OBVIOUS
  <2> HIDE DEF first, charged, job
  <2>4. QED
    BY <2>1, <2>2, <2>3, PhaseAhead DEF AccountMoves
<1>4. CASE AdminCancel(c) \/ ForceComplete(c)
  BY <1>4, PhaseAhead DEF AdminCancel, ForceComplete, Job, AccountMoves
<1>5. ASSUME NEW ok \in BOOLEAN, GoOnIf(c, ok) PROVE PayoutNotAhead(c)
  BY <1>j, <1>5, PhaseAhead, JobsAhead DEF GoOnIf
<1>6. CASE IssueRefund(c)
  BY <1>5, <1>6 DEF IssueRefund, AccountMoves
<1>7. CASE ForceVoid(c)
  BY <1>5, <1>7 DEF ForceVoid, VoidCall, AccountMoves
<1>8. CASE ForceCapture(c)
  BY <1>j, <1>8, PhaseAhead, JobsAhead DEF ForceCapture, CaptureCall, AccountMoves
<1>9. CASE AdminPersist(c)
  BY <1>9, PhaseAhead DEF AdminPersist, AccountMoves
<1>10. QED
  BY <1>1, <1>2, <1>3, <1>4, <1>6, <1>7, <1>8, <1>9 DEF AdministrationStep

(* One worker's step, with what the other workers are about to do.         *)
LEMMA WorkerPays ==
    ASSUME StoreTypeOK, PayoutInv, NEW c \in Clients, Operation(c) \/ AdministrationStep(c)
    PROVE  PayoutInv'
<1>b. stripe \in StripeType /\ work[c] \in JobType /\ AccountWell
  BY DEF StoreTypeOK, PayoutInv
<1>o. \A d \in Clients : d # c => work'[d] = work[d]
  BY OthersUntouched, AdministrationOthers
<1>1. CASE CancelPayout(c)
  <2>1. PICK ok \in BOOLEAN :
           /\ PayoutCall("half", ok)
           /\ Proceed(c, [work[c] EXCEPT !.paid = ok, !.at = "persist"])
    BY <1>1 DEF CancelPayout
  <2>2. Backed
    BY <1>1 DEF CancelPayout, Running, PayoutInv, JobBacked
  <2>3. AccountWell' /\ Backed'
    BY <1>b, <2>1, <2>2 DEF PayoutCall, Replays, Fails, TakesEffect, AccountWell, Backed, StripeType
  <2>4. QED
    BY <2>3 DEF PayoutInv, JobBacked
<1>2. CASE CancelReverse(c)
  <2>1. PICK ok \in BOOLEAN :
           /\ ReverseCall(work[c].intent, work[c].kind, ok)
           /\ Proceed(c, [work[c] EXCEPT !.rev = IF ok THEN "done" ELSE "failed",
                                         !.at = AfterReversal(work[c], ok)])
    BY <1>2 DEF CancelReverse
  <2>2. work[c].kind # "none"
    BY <1>2 DEF CancelReverse, Running, Capturing
  <2>3. /\ AccountWell'
        /\ Backed => Backed'
        /\ "half" \in stripe'.payouts => "half" \in stripe.payouts
    <3>1. AccountMoves
      BY <2>1, <2>2 DEF AccountMoves
    <3>2. QED
      BY <1>b, <3>1, MovesKeepBacking
  <2>4. ok => Backed'
    BY <1>b, <2>1, <2>2 DEF ReverseCall, Replays, Fails, TakesEffect, AccountWell, Backed,
       StripeType
  <2>5. work'[c].at = AfterReversal(work[c], ok)
    <3> DEFINE next == [work[c] EXCEPT !.rev = IF ok THEN "done" ELSE "failed",
                                       !.at = AfterReversal(work[c], ok)]
    <3>1. next.at = AfterReversal(work[c], ok)
      BY <1>b DEF JobType
    <3>2. Proceed(c, next)
      BY <2>1
    <3> HIDE DEF next
    <3>3. QED
      BY <3>1, <3>2, PhaseBusy
  <2>6. \A d \in Clients : JobBacked(work[d])'
    BY <1>o, <2>3, <2>4, <2>5 DEF PayoutInv, JobBacked, AfterReversal
  <2>7. QED
    BY <2>3, <2>6 DEF PayoutInv
<1>3. CASE ~CancelPayout(c) /\ ~CancelReverse(c)
  <2>1. AccountMoves /\ PayoutNotAhead(c)
    <3>1. CompletionStep(c) => AccountMoves /\ PayoutNotAhead(c)
      BY PhaseAhead DEF CompletionStep, CompleteBooking, DisputeCompletion, AccountMoves
    <3>2. QED
      BY <1>3, <3>1, AuthorizationMoves, CaptureMoves, CancellationMoves, AdministrationMoves
         DEF Operation
  <2>2. /\ AccountWell'
        /\ Backed => Backed'
        /\ "half" \in stripe'.payouts => "half" \in stripe.payouts
    BY <1>b, <2>1, MovesKeepBacking
  <2>3. \A d \in Clients : JobBacked(work[d])'
    BY <1>o, <2>1, <2>2 DEF PayoutInv, JobBacked, PayoutNotAhead
  <2>4. QED
    BY <2>2, <2>3 DEF PayoutInv
<1>4. QED
  BY <1>1, <1>2, <1>3

LEMMA PayoutInvariance == AdministeredSafety => []PayoutInv
<1>1. StoreInit => PayoutInv
  BY DEF StoreInit, StripeInit, PayoutInv, AccountWell, JobBacked, NoJob
<1>2. StoreTypeOK /\ PayoutInv /\ [AdministeredNext]_allVars => PayoutInv'
  <2> SUFFICES ASSUME StoreTypeOK, PayoutInv, [AdministeredNext]_allVars PROVE PayoutInv'
    OBVIOUS
  <2>s. stripe \in StripeType /\ AccountWell
    BY DEF StoreTypeOK, PayoutInv
  <2>1. CASE UNCHANGED <<stripe, work>>
    BY <2>1 DEF PayoutInv, AccountWell, Backed, JobBacked
  <2>2. CASE AuthorizationAges
    <3>1. AccountMoves /\ UNCHANGED work
      BY <2>2 DEF AuthorizationAges, AccountMoves
    <3>2. QED
      BY <2>s, <3>1, MovesKeepBacking DEF PayoutInv, JobBacked
  <2>3. ASSUME NEW c \in Clients, WorkerCrash(c) PROVE PayoutInv'
    <3>1. UNCHANGED stripe /\ work' = [work EXCEPT ![c] = NoJob]
      BY <2>3 DEF WorkerCrash
    <3>2. \A d \in Clients : work'[d] = work[d] \/ work'[d].at # "payout"
      BY <3>1 DEF StoreTypeOK, NoJob
    <3>3. QED
      BY <3>1, <3>2 DEF PayoutInv, AccountWell, Backed, JobBacked
  <2>4. ASSUME NEW c \in Clients, Operation(c) \/ AdministrationStep(c) PROVE PayoutInv'
    BY <2>4, WorkerPays
  <2>5. CASE MutexExpires \/ Tick \/ FailureAges \/ InstructorMarkComplete \/ AdminComplete
    <3>1. UNCHANGED <<stripe, work>>
      BY <2>5 DEF MutexExpires, storeVars, Tick, FailureAges, InstructorMarkComplete, AdminComplete
    <3>2. QED
      BY <2>1, <3>1
  <2>6. QED
    BY <2>1, <2>2, <2>3, <2>4, <2>5 DEF AdministeredNext, LifecycleNext, Environment, allVars,
       storeVars
<1>3. QED
  BY <1>1, <1>2, AdministeredTyping, PTL DEF AdministeredSafety

(* Whoever overlaps, dies or misses a reply, administrators included, and  *)
(* whatever the mutex does: unless the platform stepped in, the instructor *)
(* never receives more than the student has paid and was not given back.   *)
THEOREM NobodyIsPaidTwice == AdministeredSafety => []PaidFromTheCharge
<1>1. StoreTypeOK /\ PayoutInv => PaidFromTheCharge
  <2> SUFFICES ASSUME StoreTypeOK, PayoutInv, ~Escalated PROVE InstructorNet <= StudentPaid
    BY DEF PaidFromTheCharge
  <2>1. /\ AccountWell
        /\ "half" \in stripe.payouts => Backed
        /\ "full" \notin stripe.payouts
    BY DEF PayoutInv, Escalated
  <2>2. stripe \in StripeType
    BY DEF StoreTypeOK
  <2>3. CASE "half" \notin stripe.payouts
    BY <2>1, <2>2, <2>3 DEF InstructorNet, StudentPaid, StripeType
  <2>4. CASE "half" \in stripe.payouts
    BY <2>1, <2>2, <2>4 DEF InstructorNet, StudentPaid, StripeType, AccountWell, Backed
  <2>5. QED
    BY <2>3, <2>4
<1>2. QED
  BY <1>1, AdministeredTyping, PayoutInvariance, PTL
=============================================================================
