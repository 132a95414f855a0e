------------------------- MODULE LockedFundsProofs -------------------------
(* Proofs about LockedFunds for any number of workers, lost replies or not,*)
(* and any number of deaths and lapses.                                    *)
EXTENDS LockedFunds, TLAPS

(* A call to Stripe keeps the account an account, and issues no credit.    *)
LEMMA CallTyped ==
    ASSUME account \in AccountType, NEW ok \in BOOLEAN,
           NEW key \in {"lock", "noshow"}, NEW state \in {"captured", "void"},
           NEW part \in {"half", "full"}
    PROVE  /\ HoldCall(key, state, ok) =>
                 account' \in AccountType /\ account'.credit = account.credit
           /\ PayoutCall(part, ok) =>
                 account' \in AccountType /\ account'.credit = account.credit
           /\ RefundCall(ok) =>
                 account' \in AccountType /\ account'.credit = account.credit
           /\ Call(account.reversed, account.pi = "captured",
                   [account EXCEPT !.reversed = TRUE], ok) =>
                 account' \in AccountType /\ account'.credit = account.credit
<1> DEFINE Kept == account' \in AccountType /\ account'.credit = account.credit
<1>1. HoldCall(key, state, ok) => Kept
  <2>1. /\ [account EXCEPT !.pi = state, !.by = key] \in AccountType
        /\ [account EXCEPT !.pi = state, !.by = key].credit = account.credit
    BY DEF AccountType
  <2>2. QED
    BY <2>1 DEF HoldCall, Call
<1>2. PayoutCall(part, ok) => Kept
  <2>1. /\ [account EXCEPT !.paid = @ \cup {part}] \in AccountType
        /\ [account EXCEPT !.paid = @ \cup {part}].credit = account.credit
    BY DEF AccountType
  <2>2. QED
    BY <2>1 DEF PayoutCall, Call
<1>3. RefundCall(ok) => Kept
  <2>1. /\ [account EXCEPT !.pi = "refunded"] \in AccountType
        /\ [account EXCEPT !.pi = "refunded"].credit = account.credit
    BY DEF AccountType
  <2>2. QED
    BY <2>1 DEF RefundCall, Call
<1>4. Call(account.reversed, account.pi = "captured", [account EXCEPT !.reversed = TRUE], ok)
         => Kept
  <2>1. /\ [account EXCEPT !.reversed = TRUE] \in AccountType
        /\ [account EXCEPT !.reversed = TRUE].credit = account.credit
    BY DEF AccountType
  <2>2. QED
    BY <2>1 DEF Call
<1>5. QED
  BY <1>1, <1>2, <1>3, <1>4

(* The jobs a worker can be given. *)
LEMMA JobTyped ==
    ASSUME NEW r \in Rows, NEW kind \in {"idle", "lock", "fresh", "cancel", "auto", "capture",
                                         "noshow"},
           NEW at \in {"none", "capture", "reverse", "save", "replace", "confirm", "swap",
                       "resolve", "call", "record", "finish", "settle"}
    PROVE  /\ Job(kind, r, at) \in WorkType
           /\ Idle \in WorkType
           /\ \A plan \in Resolutions : [Job(kind, r, at) EXCEPT !.plan = plan] \in WorkType
<1>1. Job(kind, r, at) \in WorkType
  BY DEF Job, WorkType
<1>2. Idle \in WorkType
  BY DEF Idle, Job, WorkType, Rows
<1>3. ASSUME NEW plan \in Resolutions
      PROVE  [Job(kind, r, at) EXCEPT !.plan = plan] \in WorkType
  BY <1>1 DEF WorkType
<1>4. QED
  BY <1>1, <1>2, <1>3

(* What the phases of an operation do to everything but the case. *)
LEMMA PhaseTyped ==
    ASSUME RescheduleTypeOK, NEW c \in Workers
    PROVE  /\ \A job \in WorkType : Enter(c, job) =>
                 /\ work' \in [Workers -> WorkType] /\ mutex' \in [Rows -> BOOLEAN]
                 /\ window' \in 0..5 /\ faults' \in 0..MaxFaults
           /\ \A job \in WorkType : GoOn(c, job) =>
                 /\ work' \in [Workers -> WorkType] /\ mutex' \in [Rows -> BOOLEAN]
                 /\ window' \in 0..5 /\ faults' \in 0..MaxFaults
           /\ Leave(c) =>
                 /\ work' \in [Workers -> WorkType] /\ mutex' \in [Rows -> BOOLEAN]
                 /\ window' \in 0..5 /\ faults' \in 0..MaxFaults
           /\ GiveUp(c) =>
                 /\ work' \in [Workers -> WorkType] /\ mutex' \in [Rows -> BOOLEAN]
                 /\ window' \in 0..5 /\ faults' \in 0..MaxFaults
           /\ \A r : Under(c, r) =>
                 /\ work' \in [Workers -> WorkType] /\ mutex' \in [Rows -> BOOLEAN]
                 /\ window' \in 0..5 /\ faults' \in 0..MaxFaults
<1>1. Idle \in WorkType
  BY JobTyped DEF Rows
<1>2. faults < MaxFaults => faults + 1 \in 0..MaxFaults
  BY RescheduleModes DEF RescheduleTypeOK
<1>3. QED
  BY <1>1, <1>2 DEF RescheduleTypeOK, Enter, GoOn, Leave, GiveUp, Under

(* What the operations do to the case: the type of the rows and of the     *)
(* account, and that resolution and credit change in ResolveRecord alone.  *)
CaseTypeOK == /\ rows \in [Rows -> RowType]
              /\ resolution \in {"none"} \cup Resolutions
              /\ contested \in BOOLEAN
              /\ account \in AccountType

WorkTypeOK == /\ mutex \in [Rows -> BOOLEAN]
              /\ work \in [Workers -> WorkType]
              /\ window \in 0..5
              /\ faults \in 0..MaxFaults

LEMMA TypeParts == RescheduleTypeOK <=> CaseTypeOK /\ WorkTypeOK
  BY DEF RescheduleTypeOK, CaseTypeOK, WorkTypeOK

(* What the cancellation of the original and the rollback of its           *)
(* replacement leave.                                                      *)
LEMMA RolledBackMeans ==
    ASSUME rows \in [Rows -> RowType], NEW new \in RolledBack
    PROVE  /\ new \in RowType
           /\ new.status \in {"absent", "CANCELLED"}
           /\ new.status = "absent" => rows["new"].status = "PENDING"
           /\ new.locked => rows["new"].locked
<1> DEFINE cancelled == [rows["new"] EXCEPT !.status = "CANCELLED", !.pay = "settled"]
<1>1. rows["new"] \in RowType
  BY DEF Rows
<1>2. /\ cancelled \in RowType /\ cancelled.status = "CANCELLED"
      /\ cancelled.locked = rows["new"].locked
  BY <1>1 DEF RowType
<1>3. NoRow \in RowType /\ NoRow.status = "absent" /\ ~NoRow.locked
  BY DEF RowType, NoRow
<1>4. \/ new = rows["new"] /\ rows["new"].status = "CANCELLED"
      \/ new = NoRow /\ rows["new"].status = "PENDING"
      \/ new = cancelled
  BY DEF RolledBack
<1>5. QED
  BY <1>1, <1>2, <1>3, <1>4

LEMMA CancelMeans ==
    ASSUME RescheduleTypeOK, NEW new \in RowType, CancelOriginal(new)
    PROVE  /\ rows' \in [Rows -> RowType] /\ rows'["new"] = new
           /\ rows'["old"].status = "CANCELLED"
           /\ rows'["old"].pay = rows["old"].pay \/
                 /\ rows'["old"].pay \in {"settled", "manual_review", "payment_method_required"}
                 /\ rows["old"].pay # "locked"
           /\ account' \in AccountType
           /\ account' = account \/ (account' = [account EXCEPT !.pi = account'.pi]
                                      /\ rows["old"].pay # "locked")
           /\ (account'.pi = "none") <=> (account.pi = "none")
           /\ account'.pi = account.pi \/ account'.pi \in {"void", "captured", "credited"}
           /\ account'.pi = account.pi \/ account.pi \in {"hold", "captured"}
           /\ account.pi = "captured" => account'.pi \in {"captured", "credited"}
<1>t. /\ rows \in [Rows -> RowType] /\ account \in AccountType /\ "old" \in Rows /\ "new" \in Rows
      /\ rows["old"] \in RowType
  BY DEF RescheduleTypeOK, Rows
<1>1. CASE /\ rows["old"].status = "CANCELLED"
           /\ rows' = [rows EXCEPT !["new"] = new]
           /\ UNCHANGED account
  <2>1. rows'["new"] = new /\ rows'["old"] = rows["old"] /\ rows' \in [Rows -> RowType]
    BY <1>1, <1>t
  <2>2. QED
    BY <1>1, <1>t, <2>1
<1>2. CASE /\ rows["old"].status = "CONFIRMED"
           /\ rows["old"].pay # "locked"
           /\ \E pay \in {"settled", "manual_review", "payment_method_required"},
                 pi \in {"none", "hold", "captured", "void", "refunded", "credited"} :
                 /\ pi \in IF pay = "settled" THEN Released ELSE Stuck
                 /\ rows' = [rows EXCEPT !["old"].status = "CANCELLED", !["old"].pay = pay,
                                         !["new"] = new]
                 /\ account' = [account EXCEPT !.pi = pi]
  <2>1. PICK pay \in {"settled", "manual_review", "payment_method_required"},
             pi \in {"none", "hold", "captured", "void", "refunded", "credited"} :
                 /\ pi \in IF pay = "settled" THEN Released ELSE Stuck
                 /\ rows' = [rows EXCEPT !["old"].status = "CANCELLED", !["old"].pay = pay,
                                         !["new"] = new]
                 /\ account' = [account EXCEPT !.pi = pi]
    BY <1>2
  <2>2. pi \in Released \cup Stuck
    BY <2>1
  <2>3. pi \in Released => \/ account.pi = "hold" /\ pi \in {"void", "credited"}
                           \/ account.pi = "captured" /\ pi = "credited"
                           \/ account.pi \notin {"hold", "captured"} /\ pi = account.pi
    BY DEF Released
  <2>4. pi \in Stuck => \/ account.pi # "none" /\ pi = account.pi
                        \/ account.pi = "hold" /\ pi = "captured"
                        \/ account.pi # "none" /\ pi \in Released
    BY DEF Stuck
  <2>5. account' \in AccountType /\ account'.pi = pi
    BY <1>t, <2>1 DEF AccountType
  <2>6. [rows["old"] EXCEPT !.status = "CANCELLED", !.pay = pay] \in RowType
    BY <1>t DEF RowType
  <2>7. rows' = [rows EXCEPT !["old"] = [rows["old"] EXCEPT !.status = "CANCELLED", !.pay = pay],
                             !["new"] = new]
    BY <1>t, <2>1
  <2>8. /\ rows'["new"] = new /\ rows' \in [Rows -> RowType]
        /\ rows'["old"] = [rows["old"] EXCEPT !.status = "CANCELLED", !.pay = pay]
    BY <1>t, <2>6, <2>7
  <2>9. rows'["old"].status = "CANCELLED" /\ rows'["old"].pay = pay
    BY <1>t, <2>8 DEF RowType
  <2>10. QED
    BY <1>2, <2>1, <2>2, <2>3, <2>4, <2>5, <2>8, <2>9
<1>3. QED
  BY <1>1, <1>2 DEF CancelOriginal

(* The swap: what it does to the original, to the replacement and to the   *)
(* charge.                                                                 *)
Swapped ==
    /\ rows' \in [Rows -> RowType] /\ account' \in AccountType
    /\ \/ rows'["new"] = rows["new"]
       \/ rows'["new"].status = "CANCELLED"
       \/ rows["new"].status = "PENDING" /\ rows'["new"].status = "absent"
    /\ rows'["new"].locked => rows["new"].locked
    /\ rows'["old"].pay = rows["old"].pay \/
          /\ rows'["old"].pay \in {"settled", "manual_review", "payment_method_required"}
          /\ rows["old"].pay # "locked"
    /\ account' = account \/ (account' = [account EXCEPT !.pi = account'.pi]
                               /\ rows["old"].pay # "locked")
    /\ (account'.pi = "none") <=> (account.pi = "none")
    /\ account'.pi = account.pi \/ account'.pi \in {"void", "captured", "credited"}
    /\ account'.pi = account.pi \/ account.pi \in {"hold", "captured"}
    /\ account.pi = "captured" => account'.pi \in {"captured", "credited"}

LEMMA SwapMeans ==
    ASSUME RescheduleTypeOK, NEW c \in Workers, FreshSwap(c)
    PROVE  /\ Swapped /\ CaseTypeOK' /\ account'.credit = account.credit
           /\ \/ /\ Leave(c)
                 /\ \/ rows'["new"].status = "absent"
                    \/ \E r \in Rows : rows'[r].status = "CANCELLED"
              \/ GiveUp(c) /\ UNCHANGED <<rows, account>>
<1>t. /\ rows \in [Rows -> RowType] /\ account \in AccountType /\ "old" \in Rows /\ "new" \in Rows
      /\ rows["new"] \in RowType
  BY DEF RescheduleTypeOK, Rows
<1>c. resolution' \in {"none"} \cup Resolutions /\ contested' \in BOOLEAN
  BY DEF FreshSwap, RescheduleTypeOK
<1>1. CASE /\ \E new \in {rows["new"]} \cup RolledBack : CancelOriginal(new)
           /\ Leave(c)
  <2>1. PICK new \in {rows["new"]} \cup RolledBack : CancelOriginal(new)
    BY <1>1
  <2>2. /\ new \in RowType
        /\ new = rows["new"] \/ new.status = "CANCELLED"
              \/ (rows["new"].status = "PENDING" /\ new.status = "absent")
        /\ new.locked => rows["new"].locked
    BY <1>t, <2>1, RolledBackMeans
  <2>3. Swapped /\ rows'["old"].status = "CANCELLED"
    BY <2>1, <2>2, CancelMeans DEF Swapped
  <2>4. account'.credit = account.credit
    BY <1>t, <2>3 DEF Swapped, AccountType
  <2>5. QED
    BY <1>c, <1>t, <1>1, <2>3, <2>4 DEF CaseTypeOK, Swapped
<1>2. CASE /\ \E new \in RolledBack : rows' = [rows EXCEPT !["new"] = new]
           /\ Leave(c)
           /\ UNCHANGED account
  <2>1. PICK new \in RolledBack : rows' = [rows EXCEPT !["new"] = new]
    BY <1>2
  <2>2. /\ new \in RowType
        /\ new.status \in {"absent", "CANCELLED"}
        /\ new.status = "absent" => rows["new"].status = "PENDING"
        /\ new.locked => rows["new"].locked
    BY <1>t, RolledBackMeans
  <2>3. rows'["new"] = new /\ rows'["old"] = rows["old"] /\ rows' \in [Rows -> RowType]
    BY <1>t, <2>1, <2>2
  <2>4. Swapped
    BY <1>t, <1>2, <2>2, <2>3 DEF Swapped
  <2>5. QED
    BY <1>c, <1>t, <1>2, <2>2, <2>3, <2>4 DEF CaseTypeOK
<1>3. CASE GiveUp(c) /\ UNCHANGED <<rows, account>>
  BY <1>3, <1>c, <1>t DEF Swapped, CaseTypeOK
<1>4. QED
  BY <1>1, <1>2, <1>3 DEF FreshSwap

LEMMA RescheduleCase ==
    ASSUME RescheduleTypeOK, NEW c \in Workers, RescheduleStep(c)
    PROVE  CaseTypeOK' /\ resolution' = resolution /\ account'.credit = account.credit
<1> USE DEF RescheduleTypeOK, CaseTypeOK, caseVars
<1>1. CASE LockStart(c)
  BY <1>1 DEF LockStart
<1>2. CASE LockCapture(c)
  BY <1>2, CallTyped DEF LockCapture
<1>3. CASE LockReverse(c)
  BY <1>3, CallTyped DEF LockReverse
<1>4. CASE LockSave(c)
  BY <1>4 DEF LockSave, RowType, Rows
<1>5. CASE LockReplace(c)
  <2>1. [status |-> "CONFIRMED", pay |-> "locked", locked |-> TRUE] \in RowType
    BY DEF RowType
  <2>2. [rows["old"] EXCEPT !.status = "CANCELLED"] \in RowType
    BY DEF RowType, Rows
  <2>3. rows' \in [Rows -> RowType]
    BY <1>5, <2>1, <2>2 DEF LockReplace, Rows
  <2>4. QED
    BY <1>5, <2>3 DEF LockReplace
<1>6. CASE MoveWithPayment(c)
  BY <1>6 DEF MoveWithPayment, RowType, Rows, AccountType
<1>7. CASE FreshStart(c)
  BY <1>7 DEF FreshStart, RowType, Rows
<1>8. CASE FreshConfirm(c)
  <2>1. NoRow \in RowType
    BY DEF RowType, NoRow
  <2>2. [rows["new"] EXCEPT !.status = "CONFIRMED", !.pay = "scheduled"] \in RowType
    BY DEF RowType, Rows
  <2>3. rows' \in [Rows -> RowType]
    BY <1>8, <2>1, <2>2 DEF FreshConfirm, Rows
  <2>4. QED
    BY <1>8, <2>3 DEF FreshConfirm
<1>9. CASE FreshSwap(c)
  <2>1. /\ CaseTypeOK' /\ account'.credit = account.credit
    BY <1>9, SwapMeans DEF FreshSwap
  <2>2. QED
    BY <1>9, <2>1 DEF FreshSwap
<1>10. CASE FreshSwapLocked(c)
  BY <1>10 DEF FreshSwapLocked
<1>11. QED
  BY <1>1, <1>2, <1>3, <1>4, <1>5, <1>6, <1>7, <1>8, <1>9, <1>10 DEF RescheduleStep

LEMMA RescheduleWork ==
    ASSUME RescheduleTypeOK, NEW c \in Workers, RescheduleStep(c)
    PROVE  WorkTypeOK'
<1> USE DEF WorkTypeOK
<1>j. work[c] \in WorkType /\ "old" \in Rows
  BY DEF RescheduleTypeOK, Rows
<1>1. CASE LockStart(c) \/ FreshStart(c)
  <2>1. Job("lock", "old", "capture") \in WorkType /\ Job("fresh", "old", "confirm") \in WorkType
    BY <1>j, JobTyped
  <2>2. QED
    BY <1>1, <2>1, PhaseTyped DEF LockStart, FreshStart
<1>2. CASE LockCapture(c) \/ LockReverse(c) \/ LockSave(c) \/ FreshConfirm(c)
  <2>1. \A ok \in BOOLEAN, at \in {"reverse", "save", "replace", "swap"} :
           /\ [work[c] EXCEPT !.at = at] \in WorkType
           /\ [work[c] EXCEPT !.at = at, !.ok = ok] \in WorkType
    BY <1>j DEF WorkType
  <2>2. QED
    BY <1>2, <2>1, PhaseTyped DEF LockCapture, LockReverse, LockSave, FreshConfirm
<1>3. CASE LockReplace(c)
  <2>1. Idle \in WorkType
    BY <1>j, JobTyped
  <2>2. window' \in 0..5 /\ faults' \in 0..MaxFaults
    BY <1>3 DEF LockReplace, RescheduleTypeOK, ge24, lt12
  <2>3. mutex' \in [Rows -> BOOLEAN] /\ work' \in [Workers -> WorkType]
    BY <1>3, <2>1 DEF LockReplace, RescheduleTypeOK
  <2>4. QED
    BY <2>2, <2>3
<1>4. CASE MoveWithPayment(c) \/ FreshSwap(c)
  BY <1>4, PhaseTyped DEF MoveWithPayment, FreshSwap
<1>5. CASE FreshSwapLocked(c)
  <2>1. "new_lesson_cancelled_ge12" \in Resolutions
    BY DEF Resolutions
  <2>2. [Job("cancel", "old", "resolve") EXCEPT !.plan = "new_lesson_cancelled_ge12"] \in WorkType
    BY <1>j, <2>1, JobTyped
  <2>3. QED
    BY <1>5, <2>2, PhaseTyped DEF FreshSwapLocked
<1>6. QED
  BY <1>1, <1>2, <1>3, <1>4, <1>5 DEF RescheduleStep

-----------------------------------------------------------------------------
LEMMA CarrierTyped == Carrier \in Rows
  BY DEF Carrier, Rows

(* A row that gets another status, or another payment, is still a row.     *)
LEMMA RowTyped ==
    ASSUME NEW row \in RowType
    PROVE  /\ \A s \in {"CONFIRMED", "COMPLETED", "CANCELLED", "NO_SHOW"},
                 p \in {"none", "authorized", "manual_review", "payment_method_required",
                        "settled"} :
                 /\ [row EXCEPT !.status = s] \in RowType
                 /\ [row EXCEPT !.pay = p] \in RowType
                 /\ [row EXCEPT !.status = s, !.pay = p] \in RowType
  BY DEF RowType

LEMMA LockCase ==
    ASSUME RescheduleTypeOK, NEW c \in Workers, LockStep(c)
    PROVE  /\ CaseTypeOK'
           /\ \/ resolution' = resolution /\ account'.credit = account.credit
              \/ ResolveRecord(c)
<1> USE DEF RescheduleTypeOK, CaseTypeOK, caseVars
<1>c. CASE CancelLocked(c) \/ CaptureLocked(c) \/ ResolveLoad(c)
  BY <1>c DEF CancelLocked, CaptureLocked, ResolveLoad
<1>2. CASE AutoComplete(c) \/ ChildSettled(c)
  <2>1. "new" \in Rows
    BY DEF Rows
  <2>2. /\ [rows["new"] EXCEPT !.status = "COMPLETED"] \in RowType
        /\ [rows["new"] EXCEPT !.pay = "settled"] \in RowType
    BY <2>1, RowTyped
  <2>3. QED
    BY <1>2, <2>1, <2>2 DEF AutoComplete, ChildSettled
<1>3. CASE ResolveCall(c)
  <2>1. PICK ok \in BOOLEAN : \/ PayoutCall("full", ok)
                              \/ PayoutCall("half", ok)
                              \/ RefundCall(ok)
                              \/ UNCHANGED account
    BY <1>3 DEF ResolveCall
  <2>2. account' \in AccountType /\ account'.credit = account.credit
    BY <2>1, CallTyped
  <2>3. QED
    BY <1>3, <2>2 DEF ResolveCall
<1>4. CASE ResolveRecord(c)
  <2>1. /\ work[c].plan \in Resolutions
        /\ [account EXCEPT !.credit = CreditFor(work[c].plan)] \in AccountType
    BY <1>4 DEF ResolveRecord, WorkType, CreditFor, AccountType
  <2>2. "old" \in Rows
    BY DEF Rows
  <2>3. /\ [rows["old"] EXCEPT !.pay = "settled"] \in RowType
        /\ [rows["old"] EXCEPT !.pay = "manual_review"] \in RowType
    BY <2>2, RowTyped
  <2>4. rows' \in [Rows -> RowType]
    BY <1>4, <2>2, <2>3 DEF ResolveRecord
  <2>5. QED
    BY <1>4, <2>1, <2>4 DEF ResolveRecord
<1>5. CASE CancelFinish(c)
  <2>1. work[c].row \in Rows
    BY DEF WorkType
  <2>2. [rows[work[c].row] EXCEPT !.status = "CANCELLED", !.pay = "settled"] \in RowType
    BY <2>1, RowTyped
  <2>3. QED
    BY <1>5, <2>1, <2>2 DEF CancelFinish
<1>6. CASE CompleteBooking(c) \/ DisputeCompletion(c)
  <2>1. /\ [rows[Carrier] EXCEPT !.status = "COMPLETED"] \in RowType
        /\ [rows[Carrier] EXCEPT !.pay = "manual_review"] \in RowType
    BY CarrierTyped, RowTyped
  <2>2. rows' \in [Rows -> RowType]
    BY <1>6, <2>1, CarrierTyped DEF CompleteBooking, DisputeCompletion, RowType
  <2>3. QED
    BY <1>6, <2>2 DEF CompleteBooking, DisputeCompletion
<1>7. QED
  BY <1>c, <1>2, <1>3, <1>4, <1>5, <1>6 DEF LockStep

LEMMA LockWork ==
    ASSUME RescheduleTypeOK, listed \in SUBSET {"auto", "capture", "noshow"},
           NEW c \in Workers, LockStep(c)
    PROVE  WorkTypeOK' /\ listed' \in SUBSET {"auto", "capture", "noshow"}
<1> USE DEF WorkTypeOK
<1>j. work[c] \in WorkType
  BY DEF RescheduleTypeOK
<1>1. CASE CancelLocked(c) \/ AutoComplete(c) \/ CaptureLocked(c)
  <2>1. \A kind \in {"cancel", "auto", "capture"}, r \in Rows, plan \in Resolutions :
           [Job(kind, r, "resolve") EXCEPT !.plan = plan] \in WorkType
    BY JobTyped
  <2>2. /\ \A role : PlanOf(role) \in Resolutions
        /\ "new_lesson_completed" \in Resolutions
        /\ "new" \in Rows
    BY DEF PlanOf, Resolutions, Rows
  <2>3. QED
    BY <1>1, <2>1, <2>2, CarrierTyped, PhaseTyped DEF CancelLocked, AutoComplete, CaptureLocked
<1>2. CASE ResolveLoad(c) \/ ResolveCall(c) \/ ResolveRecord(c)
  <2>1. \A ok \in BOOLEAN, at \in {"call", "record", "finish"} :
           /\ [work[c] EXCEPT !.at = at] \in WorkType
           /\ [work[c] EXCEPT !.at = at, !.ok = ok] \in WorkType
    BY <1>j DEF WorkType
  <2>2. QED
    BY <1>2, <2>1, PhaseTyped DEF ResolveLoad, ResolveCall, ResolveRecord
<1>3. CASE CancelFinish(c) \/ ChildSettled(c) \/ CompleteBooking(c) \/ DisputeCompletion(c)
  BY <1>3, PhaseTyped DEF CancelFinish, ChildSettled, CompleteBooking, DisputeCompletion
<1>4. QED
  BY <1>1, <1>2, <1>3 DEF LockStep

-----------------------------------------------------------------------------
LEMMA ResolutionJobTyped ==
    ASSUME NEW verdict \in Verdicts
    PROVE  ResolutionJob(verdict) \in WorkType
<1> DEFINE at == IF verdict = "cancelled" THEN "settle"
                  ELSE IF rows[Carrier].locked THEN "resolve" ELSE "call"
           plan == IF rows[Carrier].locked /\ verdict # "cancelled"
                   THEN LockPlan(verdict) ELSE "none"
<1>1. at \in {"settle", "resolve", "call"}
  OBVIOUS
<1>2. plan \in {"none"} \cup Resolutions
  BY DEF LockPlan, Resolutions
<1>3. Job("noshow", Carrier, at) \in WorkType
  BY <1>1, CarrierTyped, JobTyped
<1>4. [Job("noshow", Carrier, at) EXCEPT !.verdict = verdict, !.plan = plan] \in WorkType
  BY <1>2, <1>3 DEF WorkType
<1>5. QED
  BY <1>4 DEF ResolutionJob

LEMMA OutcomeTyped ==
    ASSUME rows \in [Rows -> RowType], NEW r \in Rows, NEW verdict, NEW ok,
           NEW restored \in RestoredPay(r)
    PROVE  Outcome(r, verdict, ok, restored) \in RowType
<1>1. restored \in {"none", "authorized", "payment_method_required", "settled"}
  BY DEF RestoredPay
<1>2. rows[r] \in RowType
  OBVIOUS
<1>3. (IF ok THEN "settled" ELSE IF report.type = "student" THEN "payment_method_required"
                                 ELSE "manual_review")
         \in {"settled", "payment_method_required", "manual_review"}
  OBVIOUS
<1>4. QED
  BY <1>1, <1>2, <1>3, RowTyped DEF Outcome

LEMMA NoShowCase ==
    ASSUME NoShowTypeOK, NEW c \in Workers, NoShowStep(c)
    PROVE  /\ CaseTypeOK'
           /\ resolution' = resolution /\ account'.credit = account.credit
           /\ report' \in ReportType
           /\ listed' \in SUBSET {"auto", "capture", "noshow"}
<1> USE DEF NoShowTypeOK, RescheduleTypeOK, CaseTypeOK, caseVars
<1>1. ASSUME NEW type \in {"instructor", "student", "mutual"}, Reported(type)
      PROVE  /\ CaseTypeOK' /\ report' \in ReportType
             /\ UNCHANGED <<resolution, account, listed>>
  <2>1. [rows[Carrier] EXCEPT !.status = "NO_SHOW", !.pay = "manual_review"] \in RowType
    BY CarrierTyped, RowTyped
  <2>2. [NoReport EXCEPT !.type = type] \in ReportType
    BY DEF NoReport, ReportType
  <2>3. QED
    BY <1>1, <2>1, <2>2, CarrierTyped DEF Reported
<1>2. CASE ReportNoShow(c) \/ ReportAutomated(c)
  BY <1>1, <1>2 DEF ReportNoShow, ReportAutomated
<1>3. CASE DisputeNoShow(c)
  BY <1>3 DEF DisputeNoShow, ReportType
<1>4. CASE AdminResolves(c) \/ JobResolves(c) \/ LockSettled(c)
  BY <1>4 DEF AdminResolves, JobResolves, LockSettled
<1>5. CASE SettleCall(c)
  BY <1>5, CallTyped DEF SettleCall
<1>6. CASE ResolutionSaved(c)
  <2>1. CASE UNCHANGED <<rows, report>>
    BY <1>6, <2>1 DEF ResolutionSaved
  <2>2. ASSUME NEW restored \in RestoredPay(work[c].row),
               /\ rows' = [rows EXCEPT ![work[c].row] =
                              Outcome(work[c].row, work[c].verdict, work[c].ok, restored)]
               /\ report' = [report EXCEPT !.resolution = work[c].verdict]
        PROVE  /\ CaseTypeOK'
               /\ resolution' = resolution /\ account'.credit = account.credit
               /\ report' \in ReportType
               /\ listed' \in SUBSET {"auto", "capture", "noshow"}
    <3>1. work[c].row \in Rows /\ work[c].verdict \in {"none"} \cup Verdicts
      BY DEF WorkType
    <3>2. Outcome(work[c].row, work[c].verdict, work[c].ok, restored) \in RowType
      BY <3>1, OutcomeTyped
    <3>3. [report EXCEPT !.resolution = work[c].verdict] \in ReportType
      BY <3>1 DEF ReportType
    <3>4. QED
      BY <1>6, <2>2, <3>2, <3>3 DEF ResolutionSaved
  <2>3. QED
    BY <1>6, <2>1, <2>2 DEF ResolutionSaved
<1>7. QED
  BY <1>2, <1>3, <1>4, <1>5, <1>6 DEF NoShowStep

LEMMA NoShowWork ==
    ASSUME NoShowTypeOK, NEW c \in Workers, NoShowStep(c)
    PROVE  WorkTypeOK'
<1> USE DEF NoShowTypeOK, WorkTypeOK
<1>1. CASE ReportNoShow(c) \/ ReportAutomated(c) \/ DisputeNoShow(c) \/ ResolutionSaved(c)
  BY <1>1, PhaseTyped DEF ReportNoShow, ReportAutomated, DisputeNoShow, ResolutionSaved
<1>2. CASE AdminResolves(c) \/ JobResolves(c)
  BY <1>2, PhaseTyped, ResolutionJobTyped DEF AdminResolves, JobResolves, Verdicts
<1>3. CASE SettleCall(c) \/ LockSettled(c)
  <2>1. work[c] \in WorkType
    BY DEF RescheduleTypeOK
  <2>2. \A ok \in BOOLEAN : [work[c] EXCEPT !.at = "settle", !.ok = ok] \in WorkType
    BY <2>1 DEF WorkType
  <2>3. QED
    BY <1>3, <2>2, PhaseTyped DEF SettleCall, LockSettled
<1>4. QED
  BY <1>1, <1>2, <1>3 DEF NoShowStep

LEMMA EnvironmentTyped ==
    ASSUME NoShowTypeOK, Environment
    PROVE  /\ NoShowTypeOK'
           /\ resolution' = resolution /\ account'.credit = account.credit
<1> USE DEF NoShowTypeOK, RescheduleTypeOK, caseVars
<1>1. CASE Tick
  <2>1. window' \in 0..5
    BY <1>1 DEF Tick, ended24
  <2>2. QED
    BY <1>1, <2>1 DEF Tick
<1>2. CASE ReportAges
  BY <1>2 DEF ReportAges, ReportType
<1>3. CASE NoShowJobReads
  BY <1>3 DEF NoShowJobReads
<1>4. CASE (CaptureJobReads \/ (\E list \in listed : Passed(list))) /\ UNCHANGED report
  BY <1>4 DEF CaptureJobReads, Passed
<1>5. CASE InstructorMarkComplete /\ UNCHANGED report
  <2>1. [rows[Carrier] EXCEPT !.status = "COMPLETED"] \in RowType
    BY CarrierTyped, RowTyped
  <2>2. QED
    BY <1>5, <2>1, CarrierTyped DEF InstructorMarkComplete
<1>f. faults < MaxFaults => faults + 1 \in 0..MaxFaults
  BY RescheduleModes
<1>6. ASSUME NEW c \in Workers, Dies(c), UNCHANGED <<listed, report>>
      PROVE  NoShowTypeOK' /\ resolution' = resolution /\ account'.credit = account.credit
  <2>1. Idle \in WorkType
    BY JobTyped DEF Rows
  <2>2. work' \in [Workers -> WorkType] /\ mutex' \in [Rows -> BOOLEAN]
    BY <1>6, <2>1 DEF Dies, GiveUp
  <2>3. QED
    BY <1>6, <1>f, <2>2 DEF Dies, GiveUp
<1>7. ASSUME NEW r \in Rows, Lapses(r), UNCHANGED <<listed, report>>
      PROVE  NoShowTypeOK' /\ resolution' = resolution /\ account'.credit = account.credit
  BY <1>7, <1>f DEF Lapses
<1>8. QED
  BY <1>1, <1>2, <1>3, <1>4, <1>5, <1>6, <1>7 DEF Environment

LEMMA StepTyped ==
    ASSUME NoShowTypeOK, FundsNext
    PROVE  /\ NoShowTypeOK'
           /\ \/ resolution' = resolution /\ account'.credit = account.credit
              \/ \E c \in Workers : ResolveRecord(c)
<1>1. CASE Environment
  BY <1>1, EnvironmentTyped
<1>2. ASSUME NEW c \in Workers, RescheduleStep(c), UNCHANGED <<listed, report>>
      PROVE  NoShowTypeOK' /\ resolution' = resolution /\ account'.credit = account.credit
  BY <1>2, RescheduleCase, RescheduleWork, TypeParts
     DEF NoShowTypeOK, CaseTypeOK, WorkTypeOK, RescheduleTypeOK
<1>3. ASSUME NEW c \in Workers, LockStep(c), UNCHANGED report
      PROVE  /\ NoShowTypeOK'
             /\ \/ resolution' = resolution /\ account'.credit = account.credit
                \/ ResolveRecord(c)
  BY <1>3, LockCase, LockWork
     DEF NoShowTypeOK, CaseTypeOK, WorkTypeOK, RescheduleTypeOK
<1>4. ASSUME NEW c \in Workers, NoShowStep(c)
      PROVE  NoShowTypeOK' /\ resolution' = resolution /\ account'.credit = account.credit
  BY <1>4, NoShowCase, NoShowWork
     DEF NoShowTypeOK, CaseTypeOK, WorkTypeOK, RescheduleTypeOK
<1>5. QED
  BY <1>1, <1>2, <1>3, <1>4 DEF FundsNext, WorkerStep

LEMMA InitTyped == NoShowInit => NoShowTypeOK /\ resolution = "none" /\ account.credit = 0
<1>1. SUFFICES ASSUME NoShowInit
               PROVE  NoShowTypeOK /\ resolution = "none" /\ account.credit = 0
  OBVIOUS
<1>2. Idle \in WorkType
  BY JobTyped DEF Rows
<1>3. NoReport \in ReportType
  BY DEF NoReport, ReportType
<1>4. PICK pay \in {"scheduled", "authorized"} :
         /\ rows = [r \in Rows |->
                       [status |-> IF r = "old" THEN "CONFIRMED" ELSE "absent",
                        pay |-> IF r = "old" THEN pay ELSE "none", locked |-> FALSE]]
         /\ account = [pi |-> IF pay = "authorized" THEN "hold" ELSE "none", by |-> "none",
                       at |-> "old", reversed |-> FALSE, paid |-> {}, credit |-> 0]
         /\ window \in IF pay = "authorized" THEN {ge24, from12to24} ELSE {ge24}
  BY <1>1 DEF NoShowInit, RescheduleInit
<1>5. rows \in [Rows -> RowType]
  BY <1>4 DEF RowType
<1>6. account \in AccountType /\ account.credit = 0
  BY <1>4 DEF AccountType, Rows
<1>7. window \in 0..5
  BY <1>4 DEF ge24, from12to24
<1>8. work \in [Workers -> WorkType] /\ mutex \in [Rows -> BOOLEAN]
  BY <1>1, <1>2 DEF NoShowInit, RescheduleInit
<1>9. /\ resolution = "none" /\ contested = FALSE /\ faults = 0
      /\ listed = {} /\ report = NoReport
  BY <1>1 DEF NoShowInit, RescheduleInit
<1>10. faults \in 0..MaxFaults
  BY <1>9, RescheduleModes
<1>11. contested \in BOOLEAN /\ listed \in SUBSET {"auto", "capture", "noshow"}
  BY <1>9
<1>12. QED
  BY <1>3, <1>5, <1>6, <1>7, <1>8, <1>9, <1>10, <1>11
     DEF NoShowTypeOK, RescheduleTypeOK

-----------------------------------------------------------------------------
(* Rows, account and work are always of their types (NoShowTypeOK).        *)
THEOREM FundsTyped == FundsSafety => []NoShowTypeOK
<1>1. NoShowInit => NoShowTypeOK
  BY InitTyped
<1>2. NoShowTypeOK /\ [FundsNext]_fundsVars => NoShowTypeOK'
  <2>1. NoShowTypeOK /\ UNCHANGED fundsVars => NoShowTypeOK'
    BY DEF NoShowTypeOK, RescheduleTypeOK, fundsVars, caseVars
  <2>2. QED
    BY <2>1, StepTyped
<1>3. QED
  BY <1>1, <1>2, PTL DEF FundsSafety

(* No credit is issued for a lock that is not resolved.                    *)
CreditIsResolved == resolution = "none" => account.credit = 0

LEMMA RecordDecides ==
    ASSUME NoShowTypeOK, CreditIsResolved, NEW c \in Workers, ResolveRecord(c)
    PROVE  CreditIsResolved' /\ (Promised!Decide \/ UNCHANGED <<Fate, account>>)
<1> USE DEF NoShowTypeOK, RescheduleTypeOK
<1>1. work[c].plan \in Resolutions
  BY DEF ResolveRecord, WorkType
<1>2. CASE ~Unresolved
  BY <1>2 DEF ResolveRecord, CreditIsResolved, Fate
<1>3. CASE Unresolved
  <2>1. /\ resolution = "none" /\ rows["old"].pay = "locked"
        /\ resolution' = work[c].plan
        /\ account' = [account EXCEPT !.credit = CreditFor(work[c].plan)]
    BY <1>3 DEF ResolveRecord, Unresolved
  <2>2. account.credit = 0 /\ account'.credit = CreditFor(work[c].plan)
    BY <2>1 DEF CreditIsResolved, AccountType
  <2>3. resolution' # "none" /\ Fate = "held" /\ Fate' = work[c].plan
    BY <1>1, <2>1 DEF Fate, Resolutions
  <2>4. CreditFor(work[c].plan) = Promised!Award[work[c].plan]
        /\ work[c].plan \in Promised!Decisions
    BY <1>1, <2>2 DEF CreditFor, Promised!Award, Promised!Decisions, Resolutions
  <2>5. QED
    BY <2>2, <2>3, <2>4 DEF Promised!Decide, CreditIsResolved
<1>4. QED
  BY <1>2, <1>3

(* The locked funds implement the escrow, whatever dies, lapses or is read *)
(* from a stale list (LockIsAnEscrow): a lock is resolved once.            *)
THEOREM FundsImplementEscrow == FundsSafety => LockIsAnEscrow
<1>1. NoShowInit => NoShowTypeOK /\ CreditIsResolved /\ Promised!EscrowInit
  <2>1. NoShowInit => rows["old"].pay # "locked"
    BY DEF NoShowInit, RescheduleInit, Rows
  <2>2. QED
    BY <2>1, InitTyped DEF CreditIsResolved, Promised!EscrowInit, Fate
<1>2. NoShowTypeOK /\ CreditIsResolved /\ [FundsNext]_fundsVars =>
         /\ NoShowTypeOK' /\ CreditIsResolved'
         /\ [Promised!Hold \/ Promised!Withdraw \/ Promised!Decide]_<<Fate, account.credit>>
  <2>1. SUFFICES ASSUME NoShowTypeOK, CreditIsResolved, [FundsNext]_fundsVars
                 PROVE  /\ NoShowTypeOK' /\ CreditIsResolved'
                        /\ [Promised!Hold \/ Promised!Withdraw \/ Promised!Decide]_<<Fate, account.credit>>
    OBVIOUS
  <2>2. CASE UNCHANGED fundsVars
    BY <2>1, <2>2 DEF fundsVars, caseVars, NoShowTypeOK, RescheduleTypeOK, CreditIsResolved, Fate
  <2>3. CASE NoShowTypeOK' /\ resolution' = resolution /\ account'.credit = account.credit
    <3>1. CASE resolution # "none"
      BY <2>1, <2>3, <3>1 DEF Fate, CreditIsResolved
    <3>2. CASE resolution = "none"
      <4>1. Fate \in {"free", "held"} /\ Fate' \in {"free", "held"}
        BY <2>3, <3>2 DEF Fate
      <4>2. QED
        BY <2>1, <2>3, <4>1 DEF Promised!Hold, Promised!Withdraw, CreditIsResolved
    <3>3. QED
      BY <3>1, <3>2
  <2>4. CASE NoShowTypeOK' /\ \E c \in Workers : ResolveRecord(c)
    BY <2>1, <2>4, RecordDecides
  <2>5. QED
    BY <2>1, <2>2, <2>3, <2>4, StepTyped
<1>3. QED
  BY <1>1, <1>2, PTL DEF FundsSafety, LockIsAnEscrow, Promised!EscrowSpec

-----------------------------------------------------------------------------
(* The mutex of a row keeps it to one worker; after the first lapse, or    *)
(* death, there are two workers at most at a row, and one when its mutex is*)
(* free.                                                                   *)
On(c, r) == work[c].kind # "idle" /\ work[c].row = r

Sole == \A r \in Rows, c \in Workers :
           On(c, r) => mutex[r] /\ \A d \in Workers \ {c} : ~On(d, r)
Pair == \A r \in Rows, a \in Workers : \A b \in Workers \ {a} :
           On(a, r) /\ On(b, r) => mutex[r] /\ \A d \in Workers \ {a, b} : ~On(d, r)
Resting == \A c \in Workers : work[c].kind = "idle" => work[c] = Idle
Company == Resting /\ (faults <= 1 => Pair /\ (faults = 0 => Sole))

LEMMA OnMoves ==
    ASSUME work \in [Workers -> WorkType], NEW c \in Workers, NEW job,
           work' = [work EXCEPT ![c] = job]
    PROVE  /\ \A r : On(c, r)' <=> job.kind # "idle" /\ job.row = r
           /\ \A d \in Workers \ {c}, r \in Rows : On(d, r)' <=> On(d, r)
  BY DEF On

(* A worker comes to a row whose mutex was free, ...                       *)
LEMMA CompanyEnters ==
    ASSUME RescheduleTypeOK, Company, NEW c \in Workers, NEW job \in WorkType, Enter(c, job),
           job.kind # "idle"
    PROVE  Company'
<1>1. /\ work' = [work EXCEPT ![c] = job] /\ mutex' = [mutex EXCEPT ![job.row] = TRUE]
      /\ ~mutex[job.row] /\ job.row \in Rows /\ faults' = faults
      /\ \A r \in Rows : ~On(c, r)
  BY DEF Enter, WorkType, On, Idle, Job
<1>2. /\ \A r : On(c, r)' <=> job.kind # "idle" /\ job.row = r
      /\ \A d \in Workers \ {c}, r \in Rows : On(d, r)' <=> On(d, r)
  BY <1>1, OnMoves DEF RescheduleTypeOK
<1>3. mutex' \in [Rows -> BOOLEAN] /\ mutex'[job.row] /\ \A r \in Rows : mutex[r] => mutex'[r]
  BY <1>1 DEF RescheduleTypeOK
<1>4. Pair => Pair'
  BY <1>1, <1>2, <1>3 DEF Pair
<1>5. Sole => Sole'
  BY <1>1, <1>2, <1>3 DEF Sole
<1>6. Resting'
  BY <1>1 DEF Company, Resting, RescheduleTypeOK
<1>7. QED
  BY <1>1, <1>4, <1>5, <1>6 DEF Company

(* ... goes on there, ...                                                  *)
LEMMA CompanyStays ==
    ASSUME RescheduleTypeOK, Company, NEW c \in Workers, NEW job, GoOn(c, job),
           job.row = work[c].row, work[c].kind # "idle", job.kind # "idle"
    PROVE  Company'
<1>1. \A d \in Workers, r \in Rows : On(d, r)' <=> On(d, r)
  BY DEF GoOn, On, RescheduleTypeOK
<1>2. mutex' = mutex /\ faults' = faults
  BY DEF GoOn
<1>3. Resting'
  BY DEF GoOn, Company, Resting, RescheduleTypeOK
<1>4. QED
  BY <1>1, <1>2, <1>3 DEF Company, Pair, Sole

(* ... and leaves it, by itself or dead.                                   *)
LEMMA CompanyLeaves ==
    ASSUME RescheduleTypeOK, Company, NEW c \in Workers, work[c].kind # "idle",
           mutex' = [mutex EXCEPT ![work[c].row] = FALSE], work' = [work EXCEPT ![c] = Idle],
           faults' \in Nat, faults' >= faults
    PROVE  Company'
<1>1. work[c].row \in Rows /\ On(c, work[c].row) /\ faults \in Nat
  BY RescheduleModes DEF RescheduleTypeOK, WorkType, On
<1>i. Idle.kind = "idle"
  BY DEF Idle, Job
<1>2. /\ \A r : ~On(c, r)'
      /\ \A d \in Workers \ {c}, r \in Rows : On(d, r)' <=> On(d, r)
  BY <1>i, OnMoves DEF RescheduleTypeOK
<1>3. \A r \in Rows : r # work[c].row => mutex'[r] = mutex[r]
  BY DEF RescheduleTypeOK
<1>4. Pair => Pair'
  BY <1>1, <1>2, <1>3 DEF Pair
<1>5. Sole => Sole'
  BY <1>1, <1>2, <1>3 DEF Sole
<1>6. faults' <= 1 => faults <= 1
  BY <1>1
<1>7. faults' = 0 => faults = 0
  BY <1>1
<1>8. Resting'
  BY DEF Company, Resting, RescheduleTypeOK
<1>9. QED
  BY <1>4, <1>5, <1>6, <1>7, <1>8 DEF Company

LEMMA CompanyLapses ==
    ASSUME RescheduleTypeOK, Company, NEW r \in Rows, Lapses(r)
    PROVE  Company'
<1>1. mutex' = [mutex EXCEPT ![r] = FALSE] /\ work' = work /\ faults' = faults + 1
      /\ faults \in Nat
  BY RescheduleModes DEF Lapses, RescheduleTypeOK
<1>2. \A d \in Workers, q \in Rows : On(d, q)' <=> On(d, q)
  BY <1>1 DEF On
<1>3. Sole => Pair'
  BY <1>2 DEF Sole, Pair
<1>4. faults' <= 1 => faults = 0
  BY <1>1
<1>5. faults' # 0
  BY <1>1
<1>6. Resting'
  BY <1>1 DEF Company, Resting
<1>7. QED
  BY <1>3, <1>4, <1>5, <1>6 DEF Company

-----------------------------------------------------------------------------
(* The case while at most one worker dies or one mutex lapses.             *)
Replaced == rows["new"].status \notin {"absent", "PENDING"}
Fresh(c) == work[c].kind = "fresh"
Saving(c) == work[c].kind = "lock" /\ work[c].at \in {"capture", "reverse", "save"}
Replacing(c) == work[c].kind = "lock" /\ work[c].at = "replace"

(* A lesson is moved with a new charge, by one worker at a time, ...       *)
FreshSound(c) ==
    Fresh(c) =>
       /\ work[c].row = "old"
       /\ rows["new"].status # "absent" /\ ~rows["new"].locked
       /\ work[c].at = "confirm" => rows["new"].status = "PENDING"
       /\ \A d \in Workers \ {c} : ~Fresh(d)

(* ... or with one that was authorized, within the window of the lock.     *)
LockSound(c) ==
    Saving(c) \/ Replacing(c) \/ work[c].kind = "lock" =>
       /\ work[c].row = "old"
       /\ account.pi # "none"
       /\ window <= lt12
       /\ Replacing(c) => rows["old"].pay # "authorized"

(* Whoever resolves a lock comes to the replacement after it was made, and *)
(* is finished when there is nothing to resolve any more.                  *)
ResolverSound(c) ==
    work[c].kind \in Resolving =>
       /\ work[c].kind = "noshow" /\ work[c].row = "old" => window >= running
       /\ work[c].row = "new" => Replaced
       /\ work[c].kind \in {"auto", "capture"} => work[c].row = "new"
       /\ work[c].row = "new" /\ rows["new"].locked =>
             /\ work[c].at = "finish" => ~Unresolved
             /\ work[c].kind = "noshow" /\ work[c].verdict # "cancelled" =>
                   work[c].plan # "none" /\ (work[c].at = "settle" => ~Unresolved)

CaseSound ==
    /\ rows["new"].locked => Replaced /\ account.pi # "none"
    /\ rows["old"].pay = "authorized" => account.pi # "none"
    /\ rows["old"].pay = "scheduled" => account.pi = "none"
    /\ report.type # "none" /\ ~Replaced => window >= running
    /\ "noshow" \in listed => report.type # "none"
    /\ "auto" \in listed \/ "capture" \in listed => Replaced

(* Whoever may still lock the original finds it locked, or resolved, by    *)
(* the time there is a replacement, ...                                    *)
Locked == Unresolved \/ resolution # "none"
SavesLate == rows["new"].locked => \A c \in Workers : Saving(c) => Locked
ReplacesLate == \A a, b \in Workers : Replacing(a) /\ Saving(b) => Locked

(* ... when at most one worker is left at the original.                    *)
OldIsLeft == rows["new"].locked =>
                \A a \in Workers : \A b \in Workers \ {a} : ~(On(a, "old") /\ On(b, "old"))

LateCase == /\ \A c \in Workers : FreshSound(c) /\ LockSound(c) /\ ResolverSound(c)
            /\ CaseSound /\ SavesLate /\ ReplacesLate /\ OldIsLeft
            /\ SettledAfterItsLock

LateInv == NoShowTypeOK /\ Company /\ (faults <= 1 => LateCase)

LEMMA CompanyStep ==
    ASSUME LateInv, FundsNext
    PROVE  Company'
<1> USE DEF NoShowTypeOK
<1>t. RescheduleTypeOK /\ Company /\ faults \in Nat
  BY RescheduleModes DEF LateInv, RescheduleTypeOK
<1>j. \A c \in Workers : work[c] \in WorkType
  BY <1>t DEF RescheduleTypeOK
<1>e. \A c \in Workers, job \in WorkType : Enter(c, job) /\ job.kind # "idle" => Company'
  BY <1>t, CompanyEnters
<1>g. ASSUME NEW c \in Workers, NEW at, NEW ok, work[c].kind # "idle",
             \/ GoOn(c, [work[c] EXCEPT !.at = at])
             \/ GoOn(c, [work[c] EXCEPT !.at = at, !.ok = ok])
      PROVE  Company'
  BY <1>g, <1>j, <1>t, CompanyStays DEF WorkType
<1>l. ASSUME NEW c \in Workers, NEW kinds, NEW at, At(c, kinds, at), "idle" \notin kinds, Leave(c)
      PROVE  Company'
  <2>1. /\ work[c].kind # "idle"
        /\ mutex' = [mutex EXCEPT ![work[c].row] = FALSE] /\ work' = [work EXCEPT ![c] = Idle]
        /\ faults' \in Nat /\ faults' >= faults
    BY <1>l, <1>t DEF Leave, At
  <2>2. QED
    BY <1>t, <2>1, CompanyLeaves
<1>y. ASSUME NEW c \in Workers, work[c].kind # "idle", GiveUp(c)
      PROVE  Company'
  <2>1. /\ mutex' = [mutex EXCEPT ![work[c].row] = FALSE] /\ work' = [work EXCEPT ![c] = Idle]
        /\ faults' \in Nat /\ faults' >= faults
    BY <1>t, <1>y DEF GiveUp
  <2>2. QED
    BY <1>t, <1>y, <2>1, CompanyLeaves
<1>u. ASSUME UNCHANGED <<mutex, work, faults>>
      PROVE  Company'
  BY <1>u, <1>t DEF Company, Resting, Sole, Pair, On
<1>1. ASSUME NEW c \in Workers, RescheduleStep(c)
      PROVE  Company'
  <2>1. CASE LockStart(c) \/ FreshStart(c)
    <3>1. Job("lock", "old", "capture") \in WorkType /\ Job("fresh", "old", "confirm") \in WorkType
      BY JobTyped DEF Rows
    <3>2. QED
      BY <1>e, <2>1, <3>1 DEF LockStart, FreshStart, Job
  <2>2. CASE LockCapture(c)
    BY <1>g, <1>l, <2>2 DEF LockCapture, At
  <2>3. CASE LockReverse(c)
    BY <1>g, <2>3 DEF LockReverse, At
  <2>4. CASE LockSave(c)
    BY <1>g, <1>l, <2>4 DEF LockSave, At
  <2>5. CASE LockReplace(c)
    <3>1. faults <= 1 => work[c].row = "old"
      BY <2>5 DEF LateInv, LateCase, LockSound, LockReplace, At
    <3>2. CASE faults <= 1
      <4>1. /\ work[c].kind # "idle"
            /\ mutex' = [mutex EXCEPT ![work[c].row] = FALSE] /\ work' = [work EXCEPT ![c] = Idle]
            /\ faults' \in Nat /\ faults' >= faults
        <5>1. work[c].row = "old" /\ work[c].kind = "lock"
          BY <2>5, <3>1, <3>2 DEF LockReplace, At
        <5>2. /\ mutex' = [mutex EXCEPT !["old"] = FALSE] /\ work' = [work EXCEPT ![c] = Idle]
              /\ faults' = faults
          BY <2>5 DEF LockReplace
        <5>3. QED
          BY <1>t, <5>1, <5>2
      <4>2. QED
        BY <1>t, <4>1, CompanyLeaves
    <3>3. CASE ~(faults <= 1)
      <4>1. work' = [work EXCEPT ![c] = Idle] /\ faults' = faults
        BY <2>5 DEF LockReplace
      <4>2. QED
        BY <1>t, <3>3, <4>1 DEF Company, Resting, RescheduleTypeOK
    <3>4. QED
      BY <3>2, <3>3
  <2>6. CASE MoveWithPayment(c)
    BY <1>u, <2>6 DEF MoveWithPayment, Under
  <2>7. CASE FreshConfirm(c) \/ FreshSwap(c)
    <3>1. work[c].kind # "idle"
      BY <2>7 DEF FreshConfirm, FreshSwap, At
    <3>2. \/ Leave(c) \/ GiveUp(c)
          \/ FreshConfirm(c) /\ GoOn(c, [work[c] EXCEPT !.at = "swap"])
      BY <2>7 DEF FreshConfirm, FreshSwap
    <3>3. QED
      BY <1>g, <1>l, <1>y, <2>7, <3>1, <3>2 DEF FreshConfirm, FreshSwap
  <2>8. CASE FreshSwapLocked(c)
    <3> DEFINE job == [Job("cancel", "old", "resolve") EXCEPT !.plan = "new_lesson_cancelled_ge12"]
    <3>1. /\ work[c].kind # "idle" /\ job.kind = "cancel" /\ job.row = "old"
          /\ GoOn(c, job)
      BY <2>8 DEF FreshSwapLocked, At, Job
    <3>2. faults <= 1 => work[c].row = "old"
      BY <2>8 DEF LateInv, LateCase, FreshSound, FreshSwapLocked, At, Fresh
    <3> HIDE DEF job
    <3>3. CASE faults <= 1
      BY <1>t, <3>1, <3>2, <3>3, CompanyStays
    <3>4. CASE ~(faults <= 1)
      <4>1. work' = [work EXCEPT ![c] = job] /\ faults' = faults
        BY <3>1 DEF GoOn
      <4>2. QED
        BY <1>t, <3>1, <3>4, <4>1 DEF Company, Resting, RescheduleTypeOK
    <3>5. QED
      BY <3>3, <3>4
  <2>9. QED
    BY <1>1, <2>1, <2>2, <2>3, <2>4, <2>5, <2>6, <2>7, <2>8 DEF RescheduleStep
<1>2. ASSUME NEW c \in Workers, LockStep(c)
      PROVE  Company'
  <2>1. CASE CancelLocked(c) \/ AutoComplete(c) \/ CaptureLocked(c)
    <3>1. \A kind \in {"cancel", "auto", "capture"}, r \in Rows, plan \in Resolutions :
             /\ [Job(kind, r, "resolve") EXCEPT !.plan = plan] \in WorkType
             /\ [Job(kind, r, "resolve") EXCEPT !.plan = plan].kind # "idle"
      BY JobTyped DEF Job
    <3>2. /\ \A role : PlanOf(role) \in Resolutions
          /\ "new_lesson_completed" \in Resolutions
          /\ "new" \in Rows
      BY DEF PlanOf, Resolutions, Rows
    <3>3. QED
      BY <1>e, <2>1, <3>1, <3>2, CarrierTyped DEF CancelLocked, AutoComplete, CaptureLocked
  <2>2. CASE ResolveLoad(c) \/ ResolveCall(c) \/ ResolveRecord(c)
    BY <1>g, <2>2 DEF ResolveLoad, ResolveCall, ResolveRecord, At, Resolving
  <2>3. CASE CancelFinish(c) \/ ChildSettled(c)
    BY <1>l, <2>3 DEF CancelFinish, ChildSettled
  <2>4. CASE CompleteBooking(c) \/ DisputeCompletion(c)
    BY <1>u, <2>4 DEF CompleteBooking, DisputeCompletion, Under
  <2>5. QED
    BY <1>2, <2>1, <2>2, <2>3, <2>4 DEF LockStep
<1>3. ASSUME NEW c \in Workers, NoShowStep(c)
      PROVE  Company'
  <2>1. CASE ReportNoShow(c) \/ ReportAutomated(c) \/ DisputeNoShow(c)
    BY <1>u, <2>1 DEF ReportNoShow, ReportAutomated, DisputeNoShow, Under
  <2>2. CASE AdminResolves(c) \/ JobResolves(c)
    <3>1. \A verdict \in Verdicts : ResolutionJob(verdict).kind # "idle"
      BY DEF ResolutionJob, Job
    <3>2. QED
      BY <1>e, <2>2, <3>1, ResolutionJobTyped DEF AdminResolves, JobResolves, Verdicts
  <2>3. CASE SettleCall(c) \/ LockSettled(c)
    BY <1>g, <2>3 DEF SettleCall, LockSettled, At
  <2>4. CASE ResolutionSaved(c)
    BY <1>l, <2>4 DEF ResolutionSaved
  <2>5. QED
    BY <1>3, <2>1, <2>2, <2>3, <2>4 DEF NoShowStep
<1>4. CASE Environment
  <2>1. CASE \E c \in Workers : Dies(c)
    <3>1. PICK c \in Workers : Dies(c)
      BY <2>1
    <3>2. work[c].kind # "idle"
      BY <1>t, <3>1 DEF Dies, GiveUp, Company, Resting
    <3>3. QED
      <4>1. /\ mutex' = [mutex EXCEPT ![work[c].row] = FALSE] /\ work' = [work EXCEPT ![c] = Idle]
            /\ faults' \in Nat /\ faults' >= faults
        BY <1>t, <3>1 DEF Dies, GiveUp
      <4>2. QED
        BY <1>t, <3>2, <4>1, CompanyLeaves
  <2>2. CASE \E r \in Rows : Lapses(r)
    BY <1>t, <2>2, CompanyLapses
  <2>3. QED
    BY <1>4, <1>u, <2>1, <2>2 DEF Environment, Tick, ReportAges, NoShowJobReads, CaptureJobReads,
       Passed, InstructorMarkComplete
<1>5. QED
  BY <1>1, <1>2, <1>3, <1>4 DEF FundsNext, WorkerStep

-----------------------------------------------------------------------------
(* What most steps leave as it is; a replacement with locked funds is the  *)
(* work of LockReplace alone.                                              *)
Calm ==
    /\ Replaced => Replaced'
    /\ \A d \in Workers : Fresh(d) /\ work'[d] = work[d] =>
          /\ rows["new"].status = "PENDING" => rows'["new"].status = "PENDING"
          /\ rows["new"].status # "absent" => rows'["new"].status # "absent"
    /\ (account'.pi = "none") <=> (account.pi = "none")
    /\ rows'["new"].locked => rows["new"].locked
    /\ rows'["old"].pay = "scheduled" => rows["old"].pay = "scheduled"
    /\ rows'["old"].pay = "authorized" =>
          rows["old"].pay = "authorized" \/ (account.pi # "none" /\ window >= running)
    /\ rows'["new"].locked /\ Unresolved' => Unresolved
    /\ Locked => \/ Locked'
                 \/ \A a, b \in Workers :
                       ~(Saving(b)' /\ (rows'["new"].locked \/ Replacing(a)'))
    /\ window' >= window
    /\ window' = window \/ \A d \in Workers : work'[d].kind = "idle"
    /\ report.type # "none" => report'.type # "none"
    /\ report'.type # "none" => report.type # "none" \/ Replaced' \/ window' >= running
    /\ "noshow" \in listed' => "noshow" \in listed \/ report'.type # "none"
    /\ \A list \in {"auto", "capture"} : list \in listed' => list \in listed \/ Replaced'
    /\ rows'["new"].locked /\ rows'["new"].pay = "settled" =>
          rows["new"].pay = "settled" \/ ~Unresolved'

(* How a worker goes on, or begins. *)
Proceeds(d) ==
    /\ FreshSound(d)' /\ LockSound(d)' /\ ResolverSound(d)'
    /\ Fresh(d)' => Fresh(d) \/ rows["new"].status = "absent"
    /\ Saving(d)' => Saving(d) \/ (~rows'["new"].locked /\ rows["old"].pay = "authorized")
    /\ Replacing(d)' => Replacing(d) \/ Locked'
    /\ On(d, "old")' => On(d, "old") \/ ~rows'["new"].locked

LEMMA LateFrame ==
    ASSUME NoShowTypeOK, window' \in 0..5, LateCase, faults <= 1, Calm,
           \A d \in Workers : work'[d] = work[d] \/ Proceeds(d)
    PROVE  LateCase'
<1>w. window \in 0..5
  BY DEF NoShowTypeOK, RescheduleTypeOK
<1>1. ASSUME NEW d \in Workers
      PROVE  FreshSound(d)' /\ LockSound(d)' /\ ResolverSound(d)'
  <2>1. CASE Proceeds(d)
    BY <2>1 DEF Proceeds
  <2>2. CASE work'[d] = work[d]
    <3>1. FreshSound(d)'
      <4>1. SUFFICES ASSUME Fresh(d)
                     PROVE  FreshSound(d)'
        BY <2>2 DEF FreshSound, Fresh
      <4>2. FreshSound(d)
        BY DEF LateCase
      <4>3. ASSUME NEW e \in Workers \ {d}
            PROVE  ~Fresh(e)'
        BY <4>1, <4>2, <4>3 DEF FreshSound, Proceeds, Fresh
      <4>4. /\ work[d].at = "confirm" => rows'["new"].status = "PENDING"
            /\ rows'["new"].status # "absent" /\ ~rows'["new"].locked
        BY <2>2, <4>1, <4>2 DEF FreshSound, Calm
      <4>5. QED
        BY <2>2, <4>1, <4>2, <4>3, <4>4 DEF FreshSound, Fresh
    <3>2. LockSound(d)'
      BY <1>w, <2>2 DEF LateCase, LockSound, Saving, Replacing, Calm, running, lt12
    <3>3. ResolverSound(d)'
      BY <1>w, <2>2 DEF LateCase, ResolverSound, Resolving, Calm, running
    <3>4. QED
      BY <3>1, <3>2, <3>3
  <2>3. QED
    BY <2>1, <2>2
<1>2. CaseSound'
  BY <1>w DEF LateCase, CaseSound, Calm, running
<1>3. SavesLate'
  <2>1. SUFFICES ASSUME rows'["new"].locked, NEW c \in Workers, Saving(c)'
                 PROVE  Locked'
    BY DEF SavesLate
  <2>2. Saving(c)
    BY <2>1 DEF Proceeds, Saving
  <2>3. Locked
    BY <2>1, <2>2 DEF LateCase, SavesLate, Calm
  <2>4. QED
    BY <2>1, <2>3 DEF Calm
<1>4. ReplacesLate'
  <2>1. SUFFICES ASSUME NEW a \in Workers, NEW b \in Workers, Replacing(a)', Saving(b)', ~Locked'
                 PROVE  FALSE
    BY DEF ReplacesLate
  <2>2. Replacing(a)
    BY <2>1 DEF Proceeds, Replacing
  <2>3. Saving(b)
    <3>1. rows["old"].pay # "authorized"
      BY <2>2 DEF LateCase, LockSound
    <3>2. QED
      BY <2>1, <3>1 DEF Proceeds, Saving
  <2>4. QED
    BY <2>1, <2>2, <2>3 DEF LateCase, ReplacesLate, Calm
<1>5. OldIsLeft'
  <2>1. SUFFICES ASSUME rows'["new"].locked, NEW a \in Workers, NEW b \in Workers \ {a},
                        On(a, "old")', On(b, "old")'
                 PROVE  FALSE
    BY DEF OldIsLeft
  <2>2. On(a, "old") /\ On(b, "old")
    BY <2>1 DEF Proceeds, On
  <2>3. QED
    BY <2>1, <2>2 DEF LateCase, OldIsLeft, Calm
<1>6. SettledAfterItsLock'
  BY DEF LateCase, SettledAfterItsLock, Calm, Unresolved
<1>7. QED
  BY <1>1, <1>2, <1>3, <1>4, <1>5, <1>6 DEF LateCase

(* Whoever leaves the original leaves nobody behind who is about to lock,  *)
(* once another has come that far.                                         *)
LEMMA LeavesOld ==
    ASSUME LateInv, faults <= 1, NEW c \in Workers, On(c, "old"),
           work' = [work EXCEPT ![c] = Idle],
           rows'["new"].locked => rows["new"].locked
    PROVE  \A a, b \in Workers : ~(Saving(b)' /\ (rows'["new"].locked \/ Replacing(a)'))
<1>1. SUFFICES ASSUME NEW a \in Workers, NEW b \in Workers, Saving(b)',
                      rows'["new"].locked \/ Replacing(a)'
               PROVE  FALSE
  OBVIOUS
<1>2. /\ \A d \in Workers \ {c} : work'[d] = work[d]
      /\ work'[c].kind = "idle"
  BY DEF LateInv, NoShowTypeOK, RescheduleTypeOK, Idle, Job
<1>3. b # c /\ Saving(b) /\ On(b, "old")
  BY <1>1, <1>2 DEF Saving, LateInv, LateCase, LockSound, On
<1>4. CASE rows'["new"].locked
  BY <1>3, <1>4 DEF LateInv, LateCase, OldIsLeft
<1>5. CASE Replacing(a)'
  <2>1. a # c /\ Replacing(a) /\ On(a, "old")
    BY <1>2, <1>5 DEF Replacing, LateInv, LateCase, LockSound, On
  <2>2. a # b
    BY <1>3, <2>1 DEF Saving, Replacing
  <2>3. Pair /\ "old" \in Rows
    BY DEF LateInv, Company, Rows
  <2>4. QED
    BY <1>3, <2>1, <2>2, <2>3 DEF Pair
<1>6. QED
  BY <1>1, <1>4, <1>5

-----------------------------------------------------------------------------
(* No call makes an intent, or makes one undone. *)
LEMMA CallKeepsIntent ==
    ASSUME account \in AccountType, NEW ok \in BOOLEAN,
           NEW key \in {"lock", "noshow"}, NEW state \in {"captured", "void"},
           NEW part \in {"half", "full"}
    PROVE  \/ HoldCall(key, state, ok)
           \/ PayoutCall(part, ok)
           \/ RefundCall(ok)
           \/ Call(account.reversed, account.pi = "captured",
                   [account EXCEPT !.reversed = TRUE], ok)
           => ((account'.pi = "none") <=> (account.pi = "none"))
<1>1. /\ [account EXCEPT !.pi = state, !.by = key].pi = state
      /\ [account EXCEPT !.paid = @ \cup {part}].pi = account.pi
      /\ [account EXCEPT !.pi = "refunded"].pi = "refunded"
      /\ [account EXCEPT !.reversed = TRUE].pi = account.pi
  BY DEF AccountType
<1>2. QED
  BY <1>1 DEF HoldCall, PayoutCall, RefundCall, Call

(* The steps of one worker that leave the rows, the lock and the clock.    *)
LEMMA LateAside ==
    ASSUME LateInv, faults <= 1, NEW c \in Workers,
           NoShowTypeOK', UNCHANGED <<rows, resolution, window, faults>>,
           (account'.pi = "none") <=> (account.pi = "none"),
           report.type # "none" <=> report'.type # "none",
           listed' \subseteq listed,
           work' = work \/ (work' = [work EXCEPT ![c] = work'[c]] /\ Proceeds(c))
    PROVE  LateCase'
<1>1. Calm
  BY DEF LateInv, Calm, Replaced, Unresolved, Locked, NoShowTypeOK, RescheduleTypeOK
<1>2. \A d \in Workers : work'[d] = work[d] \/ Proceeds(d)
  BY DEF LateInv, NoShowTypeOK, RescheduleTypeOK
<1>3. QED
  BY <1>1, <1>2, LateFrame DEF LateInv, NoShowTypeOK, RescheduleTypeOK

(* A worker that has left. *)
LEMMA LeftProceeds ==
    ASSUME NEW c \in Workers, work'[c] = Idle
    PROVE  Proceeds(c)
<1>1. work'[c].kind = "idle"
  BY DEF Idle, Job
<1>2. QED
  BY <1>1 DEF Proceeds, FreshSound, LockSound, ResolverSound, Fresh, Saving, Replacing, On,
     Resolving

LEMMA LateLocks ==
    ASSUME LateInv, faults <= 1, NEW c \in Workers, NoShowTypeOK',
           UNCHANGED <<listed, report>>,
           LockStart(c) \/ LockCapture(c) \/ LockReverse(c)
    PROVE  LateCase'
<1>t. work \in [Workers -> WorkType] /\ account \in AccountType
  BY DEF LateInv, NoShowTypeOK, RescheduleTypeOK
<1>u. UNCHANGED <<rows, resolution, window, faults>>
  BY DEF LockStart, Enter, caseVars, LockCapture, LockReverse, GoOn, Leave
<1>1. CASE LockStart(c)
  <2>1. /\ work' = [work EXCEPT ![c] = Job("lock", "old", "capture")]
        /\ rows["new"].status = "absent" /\ rows["old"].pay = "authorized"
        /\ window = from12to24 /\ account' = account
    BY <1>1 DEF LockStart, Enter, MayMove, TriggersLock, caseVars
  <2>2. work'[c].kind = "lock" /\ work'[c].at = "capture" /\ work'[c].row = "old"
    BY <1>t, <2>1 DEF Job
  <2>3. ~rows["new"].locked /\ account.pi # "none"
    BY <2>1 DEF LateInv, LateCase, CaseSound, Replaced
  <2>4. Proceeds(c)
    BY <1>u, <2>1, <2>2, <2>3 DEF Proceeds, FreshSound, LockSound, ResolverSound, Fresh, Saving,
       Replacing, On, Resolving, from12to24, lt12
  <2>5. QED
    BY <1>t, <1>u, <2>1, <2>4, LateAside
<1>2. CASE LockCapture(c) \/ LockReverse(c)
  <2>1. work[c].kind = "lock" /\ work[c].at \in {"capture", "reverse"} /\ LockSound(c)
    BY <1>2 DEF LockCapture, LockReverse, At, LateInv, LateCase
  <2>2. (account'.pi = "none") <=> (account.pi = "none")
    BY <1>2, <1>t, CallKeepsIntent DEF LockCapture, LockReverse
  <2>3. \/ work' = [work EXCEPT ![c] = Idle]
        \/ work' = [work EXCEPT ![c].at = "reverse"]
        \/ \E ok \in BOOLEAN : work' = [work EXCEPT ![c] = [work[c] EXCEPT !.at = "save", !.ok = ok]]
    BY <1>2, <1>t DEF LockCapture, LockReverse, GoOn, Leave
  <2>4. CASE work' = [work EXCEPT ![c] = Idle]
    BY <1>t, <1>u, <2>2, <2>4, LateAside, LeftProceeds
  <2>5. CASE work' # [work EXCEPT ![c] = Idle]
    <3>1. /\ work' = [work EXCEPT ![c] = work'[c]]
          /\ work'[c].kind = "lock" /\ work'[c].at \in {"reverse", "save"}
          /\ work'[c].row = work[c].row
      BY <1>t, <2>1, <2>3, <2>5 DEF WorkType
    <3>2. Proceeds(c)
      BY <1>u, <2>1, <2>2, <3>1 DEF Proceeds, FreshSound, LockSound, ResolverSound, Fresh, Saving,
         Replacing, On, Resolving
    <3>3. QED
      BY <1>u, <2>2, <3>1, <3>2, LateAside
  <2>6. QED
    BY <2>4, <2>5
<1>3. QED
  BY <1>1, <1>2

LEMMA LateSaves ==
    ASSUME LateInv, faults <= 1, NEW c \in Workers, NoShowTypeOK',
           UNCHANGED <<listed, report>>, LockSave(c)
    PROVE  LateCase'
<1>t. /\ work \in [Workers -> WorkType] /\ work[c] \in WorkType
      /\ rows \in [Rows -> RowType] /\ "old" \in Rows /\ "new" \in Rows
  BY DEF LateInv, NoShowTypeOK, RescheduleTypeOK, Rows
<1>1. /\ Saving(c) /\ On(c, "old") /\ LockSound(c)
  BY DEF LockSave, At, Saving, On, LateInv, LateCase, LockSound
<1>2. UNCHANGED <<resolution, account, window, faults>>
  BY DEF LockSave, GoOn, Leave
<1>3. /\ rows'["new"] = rows["new"]
      /\ rows'["old"].pay = IF work[c].ok THEN "locked" ELSE "manual_review"
  BY <1>t DEF LockSave, RowType
<1>4. /\ rows["new"].locked => Locked
  BY <1>1 DEF LateInv, LateCase, SavesLate
<1>5. CASE work[c].ok
  <2>1. /\ work' = [work EXCEPT ![c] = [work[c] EXCEPT !.at = "replace"]]
    BY <1>5 DEF LockSave, GoOn
  <2>2. work'[c].kind = "lock" /\ work'[c].at = "replace" /\ work'[c].row = "old"
    BY <1>t, <1>1, <2>1 DEF WorkType, LockSave, At, On
  <2>3. Locked'
    BY <1>3, <1>5 DEF Locked, Unresolved
  <2>4. Calm
    BY <1>2, <1>3, <1>4, <1>5, <2>3 DEF Calm, Replaced, Locked, Unresolved, LateInv,
       NoShowTypeOK, RescheduleTypeOK
  <2>5. Proceeds(c)
    BY <1>1, <1>2, <1>3, <1>5, <2>2, <2>3 DEF Proceeds, FreshSound, LockSound, ResolverSound,
       Fresh, Saving, Replacing, On, Resolving
  <2>6. \A d \in Workers : work'[d] = work[d] \/ Proceeds(d)
    BY <1>t, <2>1, <2>5
  <2>7. QED
    BY <1>2, <2>4, <2>6, LateFrame DEF LateInv, NoShowTypeOK, RescheduleTypeOK
<1>6. CASE ~work[c].ok
  <2>1. work' = [work EXCEPT ![c] = Idle]
    BY <1>6 DEF LockSave, Leave
  <2>2. \A a, b \in Workers : ~(Saving(b)' /\ (rows'["new"].locked \/ Replacing(a)'))
    BY <1>1, <1>3, <2>1, LeavesOld
  <2>3. ~Unresolved'
    BY <1>3, <1>6 DEF Unresolved
  <2>4. Calm
    BY <1>2, <1>3, <1>6, <2>2, <2>3 DEF Calm, Replaced, LateInv, NoShowTypeOK, RescheduleTypeOK
  <2>5. \A d \in Workers : work'[d] = work[d] \/ Proceeds(d)
    BY <1>t, <2>1, LeftProceeds
  <2>6. QED
    BY <1>2, <2>4, <2>5, LateFrame DEF LateInv, NoShowTypeOK, RescheduleTypeOK
<1>7. QED
  BY <1>5, <1>6

(* The replacement is made: whoever else is still at the original finds it *)
(* locked or resolved, and is alone there.                                 *)
LEMMA LateReplaced ==
    ASSUME LateInv, faults <= 1, NEW c \in Workers, NoShowTypeOK',
           UNCHANGED <<listed, report>>, LockReplace(c)
    PROVE  LateCase'
<1>t. /\ work \in [Workers -> WorkType]
      /\ rows \in [Rows -> RowType] /\ "old" \in Rows /\ "new" \in Rows
  BY DEF LateInv, NoShowTypeOK, RescheduleTypeOK, Rows
<1>1. /\ Replacing(c) /\ On(c, "old")
      /\ window <= lt12 /\ account.pi # "none" /\ rows["old"].pay # "authorized"
  BY DEF LockReplace, At, Replacing, On, LateInv, LateCase, LockSound
<1>2. /\ UNCHANGED <<resolution, account, faults>>
      /\ work' = [work EXCEPT ![c] = Idle]
  BY DEF LockReplace
<1>3. CASE UNCHANGED <<rows, window>>
  <2>1. work'[c] = Idle
    BY <1>t, <1>2
  <2>2. QED
    BY <1>2, <1>3, <2>1, LateAside, LeftProceeds
<1>4. CASE /\ rows["new"].status = "absent"
           /\ rows' = [rows EXCEPT !["old"].status = "CANCELLED",
                                   !["new"] = [status |-> "CONFIRMED", pay |-> "locked",
                                               locked |-> TRUE]]
           /\ window' \in {ge24, lt12}
  <2>1. /\ rows'["new"] = [status |-> "CONFIRMED", pay |-> "locked", locked |-> TRUE]
        /\ rows'["old"].pay = rows["old"].pay
    BY <1>4, <1>t DEF RowType
  <2>2. /\ rows'["new"].status = "CONFIRMED" /\ rows'["new"].pay = "locked"
        /\ ~Replaced /\ Replaced'
        /\ window' <= lt12 /\ (Locked => Locked')
    BY <1>2, <1>4, <2>1 DEF Replaced, Locked, Unresolved, ge24, lt12
  <2>3. \A d \in Workers \ {c} : work'[d] = work[d]
    BY <1>t, <1>2
  <2>4. Proceeds(c)
    BY <1>t, <1>2, LeftProceeds
  <2>5. ASSUME NEW d \in Workers \ {c}
        PROVE  FreshSound(d)' /\ LockSound(d)' /\ ResolverSound(d)'
    <3>1. ~Fresh(d)
      BY <1>4 DEF LateInv, LateCase, FreshSound
    <3>2. FreshSound(d)'
      BY <2>3, <3>1 DEF FreshSound, Fresh
    <3>3. LockSound(d)'
      BY <1>2, <2>1, <2>2, <2>3 DEF LateInv, LateCase, LockSound, Saving, Replacing
    <3>4. work[d].kind \in Resolving => work[d].row # "new"
      BY <2>2 DEF LateInv, LateCase, ResolverSound
    <3>5. work[d].kind = "noshow" => work[d].row # "old"
      BY <1>1 DEF LateInv, LateCase, ResolverSound, Resolving, lt12, running, NoShowTypeOK,
         RescheduleTypeOK
    <3>6. ResolverSound(d)'
      BY <2>3, <3>4, <3>5 DEF LateInv, LateCase, ResolverSound, Resolving
    <3>7. QED
      BY <3>2, <3>3, <3>6
  <2>6. CaseSound'
    BY <1>1, <1>2, <2>1, <2>2 DEF CaseSound, LateInv, LateCase
  <2>7. SavesLate' /\ ReplacesLate'
    <3>1. ASSUME NEW b \in Workers, Saving(b)'
          PROVE  Locked'
      <4>1. b # c /\ Saving(b)
        BY <1>2, <1>t, <2>3, <3>1 DEF Saving, Idle, Job
      <4>2. QED
        BY <1>1, <2>2, <4>1 DEF LateInv, LateCase, ReplacesLate
    <3>2. QED
      BY <3>1 DEF SavesLate, ReplacesLate
  <2>8. OldIsLeft'
    <3>1. SUFFICES ASSUME NEW a \in Workers, NEW b \in Workers \ {a}, On(a, "old")', On(b, "old")'
                   PROVE  FALSE
      BY DEF OldIsLeft
    <3>2. ~On(c, "old")'
      BY <1>2, <1>t DEF On, Idle, Job
    <3>3. a # c /\ b # c /\ On(a, "old") /\ On(b, "old")
      BY <2>3, <3>1, <3>2 DEF On
    <3>4. Pair
      BY DEF LateInv, Company
    <3>5. QED
      BY <1>1, <1>t, <3>3, <3>4 DEF Pair
  <2>9. SettledAfterItsLock'
    BY <2>2 DEF SettledAfterItsLock
  <2>10. QED
    BY <2>4, <2>5, <2>6, <2>7, <2>8, <2>9 DEF LateCase, Proceeds
<1>5. QED
  BY <1>3, <1>4 DEF LockReplace

LEMMA LateMoves ==
    ASSUME LateInv, faults <= 1, NEW c \in Workers, NoShowTypeOK',
           UNCHANGED <<listed, report>>,
           MoveWithPayment(c) \/ FreshStart(c) \/ FreshConfirm(c) \/ FreshSwap(c)
              \/ FreshSwapLocked(c)
    PROVE  LateCase'
<1>t. /\ work \in [Workers -> WorkType] /\ account \in AccountType
      /\ rows \in [Rows -> RowType] /\ "old" \in Rows /\ "new" \in Rows /\ window \in 0..5
  BY DEF LateInv, NoShowTypeOK, RescheduleTypeOK, Rows
<1>f. CaseSound /\ FreshSound(c)
  BY DEF LateInv, LateCase
<1>u. UNCHANGED <<resolution, window>>
  BY DEF MoveWithPayment, Under, FreshStart, Enter, FreshConfirm, FreshSwap, FreshSwapLocked, GoOn,
     Leave, GiveUp, caseVars
<1>1. CASE MoveWithPayment(c)
  <2>1. /\ rows["new"].status = "absent" /\ work' = work
        /\ rows' = [rows EXCEPT !["old"].status = "CANCELLED",
                                !["new"] = [status |-> "CONFIRMED", pay |-> rows["old"].pay,
                                            locked |-> FALSE]]
        /\ account' = [account EXCEPT !.at = "new"]
    BY <1>1 DEF MoveWithPayment, MayMove, Under
  <2>2. /\ rows'["new"] = [status |-> "CONFIRMED", pay |-> rows["old"].pay, locked |-> FALSE]
        /\ rows'["old"].pay = rows["old"].pay
        /\ account'.pi = account.pi
    BY <1>t, <2>1 DEF RowType, AccountType
  <2>3. rows'["new"].status = "CONFIRMED" /\ ~rows'["new"].locked
    BY <2>2
  <2>4. Calm
    BY <1>t, <1>u, <2>1, <2>2, <2>3 DEF Calm, Replaced, Locked, Unresolved
  <2>5. QED
    BY <1>t, <1>u, <2>1, <2>4, LateFrame DEF LateInv
<1>2. CASE FreshStart(c)
  <2>1. /\ rows["new"].status = "absent"
        /\ work' = [work EXCEPT ![c] = Job("fresh", "old", "confirm")]
        /\ rows' = [rows EXCEPT !["new"] = [status |-> "PENDING",
                                            pay |-> "payment_method_required",
                                            locked |-> FALSE]]
        /\ account' = account
    BY <1>2 DEF FreshStart, MayMove, Enter
  <2>2. /\ rows'["new"] = [status |-> "PENDING", pay |-> "payment_method_required",
                           locked |-> FALSE]
        /\ rows'["old"].pay = rows["old"].pay
        /\ work'[c] = Job("fresh", "old", "confirm")
        /\ \A d \in Workers \ {c} : work'[d] = work[d]
    BY <1>t, <2>1
  <2>3. /\ rows'["new"].status = "PENDING" /\ ~rows'["new"].locked
        /\ work'[c].kind = "fresh" /\ work'[c].row = "old" /\ work'[c].at = "confirm"
    BY <2>2 DEF Job
  <2>5. \A d \in Workers : ~Fresh(d)
    BY <2>1 DEF LateInv, LateCase, FreshSound, Replaced
  <2>6. Calm
    BY <1>t, <1>u, <2>1, <2>2, <2>3 DEF Calm, Replaced, Locked, Unresolved
  <2>7. FreshSound(c)'
    BY <2>1, <2>2, <2>3, <2>5 DEF FreshSound, Fresh
  <2>8. Proceeds(c)
    BY <2>1, <2>3, <2>7 DEF Proceeds, LockSound, ResolverSound, Saving, Replacing, Resolving
  <2>9. QED
    BY <1>t, <1>u, <2>2, <2>6, <2>8, LateFrame DEF LateInv
<1>3. CASE FreshConfirm(c)
  <2>1. /\ Fresh(c) /\ work[c].row = "old"
        /\ rows["new"].status = "PENDING" /\ ~rows["new"].locked
        /\ \A d \in Workers \ {c} : ~Fresh(d)
        /\ account' = account
    BY <1>3, <1>f DEF FreshConfirm, At, FreshSound, Fresh
  <2>2. /\ rows' \in {rows, [rows EXCEPT !["new"].status = "CONFIRMED", !["new"].pay = "scheduled"],
                     [rows EXCEPT !["new"] = NoRow]}
        /\ \/ /\ work' = [work EXCEPT ![c] = [work[c] EXCEPT !.at = "swap"]]
              /\ rows' # [rows EXCEPT !["new"] = NoRow]
           \/ work' = [work EXCEPT ![c] = Idle]
    <3>1. [rows EXCEPT !["new"] = NoRow]["new"].status = "absent"
      BY <1>t DEF NoRow
    <3>2. [rows EXCEPT !["new"].status = "CONFIRMED", !["new"].pay = "scheduled"]["new"].status
             = "CONFIRMED"
      BY <1>t DEF RowType
    <3>3. CASE /\ rows' \in {rows, [rows EXCEPT !["new"].status = "CONFIRMED",
                                                !["new"].pay = "scheduled"]}
               /\ GoOn(c, [work[c] EXCEPT !.at = "swap"])
      BY <2>1, <3>1, <3>2, <3>3 DEF GoOn
    <3>4. CASE rows' = [rows EXCEPT !["new"] = NoRow] /\ Leave(c)
      BY <3>4 DEF Leave
    <3>5. CASE /\ rows' \in {rows, [rows EXCEPT !["new"].status = "CONFIRMED",
                                                !["new"].pay = "scheduled"]}
               /\ GiveUp(c)
      BY <3>5 DEF GiveUp
    <3>6. QED
      BY <1>3, <3>3, <3>4, <3>5 DEF FreshConfirm
  <2>3. /\ rows'["new"].status \in {"PENDING", "CONFIRMED", "absent"}
        /\ rows'["new"].status = "absent" => rows' = [rows EXCEPT !["new"] = NoRow]
        /\ ~rows'["new"].locked
        /\ rows'["old"].pay = rows["old"].pay
    <3>1. CASE rows' = rows
      BY <2>1, <3>1
    <3>2. CASE rows' = [rows EXCEPT !["new"].status = "CONFIRMED", !["new"].pay = "scheduled"]
      BY <1>t, <2>1, <3>2 DEF RowType
    <3>3. CASE rows' = [rows EXCEPT !["new"] = NoRow]
      BY <1>t, <2>1, <3>3 DEF NoRow
    <3>4. QED
      BY <2>2, <3>1, <3>2, <3>3
  <2>4. /\ \A d \in Workers \ {c} : work'[d] = work[d]
        /\ work'[c] # work[c]
        /\ \/ work'[c] = Idle
           \/ /\ work'[c].kind = "fresh" /\ work'[c].row = "old" /\ work'[c].at = "swap"
              /\ rows'["new"].status # "absent"
    <3>1. work[c] \in WorkType /\ work[c].kind = "fresh" /\ work[c].at = "confirm"
          /\ work[c].row = "old"
      BY <1>t, <1>3, <2>1 DEF FreshConfirm, At
    <3>2. /\ [work[c] EXCEPT !.at = "swap"].kind = "fresh"
          /\ [work[c] EXCEPT !.at = "swap"].row = "old"
          /\ [work[c] EXCEPT !.at = "swap"].at = "swap"
      BY <3>1 DEF WorkType
    <3>3. Idle.kind = "idle"
      BY DEF Idle, Job
    <3>4. QED
      BY <1>t, <2>2, <2>3, <3>1, <3>2, <3>3
  <2>5. Calm
    BY <1>t, <1>u, <2>1, <2>3, <2>4 DEF Calm, Replaced, Locked, Unresolved, Fresh
  <2>6. CASE work'[c] = Idle
    BY <1>t, <1>u, <2>4, <2>5, <2>6, LeftProceeds, LateFrame DEF LateInv
  <2>7. CASE work'[c] # Idle
    <3>1. /\ work'[c].kind = "fresh" /\ work'[c].row = "old" /\ work'[c].at = "swap"
          /\ rows'["new"].status # "absent"
      BY <2>4, <2>7
    <3>2. FreshSound(c)'
      BY <2>1, <2>3, <2>4, <3>1 DEF FreshSound, Fresh
    <3>3. Proceeds(c)
      BY <2>1, <2>3, <3>1, <3>2 DEF Proceeds, LockSound, ResolverSound, Saving, Replacing,
         Resolving, Fresh
    <3>4. QED
      BY <1>t, <1>u, <2>4, <2>5, <3>3, LateFrame DEF LateInv
  <2>8. QED
    BY <2>6, <2>7
<1>4. CASE FreshSwap(c)
  <2>1. /\ Fresh(c) /\ ~rows["new"].locked /\ rows["new"].status # "absent"
        /\ \A d \in Workers \ {c} : ~Fresh(d)
    BY <1>4, <1>f DEF FreshSwap, At, FreshSound, Fresh
  <2>2. Swapped
    BY <1>4, SwapMeans DEF LateInv, NoShowTypeOK
  <2>3. work' = [work EXCEPT ![c] = Idle]
    BY <1>4 DEF FreshSwap, Leave, GiveUp
  <2>4. work'[c] = Idle /\ Idle.kind = "idle" /\ \A d \in Workers \ {c} : work'[d] = work[d]
    BY <1>t, <2>3 DEF Idle, Job
  <2>5. ~rows'["new"].locked /\ (Replaced => Replaced') /\ (Locked => Locked')
    BY <1>u, <2>1, <2>2 DEF Swapped, Replaced, Locked, Unresolved
  <2>6. /\ rows'["old"].pay = "scheduled" => rows["old"].pay = "scheduled"
        /\ rows'["old"].pay = "authorized" => rows["old"].pay = "authorized"
        /\ (account'.pi = "none") <=> (account.pi = "none")
    BY <2>2 DEF Swapped
  <2>7. \A d \in Workers : ~(Fresh(d) /\ work'[d] = work[d])
    BY <2>1, <2>4 DEF Fresh
  <2>8. Calm
    BY <1>t, <1>u, <2>1, <2>5, <2>6, <2>7 DEF Calm
  <2>9. QED
    BY <1>t, <1>u, <2>4, <2>8, LeftProceeds, LateFrame DEF LateInv
<1>5. CASE FreshSwapLocked(c)
  <2>1. /\ Fresh(c) /\ On(c, "old")
        /\ UNCHANGED <<rows, resolution, account, window, faults>>
    BY <1>5, <1>f DEF FreshSwapLocked, At, FreshSound, Fresh, On, GoOn, caseVars
  <2> DEFINE job == [Job("cancel", "old", "resolve") EXCEPT !.plan = "new_lesson_cancelled_ge12"]
  <2>2. work' = [work EXCEPT ![c] = job]
    BY <1>5 DEF FreshSwapLocked, GoOn
  <2>3. job.kind = "cancel" /\ job.row = "old" /\ job.at = "resolve"
    BY DEF Job
  <2> HIDE DEF job
  <2>4. work'[c].kind = "cancel" /\ work'[c].row = "old" /\ work'[c].at = "resolve"
        /\ work' = [work EXCEPT ![c] = work'[c]]
    BY <1>t, <2>2, <2>3
  <2>5. Proceeds(c)
    BY <2>1, <2>4 DEF Proceeds, FreshSound, LockSound, ResolverSound, Fresh, Saving, Replacing, On,
       Resolving
  <2>6. QED
    BY <2>1, <2>4, <2>5, LateAside
<1>6. QED
  BY <1>1, <1>2, <1>3, <1>4, <1>5

-----------------------------------------------------------------------------
LEMMA LateComes ==
    ASSUME LateInv, faults <= 1, NEW c \in Workers, NoShowTypeOK', UNCHANGED report,
           CancelLocked(c) \/ AutoComplete(c) \/ CaptureLocked(c)
    PROVE  LateCase'
<1>t. /\ work \in [Workers -> WorkType]
      /\ rows \in [Rows -> RowType] /\ "old" \in Rows /\ "new" \in Rows /\ window \in 0..5
  BY DEF LateInv, NoShowTypeOK, RescheduleTypeOK, Rows
<1>f. CaseSound
  BY DEF LateInv, LateCase
<1>u. /\ UNCHANGED <<resolution, account, window, faults>> /\ listed' \subseteq listed
  BY DEF CancelLocked, AutoComplete, CaptureLocked, Enter, caseVars
<1>1. PICK kind \in {"cancel", "auto", "capture"}, r \in Rows, plan \in Resolutions :
         /\ work' = [work EXCEPT ![c] = [Job(kind, r, "resolve") EXCEPT !.plan = plan]]
         /\ r = "new" => Replaced
         /\ r = "old" => kind = "cancel" /\ ~rows["new"].locked
  <2>1. CASE CancelLocked(c)
    <3>1. \A role : PlanOf(role) \in Resolutions
      BY DEF PlanOf, Resolutions
    <3>2. Carrier = IF Replaced THEN "new" ELSE "old"
      BY DEF Carrier, Replaced
    <3>3. PICK plan \in Resolutions :
             work' = [work EXCEPT ![c] = [Job("cancel", Carrier, "resolve") EXCEPT !.plan = plan]]
      BY <2>1, <3>1 DEF CancelLocked, Enter
    <3>4. Carrier \in Rows /\ (Carrier = "new" => Replaced)
          /\ (Carrier = "old" => ~rows["new"].locked)
      BY <1>f, <3>2, CarrierTyped DEF CaseSound
    <3>5. QED
      BY <3>3, <3>4
  <2>2. CASE AutoComplete(c) \/ CaptureLocked(c)
    <3>1. Replaced
      BY <1>f, <2>2 DEF AutoComplete, CaptureLocked, CaseSound
    <3>2. "new_lesson_completed" \in Resolutions
      BY DEF Resolutions
    <3>3. QED
      BY <1>t, <2>2, <3>1, <3>2 DEF AutoComplete, CaptureLocked, Enter
  <2>3. QED
    BY <2>1, <2>2
<1>2. /\ work'[c].kind = kind /\ work'[c].row = r /\ work'[c].at = "resolve"
      /\ \A d \in Workers \ {c} : work'[d] = work[d]
  BY <1>t, <1>1 DEF Job
<1>3. \/ UNCHANGED rows
      \/ Replaced /\ rows' = [rows EXCEPT !["new"].status = "COMPLETED"]
  BY <1>f DEF CancelLocked, AutoComplete, CaptureLocked, CaseSound, caseVars
<1>4. /\ rows'["new"].locked = rows["new"].locked /\ rows'["new"].pay = rows["new"].pay
      /\ rows'["old"] = rows["old"]
      /\ \/ rows'["new"].status = rows["new"].status
         \/ Replaced /\ rows'["new"].status = "COMPLETED"
  BY <1>t, <1>3 DEF RowType
<1>5. Replaced => Replaced'
  BY <1>4 DEF Replaced
<1>6. Calm
  BY <1>t, <1>u, <1>4, <1>5 DEF Calm, Unresolved, Locked, Replaced
<1>7. Proceeds(c)
  BY <1>t, <1>1, <1>2, <1>4, <1>5 DEF Proceeds, FreshSound, LockSound, ResolverSound, Fresh,
     Saving, Replacing, On, Resolving, Rows
<1>8. QED
  BY <1>t, <1>u, <1>2, <1>6, <1>7, LateFrame DEF LateInv

LEMMA LateResolves ==
    ASSUME LateInv, faults <= 1, NEW c \in Workers, NoShowTypeOK', UNCHANGED report,
           ResolveLoad(c) \/ ResolveCall(c) \/ ResolveRecord(c)
    PROVE  LateCase'
<1>t. /\ work \in [Workers -> WorkType] /\ work[c] \in WorkType /\ account \in AccountType
      /\ rows \in [Rows -> RowType] /\ "old" \in Rows /\ "new" \in Rows /\ window \in 0..5
  BY DEF LateInv, NoShowTypeOK, RescheduleTypeOK, Rows
<1>f. ResolverSound(c) /\ work[c].kind \in Resolving /\ work[c].at # "settle"
  BY DEF LateInv, LateCase, ResolveLoad, ResolveCall, ResolveRecord, At
<1>u. UNCHANGED <<window, faults, listed>>
  BY DEF ResolveLoad, ResolveCall, ResolveRecord, GoOn
<1> DEFINE GoesOn ==
      /\ work' = [work EXCEPT ![c] = work'[c]]
      /\ work'[c].kind = work[c].kind /\ work'[c].row = work[c].row /\ work'[c].plan = work[c].plan
      /\ work'[c].verdict = work[c].verdict
      /\ work'[c].at \in {"call", "record", "finish"}
<1>1. GoesOn
  <2>1. \/ \E at \in {"call", "finish"} : work' = [work EXCEPT ![c] = [work[c] EXCEPT !.at = at]]
        \/ \E ok \in BOOLEAN :
              work' = [work EXCEPT ![c] = [work[c] EXCEPT !.at = "record", !.ok = ok]]
    BY DEF ResolveLoad, ResolveCall, ResolveRecord, GoOn
  <2>2. ASSUME NEW at \in {"call", "finish"}, work' = [work EXCEPT ![c] = [work[c] EXCEPT !.at = at]]
        PROVE  GoesOn
    BY <1>t, <2>2 DEF WorkType
  <2>3. ASSUME NEW ok \in BOOLEAN,
               work' = [work EXCEPT ![c] = [work[c] EXCEPT !.at = "record", !.ok = ok]]
        PROVE  GoesOn
    BY <1>t, <2>3 DEF WorkType
  <2>4. QED
    BY <2>1, <2>2, <2>3
<1>2. work'[c].at = "finish" => ~Unresolved'
  <2>1. CASE ResolveLoad(c)
    <3>1. Unresolved => work'[c].at = "call"
      BY <1>t, <2>1 DEF ResolveLoad, GoOn, WorkType
    <3>2. Unresolved' = Unresolved
      BY <2>1 DEF ResolveLoad, caseVars, Unresolved
    <3>3. QED
      BY <3>1, <3>2
  <2>2. CASE ResolveCall(c)
    BY <1>t, <2>2 DEF ResolveCall, GoOn, WorkType
  <2>3. CASE ResolveRecord(c)
    BY <1>t, <2>3 DEF ResolveRecord, Unresolved
  <2>4. QED
    BY <2>1, <2>2, <2>3
<1>3. /\ rows'["new"] = rows["new"]
      /\ rows'["old"].pay \in {rows["old"].pay, "settled", "manual_review"}
      /\ \/ resolution' = resolution /\ rows'["old"].pay = rows["old"].pay
         \/ resolution' # "none" /\ Unresolved
  <2>1. CASE UNCHANGED <<rows, resolution>>
    BY <2>1
  <2>2. CASE /\ Unresolved /\ resolution' = work[c].plan /\ work[c].plan # "none"
             /\ rows' = [rows EXCEPT !["old"].pay =
                            IF work[c].ok THEN "settled" ELSE "manual_review"]
    BY <1>t, <2>2 DEF RowType
  <2>3. QED
    BY <2>1, <2>2 DEF ResolveLoad, ResolveCall, ResolveRecord, caseVars
<1>4. (account'.pi = "none") <=> (account.pi = "none")
  <2>1. CASE ResolveCall(c)
    <3>1. \E ok \in BOOLEAN : \/ PayoutCall("full", ok)
                              \/ PayoutCall("half", ok)
                              \/ RefundCall(ok)
                              \/ UNCHANGED account
      BY <2>1 DEF ResolveCall
    <3>2. QED
      BY <1>t, <3>1, CallKeepsIntent
  <2>2. CASE ResolveLoad(c) \/ ResolveRecord(c)
    BY <1>t, <2>2 DEF ResolveLoad, ResolveRecord, caseVars, AccountType
  <2>3. QED
    BY <2>1, <2>2
<1>5. Calm
  BY <1>t, <1>u, <1>3, <1>4 DEF Calm, Unresolved, Locked, Replaced
<1>6. Proceeds(c)
  BY <1>f, <1>u, <1>1, <1>2, <1>3, <1>4 DEF Proceeds, FreshSound, LockSound, ResolverSound, Fresh,
     Saving, Replacing, On, Resolving, Replaced
<1>7. \A d \in Workers : work'[d] = work[d] \/ Proceeds(d)
  BY <1>t, <1>1, <1>6
<1>8. QED
  BY <1>t, <1>u, <1>5, <1>7, LateFrame DEF LateInv

LEMMA LateFinishes ==
    ASSUME LateInv, faults <= 1, NEW c \in Workers, NoShowTypeOK', UNCHANGED report,
           CancelFinish(c) \/ ChildSettled(c)
    PROVE  LateCase'
<1>t. /\ work \in [Workers -> WorkType] /\ work[c] \in WorkType
      /\ rows \in [Rows -> RowType] /\ "old" \in Rows /\ "new" \in Rows /\ window \in 0..5
  BY DEF LateInv, NoShowTypeOK, RescheduleTypeOK, Rows
<1>f. /\ ResolverSound(c) /\ work[c].kind \in {"cancel", "auto", "capture"} /\ work[c].at = "finish"
      /\ CaseSound
  BY DEF LateInv, LateCase, CancelFinish, ChildSettled, At
<1>u. UNCHANGED <<resolution, account, listed, window, faults>>
  BY DEF CancelFinish, ChildSettled, Leave
<1>1. /\ work' = [work EXCEPT ![c] = Idle] /\ work'[c] = Idle
      /\ \A d \in Workers \ {c} : work'[d] = work[d]
  BY <1>t DEF CancelFinish, ChildSettled, Leave
<1>2. CASE work[c].row = "old"
  <2>1. CancelFinish(c)
    BY <1>2, <1>f DEF ChildSettled, At, ResolverSound, Resolving
  <2>2. /\ rows'["new"] = rows["new"] /\ rows'["old"].pay = "settled"
    BY <1>2, <1>t, <2>1 DEF CancelFinish, RowType
  <2>3. \A a, b \in Workers : ~(Saving(b)' /\ (rows'["new"].locked \/ Replacing(a)'))
    BY <1>1, <1>2, <1>f, <2>2, LeavesOld DEF On
  <2>4. Calm
    BY <1>t, <1>u, <2>2, <2>3 DEF Calm, Unresolved, Replaced
  <2>5. QED
    BY <1>t, <1>u, <1>1, <2>4, LeftProceeds, LateFrame DEF LateInv
<1>3. CASE work[c].row = "new"
  <2>1. Replaced /\ (rows["new"].locked => ~Unresolved)
    BY <1>3, <1>f DEF ResolverSound, Resolving
  <2>2. /\ rows'["old"] = rows["old"] /\ rows'["new"].locked = rows["new"].locked
        /\ rows'["new"].status \in {rows["new"].status, "CANCELLED"}
    BY <1>3, <1>t DEF CancelFinish, ChildSettled, RowType
  <2>3. Calm
    BY <1>t, <1>u, <2>1, <2>2 DEF Calm, Unresolved, Locked, Replaced
  <2>4. QED
    BY <1>t, <1>u, <1>1, <2>3, LeftProceeds, LateFrame DEF LateInv
<1>4. QED
  BY <1>t, <1>2, <1>3 DEF WorkType, Rows

(* Completions, and disputes of them, look at no mutex that matters here.  *)
LEMMA LateCompletes ==
    ASSUME LateInv, faults <= 1, NoShowTypeOK', UNCHANGED report,
           \/ InstructorMarkComplete
           \/ \E c \in Workers : CompleteBooking(c) \/ DisputeCompletion(c)
    PROVE  LateCase'
<1>t. /\ work \in [Workers -> WorkType]
      /\ rows \in [Rows -> RowType] /\ "old" \in Rows /\ "new" \in Rows /\ window \in 0..5
  BY DEF LateInv, NoShowTypeOK, RescheduleTypeOK, Rows
<1>u. UNCHANGED <<resolution, account, listed, work, window, faults>>
  BY DEF InstructorMarkComplete, CompleteBooking, DisputeCompletion, Under
<1>1. Carrier \in Rows /\ (Carrier = "new" => Replaced)
  BY CarrierTyped DEF Carrier, Replaced
<1>2. \/ rows' = [rows EXCEPT ![Carrier].status = "COMPLETED"]
      \/ rows' = [rows EXCEPT ![Carrier].pay = IF @ = "authorized" THEN "manual_review" ELSE @]
  BY DEF InstructorMarkComplete, CompleteBooking, DisputeCompletion
<1>3. /\ rows'["new"].locked = rows["new"].locked
      /\ rows'["new"].status \in {rows["new"].status, "COMPLETED"}
      /\ rows'["new"].status = rows["new"].status \/ Replaced
      /\ \A r \in Rows : \/ rows'[r].pay = rows[r].pay
                         \/ rows[r].pay = "authorized" /\ rows'[r].pay = "manual_review"
  BY <1>t, <1>1, <1>2 DEF RowType, Rows
<1>4. Replaced => Replaced'
  BY <1>3 DEF Replaced
<1>5. Calm
  BY <1>t, <1>u, <1>3, <1>4 DEF Calm, Unresolved, Locked, Replaced
<1>6. QED
  BY <1>t, <1>u, <1>5, LateFrame DEF LateInv

-----------------------------------------------------------------------------
LEMMA LateReported ==
    ASSUME LateInv, faults <= 1, NEW c \in Workers, NoShowTypeOK',
           ReportNoShow(c) \/ ReportAutomated(c)
    PROVE  LateCase'
<1>t. /\ work \in [Workers -> WorkType]
      /\ rows \in [Rows -> RowType] /\ "old" \in Rows /\ "new" \in Rows /\ window \in 0..5
  BY DEF LateInv, NoShowTypeOK, RescheduleTypeOK, Rows
<1>1. /\ UNCHANGED <<resolution, account, listed, work, window, faults>>
      /\ window >= running /\ report.type = "none"
      /\ rows' = [rows EXCEPT ![Carrier].status = "NO_SHOW", ![Carrier].pay = "manual_review"]
  BY <1>t DEF ReportNoShow, ReportAutomated, Reported, Under, running, ended
<1>2. Carrier \in Rows /\ (Carrier = "new" => Replaced)
  BY CarrierTyped DEF Carrier, Replaced
<1>3. /\ rows'["new"].locked = rows["new"].locked
      /\ \/ rows'["new"].status = rows["new"].status
         \/ Replaced /\ rows'["new"].status = "NO_SHOW"
      /\ \A r \in Rows : rows'[r].pay \in {rows[r].pay, "manual_review"}
  BY <1>t, <1>1, <1>2 DEF RowType, Rows
<1>4. Replaced => Replaced'
  BY <1>3 DEF Replaced
<1>5. ASSUME NEW b \in Workers
      PROVE  ~Saving(b)'
  <2>1. ~Saving(b)
    BY <1>1, <1>t DEF LateInv, LateCase, LockSound, running, lt12
  <2>2. QED
    BY <1>1, <2>1 DEF Saving
<1>6. Calm
  BY <1>t, <1>1, <1>3, <1>4, <1>5 DEF Calm, Unresolved, Replaced
<1>7. QED
  BY <1>t, <1>1, <1>6, LateFrame DEF LateInv

LEMMA LateVerdicts ==
    ASSUME LateInv, faults <= 1, NEW c \in Workers, NoShowTypeOK',
           AdminResolves(c) \/ JobResolves(c)
    PROVE  LateCase'
<1>t. /\ work \in [Workers -> WorkType] /\ window \in 0..5
  BY DEF LateInv, NoShowTypeOK, RescheduleTypeOK
<1>f. CaseSound
  BY DEF LateInv, LateCase
<1>1. /\ UNCHANGED <<rows, resolution, account, window, faults, report>>
      /\ listed' \subseteq listed /\ report.type # "none"
  BY <1>f DEF AdminResolves, JobResolves, Enter, caseVars, CaseSound
<1>2. PICK verdict \in Verdicts : work' = [work EXCEPT ![c] = ResolutionJob(verdict)]
  BY DEF AdminResolves, JobResolves, Enter, Verdicts
<1>3. /\ work'[c] = ResolutionJob(verdict)
      /\ work' = [work EXCEPT ![c] = work'[c]]
  BY <1>t, <1>2
<1>4. /\ work'[c].kind = "noshow" /\ work'[c].row = Carrier /\ work'[c].verdict = verdict
      /\ work'[c].at # "finish"
      /\ verdict # "cancelled" /\ rows[Carrier].locked =>
            work'[c].plan # "none" /\ work'[c].at # "settle"
  BY <1>3 DEF ResolutionJob, Job, LockPlan
<1>5. Carrier = IF Replaced THEN "new" ELSE "old"
  BY DEF Carrier, Replaced
<1>6. Proceeds(c)
  <2>1. CASE Replaced
    BY <1>1, <1>4, <1>5, <2>1 DEF Proceeds, FreshSound, LockSound, ResolverSound, Fresh, Saving,
       Replacing, On, Resolving, Replaced
  <2>2. CASE ~Replaced
    <3>1. ~rows["new"].locked /\ window >= running
      BY <1>f, <1>1, <2>2 DEF CaseSound
    <3>2. QED
      BY <1>1, <1>4, <1>5, <2>2, <3>1 DEF Proceeds, FreshSound, LockSound, ResolverSound, Fresh,
         Saving, Replacing, On, Resolving
  <2>3. QED
    BY <2>1, <2>2
<1>7. QED
  BY <1>1, <1>3, <1>6, LateAside

LEMMA LateSettles ==
    ASSUME LateInv, faults <= 1, NEW c \in Workers, NoShowTypeOK',
           SettleCall(c) \/ LockSettled(c) \/ DisputeNoShow(c)
    PROVE  LateCase'
<1>t. /\ work \in [Workers -> WorkType] /\ work[c] \in WorkType /\ account \in AccountType
      /\ report \in ReportType
  BY DEF LateInv, NoShowTypeOK, RescheduleTypeOK
<1>1. CASE DisputeNoShow(c)
  <2>1. /\ UNCHANGED <<rows, resolution, account, window, faults, work, listed>>
        /\ report'.type = report.type
    BY <1>1, <1>t DEF DisputeNoShow, Under, caseVars, ReportType
  <2>2. QED
    BY <2>1, LateAside
<1>2. CASE SettleCall(c) \/ LockSettled(c)
  <2>1. ResolverSound(c) /\ work[c].kind = "noshow"
    BY <1>2 DEF LateInv, LateCase, SettleCall, LockSettled, At
  <2>2. UNCHANGED <<rows, resolution, window, faults, listed, report>>
    BY <1>2 DEF SettleCall, LockSettled, GoOn, caseVars
  <2>3. (account'.pi = "none") <=> (account.pi = "none")
    BY <1>2, <1>t, CallKeepsIntent DEF SettleCall, LockSettled, caseVars
  <2>4. PICK ok \in BOOLEAN :
           work' = [work EXCEPT ![c] = [work[c] EXCEPT !.at = "settle", !.ok = ok]]
    BY <1>2 DEF SettleCall, LockSettled, GoOn
  <2>5. /\ work' = [work EXCEPT ![c] = work'[c]]
        /\ work'[c].kind = "noshow" /\ work'[c].row = work[c].row /\ work'[c].at = "settle"
        /\ work'[c].plan = work[c].plan /\ work'[c].verdict = work[c].verdict
    BY <1>t, <2>1, <2>4 DEF WorkType
  <2>6. work[c].plan = "none" \/ work[c].at = "finish"
    BY <1>2 DEF SettleCall, LockSettled, At
  <2>7. Proceeds(c)
    BY <2>1, <2>2, <2>5, <2>6 DEF Proceeds, FreshSound, LockSound, ResolverSound, Fresh, Saving,
       Replacing, On, Resolving, Replaced, Unresolved
  <2>8. QED
    BY <2>2, <2>3, <2>5, <2>7, LateAside
<1>3. QED
  BY <1>1, <1>2

LEMMA OutcomeMeans ==
    ASSUME rows \in [Rows -> RowType], NEW r \in Rows, NEW verdict, NEW ok,
           NEW restored \in RestoredPay(r)
    PROVE  LET after == Outcome(r, verdict, ok, restored) IN
           /\ after.status \in {"CONFIRMED", "COMPLETED", "NO_SHOW"}
           /\ after.locked = rows[r].locked
           /\ after.pay \in {"none", "authorized", "payment_method_required", "settled",
                             "manual_review"}
           /\ after.pay = "authorized" => account.pi # "none"
           /\ verdict = "cancelled" /\ rows[r].locked => after.pay = "none"
<1>1. rows[r] \in RowType
  OBVIOUS
<1>2. ASSUME NEW s, NEW p
      PROVE  /\ [rows[r] EXCEPT !.status = s, !.pay = p].status = s
             /\ [rows[r] EXCEPT !.status = s, !.pay = p].pay = p
             /\ [rows[r] EXCEPT !.status = s, !.pay = p].locked = rows[r].locked
  BY <1>1 DEF RowType
<1>3. /\ restored \in {"none", "authorized", "payment_method_required", "settled"}
      /\ restored = "authorized" => account.pi # "none"
      /\ rows[r].locked => restored = "none"
  BY DEF RestoredPay
<1>4. CASE verdict = "cancelled"
  <2>1. Outcome(r, verdict, ok, restored) =
           [rows[r] EXCEPT !.status = "CONFIRMED", !.pay = restored]
    BY <1>4 DEF Outcome
  <2>2. QED
    BY <1>2, <1>3, <2>1
<1>5. CASE verdict # "cancelled"
  <2>1. (IF ok THEN "settled" ELSE IF report.type = "student" THEN "payment_method_required"
                                   ELSE "manual_review")
           \in {"settled", "payment_method_required", "manual_review"}
    OBVIOUS
  <2>2. QED
    BY <1>2, <1>5, <2>1 DEF Outcome
<1>6. QED
  BY <1>4, <1>5

LEMMA LateSaved ==
    ASSUME LateInv, faults <= 1, NEW c \in Workers, NoShowTypeOK', ResolutionSaved(c)
    PROVE  LateCase'
<1>t. /\ work \in [Workers -> WorkType] /\ work[c] \in WorkType
      /\ rows \in [Rows -> RowType] /\ "old" \in Rows /\ "new" \in Rows /\ window \in 0..5
      /\ report \in ReportType
  BY DEF LateInv, NoShowTypeOK, RescheduleTypeOK, Rows
<1>f. /\ ResolverSound(c) /\ work[c].kind = "noshow" /\ work[c].at = "settle"
  BY DEF LateInv, LateCase, ResolutionSaved, At
<1>u. UNCHANGED <<resolution, account, listed, window, faults>>
  BY DEF ResolutionSaved, Leave
<1>1. /\ work' = [work EXCEPT ![c] = Idle] /\ work'[c] = Idle
      /\ \A d \in Workers \ {c} : work'[d] = work[d]
  BY <1>t DEF ResolutionSaved, Leave
<1>r. report'.type = report.type
  BY <1>t DEF ResolutionSaved, ReportType
<1>s. PICK restored \in RestoredPay(work[c].row) :
         rows' = rows \/ rows' = [rows EXCEPT ![work[c].row] =
                                     Outcome(work[c].row, work[c].verdict, work[c].ok, restored)]
  BY DEF ResolutionSaved
<1> DEFINE after == Outcome(work[c].row, work[c].verdict, work[c].ok, restored)
<1>o. /\ after.status \in {"CONFIRMED", "COMPLETED", "NO_SHOW"}
      /\ after.locked = rows[work[c].row].locked
      /\ after.pay \in {"none", "authorized", "payment_method_required", "settled",
                        "manual_review"}
      /\ after.pay = "authorized" => account.pi # "none"
      /\ work[c].verdict = "cancelled" /\ rows[work[c].row].locked => after.pay = "none"
  BY <1>t, OutcomeMeans DEF WorkType
<1>2. rows' = rows \/ rows' = [rows EXCEPT ![work[c].row] = after]
  BY <1>s
<1> HIDE DEF after
<1>3. CASE rows' = rows
  BY <1>1, <1>3, <1>r, <1>u, LateAside, LeftProceeds
<1>4. CASE rows' = [rows EXCEPT !["old"] = after] /\ work[c].row = "old"
  <2>1. rows'["new"] = rows["new"] /\ rows'["old"] = after
    BY <1>4, <1>t
  <2>2. \A a, b \in Workers : ~(Saving(b)' /\ (rows'["new"].locked \/ Replacing(a)'))
    BY <1>1, <1>4, <1>f, <2>1, LeavesOld DEF On
  <2>3. window >= running
    BY <1>4, <1>f DEF ResolverSound, Resolving
  <2>4. Calm
    BY <1>t, <1>u, <1>o, <1>r, <2>1, <2>2, <2>3 DEF Calm, Unresolved, Replaced
  <2>5. QED
    BY <1>t, <1>u, <1>1, <2>4, LeftProceeds, LateFrame DEF LateInv
<1>5. CASE rows' = [rows EXCEPT !["new"] = after] /\ work[c].row = "new"
  <2>1. rows'["new"] = after /\ rows'["old"] = rows["old"]
    BY <1>5, <1>t
  <2>2. Replaced /\ Replaced'
    BY <1>5, <1>f, <1>o, <2>1 DEF ResolverSound, Resolving, Replaced
  <2>3. rows'["new"].locked /\ rows'["new"].pay = "settled" => ~Unresolved'
    BY <1>5, <1>f, <1>o, <1>u, <2>1 DEF ResolverSound, Resolving, Unresolved
  <2>4. Calm
    BY <1>t, <1>u, <1>5, <1>o, <1>r, <2>1, <2>2, <2>3 DEF Calm, Unresolved, Locked, Replaced
  <2>5. QED
    BY <1>t, <1>u, <1>1, <2>4, LeftProceeds, LateFrame DEF LateInv
<1>6. QED
  BY <1>2, <1>3, <1>4, <1>5, <1>t DEF WorkType, Rows

-----------------------------------------------------------------------------
LEMMA LateEnvironment ==
    ASSUME LateInv, faults' <= 1, NoShowTypeOK', Environment
    PROVE  LateCase'
<1>t. /\ work \in [Workers -> WorkType] /\ faults \in Nat
      /\ rows \in [Rows -> RowType] /\ "old" \in Rows /\ "new" \in Rows /\ window \in 0..5
      /\ report \in ReportType
  BY RescheduleModes DEF LateInv, NoShowTypeOK, RescheduleTypeOK, Rows
<1>l. LateCase \/ ~(faults <= 1)
  BY DEF LateInv
<1>c. \A list \in {"auto", "capture"} : Candidate(list) => rows["new"].locked
  BY DEF Candidate
<1>1. CASE Tick
  <2>1. /\ UNCHANGED <<rows, resolution, account, listed, report, work, faults>>
        /\ window' = window + 1
        /\ \A d \in Workers : work[d].kind = "idle"
    BY <1>1 DEF Tick, caseVars, Quiescent, Idle, Job
  <2>2. Calm
    BY <1>t, <2>1 DEF Calm, Unresolved, Locked, Replaced
  <2>3. QED
    BY <1>t, <1>l, <2>1, <2>2, LateFrame DEF LateInv, NoShowTypeOK, RescheduleTypeOK
<1>2. CASE ReportAges \/ NoShowJobReads \/ (CaptureJobReads /\ UNCHANGED report)
           \/ ((\E list \in listed : Passed(list)) /\ UNCHANGED report)
  <2>1. /\ UNCHANGED <<rows, resolution, account, work, window, faults>>
        /\ report'.type = report.type
        /\ "noshow" \in listed' => "noshow" \in listed \/ report.type # "none"
        /\ \A list \in {"auto", "capture"} : list \in listed' =>
              list \in listed \/ rows["new"].locked
    BY <1>2, <1>c, <1>t DEF ReportAges, NoShowJobReads, CaptureJobReads, Passed, caseVars,
       ReportType
  <2>2. Calm
    BY <1>t, <1>l, <2>1 DEF Calm, Unresolved, Locked, Replaced, LateCase, CaseSound
  <2>3. QED
    BY <1>t, <1>l, <2>1, <2>2, LateFrame DEF LateInv
<1>3. CASE InstructorMarkComplete /\ UNCHANGED report
  <2>1. faults' = faults
    BY <1>3 DEF InstructorMarkComplete
  <2>2. QED
    BY <1>3, <2>1, LateCompletes
<1>4. ASSUME NEW c \in Workers, Dies(c), UNCHANGED <<listed, report>>
      PROVE  LateCase'
  <2>1. /\ UNCHANGED <<rows, resolution, account, window>>
        /\ work'[c] = Idle /\ \A d \in Workers \ {c} : work'[d] = work[d]
        /\ faults <= 1
    BY <1>4, <1>t DEF Dies, GiveUp, caseVars
  <2>2. Calm
    BY <1>t, <1>4, <2>1 DEF Calm, Unresolved, Locked, Replaced
  <2>3. QED
    BY <1>t, <1>l, <2>1, <2>2, LeftProceeds, LateFrame DEF LateInv
<1>5. ASSUME NEW r \in Rows, Lapses(r), UNCHANGED <<listed, report>>
      PROVE  LateCase'
  <2>1. UNCHANGED <<rows, resolution, account, window, work>> /\ faults <= 1
    BY <1>5, <1>t DEF Lapses, caseVars
  <2>2. Calm
    BY <1>t, <1>5, <2>1 DEF Calm, Unresolved, Locked, Replaced
  <2>3. QED
    BY <1>t, <1>l, <2>1, <2>2, LateFrame DEF LateInv
<1>6. QED
  BY <1>1, <1>2, <1>3, <1>4, <1>5 DEF Environment

LEMMA LateStep ==
    ASSUME LateInv, [FundsNext]_fundsVars
    PROVE  LateInv'
<1>1. CASE UNCHANGED fundsVars
  BY <1>1 DEF LateInv, fundsVars, caseVars, NoShowTypeOK, RescheduleTypeOK, Company, Resting, Pair,
     Sole, On, LateCase, FreshSound, LockSound, ResolverSound, Fresh, Saving, Replacing, Replaced,
     Unresolved, CaseSound, SavesLate, ReplacesLate, OldIsLeft, SettledAfterItsLock, Locked
<1>2. CASE FundsNext
  <2>1. NoShowTypeOK' /\ Company'
    BY <1>2, StepTyped, CompanyStep DEF LateInv
  <2>2. SUFFICES ASSUME faults' <= 1
                 PROVE  LateCase'
    BY <2>1 DEF LateInv
  <2>3. CASE Environment
    BY <2>1, <2>2, <2>3, LateEnvironment
  <2>4. ASSUME NEW c \in Workers, RescheduleStep(c), UNCHANGED <<listed, report>>
        PROVE  LateCase'
    <3>1. faults <= 1
      <4>1. faults \in Nat
        BY RescheduleModes DEF LateInv, NoShowTypeOK, RescheduleTypeOK
      <4>2. faults' = faults \/ faults' = faults + 1
        BY <2>4 DEF RescheduleStep, LockStart, LockCapture, LockReverse, LockSave, LockReplace,
           MoveWithPayment, FreshStart, FreshConfirm, FreshSwap, FreshSwapLocked, Enter, GoOn,
           Leave, GiveUp, Under
      <4>3. QED
        BY <2>2, <4>1, <4>2
    <3>2. QED
      BY <2>1, <2>2, <2>4, <3>1, LateLocks, LateSaves, LateReplaced, LateMoves DEF RescheduleStep
  <2>5. ASSUME NEW c \in Workers, LockStep(c), UNCHANGED report
        PROVE  LateCase'
    <3>1. faults' = faults
      BY <2>5 DEF LockStep, CancelLocked, AutoComplete, CaptureLocked, ResolveLoad, ResolveCall,
         ResolveRecord, CancelFinish, ChildSettled, CompleteBooking, DisputeCompletion, Enter,
         GoOn, Leave, Under
    <3>2. QED
      BY <2>1, <2>2, <2>5, <3>1, LateComes, LateResolves, LateFinishes, LateCompletes DEF LockStep
  <2>6. ASSUME NEW c \in Workers, NoShowStep(c)
        PROVE  LateCase'
    <3>1. faults' = faults
      BY <2>6 DEF NoShowStep, ReportNoShow, ReportAutomated, DisputeNoShow, AdminResolves,
         JobResolves, SettleCall, LockSettled, ResolutionSaved, Enter, GoOn, Leave, Under
    <3>2. QED
      BY <2>1, <2>2, <2>6, <3>1, LateReported, LateVerdicts, LateSettles, LateSaved DEF NoShowStep
  <2>7. QED
    BY <1>2, <2>3, <2>4, <2>5, <2>6 DEF FundsNext, WorkerStep
<1>3. QED
  BY <1>1, <1>2

LEMMA InitLate == NoShowInit => LateInv
<1>1. SUFFICES ASSUME NoShowInit
               PROVE  LateInv
  OBVIOUS
<1>2. /\ \A c \in Workers : work[c] = Idle /\ work[c].kind = "idle"
      /\ listed = {} /\ report.type = "none"
  BY <1>1 DEF NoShowInit, RescheduleInit, Idle, Job, NoReport
<1>3. PICK pay \in {"scheduled", "authorized"} :
         /\ rows = [r \in Rows |->
                       [status |-> IF r = "old" THEN "CONFIRMED" ELSE "absent",
                        pay |-> IF r = "old" THEN pay ELSE "none", locked |-> FALSE]]
         /\ account = [pi |-> IF pay = "authorized" THEN "hold" ELSE "none", by |-> "none",
                       at |-> "old", reversed |-> FALSE, paid |-> {}, credit |-> 0]
  BY <1>1 DEF NoShowInit, RescheduleInit
<1>4. /\ ~rows["new"].locked /\ rows["old"].pay = pay
      /\ account.pi = IF pay = "authorized" THEN "hold" ELSE "none"
  BY <1>3 DEF Rows
<1>5. Company
  BY <1>2 DEF Company, Resting, Pair, Sole, On
<1>6. LateCase
  BY <1>2, <1>4 DEF LateCase, FreshSound, LockSound, ResolverSound, Fresh, Saving, Replacing,
     Resolving, CaseSound, SavesLate, ReplacesLate, OldIsLeft, SettledAfterItsLock
<1>7. QED
  BY <1>1, <1>5, <1>6, InitTyped DEF LateInv

LEMMA LateInvariance == FundsSafety => []LateInv
  BY InitLate, LateStep, PTL DEF FundsSafety

(* Though a worker may die or a mutex lapse, no replacement is settled     *)
(* before the funds that it carries are (SettledAfterItsLock).             *)
THEOREM SettledAfterLock == FundsSafety => []SettledAfterItsLock
<1>1. LateInv => SettledAfterItsLock
  BY DEF LateInv, LateCase, SettledAfterItsLock
<1>2. QED
  BY <1>1, LateInvariance, PTL

-----------------------------------------------------------------------------
(* The case while nobody dies and no mutex lapses.  These steps make the   *)
(* replacement, or unmake it:                                              *)
Moves(c) == \/ LockReplace(c)
            \/ MoveWithPayment(c)
            \/ FreshStart(c)
            \/ FreshConfirm(c)
            \/ FreshSwap(c)
            \/ FreshSwapLocked(c)

(* Whatever else happens, a cancelled booking stays cancelled, and what is *)
(* not a replacement yet does not become one.                              *)
StatusKept ==
    /\ \A r \in Rows : rows[r].status = "CANCELLED" => rows'[r].status = "CANCELLED"
    /\ ~Replaced => rows'["new"].status = rows["new"].status

LEMMA StatusFrame ==
    ASSUME LateInv, faults <= 1, FundsNext, \A c \in Workers : ~Moves(c)
    PROVE  StatusKept
<1>t. /\ rows \in [Rows -> RowType] /\ "old" \in Rows /\ "new" \in Rows
      /\ work \in [Workers -> WorkType]
  BY DEF LateInv, NoShowTypeOK, RescheduleTypeOK, Rows
<1>c. /\ Carrier \in Rows
      /\ Carrier = "new" => Replaced
  BY CarrierTyped DEF Carrier, Replaced
<1>1. ASSUME UNCHANGED rows
      PROVE  StatusKept
  BY <1>1 DEF StatusKept
<1>2. ASSUME NEW r \in Rows, rows'[r].status = rows[r].status \/
                             (rows[r].status # "CANCELLED" /\ (r = "new" => Replaced))
                             \/ (rows'[r].status = "CANCELLED" /\ (r = "new" => Replaced)),
             \A q \in Rows \ {r} : rows'[q] = rows[q]
      PROVE  StatusKept
  BY <1>2, <1>t DEF StatusKept
<1>3. ASSUME NEW c \in Workers, LockSave(c) \/ ResolveRecord(c)
      PROVE  StatusKept
  <2>1. \A r \in Rows : rows'[r].status = rows[r].status
    BY <1>3, <1>t DEF LockSave, ResolveRecord, RowType
  <2>2. QED
    BY <1>t, <2>1 DEF StatusKept
<1>4. ASSUME NEW c \in Workers, AutoComplete(c)
      PROVE  StatusKept
  <2>1. Replaced /\ rows["new"].status # "CANCELLED"
    BY <1>4 DEF LateInv, LateCase, CaseSound, AutoComplete, Completable
  <2>2. \A q \in Rows \ {"new"} : rows'[q] = rows[q]
    BY <1>4, <1>t DEF AutoComplete
  <2>3. QED
    BY <1>2, <1>t, <2>1, <2>2
<1>5. ASSUME NEW c \in Workers, CancelFinish(c) \/ ChildSettled(c)
      PROVE  StatusKept
  <2>1. /\ work[c].row \in Rows /\ (work[c].row = "new" => Replaced)
    BY <1>5, <1>t DEF CancelFinish, ChildSettled, At, LateInv, LateCase, ResolverSound, Resolving,
       WorkType
  <2>2. CASE CancelFinish(c)
    <3>1. /\ rows'[work[c].row].status = "CANCELLED"
          /\ \A q \in Rows \ {work[c].row} : rows'[q] = rows[q]
      BY <1>t, <2>1, <2>2 DEF CancelFinish, RowType
    <3>2. QED
      BY <1>2, <2>1, <3>1
  <2>3. CASE ChildSettled(c)
    <3>1. \A r \in Rows : rows'[r].status = rows[r].status
      BY <1>t, <2>3 DEF ChildSettled, RowType
    <3>2. QED
      BY <1>t, <3>1 DEF StatusKept
  <2>4. QED
    BY <1>5, <2>2, <2>3
<1>6. ASSUME InstructorMarkComplete \/ \E c \in Workers : CompleteBooking(c) \/ ReportNoShow(c)
                                                          \/ ReportAutomated(c)
      PROVE  StatusKept
  <2>1. /\ rows[Carrier].status # "CANCELLED"
        /\ \A q \in Rows \ {Carrier} : rows'[q] = rows[q]
    BY <1>6, <1>t DEF InstructorMarkComplete, CompleteBooking, ReportNoShow, ReportAutomated, Reported
  <2>2. QED
    BY <1>2, <1>c, <2>1
<1>7. ASSUME NEW c \in Workers, DisputeCompletion(c)
      PROVE  StatusKept
  <2>1. \A r \in Rows : rows'[r].status = rows[r].status
    BY <1>7, <1>t DEF DisputeCompletion, RowType
  <2>2. QED
    BY <1>t, <2>1 DEF StatusKept
<1>8. ASSUME NEW c \in Workers, ResolutionSaved(c)
      PROVE  StatusKept
  <2>r. PICK restored \in RestoredPay(work[c].row) :
           \/ rows' = rows
           \/ LET after == Outcome(work[c].row, work[c].verdict, work[c].ok, restored) IN
              /\ rows' = [rows EXCEPT ![work[c].row] = after]
              /\ after.status = rows[work[c].row].status \/ rows[work[c].row].status # "CANCELLED"
    BY <1>8 DEF ResolutionSaved
  <2> DEFINE r == work[c].row
             after == Outcome(r, work[c].verdict, work[c].ok, restored)
  <2>1. r \in Rows /\ (r = "new" => Replaced)
    BY <1>8, <1>t DEF ResolutionSaved, At, LateInv, LateCase, ResolverSound, Resolving, WorkType
  <2>2. CASE rows' = rows
    BY <1>1, <2>2
  <2>3. CASE /\ rows' = [rows EXCEPT ![r] = after]
             /\ after.status = rows[r].status \/ rows[r].status # "CANCELLED"
    <3>1. /\ rows'[r] = after
          /\ \A q \in Rows \ {r} : rows'[q] = rows[q]
      BY <1>t, <2>1, <2>3
    <3>2. rows'[r].status = rows[r].status \/ rows[r].status # "CANCELLED"
      BY <2>3, <3>1
    <3> HIDE DEF r, after
    <3>3. QED
      BY <1>2, <2>1, <3>1, <3>2
  <2>4. QED
    BY <2>r, <2>2, <2>3
<1>9. ASSUME NEW c \in Workers, RescheduleStep(c)
      PROVE  StatusKept
  BY <1>1, <1>3, <1>9 DEF RescheduleStep, Moves, LockStart, LockCapture, LockReverse, caseVars
<1>10. ASSUME NEW c \in Workers, LockStep(c)
       PROVE  StatusKept
  <2>1. \/ UNCHANGED rows
        \/ AutoComplete(c) \/ ResolveRecord(c) \/ CancelFinish(c) \/ ChildSettled(c)
        \/ CompleteBooking(c) \/ DisputeCompletion(c)
    BY <1>10 DEF LockStep, CancelLocked, CaptureLocked, ResolveLoad, ResolveCall, caseVars
  <2>2. QED
    BY <1>1, <1>3, <1>4, <1>5, <1>6, <1>7, <2>1
<1>11. ASSUME NEW c \in Workers, NoShowStep(c)
       PROVE  StatusKept
  <2>1. \/ UNCHANGED rows
        \/ ReportNoShow(c) \/ ReportAutomated(c) \/ ResolutionSaved(c)
    BY <1>11 DEF NoShowStep, DisputeNoShow, AdminResolves, JobResolves, SettleCall, LockSettled, caseVars
  <2>2. QED
    BY <1>1, <1>6, <1>8, <2>1
<1>12. CASE Environment
  <2>1. UNCHANGED rows \/ InstructorMarkComplete
    BY <1>12 DEF Environment, Tick, ReportAges, NoShowJobReads, CaptureJobReads, Passed, Dies,
       GiveUp, Lapses, caseVars
  <2>2. QED
    BY <1>1, <1>6, <2>1
<1>13. QED
  BY <1>9, <1>10, <1>11, <1>12 DEF FundsNext, WorkerStep

(* These steps begin an operation of several steps, ...                    *)
Begins(c) == \/ LockStart(c) \/ FreshStart(c)
             \/ CancelLocked(c) \/ AutoComplete(c) \/ CaptureLocked(c)
             \/ AdminResolves(c) \/ JobResolves(c)

(* ... on a mutex that was free; ...                                       *)
BegunWell(c) ==
    /\ work[c] = Idle
    /\ \A d \in Workers \ {c} : work'[d] = work[d]
    /\ ~mutex[work'[c].row]
    /\ work'[c].row \in Rows
    /\ work'[c].kind = "lock" =>
          /\ work'[c].row = "old" /\ work'[c].at = "capture"
          /\ rows["new"].status = "absent"
    /\ work'[c].kind = "fresh" => work'[c].row = "old" /\ FreshStart(c)
    /\ work'[c].kind \in Resolving =>
          /\ work'[c].row = "old" => ~Replaced
          /\ work'[c].at \in {"resolve", "settle", "call"}
          /\ work'[c].at = "call" => work'[c].plan = "none"
    /\ work'[c].kind = "noshow" =>
          /\ report.type # "none"
          /\ work'[c].verdict # "confirmed_no_dispute" => report.resolution = "none"

LEMMA BeginFrame ==
    ASSUME LateInv, faults <= 1, NEW c \in Workers, Begins(c)
    PROVE  BegunWell(c)
<1>t. work \in [Workers -> WorkType] /\ "old" \in Rows /\ "new" \in Rows /\ CaseSound
  BY DEF LateInv, LateCase, NoShowTypeOK, RescheduleTypeOK, Rows
<1>c. Carrier \in Rows /\ (Carrier = "old" => ~Replaced)
  BY CarrierTyped DEF Carrier, Replaced
<1>1. CASE LockStart(c)
  <2>1. work'[c] = Job("lock", "old", "capture") /\ work[c] = Idle /\ ~mutex["old"]
        /\ rows["new"].status = "absent" /\ \A d \in Workers \ {c} : work'[d] = work[d]
    BY <1>1, <1>t DEF LockStart, Enter, MayMove, Job
  <2>2. QED
    BY <1>t, <2>1 DEF BegunWell, Job, Resolving
<1>2. CASE FreshStart(c)
  <2>1. work'[c] = Job("fresh", "old", "confirm") /\ work[c] = Idle /\ ~mutex["old"]
        /\ \A d \in Workers \ {c} : work'[d] = work[d]
    BY <1>2, <1>t DEF FreshStart, Enter, Job
  <2>2. QED
    BY <1>2, <1>t, <2>1 DEF BegunWell, Job, Resolving
<1>3. CASE CancelLocked(c)
  <2>1. PICK role \in {"student", "instructor"} :
           Enter(c, [Job("cancel", Carrier, "resolve") EXCEPT !.plan = PlanOf(role)])
    BY <1>3 DEF CancelLocked
  <2>2. /\ work'[c] = [Job("cancel", Carrier, "resolve") EXCEPT !.plan = PlanOf(role)]
        /\ work[c] = Idle /\ ~mutex[Carrier]
        /\ \A d \in Workers \ {c} : work'[d] = work[d]
    BY <1>t, <2>1 DEF Enter, Job
  <2>3. work'[c].kind = "cancel" /\ work'[c].row = Carrier /\ work'[c].at = "resolve"
    BY <2>2 DEF Job
  <2>4. QED
    BY <1>c, <2>2, <2>3 DEF BegunWell
<1>4. CASE AutoComplete(c) \/ CaptureLocked(c)
  <2>1. PICK kind \in {"auto", "capture"} :
           Enter(c, [Job(kind, "new", "resolve") EXCEPT !.plan = "new_lesson_completed"])
    BY <1>4 DEF AutoComplete, CaptureLocked
  <2>2. /\ work'[c] = [Job(kind, "new", "resolve") EXCEPT !.plan = "new_lesson_completed"]
        /\ work[c] = Idle /\ ~mutex["new"]
        /\ \A d \in Workers \ {c} : work'[d] = work[d]
    BY <1>t, <2>1 DEF Enter, Job
  <2>3. work'[c].kind = kind /\ work'[c].row = "new" /\ work'[c].at = "resolve"
    BY <2>2 DEF Job
  <2>4. QED
    BY <1>t, <2>2, <2>3 DEF BegunWell
<1>5. CASE AdminResolves(c) \/ JobResolves(c)
  <2>1. PICK verdict \in Verdicts :
           /\ Enter(c, ResolutionJob(verdict))
           /\ verdict # "confirmed_no_dispute" => report.resolution = "none"
    BY <1>5 DEF AdminResolves, JobResolves, Verdicts
  <2>2. report.type # "none"
    BY <1>5, <1>t DEF AdminResolves, JobResolves, CaseSound
  <2>3. /\ ResolutionJob(verdict).kind = "noshow" /\ ResolutionJob(verdict).row = Carrier
        /\ ResolutionJob(verdict).verdict = verdict
        /\ ResolutionJob(verdict).at \in {"resolve", "settle", "call"}
        /\ ResolutionJob(verdict).at = "call" => ResolutionJob(verdict).plan = "none"
    BY DEF ResolutionJob, Job
  <2>4. /\ work'[c] = ResolutionJob(verdict) /\ work[c] = Idle /\ ~mutex[Carrier]
        /\ \A d \in Workers \ {c} : work'[d] = work[d]
    BY <1>t, <2>1, <2>3 DEF Enter
  <2>5. QED
    BY <1>c, <2>1, <2>2, <2>3, <2>4 DEF BegunWell
<1>6. QED
  BY <1>1, <1>2, <1>3, <1>4, <1>5 DEF Begins

(* ... and every other step lets a worker go on with its job, or leave.    *)
WorkKept ==
    \A d \in Workers : \/ work'[d] = Idle
                       \/ /\ work'[d].kind = work[d].kind /\ work'[d].row = work[d].row
                          /\ work'[d].plan = work[d].plan /\ work'[d].verdict = work[d].verdict

LEMMA WorkFrame ==
    ASSUME LateInv, FundsNext, \A c \in Workers : ~Begins(c) /\ ~FreshSwapLocked(c)
    PROVE  WorkKept
<1>t. work \in [Workers -> WorkType]
  BY DEF LateInv, NoShowTypeOK, RescheduleTypeOK
<1>1. ASSUME UNCHANGED work
      PROVE  WorkKept
  BY <1>1 DEF WorkKept
<1>2. ASSUME NEW c \in Workers, NEW at, NEW ok,
             \/ work' = [work EXCEPT ![c] = Idle]
             \/ work' = [work EXCEPT ![c] = [work[c] EXCEPT !.at = at]]
             \/ work' = [work EXCEPT ![c] = [work[c] EXCEPT !.at = at, !.ok = ok]]
      PROVE  WorkKept
  <2>1. /\ \A d \in Workers \ {c} : work'[d] = work[d]
        /\ \/ work'[c] = Idle
           \/ work'[c] = [work[c] EXCEPT !.at = at]
           \/ work'[c] = [work[c] EXCEPT !.at = at, !.ok = ok]
    BY <1>2, <1>t
  <2>2. CASE work'[c] = Idle
    BY <2>1, <2>2 DEF WorkKept
  <2>3. CASE work'[c] = [work[c] EXCEPT !.at = at]
    <3>1. work[c] \in WorkType
      BY <1>t
    <3>2. /\ work'[c].kind = work[c].kind /\ work'[c].row = work[c].row
          /\ work'[c].plan = work[c].plan /\ work'[c].verdict = work[c].verdict
      BY <2>3, <3>1 DEF WorkType
    <3>3. QED
      BY <2>1, <3>2 DEF WorkKept
  <2>4. CASE work'[c] = [work[c] EXCEPT !.at = at, !.ok = ok]
    <3>1. work[c] \in WorkType
      BY <1>t
    <3>2. /\ work'[c].kind = work[c].kind /\ work'[c].row = work[c].row
          /\ work'[c].plan = work[c].plan /\ work'[c].verdict = work[c].verdict
      BY <2>4, <3>1 DEF WorkType
    <3>3. QED
      BY <2>1, <3>2 DEF WorkKept
  <2>5. QED
    BY <2>1, <2>2, <2>3, <2>4
<1>3. ASSUME NEW c \in Workers, RescheduleStep(c)
      PROVE  WorkKept
  <2>1. \/ UNCHANGED work
        \/ \E at, ok :
             \/ work' = [work EXCEPT ![c] = Idle]
             \/ work' = [work EXCEPT ![c] = [work[c] EXCEPT !.at = at]]
             \/ work' = [work EXCEPT ![c] = [work[c] EXCEPT !.at = at, !.ok = ok]]
    BY <1>3 DEF RescheduleStep, Begins, LockCapture, LockReverse, LockSave, LockReplace,
       MoveWithPayment, FreshConfirm, FreshSwap, GoOn, Leave, GiveUp, Under
  <2>2. QED
    BY <1>1, <1>2, <2>1
<1>4. ASSUME NEW c \in Workers, LockStep(c)
      PROVE  WorkKept
  <2>1. \/ UNCHANGED work
        \/ \E at, ok :
             \/ work' = [work EXCEPT ![c] = Idle]
             \/ work' = [work EXCEPT ![c] = [work[c] EXCEPT !.at = at]]
             \/ work' = [work EXCEPT ![c] = [work[c] EXCEPT !.at = at, !.ok = ok]]
    BY <1>4 DEF LockStep, Begins, ResolveLoad, ResolveCall, ResolveRecord, CancelFinish,
       ChildSettled, CompleteBooking, DisputeCompletion, GoOn, Leave, Under
  <2>2. QED
    BY <1>1, <1>2, <2>1
<1>5. ASSUME NEW c \in Workers, NoShowStep(c)
      PROVE  WorkKept
  <2>1. \/ UNCHANGED work
        \/ \E at, ok :
             \/ work' = [work EXCEPT ![c] = Idle]
             \/ work' = [work EXCEPT ![c] = [work[c] EXCEPT !.at = at]]
             \/ work' = [work EXCEPT ![c] = [work[c] EXCEPT !.at = at, !.ok = ok]]
    BY <1>5 DEF NoShowStep, Begins, ReportNoShow, ReportAutomated, DisputeNoShow, SettleCall,
       LockSettled, ResolutionSaved, GoOn, Leave, Under
  <2>2. QED
    BY <1>1, <1>2, <2>1
<1>6. CASE Environment
  <2>1. UNCHANGED work \/ \E c \in Workers : work' = [work EXCEPT ![c] = Idle]
    BY <1>6 DEF Environment, Tick, ReportAges, NoShowJobReads, CaptureJobReads, Passed, Dies,
       GiveUp, Lapses, InstructorMarkComplete
  <2>2. QED
    BY <1>1, <1>2, <2>1
<1>7. QED
  BY <1>3, <1>4, <1>5, <1>6 DEF FundsNext, WorkerStep

-----------------------------------------------------------------------------
(* The original gets locked by the operation that locks it, and what is    *)
(* resolved was locked.                                                    *)
LEMMA LockedFrame ==
    ASSUME LateInv, FundsNext
    PROVE  /\ rows'["old"].pay = "locked" =>
                 rows["old"].pay = "locked" \/ \E c \in Workers : LockSave(c)
           /\ resolution' = resolution \/ Unresolved
<1>t. /\ rows \in [Rows -> RowType] /\ "old" \in Rows /\ "new" \in Rows
      /\ work \in [Workers -> WorkType] /\ RescheduleTypeOK /\ Carrier \in Rows
  BY CarrierTyped DEF LateInv, NoShowTypeOK, RescheduleTypeOK, Rows
<1>1. ASSUME NEW c \in Workers, RescheduleStep(c)
      PROVE  /\ rows'["old"].pay = "locked" => rows["old"].pay = "locked" \/ LockSave(c)
             /\ resolution' = resolution
  <2>1. resolution' = resolution
    BY <1>t, <1>1, RescheduleCase
  <2>2. CASE FreshSwap(c)
    <3>1. Swapped
      BY <1>t, <2>2, SwapMeans
    <3>2. QED
      BY <2>1, <3>1 DEF Swapped
  <2>3. CASE ~FreshSwap(c) /\ ~LockSave(c)
    <3>1. CASE LockStart(c) \/ LockCapture(c) \/ LockReverse(c) \/ FreshSwapLocked(c)
      BY <2>1, <3>1 DEF LockStart, LockCapture, LockReverse, FreshSwapLocked, caseVars
    <3>2. CASE LockReplace(c) \/ MoveWithPayment(c) \/ FreshStart(c)
      BY <1>t, <2>1, <3>2 DEF LockReplace, MoveWithPayment, FreshStart, RowType
    <3>3. CASE FreshConfirm(c)
      <4>1. rows'["old"] = rows["old"]
        BY <1>t, <3>3 DEF FreshConfirm
      <4>2. QED
        BY <2>1, <4>1
    <3>4. QED
      BY <1>1, <2>3, <3>1, <3>2, <3>3 DEF RescheduleStep
  <2>4. QED
    BY <2>1, <2>2, <2>3
<1>2. ASSUME NEW c \in Workers, LockStep(c)
      PROVE  /\ rows'["old"].pay = "locked" => rows["old"].pay = "locked"
             /\ resolution' = resolution \/ Unresolved
  <2>1. work[c].row \in Rows
    BY <1>t DEF WorkType
  <2>2. CASE ResolveRecord(c)
    BY <1>t, <2>2 DEF ResolveRecord, RowType
  <2>3. CASE CancelFinish(c) \/ ChildSettled(c)
    BY <1>t, <2>1, <2>3 DEF CancelFinish, ChildSettled, RowType
  <2>4. CASE AutoComplete(c) \/ CompleteBooking(c) \/ DisputeCompletion(c)
    BY <1>t, <2>4 DEF AutoComplete, CompleteBooking, DisputeCompletion, RowType
  <2>5. CASE CancelLocked(c) \/ CaptureLocked(c) \/ ResolveLoad(c) \/ ResolveCall(c)
    BY <2>5 DEF CancelLocked, CaptureLocked, ResolveLoad, ResolveCall, caseVars
  <2>6. QED
    BY <1>2, <2>2, <2>3, <2>4, <2>5 DEF LockStep
<1>3. ASSUME NEW c \in Workers, NoShowStep(c)
      PROVE  /\ rows'["old"].pay = "locked" => rows["old"].pay = "locked"
             /\ resolution' = resolution
  <2>1. CASE ResolutionSaved(c)
    <3>1. PICK restored \in RestoredPay(work[c].row) :
             rows' = rows \/ rows' = [rows EXCEPT ![work[c].row] =
                                Outcome(work[c].row, work[c].verdict, work[c].ok, restored)]
      BY <2>1 DEF ResolutionSaved
    <3>2. Outcome(work[c].row, work[c].verdict, work[c].ok, restored).pay # "locked"
      BY <1>t, OutcomeMeans DEF WorkType
    <3>3. QED
      BY <1>t, <2>1, <3>1, <3>2 DEF WorkType, ResolutionSaved
  <2>2. CASE ~ResolutionSaved(c)
    BY <1>t, <1>3, <2>2 DEF NoShowStep, ReportNoShow, ReportAutomated, Reported, DisputeNoShow,
       AdminResolves, JobResolves, SettleCall, LockSettled, RowType, caseVars
  <2>3. QED
    BY <2>1, <2>2
<1>4. CASE Environment
  <2>1. CASE InstructorMarkComplete
    BY <1>t, <2>1 DEF InstructorMarkComplete, RowType
  <2>2. CASE ~InstructorMarkComplete
    BY <1>4, <2>2 DEF Environment, Tick, ReportAges, NoShowJobReads, CaptureJobReads, Passed,
       Dies, GiveUp, Lapses, caseVars
  <2>3. QED
    BY <2>1, <2>2
<1>5. QED
  BY <1>1, <1>2, <1>3, <1>4 DEF FundsNext, WorkerStep

(* While the mutexes hold, a lesson that is being locked has no            *)
(* replacement yet, whoever settles the original does, and the original of *)
(* a move with a new charge is not locked.                                 *)
Settling(c) == work[c].kind \in Resolving
Exclusive ==
    \A c \in Workers :
       /\ work[c].kind = "lock" => rows["new"].status = "absent"
       /\ Settling(c) /\ work[c].row = "old" => ~Replaced
       /\ Fresh(c) => rows["old"].pay # "locked" /\ resolution = "none"

(* Nobody else settles the lesson then, or locks it. *)
LEMMA SettlesAlone ==
    ASSUME LateInv, faults = 0, Exclusive, NEW c \in Workers, NEW d \in Workers \ {c},
           Settling(c) \/ work[c].kind = "lock"
    PROVE  ~Settling(d) /\ work[d].kind # "lock"
<1> DEFINE One(e) == Settling(e) \/ work[e].kind = "lock"
<1>1. ASSUME NEW e \in Workers, One(e)
      PROVE  On(e, IF Replaced THEN "new" ELSE "old")
  <2>1. work[e].row \in Rows /\ work[e].kind # "idle"
    BY <1>1 DEF LateInv, NoShowTypeOK, RescheduleTypeOK, WorkType, Settling, Resolving
  <2>2. ResolverSound(e) /\ LockSound(e)
    BY DEF LateInv, LateCase
  <2>3. CASE Settling(e)
    BY <2>1, <2>2, <2>3 DEF Exclusive, ResolverSound, Settling, On, Rows
  <2>4. CASE work[e].kind = "lock"
    BY <2>1, <2>2, <2>4 DEF Exclusive, LockSound, On, Replaced
  <2>5. QED
    BY <1>1, <2>3, <2>4
<1>2. Sole /\ "old" \in Rows /\ "new" \in Rows
  BY DEF LateInv, Company, Rows
<1>3. QED
  BY <1>1, <1>2 DEF Sole

LEMMA MovesAlone ==
    ASSUME LateInv, faults = 0, Exclusive, NEW c \in Workers, Moves(c)
    PROVE  /\ \A d \in Workers \ {c} : work'[d] = work[d] /\ ~On(d, "old")
           /\ work'[c] = Idle \/ work'[c].kind = "fresh"
           /\ FreshStart(c) \/ MoveWithPayment(c) \/ On(c, "old")
<1>t. /\ work \in [Workers -> WorkType] /\ work[c] \in WorkType /\ Sole /\ "old" \in Rows
      /\ FreshSound(c) /\ LockSound(c)
  BY DEF LateInv, LateCase, Company, NoShowTypeOK, RescheduleTypeOK, Rows
<1>1. CASE LockReplace(c)
  <2>1. On(c, "old") /\ work' = [work EXCEPT ![c] = Idle]
    BY <1>1, <1>t DEF LockReplace, At, LockSound, On
  <2>2. QED
    BY <1>t, <2>1 DEF Sole
<1>2. CASE MoveWithPayment(c)
  BY <1>2, <1>t DEF MoveWithPayment, Under, Sole
<1>3. CASE FreshStart(c)
  <2>1. ~mutex["old"] /\ work' = [work EXCEPT ![c] = Job("fresh", "old", "confirm")]
    BY <1>3 DEF FreshStart, Enter, Job
  <2>2. Job("fresh", "old", "confirm").kind = "fresh"
    BY DEF Job
  <2>3. QED
    BY <1>3, <1>t, <2>1, <2>2 DEF Sole
<1>4. CASE FreshConfirm(c) \/ FreshSwap(c)
  <2>1. On(c, "old") /\ work[c].kind = "fresh"
    BY <1>4, <1>t DEF FreshConfirm, FreshSwap, At, FreshSound, Fresh, On
  <2>2. work' = [work EXCEPT ![c] = Idle] \/ work' = [work EXCEPT ![c].at = "swap"]
    BY <1>4 DEF FreshConfirm, FreshSwap, GoOn, Leave, GiveUp
  <2>3. QED
    BY <1>t, <2>1, <2>2 DEF Sole, WorkType
<1>5. CASE FreshSwapLocked(c)
  BY <1>5 DEF FreshSwapLocked, At, Exclusive, Fresh
<1>6. QED
  BY <1>1, <1>2, <1>3, <1>4, <1>5 DEF Moves

LEMMA ExclusiveStep ==
    ASSUME LateInv, faults = 0, Exclusive, FundsNext
    PROVE  Exclusive'
<1>t. Idle.kind = "idle" /\ "old" \in Rows
  BY DEF Idle, Job, Rows
<1>1. CASE \E c \in Workers : Moves(c)
  <2>1. PICK c \in Workers : Moves(c)
    BY <1>1
  <2>2. ASSUME NEW d \in Workers
        PROVE  work'[d].kind # "lock" /\ ~(Settling(d)' /\ work'[d].row = "old")
    <3>1. CASE d = c
      BY <1>t, <2>1, <3>1, MovesAlone DEF Settling, Resolving
    <3>2. CASE d # c
      <4>1. work'[d] = work[d] /\ ~On(d, "old")
        BY <2>1, <3>2, MovesAlone
      <4>2. work[d].kind = "lock" => work[d].row = "old"
        BY DEF LateInv, LateCase, LockSound
      <4>3. QED
        BY <4>1, <4>2 DEF On, Settling, Resolving
    <3>3. QED
      BY <3>1, <3>2
  <2>3. ASSUME NEW d \in Workers, Fresh(d)'
        PROVE  rows'["old"].pay # "locked" /\ resolution' = "none"
    <3>1. d = c
      <4>1. ASSUME d # c
            PROVE  FALSE
        <5>1. work'[d] = work[d] /\ ~On(d, "old")
          BY <2>1, <4>1, MovesAlone
        <5>2. QED
          BY <2>3, <5>1 DEF On, Fresh, LateInv, LateCase, FreshSound
      <4>2. QED
        BY <4>1
    <3>2. FreshStart(c) \/ FreshConfirm(c)
      BY <1>t, <2>1, <2>3, <3>1 DEF Moves, LockReplace, MoveWithPayment, FreshSwap, Under, Leave,
         GiveUp, FreshSwapLocked, At, Exclusive, Fresh, LateInv, NoShowTypeOK, RescheduleTypeOK
    <3>3. Fresh(c) \/ (rows["old"].pay # "locked" /\ resolution = "none")
      BY <3>2 DEF FreshStart, MayMove, FreshConfirm, At, Fresh
    <3>4. rows["old"].pay # "locked" /\ resolution = "none"
      BY <3>3 DEF Exclusive
    <3>5. ~\E b \in Workers : LockSave(b)
      <4>1. SUFFICES ASSUME NEW b \in Workers, LockSave(b)
                     PROVE  FALSE
        OBVIOUS
      <4>2. work'[b].kind = "lock" \/ work'[b] = Idle
        BY <4>1 DEF LockSave, At, GoOn, Leave, LateInv, NoShowTypeOK, RescheduleTypeOK, WorkType
      <4>3. work[b].kind = "lock"
        BY <4>1 DEF LockSave, At
      <4>4. On(b, "old") /\ work[b] # Idle
        BY <1>t, <4>3 DEF On, LateInv, LateCase, LockSound
      <4>5. b = c
        BY <2>1, <4>4, MovesAlone
      <4>6. QED
        BY <3>2, <4>3, <4>4, <4>5 DEF FreshStart, Enter, FreshConfirm, At
    <3>6. QED
      BY <3>4, <3>5, LockedFrame DEF Unresolved
  <2>4. QED
    BY <2>2, <2>3 DEF Exclusive
<1>2. CASE \A c \in Workers : ~Moves(c)
  <2>1. StatusKept
    BY <1>2, StatusFrame
  <2>f. ASSUME NEW d \in Workers, Fresh(d)
        PROVE  rows'["old"].pay # "locked" /\ resolution' = "none"
    <3>1. rows["old"].pay # "locked" /\ resolution = "none"
      BY <2>f DEF Exclusive
    <3>2. ASSUME NEW b \in Workers, LockSave(b)
          PROVE  FALSE
      <4>1. On(b, "old") /\ b # d
        BY <2>f, <3>2 DEF On, LockSave, At, Fresh, LateInv, LateCase, LockSound
      <4>2. On(d, "old") /\ Sole
        BY <2>f DEF On, Fresh, LateInv, LateCase, FreshSound, Company
      <4>3. QED
        BY <1>t, <4>1, <4>2 DEF Sole
    <3>3. QED
      BY <3>1, <3>2, LockedFrame DEF Unresolved
  <2>2. CASE \E c \in Workers : Begins(c)
    <3>1. PICK c \in Workers : BegunWell(c) /\ Begins(c)
      BY <2>2, BeginFrame
    <3>2. \A d \in Workers : Fresh(d)' => Fresh(d)
      BY <1>2, <3>1 DEF BegunWell, Fresh, Moves
    <3>3. QED
      BY <2>1, <2>f, <3>1, <3>2 DEF BegunWell, Exclusive, Settling, StatusKept, Replaced
  <2>3. CASE \A c \in Workers : ~Begins(c)
    <3>1. WorkKept
      BY <1>2, <2>3, WorkFrame DEF Moves
    <3>2. \A d \in Workers : Fresh(d)' => Fresh(d)
      BY <1>t, <3>1 DEF WorkKept, Fresh
    <3>3. QED
      BY <1>t, <2>1, <2>f, <3>1, <3>2 DEF WorkKept, Exclusive, Settling, Resolving, StatusKept,
         Replaced
  <2>4. QED
    BY <2>2, <2>3
<1>3. QED
  BY <1>1, <1>2

-----------------------------------------------------------------------------
(* Where there is a replacement one of the two lessons is cancelled, or    *)
(* somebody is about to do it.                                             *)
OneGoes == rows["new"].status # "absent" =>
              \/ \E r \in Rows : rows[r].status = "CANCELLED"
              \/ \E c \in Workers : Fresh(c)

(* Only its own steps end the move with a new payment.                     *)
LEMMA FreshWaits ==
    ASSUME LateInv, faults' = faults, FundsNext, NEW d \in Workers, Fresh(d),
           \A c \in Workers : ~Moves(c) /\ ~Begins(c)
    PROVE  work'[d] = work[d]
<1>t. work \in [Workers -> WorkType] /\ faults \in Nat
  BY RescheduleModes DEF LateInv, NoShowTypeOK, RescheduleTypeOK
<1>1. ASSUME NEW c \in Workers, work[c].kind # "fresh", NEW job, work' = [work EXCEPT ![c] = job]
      PROVE  work'[d] = work[d]
  BY <1>1, <1>t DEF Fresh
<1>2. ASSUME NEW c \in Workers, RescheduleStep(c)
      PROVE  work'[d] = work[d]
  <2>1. UNCHANGED work \/ (work[c].kind # "fresh" /\ \E job : work' = [work EXCEPT ![c] = job])
    BY <1>2 DEF RescheduleStep, Moves, Begins, LockCapture, LockReverse, LockSave, GoOn, Leave, At
  <2>2. QED
    BY <1>1, <2>1
<1>3. ASSUME NEW c \in Workers, LockStep(c)
      PROVE  work'[d] = work[d]
  <2>1. UNCHANGED work \/ (work[c].kind # "fresh" /\ \E job : work' = [work EXCEPT ![c] = job])
    BY <1>3 DEF LockStep, Begins, ResolveLoad, ResolveCall, ResolveRecord, CancelFinish,
       ChildSettled, CompleteBooking, DisputeCompletion, GoOn, Leave, Under, At, Resolving
  <2>2. QED
    BY <1>1, <2>1
<1>4. ASSUME NEW c \in Workers, NoShowStep(c)
      PROVE  work'[d] = work[d]
  <2>1. UNCHANGED work \/ (work[c].kind # "fresh" /\ \E job : work' = [work EXCEPT ![c] = job])
    BY <1>4 DEF NoShowStep, Begins, ReportNoShow, ReportAutomated, DisputeNoShow, SettleCall,
       LockSettled, ResolutionSaved, GoOn, Leave, Under, At
  <2>2. QED
    BY <1>1, <2>1
<1>5. CASE Environment
  BY <1>5, <1>t DEF Environment, Tick, ReportAges, NoShowJobReads, CaptureJobReads, Passed, Dies,
     GiveUp, Lapses, InstructorMarkComplete
<1>6. QED
  BY <1>2, <1>3, <1>4, <1>5 DEF FundsNext, WorkerStep

LEMMA OneStep ==
    ASSUME LateInv, faults = 0, faults' = 0, Exclusive, OneGoes, FundsNext
    PROVE  OneGoes'
<1>t. /\ rows \in [Rows -> RowType] /\ "old" \in Rows /\ "new" \in Rows
      /\ work \in [Workers -> WorkType]
  BY DEF LateInv, NoShowTypeOK, RescheduleTypeOK, Rows
<1>1. ASSUME NEW c \in Workers, Moves(c)
      PROVE  OneGoes'
  <2>1. CASE LockReplace(c)
    <3>1. CASE UNCHANGED rows
      BY <1>1, <2>1, <3>1, <1>t DEF OneGoes, LockReplace, At, Fresh
    <3>2. CASE ~UNCHANGED rows
      BY <2>1, <3>2, <1>t DEF OneGoes, LockReplace, RowType
    <3>3. QED
      BY <3>1, <3>2
  <2>2. CASE MoveWithPayment(c)
    BY <2>2, <1>t DEF OneGoes, MoveWithPayment, RowType
  <2>3. CASE FreshStart(c)
    BY <2>3, <1>t DEF OneGoes, FreshStart, Enter, Job, Fresh
  <2>4. CASE FreshConfirm(c)
    <3>1. CASE work' = [work EXCEPT ![c].at = "swap"]
      <4>1. Fresh(c)'
        BY <2>4, <3>1, <1>t DEF FreshConfirm, At, Fresh, WorkType
      <4>2. QED
        BY <4>1 DEF OneGoes
    <3>2. CASE work' # [work EXCEPT ![c].at = "swap"]
      <4>1. rows' = [rows EXCEPT !["new"] = NoRow]
        BY <2>4, <3>2 DEF FreshConfirm, GoOn, GiveUp
      <4>2. rows'["new"].status = "absent"
        BY <1>t, <4>1 DEF NoRow
      <4>3. QED
        BY <4>2 DEF OneGoes
    <3>3. QED
      BY <3>1, <3>2
  <2>5. CASE FreshSwap(c)
    <3>1. ~GiveUp(c) /\ RescheduleTypeOK
      BY DEF GiveUp, LateInv, NoShowTypeOK
    <3>2. QED
      BY <2>5, <3>1, SwapMeans DEF OneGoes
  <2>6. CASE FreshSwapLocked(c)
    BY <2>6 DEF FreshSwapLocked, At, Exclusive, Fresh
  <2>7. QED
    BY <1>1, <2>1, <2>2, <2>3, <2>4, <2>5, <2>6 DEF Moves
<1>2. CASE \A c \in Workers : ~Moves(c)
  <2>1. StatusKept
    BY <1>2, StatusFrame
  <2>2. rows'["new"].status # "absent" => rows["new"].status # "absent"
    BY <2>1 DEF StatusKept, Replaced
  <2>3. ASSUME NEW d \in Workers, Fresh(d)
        PROVE  Fresh(d)'
    <3>1. ASSUME NEW c \in Workers, Begins(c)
          PROVE  work'[d] = work[d]
      <4>1. BegunWell(c)
        BY <3>1, BeginFrame
      <4>2. c # d
        BY <2>3, <4>1 DEF BegunWell, Fresh, Idle, Job
      <4>3. QED
        BY <4>1, <4>2 DEF BegunWell
    <3>2. ASSUME \A c \in Workers : ~Begins(c)
          PROVE  work'[d] = work[d]
      BY <1>2, <2>3, <3>2, FreshWaits
    <3>3. QED
      BY <2>3, <3>1, <3>2 DEF Fresh
  <2>4. QED
    BY <2>1, <2>2, <2>3 DEF OneGoes, StatusKept
<1>3. QED
  BY <1>1, <1>2

-----------------------------------------------------------------------------
(* A verdict other than the job's is under way only while there is none.   *)
VerdictSound ==
    /\ \A c \in Workers : work[c].kind = "noshow" =>
          /\ report.type # "none"
          /\ work[c].verdict # "confirmed_no_dispute" => report.resolution = "none"
    /\ report.type = "none" => report.resolution = "none"

VerdictKept == report.resolution # "none" =>
                  report'.resolution \in {report.resolution, "confirmed_no_dispute"}

LEMMA VerdictStep ==
    ASSUME LateInv, faults = 0, Exclusive, VerdictSound, FundsNext
    PROVE  VerdictSound' /\ VerdictKept
<1>t. report \in ReportType /\ work \in [Workers -> WorkType] /\ Idle.kind = "idle"
  BY DEF LateInv, NoShowTypeOK, RescheduleTypeOK, Idle, Job
<1>1. ASSUME report'.type = report.type, report'.resolution = report.resolution
      PROVE  VerdictSound' /\ VerdictKept
  <2>1. CASE \E c \in Workers : Begins(c)
    <3>1. PICK c \in Workers : BegunWell(c)
      BY <2>1, BeginFrame
    <3>2. QED
      BY <1>1, <3>1 DEF BegunWell, VerdictSound, VerdictKept
  <2>2. CASE \A c \in Workers : ~Begins(c)
    <3>1. \A c \in Workers : ~FreshSwapLocked(c)
      BY DEF FreshSwapLocked, At, Exclusive, Fresh
    <3>2. WorkKept
      BY <2>2, <3>1, WorkFrame
    <3>3. QED
      BY <1>t, <1>1, <3>2 DEF WorkKept, VerdictSound, VerdictKept
  <2>3. QED
    BY <2>1, <2>2
<1>2. ASSUME NEW c \in Workers, ReportNoShow(c) \/ ReportAutomated(c)
      PROVE  VerdictSound' /\ VerdictKept
  <2>1. PICK type \in {"instructor", "student", "mutual"} :
           report.type = "none" /\ report' = [NoReport EXCEPT !.type = type] /\ work' = work
    BY <1>2 DEF ReportNoShow, ReportAutomated, Reported, Under
  <2>2. report'.type = type /\ report'.resolution = "none"
    BY <2>1 DEF NoReport
  <2>3. QED
    BY <2>1, <2>2 DEF VerdictSound, VerdictKept
<1>3. ASSUME NEW c \in Workers, ResolutionSaved(c)
      PROVE  VerdictSound' /\ VerdictKept
  <2>1. CASE report' = report
    BY <1>1, <2>1
  <2>2. CASE report' = [report EXCEPT !.resolution = work[c].verdict]
    <3>1. report'.resolution = work[c].verdict /\ report'.type = report.type
      BY <1>t, <2>2 DEF ReportType
    <3>2. work[c].kind = "noshow" /\ work' = [work EXCEPT ![c] = Idle]
      BY <1>3 DEF ResolutionSaved, At, Leave
    <3>3. \A d \in Workers : work'[d].kind # "noshow"
      <4>1. \A d \in Workers \ {c} : ~Settling(d) /\ work'[d] = work[d]
        BY <1>t, <3>2, SettlesAlone DEF Settling, Resolving
      <4>2. work'[c].kind = "idle"
        BY <1>t, <3>2
      <4>3. QED
        BY <4>1, <4>2 DEF Settling, Resolving
    <3>4. QED
      BY <3>1, <3>2, <3>3 DEF VerdictSound, VerdictKept
  <2>3. QED
    BY <1>3, <2>1, <2>2 DEF ResolutionSaved
<1>4. ASSUME NEW c \in Workers, NoShowStep(c)
      PROVE  VerdictSound' /\ VerdictKept
  <2>1. \/ report' = report
        \/ report' = [report EXCEPT !.disputed = TRUE]
        \/ ReportNoShow(c) \/ ReportAutomated(c) \/ ResolutionSaved(c)
    BY <1>4 DEF NoShowStep, DisputeNoShow, AdminResolves, JobResolves, SettleCall, LockSettled
  <2>2. CASE report' = report \/ report' = [report EXCEPT !.disputed = TRUE]
    BY <1>t, <1>1, <2>2 DEF ReportType
  <2>3. QED
    BY <1>2, <1>3, <2>1, <2>2
<1>5. CASE Environment
  <2>1. report' = report \/ report' = [report EXCEPT !.due = TRUE]
    BY <1>5 DEF Environment, Tick, ReportAges, NoShowJobReads
  <2>2. QED
    BY <1>t, <1>1, <2>1 DEF ReportType
<1>6. QED
  BY <1>1, <1>4, <1>5 DEF FundsNext, WorkerStep

-----------------------------------------------------------------------------
(* What is given out of the charge: nothing before a lock is resolved, but *)
(* what the resolution that is about to be recorded has given; and nothing *)
(* is resolved whose transfer was not reversed.                            *)
Paying(c) == Settling(c) /\ work[c].plan # "none" /\ work[c].at \in {"call", "record"}
Recording(c) == Paying(c) /\ work[c].at = "record"
Reversed(c) == work[c].kind = "lock" /\ work[c].at = "save" /\ work[c].ok

Taking(c) == work[c].kind = "lock" /\ work[c].at # "capture"

Given(plan) ==
    /\ account.credit = 0
    /\ "full" \in account.paid => plan = "new_lesson_completed"
    /\ "half" \in account.paid => plan = "new_lesson_cancelled_lt12"
    /\ account.pi = "refunded" => plan = "instructor_cancelled"
    /\ account.pi # "credited"
Untouched == account.credit = 0 /\ account.paid = {} /\ account.pi # "refunded"

MoneySound ==
    /\ account.reversed => account.pi \in {"captured", "refunded", "credited"}
    /\ Unresolved => account.reversed
    /\ \A c \in Workers : Reversed(c) => account.reversed
    /\ \A c \in Workers : Paying(c) => Unresolved
    /\ \A c \in Workers : Recording(c) => Given(work[c].plan)
    /\ resolution = "none" => Untouched \/ \E c \in Workers : Recording(c)
    /\ resolution # "none" => account.reversed /\ GivenOut <= 2

(* What is taken for a lock was not given to the student before.           *)
TakenSound == /\ \A c \in Workers : Taking(c) => account.pi # "credited"
              /\ Unresolved => account.pi # "credited"

(* A call of these operations to Stripe gives no credit.                   *)
LEMMA CreditFrame ==
    ASSUME LateInv, FundsNext, account'.pi = "credited"
    PROVE  account.pi = "credited" \/ \E c \in Workers : FreshSwap(c)
<1>t. /\ account \in AccountType /\ work \in [Workers -> WorkType]
  BY DEF LateInv, NoShowTypeOK, RescheduleTypeOK
<1>1. ASSUME NEW done, NEW able, NEW after, NEW ok, Call(done, able, after, ok),
             after.pi # "credited"
      PROVE  account.pi = "credited"
  BY <1>1 DEF Call
<1>2. \A state \in {"captured", "void"} : \A key : [account EXCEPT !.pi = state, !.by = key].pi = state
  BY <1>t DEF AccountType
<1>h. ASSUME NEW state \in {"captured", "void"}, NEW key, NEW ok, HoldCall(key, state, ok)
      PROVE  account.pi = "credited"
  BY <1>1, <1>2, <1>h DEF HoldCall
<1>k. ASSUME account.pi # "credited", NEW after,
             \/ after = [account EXCEPT !.reversed = TRUE]
             \/ after = [account EXCEPT !.pi = "refunded"]
             \/ after = [account EXCEPT !.at = "new"]
             \/ \E part, n : \/ after = [account EXCEPT !.paid = @ \cup {part}]
                            \/ after = [account EXCEPT !.credit = n]
      PROVE  after.pi # "credited"
  BY <1>t, <1>k DEF AccountType
<1>3. ASSUME NEW c \in Workers, RescheduleStep(c), ~FreshSwap(c), account.pi # "credited"
      PROVE  FALSE
  <2>1. CASE LockCapture(c)
    BY <1>3, <1>h, <2>1 DEF LockCapture
  <2>2. CASE LockReverse(c)
    BY <1>1, <1>3, <1>k, <2>2 DEF LockReverse
  <2>3. CASE MoveWithPayment(c)
    BY <1>3, <1>k, <2>3 DEF MoveWithPayment
  <2>4. QED
    BY <1>3, <2>1, <2>2, <2>3 DEF RescheduleStep, LockStart, LockSave, LockReplace, FreshStart,
       FreshConfirm, FreshSwapLocked, caseVars
<1>4. ASSUME NEW c \in Workers, LockStep(c), account.pi # "credited"
      PROVE  FALSE
  <2>1. CASE ResolveCall(c)
    <3>1. \E ok \in BOOLEAN : \/ PayoutCall("full", ok)
                              \/ PayoutCall("half", ok)
                              \/ RefundCall(ok)
                              \/ UNCHANGED account
      BY <2>1 DEF ResolveCall
    <3>2. QED
      BY <1>1, <1>4, <1>k, <3>1 DEF PayoutCall, RefundCall
  <2>2. CASE ResolveRecord(c)
    BY <1>4, <1>k, <2>2 DEF ResolveRecord
  <2>3. QED
    BY <1>4, <2>1, <2>2 DEF LockStep, CancelLocked, AutoComplete, CaptureLocked, ResolveLoad,
       CancelFinish, ChildSettled, CompleteBooking, DisputeCompletion, caseVars
<1>5. ASSUME NEW c \in Workers, NoShowStep(c), account.pi # "credited"
      PROVE  FALSE
  BY <1>5, <1>h DEF NoShowStep, ReportNoShow, ReportAutomated, Reported, DisputeNoShow,
     AdminResolves, JobResolves, SettleCall, LockSettled, ResolutionSaved, caseVars
<1>6. CASE Environment
  BY <1>6 DEF Environment, Tick, ReportAges, NoShowJobReads, CaptureJobReads, Passed, Dies,
     GiveUp, Lapses, InstructorMarkComplete, caseVars
<1>7. QED
  BY <1>3, <1>4, <1>5, <1>6 DEF FundsNext, WorkerStep

(* Only its own steps let an operation that locks a lesson go on.          *)
LEMMA TakingFrame ==
    ASSUME LateInv, FundsNext, NEW d \in Workers, Taking(d)'
    PROVE  Taking(d) \/ LockCapture(d)
<1>t. work \in [Workers -> WorkType] /\ work[d] \in WorkType /\ Idle.kind = "idle"
  BY DEF LateInv, NoShowTypeOK, RescheduleTypeOK, Idle, Job
<1>1. ASSUME NEW c \in Workers, NEW job, work' = [work EXCEPT ![c] = job],
             job.kind = "lock" => c # d
      PROVE  Taking(d)
  BY <1>1, <1>t DEF Taking
<1>2. ASSUME NEW c \in Workers, RescheduleStep(c), ~LockCapture(d)
      PROVE  Taking(d)
  <2>1. CASE c = d
    <3>1. LockReverse(d) \/ LockSave(d) => Taking(d)
      BY DEF LockReverse, LockSave, At, Taking
    <3>2. ASSUME NEW job, GoOn(d, job) \/ Enter(d, job) \/ Leave(d) \/ GiveUp(d),
                 job.kind # "lock" \/ job.at = "capture"
          PROVE  FALSE
      BY <1>t, <3>2 DEF GoOn, Enter, Leave, GiveUp, Taking
    <3>3. /\ Job("lock", "old", "capture").at = "capture"
          /\ Job("fresh", "old", "confirm").kind # "lock"
          /\ [Job("cancel", "old", "resolve") EXCEPT !.plan = "new_lesson_cancelled_ge12"].kind
                = "cancel"
          /\ work[d].kind = "fresh" => [work[d] EXCEPT !.at = "swap"].kind = "fresh"
      BY <1>t DEF Job, WorkType
    <3>4. ~LockStart(d)
      BY <3>2, <3>3 DEF LockStart
    <3>5. ~FreshStart(d)
      BY <3>2, <3>3 DEF FreshStart
    <3>6. ~FreshConfirm(d)
      BY <3>2, <3>3 DEF FreshConfirm, At
    <3>7. ~FreshSwap(d)
      BY <3>2, <3>3 DEF FreshSwap
    <3>8. ~FreshSwapLocked(d)
      BY <3>2, <3>3 DEF FreshSwapLocked
    <3>9. ~LockReplace(d)
      BY <1>t DEF LockReplace, Taking
    <3>10. MoveWithPayment(d) => Taking(d)
      BY DEF MoveWithPayment, Under, Taking
    <3>11. QED
      BY <1>2, <2>1, <3>1, <3>4, <3>5, <3>6, <3>7, <3>8, <3>9, <3>10 DEF RescheduleStep
  <2>2. CASE c # d
    <3>1. work'[d] = work[d]
      BY <1>2, <1>t, <2>2 DEF RescheduleStep, LockStart, LockCapture, LockReverse, LockSave,
         LockReplace, MoveWithPayment, FreshStart, FreshConfirm, FreshSwap, FreshSwapLocked,
         Enter, GoOn, Leave, GiveUp, Under
    <3>2. QED
      BY <3>1 DEF Taking
  <2>3. QED
    BY <2>1, <2>2
<1>3. ASSUME NEW c \in Workers, LockStep(c) \/ NoShowStep(c)
      PROVE  Taking(d)
  <2>1. CASE \/ CancelLocked(c) \/ AutoComplete(c) \/ CaptureLocked(c)
             \/ AdminResolves(c) \/ JobResolves(c)
    <3>1. ASSUME NEW job, Enter(c, job), job.kind # "lock"
          PROVE  Taking(d)
      BY <1>1, <3>1 DEF Enter
    <3>2. \A kind \in Resolving : \A r, plan :
             [Job(kind, r, "resolve") EXCEPT !.plan = plan].kind # "lock"
      BY DEF Job, Resolving
    <3>3. \A verdict : ResolutionJob(verdict).kind # "lock"
      BY DEF ResolutionJob, Job
    <3>4. QED
      BY <2>1, <3>1, <3>2, <3>3 DEF CancelLocked, AutoComplete, CaptureLocked, AdminResolves,
         JobResolves, Resolving
  <2>2. CASE ~(\/ CancelLocked(c) \/ AutoComplete(c) \/ CaptureLocked(c)
               \/ AdminResolves(c) \/ JobResolves(c))
    <3>1. UNCHANGED work \/ \E at, ok :
             \/ work' = [work EXCEPT ![c] = Idle]
             \/ /\ work[c].kind \in Resolving
                /\ \/ work' = [work EXCEPT ![c] = [work[c] EXCEPT !.at = at]]
                   \/ work' = [work EXCEPT ![c] = [work[c] EXCEPT !.at = at, !.ok = ok]]
      BY <1>3, <2>2 DEF LockStep, ResolveLoad, ResolveCall, ResolveRecord, CancelFinish,
         ChildSettled, CompleteBooking, DisputeCompletion, NoShowStep, ReportNoShow,
         ReportAutomated, DisputeNoShow, SettleCall, LockSettled, ResolutionSaved, GoOn, Leave,
         Under, At, Resolving
    <3>2. work[c].kind \in Resolving =>
             \A at, ok : /\ [work[c] EXCEPT !.at = at].kind # "lock"
                         /\ [work[c] EXCEPT !.at = at, !.ok = ok].kind # "lock"
      BY <1>t DEF WorkType, Resolving
    <3>3. CASE UNCHANGED work \/ work' = [work EXCEPT ![c] = Idle]
      BY <1>1, <1>t, <3>3 DEF Taking
    <3>4. ASSUME NEW at, NEW ok, work[c].kind \in Resolving,
                 \/ work' = [work EXCEPT ![c] = [work[c] EXCEPT !.at = at]]
                 \/ work' = [work EXCEPT ![c] = [work[c] EXCEPT !.at = at, !.ok = ok]]
          PROVE  Taking(d)
      BY <1>1, <3>2, <3>4
    <3>5. QED
      BY <3>1, <3>3, <3>4
  <2>3. QED
    BY <2>1, <2>2
<1>4. CASE Environment
  BY <1>1, <1>t, <1>4 DEF Environment, Tick, ReportAges, NoShowJobReads, CaptureJobReads, Passed,
     Dies, GiveUp, Lapses, InstructorMarkComplete, Taking
<1>5. QED
  BY <1>2, <1>3, <1>4 DEF FundsNext, WorkerStep

LEMMA TakenStep ==
    ASSUME LateInv, faults = 0, Exclusive, TakenSound, FundsNext
    PROVE  TakenSound'
<1>t. work \in [Workers -> WorkType] /\ account \in AccountType /\ "old" \in Rows
      /\ RescheduleTypeOK
  BY DEF LateInv, NoShowTypeOK, RescheduleTypeOK, Rows
<1>1. CASE \E c \in Workers : FreshSwap(c)
  <2>1. PICK c \in Workers : FreshSwap(c)
    BY <1>1
  <2>2. Swapped /\ rows["old"].pay # "locked"
    BY <1>t, <2>1, SwapMeans DEF FreshSwap, At, Exclusive, Fresh
  <2>3. ~Unresolved'
    BY <2>2 DEF Swapped, Unresolved
  <2>4. ASSUME NEW d \in Workers
        PROVE  ~Taking(d)'
    <3>1. CASE d = c
      BY <2>1, <3>1, MovesAlone DEF Moves, Taking, Idle, Job
    <3>2. CASE d # c
      BY <2>1, <3>2, MovesAlone DEF Moves, Taking, On, LateInv, LateCase, LockSound
    <3>3. QED
      BY <3>1, <3>2
  <2>5. QED
    BY <2>3, <2>4 DEF TakenSound
<1>2. CASE \A c \in Workers : ~FreshSwap(c)
  <2>1. account'.pi = "credited" => account.pi = "credited"
    BY <1>2, CreditFrame
  <2>2. ASSUME NEW d \in Workers, Taking(d)', account'.pi = "credited"
        PROVE  FALSE
    <3>1. LockCapture(d)
      BY <2>1, <2>2, TakingFrame DEF TakenSound
    <3>2. PICK ok \in BOOLEAN : /\ HoldCall("lock", "captured", ok)
                                /\ ~ok => Leave(d)
      BY <3>1 DEF LockCapture
    <3>3. ok
      BY <1>t, <2>2, <3>2 DEF Leave, Taking, Idle, Job
    <3>4. account'.pi = "captured"
      BY <1>t, <3>2, <3>3 DEF HoldCall, Call, AccountType
    <3>5. QED
      BY <2>2, <3>4
  <2>3. ASSUME Unresolved', account'.pi = "credited"
        PROVE  FALSE
    <3>1. CASE rows["old"].pay = "locked"
      BY <2>1, <2>3, <3>1, LockedFrame DEF Unresolved, TakenSound
    <3>2. CASE rows["old"].pay # "locked"
      <4>1. PICK c \in Workers : LockSave(c)
        BY <2>3, <3>2, LockedFrame DEF Unresolved
      <4>2. Taking(c)
        BY <4>1 DEF LockSave, At, Taking
      <4>3. QED
        BY <2>1, <2>3, <4>2 DEF TakenSound
    <3>3. QED
      BY <3>1, <3>2
  <2>4. QED
    BY <2>2, <2>3 DEF TakenSound
<1>3. QED
  BY <1>1, <1>2

(* The steps that leave the account and the resolution.                    *)
LEMMA MoneyFrame ==
    ASSUME NoShowTypeOK, MoneySound, resolution' = resolution,
           account' = account \/ account' = [account EXCEPT !.at = "new"],
           Unresolved' => account.reversed,
           \A d \in Workers : /\ Paying(d)' => Unresolved'
                              /\ Recording(d)' <=> Recording(d)
                              /\ Recording(d) => work'[d].plan = work[d].plan
                              /\ Reversed(d)' => account.reversed
    PROVE  MoneySound'
<1>1. /\ account'.pi = account.pi /\ account'.reversed = account.reversed
      /\ account'.paid = account.paid /\ account'.credit = account.credit
  BY DEF NoShowTypeOK, RescheduleTypeOK, AccountType
<1>2. GivenOut' = GivenOut /\ (Untouched' <=> Untouched) /\ \A p : Given(p)' <=> Given(p)
  BY <1>1 DEF GivenOut, Untouched, Given
<1>3. QED
  BY <1>1, <1>2 DEF MoneySound

(* One worker goes on or leaves, and is not about to record.               *)
LEMMA MoneyAside ==
    ASSUME NoShowTypeOK, MoneySound, resolution' = resolution, NEW c \in Workers,
           \A d \in Workers \ {c} : work'[d] = work[d],
           account' = account \/ account' = [account EXCEPT !.at = "new"],
           rows'["old"].pay = rows["old"].pay,
           ~Recording(c), ~Recording(c)', Paying(c)' => Unresolved,
           Reversed(c)' => account.reversed
    PROVE  MoneySound'
<1>1. Unresolved' <=> Unresolved
  BY DEF Unresolved
<1>2. \A d \in Workers \ {c} :
         /\ Paying(d)' <=> Paying(d)
         /\ Recording(d)' <=> Recording(d)
         /\ Reversed(d)' <=> Reversed(d)
         /\ work'[d].plan = work[d].plan
  BY DEF Paying, Recording, Reversed, Settling
<1>3. QED
  BY <1>1, <1>2, MoneyFrame DEF MoneySound

(* Nobody is paying, before or after.                                      *)
LEMMA MoneyIdle ==
    ASSUME NoShowTypeOK, MoneySound, UNCHANGED <<resolution, account>>, NEW c \in Workers,
           \A d \in Workers \ {c} : work'[d] = work[d] /\ ~Paying(d),
           ~Paying(c), ~Paying(c)', Reversed(c)' => account.reversed,
           Unresolved' => account.reversed
    PROVE  MoneySound'
<1>1. \A d \in Workers \ {c} :
         /\ ~Paying(d)'
         /\ Reversed(d)' <=> Reversed(d)
  BY DEF Paying, Reversed, Settling
<1>2. \A d \in Workers : ~Recording(d)' /\ ~Recording(d)
  BY <1>1 DEF Recording
<1>3. QED
  BY <1>1, <1>2, MoneyFrame DEF MoneySound

(* A hold is captured or released: the funds are not locked then.          *)
LEMMA MoneyOfHold ==
    ASSUME NoShowTypeOK, MoneySound, UNCHANGED <<rows, resolution>>, NEW c \in Workers,
           \A d \in Workers \ {c} : work'[d] = work[d],
           NEW key \in {"lock", "noshow"}, NEW state \in {"captured", "void"}, NEW ok \in BOOLEAN,
           HoldCall(key, state, ok),
           ~Recording(c), ~Paying(c)', ~Reversed(c)'
    PROVE  MoneySound'
<1>1. CASE account' = account
  BY <1>1, MoneyAside DEF Recording
<1>2. CASE account.pi = "hold" /\ account' = [account EXCEPT !.pi = state, !.by = key]
  <2>1. /\ account'.pi = state /\ account'.reversed = account.reversed
        /\ account'.paid = account.paid /\ account'.credit = account.credit
    BY <1>2 DEF NoShowTypeOK, RescheduleTypeOK, AccountType
  <2>2. ~account.reversed /\ ~Unresolved /\ ~Unresolved' /\ resolution = "none"
    BY <1>2 DEF MoneySound, Unresolved
  <2>3. \A d \in Workers : ~Paying(d) /\ ~Reversed(d)
    BY <2>2 DEF MoneySound
  <2>4. \A d \in Workers : ~Paying(d)' /\ ~Recording(d)' /\ ~Reversed(d)'
    BY <2>3 DEF Paying, Recording, Reversed, Settling
  <2>5. Untouched
    BY <2>2, <2>3 DEF MoneySound, Recording
  <2>6. QED
    BY <2>1, <2>2, <2>4, <2>5 DEF MoneySound, Untouched
<1>3. QED
  BY <1>1, <1>2 DEF HoldCall, Call

LEMMA MoneyOfLock ==
    ASSUME LateInv, faults = 0, Exclusive, MoneySound, NEW c \in Workers,
           LockCapture(c) \/ LockReverse(c) \/ LockSave(c)
    PROVE  MoneySound'
<1>t. /\ NoShowTypeOK /\ work \in [Workers -> WorkType] /\ work[c] \in WorkType
      /\ account \in AccountType /\ rows \in [Rows -> RowType] /\ "old" \in Rows
  BY DEF LateInv, NoShowTypeOK, RescheduleTypeOK, Rows
<1>1. work[c].kind = "lock" /\ ~Settling(c) /\ ~Paying(c) /\ ~Recording(c)
  BY DEF LockCapture, LockReverse, LockSave, At, Settling, Resolving, Paying, Recording
<1>2. \A d \in Workers \ {c} : ~Settling(d) /\ ~Paying(d)
  BY <1>1, SettlesAlone DEF Paying
<1>3. /\ \A d \in Workers \ {c} : work'[d] = work[d]
      /\ work'[c].kind \in {"lock", "idle"}
      /\ ~Paying(c)' /\ ~Recording(c)'
  <2>1. \/ work' = [work EXCEPT ![c] = Idle]
        \/ \E at, ok : \/ work' = [work EXCEPT ![c] = [work[c] EXCEPT !.at = at]]
                       \/ work' = [work EXCEPT ![c] = [work[c] EXCEPT !.at = at, !.ok = ok]]
    BY DEF LockCapture, LockReverse, LockSave, GoOn, Leave
  <2>2. /\ \A d \in Workers \ {c} : work'[d] = work[d]
        /\ \/ work'[c] = Idle
           \/ \E at, ok : \/ work'[c] = [work[c] EXCEPT !.at = at]
                          \/ work'[c] = [work[c] EXCEPT !.at = at, !.ok = ok]
    BY <1>t, <2>1
  <2>3. work'[c].kind \in {"lock", "idle"}
    <3>1. CASE work'[c] = Idle
      BY <3>1 DEF Idle, Job
    <3>2. ASSUME NEW at, work'[c] = [work[c] EXCEPT !.at = at]
          PROVE  work'[c].kind = "lock"
      BY <1>t, <1>1, <3>2 DEF WorkType
    <3>3. ASSUME NEW at, NEW ok, work'[c] = [work[c] EXCEPT !.at = at, !.ok = ok]
          PROVE  work'[c].kind = "lock"
      BY <1>t, <1>1, <3>3 DEF WorkType
    <3>4. QED
      BY <2>2, <3>1, <3>2, <3>3
  <2>4. QED
    BY <2>2, <2>3 DEF Paying, Recording, Settling, Resolving
<1>4. CASE LockCapture(c)
  <2>1. PICK ok \in BOOLEAN : HoldCall("lock", "captured", ok)
    BY <1>4 DEF LockCapture
  <2>2. UNCHANGED <<rows, resolution>>
    BY <1>4 DEF LockCapture
  <2>3. ~Reversed(c)'
    BY <1>4, <1>t DEF LockCapture, GoOn, Leave, Reversed, WorkType, Idle, Job
  <2>4. QED
    BY <1>t, <1>1, <1>3, <2>1, <2>2, <2>3, MoneyOfHold
<1>5. CASE LockReverse(c)
  <2>1. PICK ok \in BOOLEAN :
           /\ Call(account.reversed, account.pi = "captured",
                   [account EXCEPT !.reversed = TRUE], ok)
           /\ GoOn(c, [work[c] EXCEPT !.at = "save", !.ok = ok])
    BY <1>5 DEF LockReverse
  <2>2. UNCHANGED <<rows, resolution>>
    BY <1>5 DEF LockReverse
  <2>3. work'[c].ok = ok
    BY <1>t, <2>1 DEF GoOn, WorkType
  <2>4. CASE account' = account
    <3>1. Reversed(c)' => account.reversed
      <4>1. SUFFICES ASSUME Reversed(c)', ~account.reversed
                     PROVE  FALSE
        OBVIOUS
      <4>2. account' = [account EXCEPT !.reversed = TRUE]
        BY <2>1, <2>3, <4>1 DEF Call, Reversed
      <4>3. account'.reversed
        BY <4>2, <1>t DEF AccountType
      <4>4. QED
        BY <2>4, <4>1, <4>3
    <3>2. QED
      BY <1>t, <1>1, <1>3, <2>2, <2>4, <3>1, MoneyAside
  <2>5. CASE ~account.reversed /\ account.pi = "captured"
             /\ account' = [account EXCEPT !.reversed = TRUE]
    <3>1. /\ account'.pi = "captured" /\ account'.reversed
          /\ account'.paid = account.paid /\ account'.credit = account.credit
      BY <1>t, <2>5 DEF AccountType
    <3>2. \A d \in Workers : ~Paying(d)' /\ ~Recording(d)' /\ ~Recording(d)
      BY <1>1, <1>2, <1>3 DEF Paying, Recording, Settling
    <3>3. resolution = "none" /\ Untouched
      BY <2>5, <3>2 DEF MoneySound
    <3>4. QED
      BY <2>2, <3>1, <3>2, <3>3 DEF MoneySound, Untouched
  <2>6. QED
    BY <2>1, <2>4, <2>5 DEF Call
<1>6. CASE LockSave(c)
  <2>1. UNCHANGED <<resolution, account>>
    BY <1>6 DEF LockSave
  <2>2. Unresolved' => account.reversed
    <3>1. rows'["old"].pay = IF work[c].ok THEN "locked" ELSE "manual_review"
      BY <1>t, <1>6 DEF LockSave, RowType
    <3>2. work[c].ok => account.reversed
      BY <1>6, <1>1 DEF MoneySound, LockSave, At, Reversed
    <3>3. QED
      BY <3>1, <3>2 DEF Unresolved
  <2>3. ~Reversed(c)'
    BY <1>6, <1>t DEF LockSave, GoOn, Leave, Reversed, WorkType, Idle, Job
  <2>4. QED
    BY <1>t, <1>1, <1>2, <1>3, <2>1, <2>2, <2>3, MoneyIdle
<1>7. QED
  BY <1>4, <1>5, <1>6

LEMMA MoneyOfMove ==
    ASSUME LateInv, faults = 0, Exclusive, MoneySound, NEW c \in Workers, Moves(c)
    PROVE  MoneySound'
<1>t. /\ NoShowTypeOK /\ work \in [Workers -> WorkType] /\ work[c] \in WorkType
      /\ account \in AccountType /\ rows \in [Rows -> RowType] /\ "old" \in Rows /\ "new" \in Rows
  BY DEF LateInv, NoShowTypeOK, RescheduleTypeOK, Rows
<1>1. /\ \A d \in Workers \ {c} : work'[d] = work[d]
      /\ work'[c] = Idle \/ work'[c].kind = "fresh"
  BY MovesAlone
<1>2. ~Paying(c)' /\ ~Recording(c)' /\ ~Reversed(c)'
  BY <1>1 DEF Paying, Recording, Reversed, Settling, Resolving, Idle, Job
<1>3. ~Recording(c) /\ ~Paying(c)
  BY DEF Moves, LockReplace, MoveWithPayment, Under, FreshStart, Enter, FreshConfirm, FreshSwap,
     FreshSwapLocked, At, Recording, Paying, Settling, Resolving, Idle, Job
<1>l. ~FreshSwapLocked(c)
  BY DEF FreshSwapLocked, At, Exclusive, Fresh
<1>r. resolution' = resolution
  BY <1>l DEF Moves, LockReplace, MoveWithPayment, FreshStart, FreshConfirm, FreshSwap
<1>4. CASE ~FreshSwap(c)
  <2>1. account' = account \/ account' = [account EXCEPT !.at = "new"]
    BY <1>4, <1>l DEF Moves, LockReplace, MoveWithPayment, FreshStart, FreshConfirm
  <2>2. rows'["old"].pay = rows["old"].pay
    <3>1. CASE FreshConfirm(c)
      <4>1. rows'["old"] = rows["old"]
        BY <1>t, <3>1 DEF FreshConfirm
      <4>2. QED
        BY <4>1
    <3>2. CASE ~FreshConfirm(c)
      BY <1>4, <1>l, <1>t, <3>2 DEF Moves, LockReplace, MoveWithPayment, FreshStart, RowType
    <3>3. QED
      BY <3>1, <3>2
  <2>3. QED
    BY <1>t, <1>1, <1>2, <1>3, <1>r, <2>1, <2>2, MoneyAside
<1>5. CASE FreshSwap(c)
  <2>1. /\ Swapped /\ account'.credit = account.credit
        /\ rows["old"].pay # "locked" /\ resolution = "none"
    BY <1>5, <1>t, SwapMeans DEF NoShowTypeOK, FreshSwap, At, Exclusive, Fresh
  <2>2. ~Unresolved /\ ~Unresolved'
    BY <2>1 DEF Swapped, Unresolved
  <2>3. \A d \in Workers : ~Paying(d) /\ ~Recording(d)
    BY <2>2 DEF MoneySound, Recording
  <2>4. \A d \in Workers : ~Paying(d)' /\ ~Recording(d)'
    BY <1>1, <1>2, <2>3 DEF Paying, Recording, Settling
  <2>5. \A d \in Workers : ~Reversed(d)'
    BY <1>1, <1>2, <1>5, MovesAlone DEF Moves, Reversed, On, LateInv, LateCase, LockSound
  <2>6. /\ account'.reversed = account.reversed /\ account'.paid = account.paid
        /\ account.reversed => account'.pi \in {"captured", "refunded", "credited"}
        /\ account'.pi = "refunded" => account.pi = "refunded"
    <3>1. account' = account \/ account' = [account EXCEPT !.pi = account'.pi]
      BY <2>1 DEF Swapped
    <3>2. account'.reversed = account.reversed /\ account'.paid = account.paid
      BY <1>t, <3>1 DEF AccountType
    <3>3. QED
      BY <2>1, <3>2 DEF Swapped, MoneySound
  <2>7. Untouched'
    BY <2>1, <2>3, <2>6 DEF MoneySound, Untouched
  <2>8. QED
    BY <1>r, <2>1, <2>2, <2>4, <2>5, <2>6, <2>7 DEF MoneySound
<1>6. QED
  BY <1>4, <1>5

LEMMA MoneyOfBegin ==
    ASSUME LateInv, faults = 0, Exclusive, MoneySound, NEW c \in Workers, Begins(c), ~Moves(c)
    PROVE  MoneySound'
<1>t. /\ NoShowTypeOK /\ rows \in [Rows -> RowType] /\ "old" \in Rows /\ "new" \in Rows
  BY DEF LateInv, NoShowTypeOK, RescheduleTypeOK, Rows
<1>1. BegunWell(c)
  BY BeginFrame
<1>2. /\ \A d \in Workers \ {c} : work'[d] = work[d]
      /\ ~Recording(c) /\ ~Recording(c)' /\ ~Paying(c)' /\ ~Reversed(c)'
  BY <1>1 DEF BegunWell, Recording, Paying, Reversed, Settling, Resolving, Idle, Job
<1>3. UNCHANGED <<resolution, account>>
  BY DEF Begins, Moves, LockStart, CancelLocked, AutoComplete, CaptureLocked, AdminResolves,
     JobResolves, caseVars
<1>4. rows'["old"].pay = rows["old"].pay
  BY <1>t DEF Begins, Moves, LockStart, CancelLocked, AutoComplete, CaptureLocked, AdminResolves,
     JobResolves, caseVars
<1>5. QED
  BY <1>t, <1>2, <1>3, <1>4, MoneyAside

LEMMA MoneyOfResolution ==
    ASSUME LateInv, faults = 0, Exclusive, TakenSound, MoneySound, NEW c \in Workers,
           ResolveLoad(c) \/ ResolveCall(c) \/ ResolveRecord(c)
    PROVE  MoneySound'
<1>t. /\ NoShowTypeOK /\ work \in [Workers -> WorkType] /\ work[c] \in WorkType
      /\ account \in AccountType /\ rows \in [Rows -> RowType] /\ "old" \in Rows /\ "new" \in Rows
  BY DEF LateInv, NoShowTypeOK, RescheduleTypeOK, Rows
<1>1. Settling(c) /\ ~Reversed(c)
  BY DEF ResolveLoad, ResolveCall, ResolveRecord, At, Settling, Reversed, Resolving
<1>2. \A d \in Workers \ {c} : ~Settling(d) /\ ~Paying(d) /\ ~Recording(d)
  BY <1>1, SettlesAlone DEF Paying, Recording
<1>3. CASE ResolveLoad(c)
  <2>1. /\ UNCHANGED <<rows, resolution, account>>
        /\ work' = [work EXCEPT ![c].at = IF Unresolved THEN "call" ELSE "finish"]
        /\ work[c].at = "resolve"
    BY <1>3 DEF ResolveLoad, GoOn, At, caseVars
  <2>2. /\ work'[c].at = (IF Unresolved THEN "call" ELSE "finish")
        /\ work'[c].kind = work[c].kind
        /\ \A d \in Workers \ {c} : work'[d] = work[d]
    BY <1>t, <2>1 DEF WorkType
  <2>3. /\ ~Recording(c) /\ ~Recording(c)' /\ ~Reversed(c)'
        /\ Paying(c)' => Unresolved
    BY <2>1, <2>2 DEF Recording, Paying, Reversed
  <2>4. QED
    BY <1>t, <2>1, <2>2, <2>3, MoneyAside
<1>4. CASE ResolveCall(c)
  <2>1. PICK ok \in BOOLEAN :
           /\ CASE work[c].plan = "new_lesson_completed"      -> PayoutCall("full", ok)
                [] work[c].plan = "new_lesson_cancelled_lt12" -> PayoutCall("half", ok)
                [] work[c].plan = "instructor_cancelled"      -> RefundCall(ok)
                [] OTHER                                      -> ok /\ UNCHANGED account
           /\ GoOn(c, [work[c] EXCEPT !.at = "record", !.ok = ok])
    BY <1>4 DEF ResolveCall
  <2>2. /\ UNCHANGED <<rows, resolution>>
        /\ work[c].at = "call" /\ work[c].plan # "none"
    BY <1>4 DEF ResolveCall, At
  <2>3. work' = [work EXCEPT ![c] = [work[c] EXCEPT !.at = "record", !.ok = ok]]
    BY <2>1 DEF GoOn
  <2>4. /\ work'[c].at = "record" /\ work'[c].kind = work[c].kind /\ work'[c].plan = work[c].plan
        /\ \A d \in Workers \ {c} : work'[d] = work[d]
    BY <1>t, <2>3 DEF WorkType
  <2>5. Paying(c) /\ ~Recording(c) /\ Unresolved /\ account.reversed /\ resolution = "none"
    BY <1>1, <2>2 DEF Paying, Recording, MoneySound, Unresolved
  <2>6. Untouched
    BY <1>2, <2>5 DEF MoneySound
  <2>7. Recording(c)' /\ Unresolved'
    BY <1>1, <2>2, <2>4, <2>5 DEF Recording, Paying, Settling, Unresolved
  <2>8. \A d \in Workers \ {c} : ~Paying(d)' /\ ~Recording(d)' /\ (Reversed(d)' <=> Reversed(d))
    BY <1>2, <2>4 DEF Paying, Recording, Settling, Reversed
  <2>9. /\ account'.reversed /\ account'.pi \in {"captured", "refunded"}
        /\ Given(work[c].plan)'
    <3>1. account.pi \in {"captured", "refunded"} /\ account.reversed
      BY <2>5 DEF MoneySound, TakenSound
    <3>2. CASE work[c].plan = "new_lesson_completed"
      <4>1. PayoutCall("full", ok)
        BY <2>1, <3>2
      <4>2. account' = account \/ account' = [account EXCEPT !.paid = @ \cup {"full"}]
        BY <4>1 DEF PayoutCall, Call
      <4>3. /\ account'.reversed = account.reversed /\ account'.pi = account.pi
            /\ account'.credit = account.credit /\ account'.paid \subseteq account.paid \cup {"full"}
        BY <1>t, <4>2 DEF AccountType
      <4>4. QED
        BY <2>4, <2>6, <3>1, <3>2, <4>3 DEF Untouched, Given
    <3>3. CASE work[c].plan = "new_lesson_cancelled_lt12"
      <4>1. PayoutCall("half", ok)
        BY <2>1, <3>3
      <4>2. account' = account \/ account' = [account EXCEPT !.paid = @ \cup {"half"}]
        BY <4>1 DEF PayoutCall, Call
      <4>3. /\ account'.reversed = account.reversed /\ account'.pi = account.pi
            /\ account'.credit = account.credit /\ account'.paid \subseteq account.paid \cup {"half"}
        BY <1>t, <4>2 DEF AccountType
      <4>4. QED
        BY <2>4, <2>6, <3>1, <3>3, <4>3 DEF Untouched, Given
    <3>4. CASE work[c].plan = "instructor_cancelled"
      <4>1. RefundCall(ok)
        BY <2>1, <3>4
      <4>2. account' = account \/ account' = [account EXCEPT !.pi = "refunded"]
        BY <4>1 DEF RefundCall, Call
      <4>3. /\ account'.reversed = account.reversed /\ account'.pi \in {account.pi, "refunded"}
            /\ account'.credit = account.credit /\ account'.paid = account.paid
        BY <1>t, <4>2 DEF AccountType
      <4>4. QED
        BY <2>4, <2>6, <3>1, <3>4, <4>3 DEF Untouched, Given
    <3>5. CASE work[c].plan \notin {"new_lesson_completed", "new_lesson_cancelled_lt12",
                                    "instructor_cancelled"}
      <4>1. account' = account
        BY <2>1, <3>5
      <4>2. QED
        BY <2>4, <2>6, <3>1, <4>1 DEF Untouched, Given
    <3>6. QED
      BY <3>2, <3>3, <3>4, <3>5
  <2>10. QED
    BY <2>2, <2>5, <2>7, <2>8, <2>9 DEF MoneySound
<1>5. CASE ResolveRecord(c)
  <2>1. /\ work[c].at = "record" /\ work[c].plan # "none"
        /\ work' = [work EXCEPT ![c] = [work[c] EXCEPT !.at = "finish"]]
    BY <1>5 DEF ResolveRecord, At, GoOn
  <2>2. Recording(c) /\ Unresolved /\ account.reversed /\ resolution = "none"
        /\ Given(work[c].plan) /\ account.pi \in {"captured", "refunded"}
    BY <1>1, <2>1 DEF Paying, Recording, MoneySound, Unresolved, TakenSound
  <2>3. /\ resolution' = work[c].plan
        /\ account' = [account EXCEPT !.credit = CreditFor(work[c].plan)]
    BY <1>5, <2>2 DEF ResolveRecord
  <2>4. /\ work'[c].at = "finish"
        /\ \A d \in Workers \ {c} : work'[d] = work[d]
    BY <1>t, <2>1 DEF WorkType
  <2>5. \A d \in Workers : /\ ~Paying(d)' /\ ~Recording(d)'
                           /\ Reversed(d)' => Reversed(d)
    BY <1>2, <2>4 DEF Paying, Recording, Settling, Reversed
  <2>6. /\ account'.pi = account.pi /\ account'.reversed = account.reversed
        /\ account'.paid = account.paid /\ account'.credit = CreditFor(work[c].plan)
    BY <1>t, <2>3 DEF AccountType
  <2>7. GivenOut' <= 2
    <3>1. work[c].plan \in Resolutions
      BY <1>t, <2>1 DEF WorkType
    <3>2. account.credit = 0
      BY <2>2 DEF Given
    <3>3. CASE work[c].plan = "new_lesson_completed"
      BY <2>2, <2>6, <3>2, <3>3 DEF GivenOut, CreditFor, Given
    <3>4. CASE work[c].plan = "new_lesson_cancelled_ge12"
      BY <2>2, <2>6, <3>2, <3>4 DEF GivenOut, CreditFor, Given
    <3>5. CASE work[c].plan = "new_lesson_cancelled_lt12"
      BY <2>2, <2>6, <3>2, <3>5 DEF GivenOut, CreditFor, Given
    <3>6. CASE work[c].plan = "instructor_cancelled"
      BY <2>2, <2>6, <3>2, <3>6 DEF GivenOut, CreditFor, Given
    <3>7. QED
      BY <3>1, <3>3, <3>4, <3>5, <3>6 DEF Resolutions
  <2>8. resolution' # "none" /\ ~Unresolved'
    BY <2>1, <2>3 DEF Unresolved
  <2>9. QED
    BY <2>2, <2>5, <2>6, <2>7, <2>8 DEF MoneySound
<1>6. QED
  BY <1>3, <1>4, <1>5

(* Whoever is done with the lock writes the booking, and nobody is paying. *)
LEMMA MoneyOfFinish ==
    ASSUME LateInv, faults = 0, Exclusive, MoneySound, NEW c \in Workers,
           CancelFinish(c) \/ ChildSettled(c) \/ ResolutionSaved(c)
    PROVE  MoneySound'
<1>t. /\ NoShowTypeOK /\ work \in [Workers -> WorkType] /\ work[c] \in WorkType
      /\ rows \in [Rows -> RowType] /\ "old" \in Rows /\ "new" \in Rows
  BY DEF LateInv, NoShowTypeOK, RescheduleTypeOK, Rows
<1>1. Settling(c) /\ ~Paying(c)
  BY DEF CancelFinish, ChildSettled, ResolutionSaved, At, Settling, Paying, Resolving
<1>2. /\ \A d \in Workers \ {c} : work'[d] = work[d]
      /\ work'[c] = Idle
      /\ UNCHANGED <<resolution, account>>
  BY <1>t DEF CancelFinish, ChildSettled, ResolutionSaved, Leave
<1>3. ~Paying(c)' /\ ~Reversed(c)'
  BY <1>2 DEF Paying, Reversed, Settling, Resolving, Idle, Job
<1>4. \A d \in Workers \ {c} : ~Paying(d)
  BY <1>1, SettlesAlone DEF Paying
<1>5. rows'["old"].pay = "locked" => rows["old"].pay = "locked"
  <2>1. CASE CancelFinish(c) \/ ChildSettled(c)
    BY <1>t, <2>1 DEF CancelFinish, ChildSettled, RowType, WorkType
  <2>2. CASE ResolutionSaved(c)
    <3>1. PICK restored \in RestoredPay(work[c].row) :
             rows' = rows \/ rows' = [rows EXCEPT ![work[c].row] =
                                Outcome(work[c].row, work[c].verdict, work[c].ok, restored)]
      BY <2>2 DEF ResolutionSaved
    <3>2. Outcome(work[c].row, work[c].verdict, work[c].ok, restored).pay # "locked"
      BY <1>t, OutcomeMeans DEF WorkType
    <3>3. QED
      BY <1>t, <3>1, <3>2 DEF WorkType
  <2>3. QED
    BY <2>1, <2>2
<1>6. Unresolved' => account.reversed
  BY <1>2, <1>5 DEF Unresolved, MoneySound
<1>7. QED
  BY <1>t, <1>1, <1>2, <1>3, <1>4, <1>6, MoneyIdle

(* The steps of a single transaction, and the clock.                       *)
LEMMA MoneyStill ==
    ASSUME NoShowTypeOK, MoneySound, UNCHANGED <<resolution, account, work>>,
           \/ rows'["old"].pay = rows["old"].pay
           \/ rows["old"].pay # "locked" /\ rows'["old"].pay # "locked"
           \/ rows'["old"].pay # "locked" /\ \A c \in Workers : ~Paying(c)
    PROVE  MoneySound'
<1>1. \A d \in Workers : /\ Paying(d)' <=> Paying(d)
                         /\ Recording(d)' <=> Recording(d)
                         /\ Reversed(d)' <=> Reversed(d)
                         /\ work'[d].plan = work[d].plan
  BY DEF Paying, Recording, Reversed, Settling
<1>2. /\ Unresolved' => Unresolved
      /\ \A d \in Workers : Paying(d) => Unresolved'
  BY DEF MoneySound, Unresolved
<1>3. QED
  BY <1>1, <1>2, MoneyFrame DEF MoneySound

LEMMA MoneyOfLesson ==
    ASSUME LateInv, faults = 0, Exclusive, MoneySound,
           \/ InstructorMarkComplete
           \/ \E c \in Workers : \/ CompleteBooking(c) \/ DisputeCompletion(c)
                                 \/ ReportNoShow(c) \/ ReportAutomated(c)
    PROVE  MoneySound'
<1>t. /\ NoShowTypeOK /\ rows \in [Rows -> RowType] /\ "old" \in Rows /\ "new" \in Rows
      /\ work \in [Workers -> WorkType]
  BY DEF LateInv, NoShowTypeOK, RescheduleTypeOK, Rows
<1>c. Carrier \in Rows
  BY CarrierTyped
<1>1. UNCHANGED <<resolution, account, work>>
  BY DEF InstructorMarkComplete, CompleteBooking, DisputeCompletion, ReportNoShow, ReportAutomated,
     Reported, Under
<1>2. CASE InstructorMarkComplete \/ \E c \in Workers : CompleteBooking(c) \/ DisputeCompletion(c)
  <2>1. \/ rows'["old"].pay = rows["old"].pay
        \/ rows["old"].pay # "locked" /\ rows'["old"].pay # "locked"
    BY <1>2, <1>t, <1>c DEF InstructorMarkComplete, CompleteBooking, DisputeCompletion, RowType
  <2>2. QED
    BY <1>t, <1>1, <2>1, MoneyStill
<1>3. ASSUME NEW c \in Workers, ReportNoShow(c) \/ ReportAutomated(c)
      PROVE  MoneySound'
  <2>1. /\ rows' = [rows EXCEPT ![Carrier].status = "NO_SHOW", ![Carrier].pay = "manual_review"]
        /\ ~mutex[Carrier]
    BY <1>3 DEF ReportNoShow, ReportAutomated, Reported, Under
  <2>2. CASE Carrier = "new"
    <3>1. rows'["old"].pay = rows["old"].pay
      BY <1>t, <2>1, <2>2 DEF RowType
    <3>2. QED
      BY <1>t, <1>1, <3>1, MoneyStill
  <2>3. CASE Carrier = "old"
    <3>1. rows'["old"].pay = "manual_review"
      BY <1>t, <2>1, <2>3 DEF RowType
    <3>2. ASSUME NEW d \in Workers, Paying(d)
          PROVE  FALSE
      <4>1. On(d, "old") \/ On(d, "new")
        BY <1>t, <3>2 DEF Paying, Settling, Resolving, On, WorkType, Rows
      <4>2. ~On(d, "old")
        BY <1>t, <2>1, <2>3 DEF LateInv, Company, Sole
      <4>3. ResolverSound(d) /\ ~Replaced
        BY <2>3 DEF LateInv, LateCase, Carrier, Replaced
      <4>4. QED
        BY <3>2, <4>1, <4>2, <4>3 DEF Paying, Settling, On, ResolverSound
    <3>3. QED
      BY <1>t, <1>1, <3>1, <3>2, MoneyStill
  <2>4. QED
    BY <1>c, <2>2, <2>3 DEF Rows
<1>4. QED
  BY <1>2, <1>3

LEMMA MoneyOfSettlement ==
    ASSUME LateInv, faults = 0, Exclusive, MoneySound, NEW c \in Workers,
           SettleCall(c) \/ LockSettled(c)
    PROVE  MoneySound'
<1>t. /\ NoShowTypeOK /\ work \in [Workers -> WorkType] /\ work[c] \in WorkType
  BY DEF LateInv, NoShowTypeOK, RescheduleTypeOK
<1>1. PICK ok \in BOOLEAN :
         /\ work' = [work EXCEPT ![c] = [work[c] EXCEPT !.at = "settle", !.ok = ok]]
         /\ UNCHANGED <<rows, resolution>>
         /\ \/ HoldCall("noshow", "void", ok) \/ HoldCall("noshow", "captured", ok)
            \/ UNCHANGED account
  BY DEF SettleCall, LockSettled, GoOn, caseVars
<1>2. ~Recording(c)
  BY DEF SettleCall, LockSettled, At, Recording, Paying
<1>3. /\ \A d \in Workers \ {c} : work'[d] = work[d]
      /\ work'[c].at = "settle"
  BY <1>t, <1>1 DEF WorkType
<1>4. ~Recording(c)' /\ ~Paying(c)' /\ ~Reversed(c)'
  BY <1>3 DEF Recording, Paying, Reversed
<1>5. CASE UNCHANGED account
  BY <1>t, <1>1, <1>2, <1>3, <1>4, <1>5, MoneyAside
<1>6. CASE HoldCall("noshow", "void", ok)
  BY <1>t, <1>1, <1>2, <1>3, <1>4, <1>6, MoneyOfHold
<1>7. CASE HoldCall("noshow", "captured", ok)
  BY <1>t, <1>1, <1>2, <1>3, <1>4, <1>7, MoneyOfHold
<1>8. QED
  BY <1>1, <1>5, <1>6, <1>7

LEMMA MoneyStep ==
    ASSUME LateInv, faults = 0, faults' = 0, Exclusive, TakenSound, MoneySound, FundsNext
    PROVE  MoneySound'
<1>t. NoShowTypeOK /\ faults \in Nat
  BY RescheduleModes DEF LateInv, NoShowTypeOK, RescheduleTypeOK
<1>1. ASSUME NEW c \in Workers, RescheduleStep(c)
      PROVE  MoneySound'
  <2>1. Moves(c) \/ (Begins(c) /\ ~Moves(c)) \/ LockCapture(c) \/ LockReverse(c) \/ LockSave(c)
    BY <1>1 DEF RescheduleStep, Moves, Begins
  <2>2. QED
    BY <2>1, MoneyOfMove, MoneyOfBegin, MoneyOfLock
<1>2. ASSUME NEW c \in Workers, LockStep(c)
      PROVE  MoneySound'
  <2>1. \/ Moves(c)
        \/ Begins(c) /\ ~Moves(c)
        \/ ResolveLoad(c) \/ ResolveCall(c) \/ ResolveRecord(c)
        \/ CancelFinish(c) \/ ChildSettled(c)
        \/ CompleteBooking(c) \/ DisputeCompletion(c)
    BY <1>2 DEF LockStep, Begins
  <2>2. QED
    BY <2>1, MoneyOfMove, MoneyOfBegin, MoneyOfResolution, MoneyOfFinish, MoneyOfLesson
<1>3. ASSUME NEW c \in Workers, NoShowStep(c)
      PROVE  MoneySound'
  <2>1. \/ Moves(c)
        \/ Begins(c) /\ ~Moves(c)
        \/ SettleCall(c) \/ LockSettled(c) \/ ResolutionSaved(c)
        \/ ReportNoShow(c) \/ ReportAutomated(c) \/ DisputeNoShow(c)
    BY <1>3 DEF NoShowStep, Begins
  <2>2. CASE DisputeNoShow(c)
    BY <1>t, <2>2, MoneyStill DEF DisputeNoShow, Under, caseVars
  <2>3. QED
    BY <2>1, <2>2, MoneyOfMove, MoneyOfBegin, MoneyOfSettlement, MoneyOfFinish, MoneyOfLesson
<1>4. CASE Environment
  <2>1. InstructorMarkComplete \/ UNCHANGED <<rows, resolution, account, work>>
    BY <1>4, <1>t DEF Environment, Tick, ReportAges, NoShowJobReads, CaptureJobReads, Passed, Dies,
       GiveUp, Lapses, caseVars
  <2>2. CASE UNCHANGED <<rows, resolution, account, work>>
    BY <1>t, <2>2, MoneyStill
  <2>3. QED
    BY <2>1, <2>2, MoneyOfLesson
<1>5. QED
  BY <1>1, <1>2, <1>3, <1>4 DEF FundsNext, WorkerStep

-----------------------------------------------------------------------------
Orderly == Exclusive /\ OneGoes /\ VerdictSound /\ TakenSound /\ MoneySound
OrderlyInv == LateInv /\ (faults = 0 => Orderly)

LEMMA FaultsStay ==
    ASSUME LateInv, FundsNext, faults' = 0
    PROVE  faults = 0
<1>t. faults \in Nat
  BY RescheduleModes DEF LateInv, NoShowTypeOK, RescheduleTypeOK
<1>1. ASSUME NEW c \in Workers, RescheduleStep(c)
      PROVE  faults' = faults
  <2>1. faults' = faults \/ faults' = faults + 1
    BY <1>1 DEF RescheduleStep, LockStart, LockCapture, LockReverse, LockSave, LockReplace,
       MoveWithPayment, FreshStart, FreshConfirm, FreshSwap, FreshSwapLocked, Enter, GoOn, Leave,
       GiveUp, Under
  <2>2. QED
    BY <1>t, <2>1
<1>2. ASSUME NEW c \in Workers, LockStep(c)
      PROVE  faults' = faults
  BY <1>2 DEF LockStep, CancelLocked, AutoComplete, CaptureLocked, ResolveLoad, ResolveCall,
     ResolveRecord, CancelFinish, ChildSettled, CompleteBooking, DisputeCompletion, Enter, GoOn,
     Leave, Under
<1>3. ASSUME NEW c \in Workers, NoShowStep(c)
      PROVE  faults' = faults
  BY <1>3 DEF NoShowStep, ReportNoShow, ReportAutomated, DisputeNoShow, AdminResolves, JobResolves,
     SettleCall, LockSettled, ResolutionSaved, Enter, GoOn, Leave, Under
<1>4. CASE Environment
  BY <1>4, <1>t DEF Environment, Tick, ReportAges, NoShowJobReads, CaptureJobReads, Passed, Dies,
     GiveUp, Lapses, InstructorMarkComplete
<1>5. QED
  BY <1>1, <1>2, <1>3, <1>4 DEF FundsNext, WorkerStep

LEMMA OrderlyStep ==
    ASSUME OrderlyInv, [FundsNext]_fundsVars
    PROVE  OrderlyInv'
<1>1. LateInv'
  BY LateStep DEF OrderlyInv
<1>2. CASE UNCHANGED fundsVars
  BY <1>1, <1>2 DEF fundsVars, caseVars, OrderlyInv, Orderly, Exclusive, Settling, Replaced, OneGoes,
     Fresh, VerdictSound, TakenSound, Taking, MoneySound, Paying, Recording, Reversed, Given,
     Untouched, Unresolved, GivenOut
<1>3. CASE FundsNext
  <2>1. SUFFICES ASSUME faults' = 0
                 PROVE  Orderly'
    BY <1>1 DEF OrderlyInv
  <2>2. LateInv /\ faults = 0 /\ Orderly
    BY <1>3, <2>1, FaultsStay DEF OrderlyInv
  <2>3. Exclusive'
    BY <1>3, <2>2, ExclusiveStep DEF Orderly
  <2>4. OneGoes'
    BY <1>3, <2>1, <2>2, OneStep DEF Orderly
  <2>5. VerdictSound'
    BY <1>3, <2>2, VerdictStep DEF Orderly
  <2>6. MoneySound'
    BY <1>3, <2>1, <2>2, MoneyStep DEF Orderly
  <2>7. TakenSound'
    BY <1>3, <2>2, TakenStep DEF Orderly
  <2>8. QED
    BY <2>3, <2>4, <2>5, <2>6, <2>7 DEF Orderly
<1>4. QED
  BY <1>2, <1>3

LEMMA InitOrderly == NoShowInit => OrderlyInv
<1>1. SUFFICES ASSUME NoShowInit
               PROVE  OrderlyInv
  OBVIOUS
<1>2. /\ \A c \in Workers : work[c].kind = "idle"
      /\ report.type = "none" /\ report.resolution = "none" /\ resolution = "none"
  BY <1>1 DEF NoShowInit, RescheduleInit, Idle, Job, NoReport
<1>3. /\ rows["new"].status = "absent" /\ rows["old"].pay # "locked"
      /\ account.credit = 0 /\ account.paid = {} /\ ~account.reversed
      /\ account.pi \in {"none", "hold"}
  BY <1>1 DEF NoShowInit, RescheduleInit, Rows
<1>4. Exclusive /\ OneGoes /\ VerdictSound /\ TakenSound
  BY <1>2, <1>3 DEF Exclusive, Settling, Resolving, OneGoes, VerdictSound, Fresh, TakenSound, Taking
<1>5. MoneySound
  BY <1>2, <1>3 DEF MoneySound, Unresolved, Untouched, Paying, Recording, Reversed, Settling,
     Resolving
<1>6. QED
  BY <1>1, <1>4, <1>5, InitLate DEF OrderlyInv, Orderly

LEMMA OrderlyInvariance == FundsSafety => []OrderlyInv
<1>1. OrderlyInv /\ [FundsNext]_fundsVars => OrderlyInv'
  BY OrderlyStep
<1>2. QED
  BY <1>1, InitOrderly, PTL DEF FundsSafety

(* While no worker dies and no mutex lapses, the lesson price is given out *)
(* once (FundsGivenOnce), ...                                              *)
THEOREM GivenOnce == FundsSafety => []FundsGivenOnce
<1>1. OrderlyInv => FundsGivenOnce
  <2>1. SUFFICES ASSUME LateInv, MoneySound
                 PROVE  GivenOut <= 2
    BY DEF OrderlyInv, Orderly, FundsGivenOnce
  <2>2. CASE resolution # "none"
    BY <2>1, <2>2 DEF MoneySound
  <2>3. CASE Untouched
    BY <2>3 DEF Untouched, GivenOut
  <2>4. ASSUME NEW c \in Workers, Recording(c)
        PROVE  GivenOut <= 2
    <3>1. Given(work[c].plan) /\ account.reversed
      BY <2>1, <2>4 DEF MoneySound, Recording
    <3>2. QED
      BY <3>1 DEF Given, GivenOut
  <2>5. QED
    BY <2>1, <2>2, <2>3, <2>4 DEF MoneySound
<1>2. QED
  BY <1>1, OrderlyInvariance, PTL

(* ... moving a lesson leaves one lesson (OneLesson), ...                  *)
THEOREM OneLessonIsLeft == FundsSafety => []OneLesson
<1>1. OrderlyInv => OneLesson
  BY DEF OrderlyInv, Orderly, OneGoes, OneLesson, Fresh, Rows
<1>2. QED
  BY <1>1, OrderlyInvariance, PTL

(* ... and a verdict on a no-show stands, but for that of a job which read *)
(* its list before (VerdictStands).                                        *)
THEOREM VerdictsStand == FundsSafety => VerdictStands
<1>1. OrderlyInv /\ OrderlyInv' /\ [FundsNext]_fundsVars =>
         [faults = 0 /\ report.resolution # "none" =>
             report'.resolution \in {report.resolution, "confirmed_no_dispute"}]_fundsVars
  <2>1. SUFFICES ASSUME OrderlyInv, FundsNext, faults = 0, report.resolution # "none"
                 PROVE  report'.resolution \in {report.resolution, "confirmed_no_dispute"}
    OBVIOUS
  <2>2. QED
    BY <2>1, VerdictStep DEF OrderlyInv, Orderly, VerdictKept
<1>2. QED
  BY <1>1, OrderlyInvariance, PTL DEF FundsSafety, VerdictStands
=============================================================================
