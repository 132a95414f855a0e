---------------------------- MODULE LockedFunds ----------------------------
(***************************************************************************)
(* A lesson that is moved, held, missed and settled: Reschedule,           *)
(* LockResolution and NoShow put together, with the clock.                 *)
(***************************************************************************)
EXTENDS NoShow

fundsVars == <<rows, resolution, contested, account, listed, report, mutex, work, window,
               faults>>

(* The windows are hours long, an operation a minute or two, and a job     *)
(* walks its list within minutes: the clock moves between operations.  What*)
(* T-24h does to a scheduled booking is module Authorization's.            *)
Quiescent == listed = {} /\ \A c \in Workers : work[c] = Idle

Tick == /\ Quiescent
        /\ window < ended24
        /\ rows[Carrier].pay # "scheduled"
        /\ window' = window + 1
        /\ UNCHANGED <<caseVars, listed, report, mutex, work, faults>>

ReportAges == /\ Quiescent
              /\ report.type # "none"
              /\ ~report.due
              /\ report' = [report EXCEPT !.due = TRUE]
              /\ UNCHANGED <<caseVars, listed, mutex, work, window, faults>>

WorkerStep(c) == \/ RescheduleStep(c) /\ UNCHANGED <<listed, report>>
                 \/ LockStep(c) /\ UNCHANGED report
                 \/ NoShowStep(c)

Environment == \/ Tick
               \/ ReportAges
               \/ NoShowJobReads
               \/ /\ \/ CaptureJobReads
                     \/ \E list \in listed : Passed(list)
                     \/ InstructorMarkComplete
                  /\ UNCHANGED report
               \/ /\ \/ \E c \in Workers : Dies(c)
                     \/ \E r \in Rows : Lapses(r)
                  /\ UNCHANGED <<listed, report>>

FundsNext == Environment \/ \E c \in Workers : WorkerStep(c)

FundsSafety == NoShowInit /\ [][FundsNext]_fundsVars

(* The clock runs; the hourly jobs read their lists and walk them, and an  *)
(* operation that has begun goes on.                                       *)
InMidstream(c) == work[c] # Idle /\ WorkerStep(c)
FundsSpec == /\ FundsSafety
             /\ WF_fundsVars(Tick)
             /\ WF_fundsVars(ReportAges)
             /\ WF_fundsVars(NoShowJobReads)
             /\ WF_fundsVars(CaptureJobReads /\ UNCHANGED report)
             /\ WF_fundsVars((\E list \in listed : Passed(list)) /\ UNCHANGED report)
             /\ \A c \in Workers : /\ WF_fundsVars(InMidstream(c))
                                   /\ SF_fundsVars(AutoComplete(c) /\ UNCHANGED report)
                                   /\ SF_fundsVars(CaptureLocked(c) /\ UNCHANGED report)
                                   /\ SF_fundsVars(JobResolves(c))

-----------------------------------------------------------------------------
(* What has left the platform out of the charge, in halves of the lesson   *)
(* price: the transfer that the capture made and nobody reversed, the      *)
(* payouts, the credit and the refund.                                     *)
GivenOut == (IF account.pi = "captured" /\ ~account.reversed THEN 2 ELSE 0)
            + (IF "full" \in account.paid THEN 2 ELSE 0)
            + (IF "half" \in account.paid THEN 1 ELSE 0)
            + account.credit
            + (IF account.pi \in {"refunded", "credited"} THEN 2 ELSE 0)

(* Unless something of MaxFaults happened, the lesson price is given out   *)
(* once, however cancellation, completion, no-show resolution and the jobs *)
(* follow each other, and although a job may act on a list it read before  *)
(* an administrator decided (lock_resolution.py, noshow_resolution.py).    *)
FundsGivenOnce == faults = 0 => GivenOut <= 2

(* The locked funds are such an escrow, deaths and lapses included: whoever *)
(* comes second to a lock, after a lapse of the mutex or from a stale list, *)
(* finds it resolved and issues no credit; only what is locked is resolved *)
(* (_revalidate_lock_resolution_state, _persist_lock_resolution_result).   *)
Fate == IF resolution # "none" THEN resolution
        ELSE IF rows["old"].pay = "locked" THEN "held" ELSE "free"
Promised == INSTANCE Escrow WITH fate <- Fate, credit <- account.credit
LockIsAnEscrow == Promised!EscrowSpec

(* No money stays locked behind a settled replacement, although a worker   *)
(* may die or a mutex lapse: by the time nobody will look at the           *)
(* replacement again, the original is not locked any more, or what locked  *)
(* it came too late (_mark_child_booking_settled and the steps that settle *)
(* a replacement).  With two lapses three moves of the lesson overlap, and *)
(* the last of them may lock what the second has put in review and the     *)
(* replacement of the first has left behind.                               *)
SettledAfterItsLock ==
    faults <= 1 /\ rows["new"].locked /\ rows["new"].pay = "settled" =>
        resolution # "none" \/ rows["old"].pay # "locked"

(* Moving a lesson leaves one lesson: when the mover is done, did not die  *)
(* and neither its abort nor its rollback failed (a failure of these is    *)
(* logged, and leaves both), the original and the replacement are not both *)
(* to be given (_reschedule_with_new_payment and its compensations).       *)
OneLesson == faults = 0 /\ (\A c \in Workers : work[c].kind # "fresh") =>
                 \E r \in Rows : rows[r].status \notin {"CONFIRMED", "PENDING"}

(* Unless a worker died or a mutex lapsed, the verdict on a no-show is not *)
(* changed once it is recorded, but by the job that had listed the report  *)
(* before (noshow_resolution.py, resolve_undisputed_no_shows).             *)
VerdictStands ==
    [][faults = 0 /\ report.resolution # "none" =>
          report'.resolution \in {report.resolution, "confirmed_no_dispute"}]_fundsVars

(* Locked funds on a replacement do not stay locked, unless a disputed     *)
(* no-show waits for an administrator.                                     *)
LockIsResolved == []<>(\/ ~rows["new"].locked
                       \/ resolution # "none"
                       \/ report.disputed /\ report.resolution = "none")

(* "This pauses payment capture pending resolution": once the completion   *)
(* is disputed, the instructor is not paid for it (instructor_dispute_     *)
(* completion).                                                            *)
DisputePausesPayout ==
    [][contested /\ "full" \in account'.paid => "full" \in account.paid]_fundsVars
=============================================================================
