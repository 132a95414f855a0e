------------------------------- MODULE NoShow -------------------------------
(***************************************************************************)
(* A lesson somebody did not come to: services/booking/noshow_service.py,  *)
(* noshow_resolution.py and noshow_settlement.py, the hourly job of        *)
(* tasks/payment/late_cancel_noshow.py and the attendance job of           *)
(* tasks/video_tasks.py.                                                   *)
(*                                                                         *)
(* A report freezes the payment (manual_review) until it is resolved, by   *)
(* the job when nobody disputed it for 24 hours, or by an administrator.   *)
(* The resolution reads, calls Stripe, and writes; what it writes is not   *)
(* checked against the row again.                                          *)
(***************************************************************************)
EXTENDS LockResolution

VARIABLE report  \* the booking_no_shows row of the carrier

(* due: 24 hours have passed since the report. *)
ReportType == [type : {"none", "instructor", "student", "mutual"},
               disputed : BOOLEAN, due : BOOLEAN, resolution : {"none"} \cup Verdicts]

NoReport == [type |-> "none", disputed |-> FALSE, due |-> FALSE, resolution |-> "none"]

NoShowTypeOK == /\ RescheduleTypeOK
                /\ listed \in SUBSET {"auto", "capture", "noshow"}
                /\ report \in ReportType

NoShowInit == RescheduleInit /\ listed = {} /\ report = NoReport

(* What every report writes: a booking that was already reported stays so. *)
Reported(type) ==
    /\ rows[Carrier].status = "CONFIRMED"
    /\ report.type = "none"
    /\ report' = [NoReport EXCEPT !.type = type]
    /\ rows' = [rows EXCEPT ![Carrier].status = "NO_SHOW", ![Carrier].pay = "manual_review"]
    /\ UNCHANGED <<resolution, contested, account, listed>>

(* report_no_show: from the start until 24 hours after the end. *)
ReportNoShow(c) == /\ window \in {running, ended}
                   /\ Under(c, Carrier)
                   /\ \E type \in {"instructor", "student"} : Reported(type)

(* detect_video_no_shows, after the end, from who joined the call. *)
ReportAutomated(c) == /\ window >= ended
                      /\ Under(c, Carrier)
                      /\ \E type \in {"instructor", "student", "mutual"} : Reported(type)

(* dispute_no_show, within 24 hours of the report. *)
DisputeNoShow(c) == /\ report.type # "none"
                    /\ ~report.disputed
                    /\ report.resolution = "none"
                    /\ ~report.due
                    /\ Under(c, Carrier)
                    /\ report' = [report EXCEPT !.disputed = TRUE]
                    /\ UNCHANGED <<caseVars, listed>>

-----------------------------------------------------------------------------
(* get_no_show_reports_due_for_resolution. *)
NoShowJobReads == /\ report.type # "none"
                  /\ report.due
                  /\ ~report.disputed
                  /\ report.resolution = "none"
                  /\ rows[Carrier].pay = "manual_review"
                  /\ "noshow" \notin listed
                  /\ listed' = listed \cup {"noshow"}
                  /\ UNCHANGED <<caseVars, report, mutex, work, window, faults>>

LockPlan(verdict) ==
    IF verdict \in {"confirmed_no_dispute", "confirmed_after_review"} /\ report.type # "student"
    THEN "instructor_cancelled"
    ELSE "new_lesson_completed"

(* _load_no_show_resolution_context and the choice of the settlement: the  *)
(* lock, the booking's own intent, or nothing to settle.                   *)
ResolutionJob(verdict) ==
    [Job("noshow", Carrier, IF verdict = "cancelled" THEN "settle"
                            ELSE IF rows[Carrier].locked THEN "resolve" ELSE "call")
        EXCEPT !.verdict = verdict,
               !.plan = IF rows[Carrier].locked /\ verdict # "cancelled"
                        THEN LockPlan(verdict) ELSE "none"]

(* Mutant of AdminResolves: whether the report was resolved is not asked.  *)
AdminResolvesAgain(c) == /\ report.type # "none"
                         /\ \E verdict \in Verdicts : Enter(c, ResolutionJob(verdict))
                         /\ UNCHANGED <<caseVars, listed, report>>

(* The route of the administrators. *)
AdminResolves(c) == /\ report.type # "none"
                    /\ report.resolution = "none"
                    /\ \E verdict \in Verdicts : Enter(c, ResolutionJob(verdict))
                    /\ UNCHANGED <<caseVars, listed, report>>

(* The job.  It reads the report again under the mutex, but through the    *)
(* session that listed it: until that session commits, the first report of *)
(* the list is read as it was listed, whatever an administrator did since. *)
JobResolves(c) == /\ "noshow" \in listed
                  /\ Enter(c, ResolutionJob("confirmed_no_dispute"))
                  /\ listed' = listed \ {"noshow"}
                  /\ UNCHANGED <<caseVars, report>>

(* _refund_for_instructor_no_show and _payout_for_student_no_show.  A      *)
(* reported booking is in manual_review, so the status they are given is   *)
(* that of the payment record, which is never "settled" nor "locked": they *)
(* always cancel, or capture, the intent.                                  *)
SettleCall(c) ==
    /\ At(c, {"noshow"}, "call")
    /\ work[c].plan = "none"
    /\ \E ok \in BOOLEAN :
          /\ IF LockPlan(work[c].verdict) = "instructor_cancelled"
             THEN HoldCall("noshow", "void", ok)
             ELSE HoldCall("noshow", "captured", ok)
          /\ GoOn(c, [work[c] EXCEPT !.at = "settle", !.ok = ok])
    /\ UNCHANGED <<rows, resolution, contested, listed, report>>

(* Back from the lock, whose answer always counts as a success. *)
LockSettled(c) == /\ At(c, {"noshow"}, "finish")
                  /\ GoOn(c, [work[c] EXCEPT !.at = "settle", !.ok = TRUE])
                  /\ UNCHANGED <<caseVars, listed, report>>

(* Mutant of RestoredPay: the status of the payment record is taken over.  *)
RestoredPayRaw(r) == {account.pi}

(* _cancel_no_show_report: the payment status is made up again from the    *)
(* local payment record, which may not have followed what became of the    *)
(* hold at Stripe, or from the presence of an intent.                      *)
RestoredPay(r) == IF account.at # r \/ rows[r].locked THEN {"none"}
                  ELSE CASE account.pi = "none"     -> {"none"}
                         [] account.pi = "hold"     -> {"authorized"}
                         [] account.pi = "captured" -> {"authorized", "settled"}
                         [] OTHER -> {"authorized", "settled", "payment_method_required"}

(* _apply_no_show_resolution_outcome: status and payment of the booking. *)
Outcome(r, verdict, ok, restored) ==
    CASE verdict = "cancelled"      -> [rows[r] EXCEPT !.status = "CONFIRMED",
                                                       !.pay = restored]
      [] verdict = "dispute_upheld" -> [rows[r] EXCEPT !.status = "COMPLETED",
                                                       !.pay = "settled"]
      [] OTHER -> [rows[r] EXCEPT !.status = "NO_SHOW",
                                  !.pay = IF ok THEN "settled"
                                          ELSE IF report.type = "student"
                                          THEN "payment_method_required" ELSE "manual_review"]

(* _persist_no_show_resolution; mark_no_show, mark_completed and           *)
(* mark_confirmed refuse a transition that the table does not have.        *)
ResolutionSaved(c) ==
    /\ At(c, {"noshow"}, "settle")
    /\ \E restored \in RestoredPay(work[c].row) :
       LET r == work[c].row
           after == Outcome(r, work[c].verdict, work[c].ok, restored) IN
       IF after.status = rows[r].status \/ <<rows[r].status, after.status>> \in
             {<<"NO_SHOW", "CONFIRMED">>, <<"NO_SHOW", "COMPLETED">>,
              <<"CONFIRMED", "NO_SHOW">>, <<"COMPLETED", "NO_SHOW">>,
              <<"CONFIRMED", "COMPLETED">>}
       THEN /\ rows' = [rows EXCEPT ![r] = after]
            /\ report' = [report EXCEPT !.resolution = work[c].verdict]
       ELSE UNCHANGED <<rows, report>>
    /\ Leave(c)
    /\ UNCHANGED <<resolution, contested, account, listed>>

NoShowStep(c) == \/ ReportNoShow(c)
                 \/ ReportAutomated(c)
                 \/ DisputeNoShow(c)
                 \/ AdminResolves(c)
                 \/ JobResolves(c)
                 \/ SettleCall(c)
                 \/ LockSettled(c)
                 \/ ResolutionSaved(c)
=============================================================================
