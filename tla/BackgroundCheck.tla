--------------------------- MODULE BackgroundCheck ---------------------------
(***************************************************************************)
(* The background check of one instructor: the columns bgc_* and is_live   *)
(* of the profile, written by the webhooks of Checkr, by the jobs that     *)
(* repeat a webhook the database refused, by the daily expiry sweep, by    *)
(* the final adverse action of a notice, by administrators and by the      *)
(* instructor.                                                             *)
(*                                                                         *)
(* An event of Checkr may be handled any number of times and in any order: *)
(* Checkr redelivers, the in-memory set of deliveries belongs to a single  *)
(* process, two deliveries may both be logged before either is processed,  *)
(* and an administrator may replay one.  An event is matched to a profile  *)
(* by the candidate (or the report bound to it), and a new check makes a   *)
(* new candidate.                                                          *)
(***************************************************************************)
EXTENDS JobQueue

CONSTANT MaxChecks

ASSUME MaxChecksNat == MaxChecks \in Nat

(* bgc is the row; notice says that it carries a pre-adverse notice, of an *)
(* earlier version of the workflow, that the final action refers to, and   *)
(* disputedAt that a dispute was opened since (bgc_dispute_opened_at).     *)
(* adverse and mailed: the row of bgc_adverse_action_events and the final  *)
(* adverse emails sent.  session is what a thread that is running a job    *)
(* has read.                                                               *)
VARIABLES bgc, adverse, mailed, session

vars == <<jobs, running, fetched, stale, faults, bgc, adverse, mailed, session>>

(* "review" stands for "consider" too: every guard asks for the two.       *)
Statuses == {"none", "pending", "passed", "review", "canceled", "failed"}
Validity == {"none", "future", "past"}

(* The jobs: what a webhook reported on a check; the daily sweep and the   *)
(* final action, in one row more than threads may have fetched twice, so   *)
(* that a new job finds a row that none of them holds.                     *)
Verdicts == {"clear", "consider", "canceled"}
Webhooks == [kind : Verdicts, number : 1..MaxChecks]
Sweeps == [kind : {"sweep"}, number : 0..MaxStale]
FinalActions == [kind : {"final"}, number : 0..MaxStale]
BgcJobs == Webhooks \cup Sweeps \cup FinalActions

ASSUME BgcJobsAreJobs == BgcJobs \subseteq Jobs

BgcTypeOK == /\ QueueTypeOK
             /\ bgc \in [status : Statuses, live : BOOLEAN, validity : Validity,
                         check : 0..MaxChecks, inDispute : BOOLEAN,
                         disputedAt : BOOLEAN, notice : BOOLEAN]
             /\ adverse \in BOOLEAN
             /\ mailed \in 0..2
             /\ session \in [Workers -> {"none", "list", "act", "committed"}]

NewProfile == [status |-> "none", live |-> FALSE, validity |-> "none", check |-> 0,
               inDispute |-> FALSE, disputedAt |-> FALSE, notice |-> FALSE]
NoticedProfile == [NewProfile EXCEPT !.status = "review", !.notice = TRUE]

(* _ensure_expiry_job_scheduled has seeded the sweep; a profile under      *)
(* notice has its final action scheduled.                                  *)
Seeded(row) == {[kind |-> "sweep", number |-> 0]}
               \cup {j \in FinalActions : row.notice /\ j.number = 0}

BgcInit == /\ bgc \in {NewProfile, NoticedProfile}
           /\ jobs = [j \in Jobs |-> IF j \in Seeded(bgc) THEN [Over EXCEPT !.waiting = TRUE]
                                                       ELSE Over]
           /\ fetched = [w \in Workers |-> NoJob]
           /\ running = [w \in Workers |-> NoJob]
           /\ stale = 0 /\ faults = 0
           /\ adverse = FALSE
           /\ mailed = 0
           /\ session = [w \in Workers |-> "none"]

(* A new job takes a row that no thread may still be holding. *)
Unfetched(j) == \A w \in Workers : fetched[w] # j
NewRow(rows) == CHOOSE j \in rows : TRUE

(* The CHECK constraint of the table: a live profile is a passed one.  A   *)
(* flush that would break it is rolled back.                               *)
ConstraintOK(row) == row.live => row.status = "passed"

-----------------------------------------------------------------------------
(* The handlers of the events, shared by the webhook and the jobs.         *)

StatusOf(kind) == CASE kind = "clear" -> "passed"
                    [] kind \in {"consider", "disputed"} -> "review"
                    [] kind = "canceled" -> "canceled"
                    [] OTHER -> "pending"

ValidityOf(kind) == CASE kind = "clear" -> "future"
                      [] kind \in {"consider", "canceled"} -> "none"
                      [] OTHER -> bgc.validity

Reported(kind) == [bgc EXCEPT !.status = StatusOf(kind), !.validity = ValidityOf(kind)]

Matches(check) == bgc.check = check

(* Checkr tells of a check; "pending" stands for report.created, deferred, *)
(* resumed, upgrade_failed, suspended and the events of the invitation.    *)
(* The transaction is refused by the constraint, or by a passing fault.    *)
(* A verdict or a cancelation is then queued, any other event is lost.     *)
(* (Bound of the model: one verdict waits in the queue at a time.)         *)
Events == {"pending", "disputed", "clear", "consider", "canceled"}

WebhookApplied(kind, check) ==
    /\ Matches(check)
    /\ ConstraintOK(Reported(kind))
    /\ bgc' = Reported(kind)
    /\ UNCHANGED <<jobs, running, fetched, stale, faults, adverse, mailed, session>>

WebhookDeferred(job) ==
    /\ Matches(job.number)
    /\ \A j \in Webhooks : ~Waiting(j)
    /\ jobs' = Enqueue(jobs, job)
    /\ \/ ~ConstraintOK(Reported(job.kind)) /\ UNCHANGED faults
       \/ faults < MaxFaults /\ faults' = faults + 1
    /\ UNCHANGED <<running, fetched, stale, bgc, adverse, mailed, session>>

-----------------------------------------------------------------------------
(* The jobs.  Leave ends a job, with one transaction or after several      *)
(* steps.                                                                  *)
Leave(w, j, table) == /\ Finish(w, j, table)
                      /\ session' = [session EXCEPT ![w] = "none"]

Enter(w, j, read) == /\ Start(w, j)
                     /\ session' = [session EXCEPT ![w] = read]

Amid(w, j, steps) == running[w] = j /\ session[w] \in steps

(* webhook.report_completed and webhook.report_canceled. *)
RepeatWebhook(w, j) ==
    /\ \/ /\ Matches(j.number) /\ ConstraintOK(Reported(j.kind))
          /\ bgc' = Reported(j.kind)
          /\ Leave(w, j, Succeeded(j))
       \/ /\ Matches(j.number) /\ ~ConstraintOK(Reported(j.kind))
          /\ Leave(w, j, Failed(j))
          /\ UNCHANGED bgc
       \/ /\ ~Matches(j.number)
          /\ Leave(w, j, Terminal(j))
          /\ UNCHANGED bgc
    /\ UNCHANGED <<faults, adverse, mailed>>

(* Any handler may meet a passing fault: all it did is rolled back.  Not   *)
(* so the final adverse action, which swallows it.                         *)
HandlerFault(w, j) == /\ faults < MaxFaults
                      /\ faults' = faults + 1
                      /\ Leave(w, j, IF j \in FinalActions THEN Succeeded(j) ELSE Failed(j))
                      /\ UNCHANGED <<bgc, adverse, mailed>>

(* bgc.expiry_sweep: list_expired reads, set_live writes the listed ones   *)
(* whatever became of them, and the job enqueues its successor in the same *)
(* transaction.                                                            *)
SweepList(w, j) ==
    /\ Enter(w, j, IF bgc.live /\ bgc.validity = "past" THEN "act" ELSE "list")
    /\ UNCHANGED <<faults, bgc, adverse, mailed>>

(* Mutant of NextSweep: the sweep does not enqueue its successor. *)
NoNextSweep(table, j) == table

(* The successor takes a row that no other thread has fetched. *)
NextSweep(table, j) ==
    Enqueue(table, NewRow({i \in Sweeps : ~table[i].waiting /\ Unfetched(i)}))

SweepCommit(w, j) ==
    /\ Amid(w, j, {"list", "act"})
    /\ bgc' = IF session[w] = "act" THEN [bgc EXCEPT !.live = FALSE] ELSE bgc
    /\ Leave(w, j, NextSweep(Succeeded(j), j))
    /\ UNCHANGED <<faults, adverse, mailed>>

(* background_check.final_adverse_action: the checks, on a session of its  *)
(* own; then the write, which the unique row of the event or the           *)
(* constraint may refuse; then the email and the commit of the job.        *)
MayFinalize == /\ ~bgc.inDispute /\ ~bgc.disputedAt
               /\ bgc.notice /\ ~adverse
               /\ bgc.status = "review"
               /\ ~bgc.live

FinalRead(w, j) == /\ MayFinalize
                   /\ Enter(w, j, "act")
                   /\ UNCHANGED <<faults, bgc, adverse, mailed>>

FinalSkip(w, j) == /\ ~MayFinalize
                   /\ running[w] = NoJob
                   /\ Leave(w, j, Succeeded(j))
                   /\ UNCHANGED <<faults, bgc, adverse, mailed>>

(* UNIQUE (profile, notice, type) of the adverse event. *)
EventRecorded == adverse

FinalRefused(w, j) == /\ Amid(w, j, {"act"})
                      /\ EventRecorded \/ bgc.live
                      /\ Leave(w, j, Succeeded(j))
                      /\ UNCHANGED <<faults, bgc, adverse, mailed>>

(* Mutant of FinalCommit: the event is part of the job's own transaction,  *)
(* and is rolled back with it after the email.                             *)
FinalFlush(w, j) == /\ Amid(w, j, {"act"})
                    /\ ~EventRecorded /\ ~bgc.live
                    /\ session' = [session EXCEPT ![w] = "committed"]
                    /\ UNCHANGED <<jobs, running, fetched, stale, faults, bgc, adverse, mailed>>

FinalCommit(w, j) == /\ Amid(w, j, {"act"})
                     /\ ~EventRecorded /\ ~bgc.live
                     /\ bgc' = [bgc EXCEPT !.status = "failed"]
                     /\ adverse' = TRUE
                     /\ session' = [session EXCEPT ![w] = "committed"]
                     /\ UNCHANGED <<jobs, running, fetched, stale, faults, mailed>>

(* The commit of the job may fail after the email. *)
FinalMail(w, j) == /\ Amid(w, j, {"committed"})
                   /\ mailed' = IF mailed < 2 THEN mailed + 1 ELSE mailed
                   /\ \/ Leave(w, j, Succeeded(j)) /\ UNCHANGED faults
                      \/ /\ faults < MaxFaults /\ faults' = faults + 1
                         /\ Leave(w, j, Failed(j))
                   /\ UNCHANGED <<bgc, adverse>>

ThreadDies(w) == /\ Die(w)
                 /\ session' = [session EXCEPT ![w] = "none"]
                 /\ UNCHANGED <<bgc, adverse, mailed>>

-----------------------------------------------------------------------------
(* The instructor and the administrators.  Those that write through the    *)
(* constraint are refused by it.                                           *)
Writes(row) == /\ ConstraintOK(row)
               /\ bgc' = row
               /\ UNCHANGED <<jobs, running, fetched, stale, faults, adverse, mailed, session>>

(* invite and recheck. *)
Invite == /\ bgc.status \notin {"pending", "review"}
          /\ bgc.check < MaxChecks
          /\ Writes([bgc EXCEPT !.status = "pending", !.check = @ + 1])

(* go_live asks for "passed", and so does the constraint. *)
GoLive == /\ ~bgc.live /\ bgc.status = "passed"
          /\ Writes([bgc EXCEPT !.live = TRUE])

(* suspend, and unsuspend with restore_visibility. *)
Suspend == bgc.live /\ Writes([bgc EXCEPT !.live = FALSE])
Unsuspend == ~bgc.live /\ Writes([bgc EXCEPT !.live = TRUE])

Approve == Writes([bgc EXCEPT !.status = "passed"])
Reject == ~bgc.inDispute /\ Writes([bgc EXCEPT !.status = "failed"])

OpenDispute == Writes([bgc EXCEPT !.inDispute = TRUE, !.disputedAt = TRUE])

(* resolve_dispute_and_resume_final_adverse: bgc_dispute_opened_at stays.  *)
(* A queued job of the notice is brought forward or put off, else a new    *)
(* one is enqueued.                                                        *)
Resolved == [bgc EXCEPT !.inDispute = FALSE]
Resumes == bgc.inDispute /\ ~adverse /\ bgc.status = "review" /\ bgc.notice

ResolveDispute ==
    /\ bgc.inDispute
    /\ bgc' = Resolved
    /\ \/ /\ ~Resumes \/ \E j \in FinalActions : Waiting(j)
          /\ UNCHANGED jobs
       \/ /\ Resumes /\ ~ \E j \in FinalActions : Waiting(j)
          /\ jobs' = Enqueue(jobs, NewRow({j \in FinalActions : Unfetched(j)}))
    /\ UNCHANGED <<running, fetched, stale, faults, adverse, mailed, session>>

(* A year after the verdict. *)
ValidityEnds == bgc.validity = "future" /\ Writes([bgc EXCEPT !.validity = "past"])

-----------------------------------------------------------------------------
FetchTwice(w, j) == FetchToo(w, j) /\ UNCHANGED <<bgc, adverse, mailed, session>>

TakeUp(w, j) == \/ j \in Webhooks /\ RepeatWebhook(w, j)
                \/ j \in Sweeps /\ SweepList(w, j)
                \/ j \in FinalActions /\ (FinalRead(w, j) \/ FinalSkip(w, j))

GoOn(w, j) == \/ j \in Sweeps /\ SweepCommit(w, j)
              \/ j \in FinalActions /\ (FinalRefused(w, j) \/ FinalCommit(w, j) \/ FinalMail(w, j))

Checkr == \/ \E kind \in Events, check \in 1..MaxChecks : WebhookApplied(kind, check)
          \/ \E job \in Webhooks : WebhookDeferred(job)

People == \/ Invite \/ GoLive \/ Suspend \/ Unsuspend
          \/ Approve \/ Reject \/ OpenDispute \/ ResolveDispute

BgcNext == \/ \E w \in Workers, j \in Jobs : \/ TakeUp(w, j) \/ GoOn(w, j)
                                            \/ HandlerFault(w, j) \/ FetchTwice(w, j)
           \/ \E w \in Workers : ThreadDies(w)
           \/ Checkr \/ People \/ ValidityEnds

BgcSafety == BgcInit /\ [][BgcNext]_vars

(* The threads poll for ever and go on with a job they began; fetch_due    *)
(* takes the oldest jobs first, so that a waiting sweep is not overtaken   *)
(* for ever.                                                               *)
WaitingSweep == \E w \in Workers, j \in Sweeps : Waiting(j) /\ TakeUp(w, j)

BgcSpec == /\ BgcSafety
           /\ \A w \in Workers : WF_vars(\E j \in Jobs : GoOn(w, j))
           /\ SF_vars(WaitingSweep)

-----------------------------------------------------------------------------
(* The chain of daily sweeps never breaks: with fewer faults than attempts *)
(* a sweep is always waiting, whichever thread died, ran it twice or was   *)
(* too late.  Nothing else seeds it before a restart of the application    *)
(* (workers/background_jobs.py).                                           *)
SweepSurvives == faults < MaxAttempts => \E j \in Sweeps : Waiting(j)

(* The email that ends an adverse action goes out once, although two       *)
(* threads may run the action, a resolved dispute may enqueue it anew and  *)
(* its own commit is not the one of the job.                               *)
AdverseMailedOnce == mailed <= 1

(* An instructor whose check has expired does not stay live: the daily     *)
(* sweep takes the profile down or the check is renewed.                   *)
ExpiredGoesOffline == (bgc.live /\ bgc.validity = "past")
                         ~> (~bgc.live \/ bgc.validity # "past")

(* docs/runbooks/bgc-operations.md: "If a dispute is opened, the job is    *)
(* paused until bgc_in_dispute clears."  The final action then finds the   *)
(* time the dispute was opened and counts it as still in flight.           *)
ResumedActionActs ==
    (bgc.notice /\ bgc.disputedAt /\ ~bgc.inDispute /\ ~bgc.live
        /\ bgc.status = "review" /\ \E j \in FinalActions : Waiting(j))
       ~> (adverse \/ bgc.status # "review" \/ bgc.inDispute \/ faults > 0)
=============================================================================
