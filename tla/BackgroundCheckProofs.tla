------------------------ MODULE BackgroundCheckProofs ------------------------
(* Proofs about BackgroundCheck for any number of threads, jobs and faults.*)
EXTENDS BackgroundCheck, FiniteSetTheorems, TLAPS

Committed(w) == session[w] = "committed"

(* The final action is committed by one thread at most, before it mails,   *)
(* and what it commits stays: the emails sent and the thread that is going *)
(* to send one are one at most.                                            *)
MailInv == /\ session \in [Workers -> {"none", "list", "act", "committed"}]
           /\ mailed \in 0..1
           /\ ~adverse => mailed = 0 /\ \A w \in Workers : ~Committed(w)
           /\ \A w \in Workers : Committed(w) =>
                 mailed = 0 /\ \A v \in Workers \ {w} : ~Committed(v)

(* A thread that turns to something else, before the email or after it.    *)
LEMMA ThreadTurns ==
    ASSUME MailInv, NEW w \in Workers, NEW step \in {"none", "list", "act"},
           session' = [session EXCEPT ![w] = step], UNCHANGED adverse,
           \/ UNCHANGED mailed
           \/ Committed(w) /\ mailed' = 1
    PROVE  MailInv'
  BY DEF MailInv, Committed

LEMMA StepMails ==
    ASSUME MailInv, BgcNext
    PROVE  MailInv'
<1>0. ASSUME UNCHANGED <<adverse, mailed, session>>
      PROVE  MailInv'
  BY <1>0 DEF MailInv, Committed
<1>1. ASSUME NEW w \in Workers, NEW j \in Jobs, TakeUp(w, j)
      PROVE  MailInv'
  BY <1>1, ThreadTurns DEF TakeUp, RepeatWebhook, SweepList, FinalRead, FinalSkip, Enter, Leave
<1>2. ASSUME NEW w \in Workers, NEW j \in Jobs, SweepCommit(w, j) \/ FinalRefused(w, j)
      PROVE  MailInv'
  BY <1>2, ThreadTurns DEF SweepCommit, FinalRefused, Leave
<1>3. ASSUME NEW w \in Workers, NEW j \in Jobs, FinalCommit(w, j)
      PROVE  MailInv'
  BY <1>3 DEF FinalCommit, EventRecorded, MailInv, Committed
<1>4. ASSUME NEW w \in Workers, NEW j \in Jobs, FinalMail(w, j)
      PROVE  MailInv'
  <2>1. Committed(w) /\ mailed = 0
    BY <1>4 DEF FinalMail, Amid, MailInv, Committed
  <2>2. mailed' = 1 /\ session' = [session EXCEPT ![w] = "none"] /\ UNCHANGED adverse
    BY <1>4, <2>1 DEF FinalMail, Leave
  <2>3. QED
    BY <2>1, <2>2, ThreadTurns
<1>5. ASSUME NEW w \in Workers, NEW j \in Jobs, HandlerFault(w, j) \/ FetchTwice(w, j)
      PROVE  MailInv'
  BY <1>0, <1>5, ThreadTurns DEF HandlerFault, FetchTwice, Leave
<1>6. ASSUME NEW w \in Workers, ThreadDies(w)
      PROVE  MailInv'
  BY <1>6, ThreadTurns DEF ThreadDies
<1>7. ASSUME Checkr
      PROVE  MailInv'
  BY <1>0, <1>7 DEF Checkr, WebhookApplied, WebhookDeferred
<1>8. ASSUME People \/ ValidityEnds
      PROVE  MailInv'
  BY <1>0, <1>8 DEF People, ValidityEnds, Invite, GoLive, Suspend, Unsuspend, Approve, Reject,
     OpenDispute, ResolveDispute, Writes
<1>9. QED
  BY <1>1, <1>2, <1>3, <1>4, <1>5, <1>6, <1>7, <1>8 DEF BgcNext, GoOn

LEMMA StaysMailed == BgcSafety => []MailInv
<1>1. BgcInit => MailInv
  BY DEF BgcInit, MailInv, Committed
<1>2. MailInv /\ UNCHANGED vars => MailInv'
  BY DEF MailInv, Committed, vars
<1>3. QED
  BY <1>1, <1>2, StepMails, PTL DEF BgcSafety

(* The email of an adverse action goes out once (AdverseMailedOnce),       *)
(* however often the action is queued, run twice, resumed or cut short.    *)
THEOREM AdverseIsMailedOnce == BgcSafety => []AdverseMailedOnce
<1>1. MailInv => AdverseMailedOnce
  BY DEF MailInv, AdverseMailedOnce
<1>2. QED
  BY <1>1, StaysMailed, PTL

-----------------------------------------------------------------------------
(* What the steps write stays within the types of the columns.             *)
Rows == [waiting : BOOLEAN, attempts : 0..MaxAttempts]

LEMMA RowsWritten ==
    ASSUME jobs \in [Jobs -> Rows], NEW j \in Jobs
    PROVE  /\ Succeeded(j) \in [Jobs -> Rows]
           /\ Terminal(j) \in [Jobs -> Rows]
           /\ Failed(j) \in [Jobs -> Rows]
<1>1. Over \in Rows
  BY QueueConstants DEF Over, Rows
<1>2. (IF jobs[j].attempts + 1 >= MaxAttempts THEN Over
       ELSE [waiting |-> TRUE, attempts |-> jobs[j].attempts + 1]) \in Rows
  <2>1. jobs[j].attempts \in 0..MaxAttempts
    BY DEF Rows
  <2>2. CASE jobs[j].attempts + 1 >= MaxAttempts
    BY <1>1, <2>2
  <2>3. CASE ~(jobs[j].attempts + 1 >= MaxAttempts)
    <3>1. jobs[j].attempts + 1 \in 0..MaxAttempts
      BY <2>1, <2>3, QueueConstants
    <3>2. QED
      BY <2>3, <3>1 DEF Rows
  <2>4. QED
    BY <2>2, <2>3
<1>3. QED
  BY <1>1, <1>2 DEF Succeeded, Terminal, Failed

LEMMA Enqueued ==
    ASSUME NEW table \in [Jobs -> Rows], NEW j
    PROVE  Enqueue(table, j) \in [Jobs -> Rows]
<1>1. [waiting |-> TRUE, attempts |-> 0] \in Rows
  BY QueueConstants DEF Rows
<1>2. QED
  BY <1>1 DEF Enqueue

Profiles == [status : Statuses, live : BOOLEAN, validity : Validity,
             check : 0..MaxChecks, inDispute : BOOLEAN,
             disputedAt : BOOLEAN, notice : BOOLEAN]

(* The type invariant without the columns of MailInv. *)
Typed == QueueTypeOK /\ bgc \in Profiles /\ adverse \in BOOLEAN

LEMMA ReportedTyped ==
    ASSUME bgc \in Profiles, NEW kind \in Events
    PROVE  Reported(kind) \in Profiles
<1>1. StatusOf(kind) \in Statuses
  BY DEF StatusOf, Statuses, Events
<1>2. ValidityOf(kind) \in Validity
  BY DEF ValidityOf, Validity, Events, Profiles
<1>3. QED
  BY <1>1, <1>2 DEF Reported, Profiles

(* A thread that turns to a job, and one that ends it. *)
LEMMA EnterTyped ==
    ASSUME QueueTypeOK, NEW w \in Workers, NEW j \in Jobs, NEW read,
           Enter(w, j, read), UNCHANGED faults
    PROVE  QueueTypeOK'
  BY DEF QueueTypeOK, Enter, Start, Take

LEMMA LeaveTyped ==
    ASSUME QueueTypeOK, NEW w \in Workers, NEW j \in Jobs, NEW table \in [Jobs -> Rows],
           Leave(w, j, table), faults' \in 0..MaxFaults
    PROVE  QueueTypeOK'
  BY DEF QueueTypeOK, Leave, Finish, Take, Rows

LEMMA StepTyped ==
    ASSUME Typed, BgcNext
    PROVE  Typed'
<1>0. jobs \in [Jobs -> Rows] /\ QueueTypeOK /\ bgc \in Profiles /\ faults \in 0..MaxFaults
  BY DEF Typed, QueueTypeOK, Rows
<1>a. faults < MaxFaults => faults + 1 \in 0..MaxFaults
  BY <1>0, QueueConstants
<1>b. ASSUME UNCHANGED <<jobs, running, fetched, stale, faults>>
      PROVE  QueueTypeOK'
  BY <1>0, <1>b DEF QueueTypeOK
<1>1. ASSUME NEW w \in Workers, NEW j \in Jobs, j \in Webhooks, RepeatWebhook(w, j)
      PROVE  Typed'
  <2>1. bgc' \in Profiles
    <3>1. j.kind \in Events
      BY <1>1 DEF Webhooks, Verdicts, Events
    <3>2. QED
      BY <1>0, <1>1, <3>1, ReportedTyped DEF RepeatWebhook
  <2>2. QueueTypeOK'
    BY <1>0, <1>1, RowsWritten, LeaveTyped DEF RepeatWebhook
  <2>3. QED
    BY <1>1, <2>1, <2>2 DEF RepeatWebhook, Typed
<1>2. ASSUME NEW w \in Workers, NEW j \in Jobs, SweepList(w, j) \/ FinalRead(w, j)
      PROVE  Typed'
  BY <1>0, <1>2, EnterTyped DEF SweepList, FinalRead, Typed
<1>3. ASSUME NEW w \in Workers, NEW j \in Jobs, FinalSkip(w, j) \/ FinalRefused(w, j)
      PROVE  Typed'
  BY <1>0, <1>3, RowsWritten, LeaveTyped DEF FinalSkip, FinalRefused, Typed
<1>4. ASSUME NEW w \in Workers, NEW j \in Jobs, SweepCommit(w, j)
      PROVE  Typed'
  <2>1. NextSweep(Succeeded(j), j) \in [Jobs -> Rows]
    BY <1>0, RowsWritten, Enqueued DEF NextSweep
  <2>2. QueueTypeOK'
    BY <1>0, <1>4, <2>1, LeaveTyped DEF SweepCommit
  <2>3. bgc' \in Profiles
    BY <1>0, <1>4 DEF SweepCommit, Profiles
  <2>4. QED
    BY <1>4, <2>2, <2>3 DEF SweepCommit, Typed
<1>5. ASSUME NEW w \in Workers, NEW j \in Jobs, FinalCommit(w, j)
      PROVE  Typed'
  <2>1. bgc' \in Profiles
    BY <1>0, <1>5 DEF FinalCommit, Profiles, Statuses
  <2>2. QED
    BY <1>5, <1>b, <2>1 DEF FinalCommit, Typed
<1>6. ASSUME NEW w \in Workers, NEW j \in Jobs, FinalMail(w, j)
      PROVE  Typed'
  BY <1>0, <1>a, <1>6, RowsWritten, LeaveTyped DEF FinalMail, Typed
<1>7. ASSUME NEW w \in Workers, NEW j \in Jobs, HandlerFault(w, j)
      PROVE  Typed'
  BY <1>0, <1>a, <1>7, RowsWritten, LeaveTyped DEF HandlerFault, Typed
<1>8. ASSUME NEW w \in Workers, NEW j \in Jobs, FetchTwice(w, j)
      PROVE  Typed'
  BY <1>8, QueueConstants DEF FetchTwice, FetchToo, Typed, QueueTypeOK
<1>9. ASSUME NEW w \in Workers, ThreadDies(w)
      PROVE  Typed'
  BY <1>9, <1>a DEF ThreadDies, Die, Typed, QueueTypeOK
<1>10. ASSUME Checkr
       PROVE  Typed'
  <2>1. ASSUME NEW kind \in Events, NEW check \in 1..MaxChecks, WebhookApplied(kind, check)
        PROVE  Typed'
    BY <1>0, <1>b, <2>1, ReportedTyped DEF WebhookApplied, Typed
  <2>2. ASSUME NEW job \in Webhooks, WebhookDeferred(job)
        PROVE  Typed'
    BY <1>0, <1>a, <2>2, Enqueued DEF WebhookDeferred, Typed, QueueTypeOK, Rows
  <2>3. QED
    BY <1>10, <2>1, <2>2 DEF Checkr
<1>11. ASSUME People \/ ValidityEnds
       PROVE  Typed'
  <2>1. ASSUME NEW row \in Profiles, Writes(row)
        PROVE  Typed'
    BY <1>b, <2>1 DEF Writes, Typed
  <2>2. ASSUME Invite
        PROVE  Typed'
    <3>1. [bgc EXCEPT !.status = "pending", !.check = @ + 1] \in Profiles
      <4>1. bgc.check \in 0..MaxChecks /\ "pending" \in Statuses
        BY <1>0 DEF Profiles, Statuses
      <4>2. bgc.check + 1 \in 0..MaxChecks
        BY <2>2, <4>1, MaxChecksNat DEF Invite
      <4>3. QED
        BY <1>0, <4>1, <4>2 DEF Profiles
    <3>2. QED
      BY <2>1, <2>2, <3>1 DEF Invite
  <2>3. ASSUME ResolveDispute
        PROVE  Typed'
    <3>1. bgc' \in Profiles
      BY <1>0, <2>3 DEF ResolveDispute, Resolved, Profiles
    <3>2. jobs' \in [Jobs -> Rows]
      BY <1>0, <2>3, Enqueued DEF ResolveDispute
    <3>3. QED
      BY <2>3, <3>1, <3>2 DEF ResolveDispute, Typed, QueueTypeOK, Rows
  <2>4. /\ [bgc EXCEPT !.live = TRUE] \in Profiles
        /\ [bgc EXCEPT !.live = FALSE] \in Profiles
        /\ [bgc EXCEPT !.status = "passed"] \in Profiles
        /\ [bgc EXCEPT !.status = "failed"] \in Profiles
        /\ [bgc EXCEPT !.inDispute = TRUE, !.disputedAt = TRUE] \in Profiles
        /\ [bgc EXCEPT !.validity = "past"] \in Profiles
    BY <1>0 DEF Profiles, Statuses, Validity
  <2>5. QED
    BY <1>11, <2>1, <2>2, <2>3, <2>4 DEF People, ValidityEnds, GoLive, Suspend, Unsuspend,
       Approve, Reject, OpenDispute
<1>12. QED
  BY <1>1, <1>2, <1>3, <1>4, <1>5, <1>6, <1>7, <1>8, <1>9, <1>10, <1>11
  DEF BgcNext, TakeUp, GoOn

LEMMA StartsTyped == BgcInit => Typed
<1>1. NewProfile \in Profiles
  BY MaxChecksNat DEF NewProfile, Profiles, Statuses, Validity
<1>2. NoticedProfile \in Profiles
  BY <1>1 DEF NoticedProfile, Profiles, Statuses
<1>3. Over \in Rows
  BY QueueConstants DEF Over, Rows
<1>4. [Over EXCEPT !.waiting = TRUE] \in Rows
  BY <1>3 DEF Rows
<1>5. SUFFICES ASSUME BgcInit
               PROVE  Typed
  OBVIOUS
<1>6. jobs \in [Jobs -> Rows]
  BY <1>3, <1>4, <1>5 DEF BgcInit
<1>7. QueueTypeOK
  <2>1. /\ fetched = [w \in Workers |-> NoJob] /\ running = [w \in Workers |-> NoJob]
        /\ stale = 0 /\ faults = 0
    BY <1>5 DEF BgcInit
  <2>2. stale \in 0..MaxStale /\ faults \in 0..MaxFaults
    BY <2>1, QueueConstants
  <2>3. QED
    BY <1>6, <2>1, <2>2 DEF QueueTypeOK, Rows
<1>8. QED
  BY <1>1, <1>2, <1>5, <1>7 DEF BgcInit, Typed

LEMMA StaysTyped == BgcSafety => []Typed
<1>1. Typed /\ UNCHANGED vars => Typed'
  BY DEF Typed, QueueTypeOK, vars
<1>2. QED
  BY <1>1, StartsTyped, StepTyped, PTL DEF BgcSafety

(* The columns, the rows of the jobs and the threads have their types      *)
(* (BgcTypeOK), whatever Checkr, the people and the jobs wrote.            *)
THEOREM BgcTyped == BgcSafety => []BgcTypeOK
<1>1. Typed /\ MailInv => BgcTypeOK
  BY DEF Typed, MailInv, BgcTypeOK, Profiles
<1>2. QED
  BY <1>1, StaysTyped, StaysMailed, PTL
-----------------------------------------------------------------------------
(* The chain of sweeps.  A sweep has been tried at most once for every     *)
(* fault, and as long as faults are fewer than attempts some sweep waits.  *)
(* The rows that threads fetched twice are at most as many as such         *)
(* fetches, hence one is left for the successor.                           *)
Row(n) == [kind |-> "sweep", number |-> n]
Held == {n \in 0..MaxStale : ~Unfetched(Row(n))}

ChainInv == /\ \A j \in Sweeps : jobs[j].attempts <= faults
            /\ SweepSurvives
            /\ Cardinality(Held) <= stale

LEMMA SweepRows ==
    /\ \A n \in 0..MaxStale : Row(n) \in Sweeps
    /\ \A j \in Sweeps : j.number \in 0..MaxStale /\ j = Row(j.number)
    /\ Sweeps \subseteq Jobs
    /\ \A j \in Webhooks \cup FinalActions : j \notin Sweeps
  BY BgcJobsAreJobs DEF Row, Sweeps, Webhooks, FinalActions, Verdicts, BgcJobs

LEMMA HeldIsFinite ==
    /\ IsFiniteSet(0..MaxStale) /\ Cardinality(0..MaxStale) = MaxStale + 1
    /\ IsFiniteSet(Held) /\ Cardinality(Held) \in Nat
<1>1. 0 \in Int /\ MaxStale \in Int /\ MaxStale >= 0
  BY QueueConstants
<1>2. IsFiniteSet(0..MaxStale) /\ Cardinality(0..MaxStale) = MaxStale + 1
  BY <1>1, FS_Interval
<1>3. Held \subseteq 0..MaxStale
  BY DEF Held
<1>4. QED
  BY <1>2, <1>3, FS_Subset, FS_CardinalityType

(* Some row is not held by a thread. *)
LEMMA RowLeft ==
    ASSUME Cardinality(Held) <= stale, stale \in 0..MaxStale
    PROVE  \E j \in Sweeps : Unfetched(j)
<1>1. Cardinality(Held) # Cardinality(0..MaxStale)
  BY HeldIsFinite, QueueConstants
<1>2. PICK n \in 0..MaxStale : n \notin Held
  BY <1>1 DEF Held
<1>3. QED
  BY <1>2, SweepRows DEF Held

(* A thread that forgets what it fetched, and one that fetches. *)
LEMMA HeldFewer ==
    ASSUME Cardinality(Held) <= stale, stale \in 0..MaxStale, stale' = stale,
           fetched \in [Workers -> Jobs \cup {NoJob}],
           \/ fetched' = fetched
           \/ \E w \in Workers : fetched' = [fetched EXCEPT ![w] = NoJob]
    PROVE  Cardinality(Held)' <= stale'
<1>1. \A n \in 0..MaxStale : Row(n) # NoJob
  BY SweepRows, QueueConstants
<1>2. Held' \subseteq Held
  BY <1>1 DEF Held, Unfetched, Row
<1>3. Cardinality(Held') <= Cardinality(Held) /\ Cardinality(Held') \in Nat
  BY <1>2, HeldIsFinite, FS_Subset, FS_CardinalityType
<1>4. QED
  BY <1>3, HeldIsFinite

LEMMA HeldMore ==
    ASSUME Cardinality(Held) <= stale, stale \in 0..MaxStale, stale' = stale + 1,
           fetched \in [Workers -> Jobs \cup {NoJob}],
           NEW w \in Workers, NEW j \in Jobs,
           fetched' = [fetched EXCEPT ![w] = j]
    PROVE  Cardinality(Held)' <= stale'
<1>1. Held' \subseteq Held \cup {j.number}
  BY DEF Held, Unfetched, Row
<1>2. /\ IsFiniteSet(Held \cup {j.number})
      /\ Cardinality(Held \cup {j.number}) \in {Cardinality(Held), Cardinality(Held) + 1}
  BY HeldIsFinite, FS_AddElement
<1>3. Cardinality(Held') <= Cardinality(Held \cup {j.number}) /\ Cardinality(Held') \in Nat
  BY <1>1, <1>2, FS_Subset, FS_CardinalityType
<1>4. QED
  BY <1>2, <1>3, HeldIsFinite

(* A step that leaves the rows of the sweeps alone keeps the chain. *)
LEMMA OtherRows ==
    ASSUME Typed, ChainInv, faults' \in Nat, faults' >= faults,
           \A j \in Sweeps : jobs'[j] = jobs[j],
           Cardinality(Held)' <= stale'
    PROVE  ChainInv'
<1>1. \A j \in Sweeps : jobs[j].attempts \in Nat
  BY SweepRows DEF Typed, QueueTypeOK
<1>2. faults \in Nat /\ MaxAttempts \in Nat
  BY QueueConstants DEF Typed, QueueTypeOK
<1>3. \A j \in Sweeps : (jobs[j].attempts)' <= faults'
  BY <1>1, <1>2 DEF ChainInv
<1>4. SweepSurvives'
  BY <1>2 DEF ChainInv, SweepSurvives, Waiting
<1>5. QED
  BY <1>3, <1>4 DEF ChainInv

(* Ending a job gives back what was fetched. *)
LEMMA LeaveHeld ==
    ASSUME Typed, ChainInv, NEW w \in Workers, NEW j \in Jobs, NEW table,
           Leave(w, j, table)
    PROVE  Cardinality(Held)' <= stale'
  BY HeldFewer DEF Typed, QueueTypeOK, ChainInv, Leave, Finish, Take

LEMMA OtherJobs ==
    ASSUME Typed, NEW j, j \notin Sweeps
    PROVE  \A i \in Sweeps : /\ Succeeded(j)[i] = jobs[i]
                             /\ Terminal(j)[i] = jobs[i]
                             /\ Failed(j)[i] = jobs[i]
  BY SweepRows DEF Typed, QueueTypeOK, Succeeded, Terminal, Failed

(* A row that is enqueued breaks no chain, whichever it is. *)
LEMMA EnqueueKeeps ==
    ASSUME Typed, ChainInv, NEW j, jobs' = Enqueue(jobs, j), faults' \in {faults, faults + 1},
           Cardinality(Held)' <= stale'
    PROVE  ChainInv'
<1>0. /\ faults \in Nat /\ faults' \in Nat /\ faults <= faults' /\ MaxAttempts \in Nat
      /\ \A i \in Sweeps : jobs[i].attempts \in Nat /\ jobs[i].attempts <= faults /\ i \in Jobs
      /\ jobs \in [Jobs -> Rows]
  BY SweepRows, QueueConstants DEF Typed, QueueTypeOK, ChainInv, Rows
<1>1. \A i \in Sweeps : jobs'[i] = jobs[i] \/ jobs'[i] = [waiting |-> TRUE, attempts |-> 0]
  BY <1>0 DEF Enqueue
<1>2. \A i \in Sweeps : (jobs[i].attempts)' <= faults'
  <2>1. TAKE i \in Sweeps
  <2>2. CASE jobs'[i] = jobs[i]
    BY <1>0, <2>2
  <2>3. CASE jobs'[i] = [waiting |-> TRUE, attempts |-> 0]
    BY <1>0, <2>3
  <2>4. QED
    BY <1>1, <2>2, <2>3
<1>3. SweepSurvives'
  BY <1>0, <1>1 DEF ChainInv, SweepSurvives, Waiting
<1>4. QED
  BY <1>2, <1>3 DEF ChainInv

LEMMA SweepFails ==
    ASSUME Typed, ChainInv, NEW j \in Sweeps, jobs' = Failed(j), faults' = faults + 1,
           Cardinality(Held)' <= stale'
    PROVE  ChainInv'
<1>0. /\ faults \in Nat /\ MaxAttempts \in Nat \ {0} /\ j \in Jobs
      /\ \A i \in Sweeps : jobs[i].attempts \in Nat /\ jobs[i].attempts <= faults /\ i \in Jobs
      /\ jobs \in [Jobs -> Rows]
  BY SweepRows, QueueConstants DEF Typed, QueueTypeOK, ChainInv, Rows
<1>1. \A i \in Sweeps \ {j} : jobs'[i] = jobs[i]
  BY <1>0 DEF Failed
<1>2. CASE jobs[j].attempts + 1 >= MaxAttempts
  <2>1. jobs'[j] = Over
    BY <1>0, <1>2 DEF Failed
  <2>2. \A i \in Sweeps : (jobs[i].attempts)' <= faults'
    BY <1>0, <1>1, <2>1 DEF Over
  <2>3. ~(faults' < MaxAttempts)
    BY <1>0, <1>2
  <2>4. QED
    BY <2>2, <2>3 DEF ChainInv, SweepSurvives
<1>3. CASE ~(jobs[j].attempts + 1 >= MaxAttempts)
  <2>1. jobs'[j] = [waiting |-> TRUE, attempts |-> jobs[j].attempts + 1]
    BY <1>0, <1>3 DEF Failed
  <2>2. \A i \in Sweeps : (jobs[i].attempts)' <= faults'
    BY <1>0, <1>1, <2>1
  <2>3. SweepSurvives'
    BY <2>1 DEF SweepSurvives, Waiting
  <2>4. QED
    BY <2>2, <2>3 DEF ChainInv
<1>4. QED
  BY <1>2, <1>3

(* The sweep enqueues its successor in a row that is free, or another      *)
(* sweep is waiting already.                                               *)
LEMMA SweepPassesOn ==
    ASSUME Typed, ChainInv, NEW j \in Sweeps, jobs' = NextSweep(Succeeded(j), j),
           UNCHANGED faults, Cardinality(Held)' <= stale'
    PROVE  ChainInv'
<1>0. /\ faults \in Nat /\ j \in Jobs /\ stale \in 0..MaxStale
      /\ \A i \in Sweeps : jobs[i].attempts \in Nat /\ jobs[i].attempts <= faults /\ i \in Jobs
      /\ jobs \in [Jobs -> Rows]
  BY SweepRows DEF Typed, QueueTypeOK, ChainInv, Rows
<1> DEFINE table == Succeeded(j)
           free == {i \in Sweeps : ~table[i].waiting /\ Unfetched(i)}
           next == NewRow(free)
<1>1. table \in [Jobs -> Rows]
  BY <1>0, RowsWritten
<1>2. \A i \in Sweeps : table[i].attempts <= faults
  BY <1>0 DEF Succeeded, Over
<1>3. jobs' = [table EXCEPT ![next] = [waiting |-> TRUE, attempts |-> 0]]
  BY DEF NextSweep, Enqueue
<1> HIDE DEF table, next
<1>4. \A i \in Sweeps : (jobs[i].attempts)' <= faults'
  <2>1. \A i \in Sweeps : jobs'[i] = table[i] \/ jobs'[i] = [waiting |-> TRUE, attempts |-> 0]
    BY <1>0, <1>1, <1>3
  <2>2. QED
    BY <1>0, <1>2, <2>1
<1>5. \E i \in Sweeps : Waiting(i)'
  <2>1. PICK i \in Sweeps : Unfetched(i)
    BY <1>0, RowLeft DEF ChainInv
  <2>2. CASE table[i].waiting
    <3>1. jobs'[i].waiting
      BY <1>0, <1>1, <1>3, <2>2
    <3>2. QED
      BY <3>1 DEF Waiting
  <2>3. CASE ~table[i].waiting
    <3>1. next \in Sweeps
      BY <2>1, <2>3 DEF next, NewRow
    <3>2. jobs'[next].waiting
      BY <1>0, <1>1, <1>3, <3>1
    <3>3. QED
      BY <3>1, <3>2 DEF Waiting
  <2>4. QED
    BY <2>2, <2>3
<1>6. QED
  BY <1>4, <1>5 DEF ChainInv, SweepSurvives

LEMMA StepChains ==
    ASSUME Typed, ChainInv, BgcNext
    PROVE  ChainInv'
<1>0. /\ faults \in Nat /\ stale \in 0..MaxStale /\ fetched \in [Workers -> Jobs \cup {NoJob}]
      /\ Cardinality(Held) <= stale
  BY DEF Typed, QueueTypeOK, ChainInv
<1>a. faults + 1 \in Nat /\ faults + 1 >= faults /\ faults >= faults
  BY <1>0
<1>b. ASSUME UNCHANGED <<jobs, stale, fetched>>, faults' \in {faults, faults + 1}
      PROVE  ChainInv'
  <2>1. Cardinality(Held)' <= stale'
    BY <1>0, <1>b, HeldFewer
  <2>2. QED
    BY <1>0, <1>a, <1>b, <2>1, OtherRows
<1>1. ASSUME NEW w \in Workers, NEW j \in Jobs, j \in Webhooks, RepeatWebhook(w, j)
      PROVE  ChainInv'
  <2>1. Cardinality(Held)' <= stale'
    BY <1>1, LeaveHeld DEF RepeatWebhook
  <2>2. \A i \in Sweeps : jobs'[i] = jobs[i]
    BY <1>1, SweepRows, OtherJobs DEF RepeatWebhook, Leave, Finish
  <2>3. QED
    BY <1>0, <1>a, <1>1, <2>1, <2>2, OtherRows DEF RepeatWebhook
<1>2. ASSUME NEW w \in Workers, NEW j \in Jobs, SweepList(w, j) \/ FinalRead(w, j)
      PROVE  ChainInv'
  <2>1. /\ UNCHANGED <<jobs, stale, faults>>
        /\ fetched' = fetched \/ fetched' = [fetched EXCEPT ![w] = NoJob]
    BY <1>2 DEF SweepList, FinalRead, Enter, Start, Take
  <2>2. Cardinality(Held)' <= stale'
    BY <1>0, <2>1, HeldFewer
  <2>3. QED
    BY <1>0, <1>a, <2>1, <2>2, OtherRows
<1>3. ASSUME NEW w \in Workers, NEW j \in Jobs, j \in FinalActions,
             FinalSkip(w, j) \/ FinalRefused(w, j) \/ FinalMail(w, j)
      PROVE  ChainInv'
  <2>1. Leave(w, j, Succeeded(j)) \/ Leave(w, j, Failed(j))
    BY <1>3 DEF FinalSkip, FinalRefused, FinalMail
  <2>2. Cardinality(Held)' <= stale'
    BY <2>1, LeaveHeld
  <2>3. \A i \in Sweeps : jobs'[i] = jobs[i]
    BY <1>3, <2>1, SweepRows, OtherJobs DEF Leave, Finish
  <2>4. faults' \in {faults, faults + 1}
    BY <1>3 DEF FinalSkip, FinalRefused, FinalMail
  <2>5. QED
    BY <1>0, <1>a, <2>2, <2>3, <2>4, OtherRows
<1>4. ASSUME NEW w \in Workers, NEW j \in Sweeps, SweepCommit(w, j)
      PROVE  ChainInv'
  <2>1. Cardinality(Held)' <= stale'
    BY <1>4, SweepRows, LeaveHeld DEF SweepCommit
  <2>2. QED
    BY <1>4, <2>1, SweepPassesOn DEF SweepCommit, Leave, Finish
<1>5. ASSUME NEW w \in Workers, NEW j \in Jobs, FinalCommit(w, j)
      PROVE  ChainInv'
  BY <1>5, <1>b DEF FinalCommit
<1>6. ASSUME NEW w \in Workers, NEW j \in Jobs, HandlerFault(w, j)
      PROVE  ChainInv'
  <2>1. Cardinality(Held)' <= stale'
    BY <1>6, LeaveHeld DEF HandlerFault
  <2>2. CASE j \in Sweeps
    <3>1. jobs' = Failed(j) /\ faults' = faults + 1
      BY <1>6, <2>2, SweepRows DEF HandlerFault, Leave, Finish
    <3>2. QED
      BY <2>1, <2>2, <3>1, SweepFails
  <2>3. CASE j \notin Sweeps
    <3>1. \A i \in Sweeps : jobs'[i] = jobs[i]
      BY <1>6, <2>3, OtherJobs DEF HandlerFault, Leave, Finish
    <3>2. QED
      BY <1>0, <1>a, <1>6, <2>1, <3>1, OtherRows DEF HandlerFault
  <2>4. QED
    BY <2>2, <2>3
<1>7. ASSUME NEW w \in Workers, NEW j \in Jobs, FetchTwice(w, j)
      PROVE  ChainInv'
  <2>1. /\ UNCHANGED <<jobs, faults>>
        /\ fetched' = [fetched EXCEPT ![w] = j] /\ stale' = stale + 1
    BY <1>7 DEF FetchTwice, FetchToo
  <2>2. Cardinality(Held)' <= stale'
    BY <1>0, <2>1, HeldMore
  <2>3. QED
    BY <1>0, <1>a, <2>1, <2>2, OtherRows
<1>8. ASSUME NEW w \in Workers, ThreadDies(w)
      PROVE  ChainInv'
  <2>1. Cardinality(Held)' <= stale'
    BY <1>0, <1>8, HeldFewer DEF ThreadDies, Die
  <2>2. QED
    BY <1>0, <1>a, <1>8, <2>1, OtherRows DEF ThreadDies, Die
<1>9. ASSUME Checkr
      PROVE  ChainInv'
  <2>1. ASSUME NEW kind \in Events, NEW check \in 1..MaxChecks, WebhookApplied(kind, check)
        PROVE  ChainInv'
    BY <1>b, <2>1 DEF WebhookApplied
  <2>2. ASSUME NEW job \in Webhooks, WebhookDeferred(job)
        PROVE  ChainInv'
    <3>1. Cardinality(Held)' <= stale'
      BY <1>0, <2>2, HeldFewer DEF WebhookDeferred
    <3>2. QED
      BY <2>2, <3>1, EnqueueKeeps DEF WebhookDeferred
  <2>3. QED
    BY <1>9, <2>1, <2>2 DEF Checkr
<1>10. ASSUME ResolveDispute
       PROVE  ChainInv'
  <2>1. Cardinality(Held)' <= stale'
    BY <1>0, <1>10, HeldFewer DEF ResolveDispute
  <2>2. CASE UNCHANGED jobs
    BY <1>0, <1>a, <1>10, <2>1, <2>2, OtherRows DEF ResolveDispute
  <2>3. CASE jobs' = Enqueue(jobs, NewRow({j \in FinalActions : Unfetched(j)}))
    BY <1>10, <2>1, <2>3, EnqueueKeeps DEF ResolveDispute
  <2>4. QED
    BY <1>10, <2>2, <2>3 DEF ResolveDispute
<1>11. ASSUME People \/ ValidityEnds, ~ResolveDispute
       PROVE  ChainInv'
  BY <1>11, <1>b DEF People, ValidityEnds, Invite, GoLive, Suspend, Unsuspend, Approve, Reject,
     OpenDispute, Writes
<1>12. QED
  BY <1>1, <1>2, <1>3, <1>4, <1>5, <1>6, <1>7, <1>8, <1>9, <1>10, <1>11
  DEF BgcNext, TakeUp, GoOn
(* The chain of daily sweeps never breaks (SweepSurvives): as long as the  *)
(* faults are fewer than the attempts of a job, a sweep waits, whatever    *)
(* the number of threads, of deaths and of jobs that were fetched twice.   *)
THEOREM ChainOfSweeps == BgcSafety => []SweepSurvives
<1>1. BgcInit => ChainInv
  <2>1. SUFFICES ASSUME BgcInit
                 PROVE  ChainInv
    OBVIOUS
  <2>2. Typed /\ Row(0) \in Sweeps
    BY <2>1, StartsTyped, SweepRows, QueueConstants
  <2>3. Held = {}
    BY <2>1, SweepRows, QueueConstants DEF BgcInit, Held, Unfetched
  <2>4. Cardinality(Held) <= stale
    BY <2>1, <2>3, FS_EmptySet DEF BgcInit
  <2>5. \A j \in Jobs : jobs[j].attempts = 0
    BY <2>1 DEF BgcInit, Over
  <2>6. Row(0) \in Seeded(bgc)
    BY DEF Row, Seeded
  <2>7. jobs[Row(0)].waiting
    BY <2>1, <2>2, <2>6, SweepRows DEF BgcInit, Over
  <2>8. QED
    BY <2>1, <2>2, <2>4, <2>5, <2>7, SweepRows DEF BgcInit, ChainInv, SweepSurvives, Waiting
<1>2. Typed /\ ChainInv /\ [BgcNext]_vars => ChainInv'
  <2>1. ChainInv /\ UNCHANGED vars => ChainInv'
    BY DEF ChainInv, SweepSurvives, Waiting, Held, Unfetched, vars
  <2>2. QED
    BY <2>1, StepChains
<1>3. ChainInv => SweepSurvives
  BY DEF ChainInv
<1>4. QED
  BY <1>1, <1>2, <1>3, StaysTyped, PTL DEF BgcSafety
=============================================================================
