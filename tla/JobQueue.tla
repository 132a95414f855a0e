------------------------------ MODULE JobQueue ------------------------------
(***************************************************************************)
(* The table background_jobs and the worker threads that drain it: one     *)
(* thread in each application process (workers/background_jobs.py).        *)
(*                                                                         *)
(* A thread fetches the due jobs without locking their rows and runs them  *)
(* one by one without looking at their status again.  Marking a job        *)
(* "running" locks its row until the commit that ends the job, so that     *)
(* "running" is never seen by anybody else; a second thread that fetched   *)
(* the same job waits for the row, and then runs the job again.            *)
(*                                                                         *)
(* The back-off of a retry and the time a job is scheduled for are left    *)
(* out: a waiting job may be taken at any time.  A row that is not waiting *)
(* is a finished job, or a dead letter, that no code reads again.          *)
(*                                                                         *)
(* MaxStale bounds the jobs that two threads fetched; faults counts        *)
(* handler errors and deaths of threads, at most MaxFaults.                *)
(***************************************************************************)
EXTENDS Naturals

CONSTANTS Workers, Jobs, NoJob, MaxAttempts, MaxStale, MaxFaults

ASSUME QueueConstants == /\ MaxAttempts \in Nat \ {0}
                         /\ MaxStale \in Nat
                         /\ MaxFaults \in Nat
                         /\ NoJob \notin Jobs

(* running: the job whose row a thread has locked.  fetched: a job in the  *)
(* batch of a thread that another thread fetched too.                      *)
VARIABLES jobs, running, fetched, stale, faults

QueueTypeOK == /\ jobs \in [Jobs -> [waiting : BOOLEAN, attempts : 0..MaxAttempts]]
               /\ running \in [Workers -> Jobs \cup {NoJob}]
               /\ fetched \in [Workers -> Jobs \cup {NoJob}]
               /\ stale \in 0..MaxStale
               /\ faults \in 0..MaxFaults

Waiting(j) == jobs[j].waiting
Over == [waiting |-> FALSE, attempts |-> 0]

Enqueue(table, j) == [table EXCEPT ![j] = [waiting |-> TRUE, attempts |-> 0]]

(* mark_succeeded, and mark_terminal_failure after a NonRetryableError. *)
Succeeded(j) == [jobs EXCEPT ![j] = Over]
Terminal(j) == [jobs EXCEPT ![j] = Over]

(* Mutants of Failed: the attempts have no limit; one failure is final. *)
FailedForEver(j) == [jobs EXCEPT ![j] = [waiting |-> TRUE, attempts |-> @.attempts + 1]]
FailedAtOnce(j) == [jobs EXCEPT ![j] = Over]

(* mark_failed: another attempt, or the dead letters.  A job run again by  *)
(* a second thread may be waiting once more.                               *)
Failed(j) == [jobs EXCEPT ![j] = IF @.attempts + 1 >= MaxAttempts THEN Over
                                 ELSE [waiting |-> TRUE, attempts |-> @.attempts + 1]]

-----------------------------------------------------------------------------
(* fetch_due sees a job that another thread is running as a waiting one.   *)
(* (A second run of a job that takes a single step is not told apart from  *)
(* whatever else may trigger that step again.)                             *)
FetchToo(w, j) == /\ Waiting(j)
                  /\ \E v \in Workers \ {w} : running[v] = j
                  /\ fetched[w] = NoJob /\ running[w] = NoJob
                  /\ stale < MaxStale
                  /\ fetched' = [fetched EXCEPT ![w] = j]
                  /\ stale' = stale + 1
                  /\ UNCHANGED <<jobs, running, faults>>

(* Thread w turns to a job it fetched. *)
Take(w, j) == /\ running[w] = NoJob
              /\ \A v \in Workers : running[v] # j
              /\ Waiting(j) \/ fetched[w] = j
              /\ fetched' = IF fetched[w] = j THEN [fetched EXCEPT ![w] = NoJob]
                                              ELSE fetched
              /\ UNCHANGED stale

(* The handler takes more than one step, and keeps the row until Finish. *)
Start(w, j) == /\ Take(w, j)
               /\ running' = [running EXCEPT ![w] = j]
               /\ UNCHANGED jobs

Finish(w, j, table) == /\ \/ running[w] = j /\ UNCHANGED <<fetched, stale>>
                          \/ Take(w, j)
                       /\ jobs' = table
                       /\ running' = [running EXCEPT ![w] = NoJob]

(* The process of the thread dies: its transaction is rolled back and its  *)
(* batch forgotten.                                                        *)
Die(w) == /\ faults < MaxFaults
          /\ running[w] # NoJob \/ fetched[w] # NoJob
          /\ running' = [running EXCEPT ![w] = NoJob]
          /\ fetched' = [fetched EXCEPT ![w] = NoJob]
          /\ faults' = faults + 1
          /\ UNCHANGED <<jobs, stale>>
=============================================================================
