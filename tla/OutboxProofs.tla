---------------------------- MODULE OutboxProofs ----------------------------
(* Proofs about Outbox for any events, tasks and number of attempts. *)
EXTENDS Outbox, TLAPS

(* The rows and the tasks are such, whatever their counts. *)
RowShape == [status : {"absent", "PENDING", "SENT", "FAILED"}, attempts : Nat, due : BOOLEAN]
TaskShape == [event : Events, at : {"idle", "queued", "send", "sent", "failed"}, found : Nat]

Shape == /\ outbox \in [Events -> RowShape]
         /\ failures \in [Events -> 0..MaxAttempts]
         /\ task \in [Tasks -> TaskShape]

(* Sent, or it may have been dropped. *)
Done(e) == e \in delivered \cup Perishable

(* So many attempts, up to the limit, are behind an event. *)
Covered(e, count) == Done(e) \/ count <= failures[e] \/ failures[e] = MaxAttempts

(* An attempt that is counted, or about to be, was made: in the row, ...   *)
RowsAreEarned == \A e \in Events : /\ Covered(e, outbox[e].attempts)
                                   /\ outbox[e].status = "SENT" => Done(e)
                                   /\ outbox[e].status = "FAILED" =>
                                         Covered(e, MaxAttempts)

(* ... and in what a task has read and is to write.                        *)
TaskEarned(t) ==
    /\ task[t].at = "send" => Covered(task[t].event, task[t].found)
    /\ task[t].at = "sent" => Done(task[t].event)
    /\ task[t].at = "failed" => Covered(task[t].event, task[t].found + 1)

Earned == Shape /\ RowsAreEarned /\ \A t \in Tasks : TaskEarned(t)

LEMMA InitEarned == OutboxInit => Earned
<1>1. Unused \in TaskShape /\ Unused.at = "idle"
  BY OutboxBounds DEF Unused, TaskShape
<1>2. [status |-> "absent", attempts |-> 0, due |-> FALSE] \in RowShape
  BY DEF RowShape
<1>3. OutboxInit => Shape
  BY <1>1, <1>2, OutboxBounds DEF OutboxInit, Shape
<1>4. ASSUME OutboxInit, NEW e \in Events
      PROVE  /\ Covered(e, outbox[e].attempts)
             /\ outbox[e].status = "absent"
  <2>1. /\ outbox[e] = [status |-> "absent", attempts |-> 0, due |-> FALSE]
        /\ failures[e] = 0
    BY <1>4 DEF OutboxInit
  <2>2. outbox[e].attempts = 0 /\ outbox[e].status = "absent"
    BY <2>1
  <2>3. QED
    BY <2>1, <2>2 DEF Covered, Done
<1>5. OutboxInit => \A t \in Tasks : TaskEarned(t)
  BY <1>1 DEF OutboxInit, TaskEarned
<1>6. OutboxInit => RowsAreEarned
  BY <1>4 DEF RowsAreEarned
<1>7. QED
  BY <1>3, <1>5, <1>6 DEF Earned

(* What was covered stays so, as failures and deliveries only grow. *)
LEMMA CoveredGrows ==
    ASSUME Shape, delivered \subseteq delivered', failures' \in [Events -> 0..MaxAttempts],
           \A e \in Events : failures[e] <= failures'[e],
           NEW e \in Events, NEW count \in Nat, Covered(e, count)
    PROVE  Covered(e, count)'
  BY OutboxBounds DEF Covered, Done, Shape

LEMMA StepEarned ==
    ASSUME Earned, OutboxNext
    PROVE  Earned'
<1> USE OutboxBounds DEF Earned
<1>1. ASSUME NEW e \in Events, Enqueue(e) \/ ComesDue(e)
      PROVE  Earned'
  <2>0. /\ [outbox[e] EXCEPT !.status = "PENDING", !.due = TRUE] \in RowShape
        /\ [outbox[e] EXCEPT !.due = TRUE] \in RowShape
    BY DEF Shape, RowShape
  <2>1. Shape'
    BY <1>1, <2>0 DEF Enqueue, ComesDue, Shape
  <2>2. \A f \in Events : outbox'[f].attempts = outbox[f].attempts
                          /\ (outbox'[f].status = outbox[f].status \/ outbox'[f].status = "PENDING")
    BY <1>1 DEF Enqueue, ComesDue, Shape, RowShape
  <2>3. UNCHANGED <<delivered, failures, task>>
    BY <1>1 DEF Enqueue, ComesDue
  <2>4. QED
    BY <2>1, <2>2, <2>3 DEF RowsAreEarned, TaskEarned, Covered, Done
<1>2. ASSUME NEW e \in Events, NEW t \in Tasks, Dispatch(e, t)
      PROVE  Earned'
  <2>1. Shape'
    BY <1>2 DEF Dispatch, Shape, TaskShape
  <2>2. TaskEarned(t)'
    BY <1>2 DEF Dispatch, Shape, TaskEarned
  <2>3. QED
    BY <1>2, <2>1, <2>2 DEF Dispatch, Shape, RowsAreEarned, TaskEarned, Covered, Done
<1>t. ASSUME NEW t \in Tasks
      PROVE  /\ task[t] \in TaskShape
             /\ task[t].event \in Events /\ task[t].found \in Nat
             /\ Unused \in TaskShape /\ Unused.at = "idle"
  BY <1>t DEF Shape, TaskShape, Unused
<1>w. ASSUME NEW t \in Tasks, NEW new \in TaskShape, task' = [task EXCEPT ![t] = new]
      PROVE  task' \in [Tasks -> TaskShape] /\ task'[t] = new
             /\ \A s \in Tasks \ {t} : task'[s] = task[s]
  BY <1>w DEF Shape
<1>3. ASSUME NEW t \in Tasks, Begin(t) \/ Die(t)
      PROVE  Earned'
  <2>1. PICK at \in {"send", "queued"}, found \in {0, outbox[task[t].event].attempts} :
           /\ task' = [task EXCEPT ![t] = [task[t] EXCEPT !.at = at, !.found = found]]
           /\ at = "send" => found = outbox[task[t].event].attempts
    BY <1>3 DEF Begin, Die
  <2>2. found \in Nat /\ [task[t] EXCEPT !.at = at, !.found = found] \in TaskShape
    <3>1. outbox[task[t].event] \in RowShape
      BY <1>t DEF Shape
    <3>2. found \in Nat
      BY <3>1 DEF RowShape
    <3>3. QED
      BY <1>t, <3>2 DEF TaskShape
  <2>3. UNCHANGED <<outbox, delivered, failures>>
    BY <1>3 DEF Begin, Die
  <2>4. TaskEarned(t)'
    <3>1. /\ task'[t].at = at /\ task'[t].event = task[t].event /\ task'[t].found = found
      BY <1>t, <1>w, <2>1, <2>2 DEF TaskShape
    <3>2. at = "send" => Covered(task[t].event, found)
      BY <1>t, <2>1 DEF RowsAreEarned
    <3>3. QED
      BY <2>3, <3>1, <3>2 DEF TaskEarned, Covered, Done
  <2>5. QED
    BY <1>w, <2>1, <2>2, <2>3, <2>4 DEF Shape, RowsAreEarned, TaskEarned, Covered, Done
<1>4. ASSUME NEW t \in Tasks, Send(t) \/ SendFails(t)
      PROVE  Earned'
  <2>1. PICK at \in {"sent", "failed"} : task' = [task EXCEPT ![t] = [task[t] EXCEPT !.at = at]]
    BY <1>4 DEF Send, SendFails
  <2>2. [task[t] EXCEPT !.at = at] \in TaskShape
    BY <1>t DEF TaskShape
  <2>3. /\ delivered \subseteq delivered' /\ UNCHANGED outbox
        /\ failures' \in [Events -> 0..MaxAttempts]
        /\ \A e \in Events : failures[e] <= failures'[e]
    BY <1>4, <1>t DEF Send, SendFails, Shape
  <2>4. Shape'
    BY <1>w, <2>1, <2>2, <2>3 DEF Shape
  <2>5. RowsAreEarned'
    <3>1. \A e \in Events : outbox[e].attempts \in Nat
      BY DEF Shape, RowShape
    <3>2. \A e \in Events : Done(e) => Done(e)'
      BY <2>3 DEF Done
    <3>3. QED
      BY <2>3, <3>1, <3>2, CoveredGrows DEF RowsAreEarned
  <2>6. TaskEarned(t)'
    <3>1. CASE Send(t)
      <4>1. task'[t].at = "sent" /\ task'[t].event = task[t].event
        BY <1>t, <3>1 DEF Send, Shape, TaskShape
      <4>2. QED
        BY <3>1, <4>1 DEF Send, TaskEarned, Done
    <3>2. CASE SendFails(t)
      <4>1. /\ task'[t].event = task[t].event /\ task'[t].found = task[t].found
            /\ task'[t].at = "failed" /\ delivered' = delivered
        BY <1>t, <3>2 DEF SendFails, Shape, TaskShape
      <4>2. Covered(task[t].event, task[t].found)
        BY <3>2 DEF SendFails, TaskEarned
      <4>3. failures'[task[t].event] = IF failures[task[t].event] < MaxAttempts
                                       THEN failures[task[t].event] + 1
                                       ELSE failures[task[t].event]
        BY <1>t, <3>2 DEF SendFails, Shape
      <4>4. Covered(task[t].event, task[t].found + 1)'
        BY <1>t, <4>1, <4>2, <4>3 DEF Covered, Done, Shape
      <4>5. QED
        BY <4>1, <4>4 DEF TaskEarned, Covered, Done
    <3>3. QED
      BY <1>4, <3>1, <3>2
  <2>7. ASSUME NEW s \in Tasks \ {t}
        PROVE  TaskEarned(s)'
    <3>1. task'[s] = task[s]
      BY <1>w, <2>1, <2>2
    <3>2. /\ Covered(task[s].event, task[s].found) => Covered(task[s].event, task[s].found)'
          /\ Covered(task[s].event, task[s].found + 1) =>
                Covered(task[s].event, task[s].found + 1)'
      BY <1>t, <2>3, <3>1 DEF Covered, Done, Shape
    <3>3. QED
      BY <2>3, <3>1, <3>2 DEF TaskEarned, Covered, Done
  <2>8. QED
    BY <2>4, <2>5, <2>6, <2>7
<1>5. ASSUME NEW t \in Tasks, MarkSent(t)
      PROVE  Earned'
  <2>1. /\ task' = [task EXCEPT ![t] = Unused]
        /\ outbox' = [outbox EXCEPT ![task[t].event] =
                         [status |-> "SENT", attempts |-> task[t].found + 1, due |-> FALSE]]
        /\ UNCHANGED <<delivered, failures>>
        /\ Done(task[t].event)
    BY <1>5 DEF MarkSent, Attempt, TaskEarned
  <2>2. [status |-> "SENT", attempts |-> task[t].found + 1, due |-> FALSE] \in RowShape
    BY <1>t DEF RowShape
  <2>3. Shape'
    BY <1>t, <1>w, <2>1, <2>2 DEF Shape
  <2>4. RowsAreEarned'
    BY <1>t, <2>1 DEF RowsAreEarned, Covered, Done, Shape
  <2>5. QED
    BY <1>t, <1>w, <2>1, <2>3, <2>4 DEF TaskEarned, Covered, Done
<1>6. ASSUME NEW t \in Tasks, MarkFailed(t)
      PROVE  Earned'
  <2>1. Covered(task[t].event, Attempt(t)) /\ Attempt(t) \in Nat
    BY <1>6, <1>t DEF MarkFailed, TaskEarned, Attempt
  <2>2. PICK row \in RowShape : /\ outbox' = [outbox EXCEPT ![task[t].event] = row]
                                /\ row.attempts = Attempt(t) /\ row.status # "SENT"
                                /\ row.status = "FAILED" => Attempt(t) >= MaxAttempts
    <3>1. /\ [status |-> "FAILED", attempts |-> Attempt(t), due |-> FALSE] \in RowShape
          /\ [status |-> "PENDING", attempts |-> Attempt(t), due |-> FALSE] \in RowShape
      BY <2>1 DEF RowShape
    <3>2. QED
      BY <1>6, <3>1 DEF MarkFailed, Rescheduled
  <2>3. PICK new \in TaskShape : /\ task' = [task EXCEPT ![t] = new]
                                 /\ new.at \in {"idle", "queued"}
    <3>1. /\ [task[t] EXCEPT !.at = "queued", !.found = 0] \in TaskShape
          /\ [task[t] EXCEPT !.at = "queued", !.found = 0].at = "queued"
      BY <1>t DEF TaskShape
    <3>2. \/ task' = [task EXCEPT ![t] = Unused]
          \/ task' = [task EXCEPT ![t] = [task[t] EXCEPT !.at = "queued", !.found = 0]]
      BY <1>6 DEF MarkFailed
    <3>3. QED
      BY <1>t, <3>1, <3>2
  <2>4. UNCHANGED <<delivered, failures>>
    BY <1>6 DEF MarkFailed
  <2>5. Shape'
    BY <1>t, <1>w, <2>2, <2>3, <2>4 DEF Shape
  <2>6. RowsAreEarned'
    <3>1. row.status = "FAILED" => Covered(task[t].event, MaxAttempts)
      BY <1>t, <2>1, <2>2 DEF Covered, Done, Shape
    <3>2. QED
      BY <1>t, <2>1, <2>2, <2>4, <3>1 DEF RowsAreEarned, Covered, Done, Shape
  <2>7. \A s \in Tasks : TaskEarned(s)'
    BY <1>w, <2>3, <2>4 DEF TaskEarned, Covered, Done
  <2>8. QED
    BY <2>5, <2>6, <2>7
<1>7. QED
  BY <1>1, <1>2, <1>3, <1>4, <1>5, <1>6 DEF OutboxNext, Work

LEMMA StaysEarned == OutboxSpec => []Earned
<1>1. Earned /\ UNCHANGED vars => Earned'
  BY DEF Earned, Shape, RowsAreEarned, TaskEarned, Covered, Done, vars
<1>2. QED
  BY <1>1, InitEarned, StepEarned, PTL DEF OutboxSpec

(* The outcome of an event is earned (OutcomeIsEarned), whatever tasks     *)
(* overlap, overwrite each other or die.                                   *)
THEOREM OutcomesAreEarned == OutboxSpec => []OutcomeIsEarned
<1>1. ASSUME Earned, NEW e \in Events \ Perishable
      PROVE  /\ outbox[e].status = "SENT" => e \in delivered
             /\ outbox[e].status = "FAILED" => e \in delivered \/ failures[e] = MaxAttempts
  <2>1. failures[e] \in 0..MaxAttempts
    BY <1>1 DEF Earned, Shape
  <2>2. Covered(e, MaxAttempts) => e \in delivered \/ failures[e] = MaxAttempts
    BY <2>1, OutboxBounds DEF Covered, Done
  <2>3. QED
    BY <1>1, <2>2 DEF Earned, RowsAreEarned, Done
<1>2. Earned => OutcomeIsEarned
  BY <1>1 DEF OutcomeIsEarned
<1>3. QED
  BY <1>2, StaysEarned, PTL

(* What the shape of the rows leaves open: an event that waits has         *)
(* attempts left, one that was never committed has made none.              *)
Attempting == /\ \A e \in Events :
                    /\ outbox[e].status = "absent" => outbox[e].attempts = 0
                    /\ outbox[e].status = "PENDING" => outbox[e].attempts < MaxAttempts
              /\ delivered \subseteq Events
              /\ deaths \in 0..MaxDeaths

LEMMA StepAttempts ==
    ASSUME Shape, Attempting, OutboxNext
    PROVE  Attempting'
<1> USE OutboxBounds
<1>t. ASSUME NEW t \in Tasks
      PROVE  task[t].event \in Events /\ Attempt(t) \in Nat
  BY <1>t DEF Shape, TaskShape, Attempt
<1>1. ASSUME NEW e \in Events, Enqueue(e) \/ ComesDue(e)
      PROVE  Attempting'
  <2>1. /\ UNCHANGED <<delivered, deaths>>
        /\ \A f \in Events : /\ outbox'[f].attempts = outbox[f].attempts
                             /\ outbox'[f].status \in {outbox[f].status, "PENDING"}
                             /\ outbox'[f].status = "PENDING" =>
                                   outbox[f].status \in {"absent", "PENDING"}
    BY <1>1 DEF Enqueue, ComesDue, Shape, RowShape
  <2>2. QED
    BY <2>1 DEF Attempting
<1>2. ASSUME NEW e \in Events, NEW t \in Tasks, Dispatch(e, t)
      PROVE  Attempting'
  BY <1>2 DEF Dispatch, Attempting
<1>3. ASSUME NEW t \in Tasks, Begin(t) \/ Send(t) \/ SendFails(t) \/ Die(t)
      PROVE  Attempting'
  BY <1>3, <1>t DEF Begin, Send, SendFails, Die, Attempting
<1>4. ASSUME NEW t \in Tasks, MarkSent(t)
      PROVE  Attempting'
  <2>1. /\ UNCHANGED <<delivered, deaths>>
        /\ \A f \in Events : outbox'[f] = outbox[f] \/ outbox'[f].status = "SENT"
    BY <1>4 DEF MarkSent, Shape
  <2>2. QED
    BY <2>1 DEF Attempting
<1>5. ASSUME NEW t \in Tasks, MarkFailed(t)
      PROVE  Attempting'
  <2>1. /\ UNCHANGED <<delivered, deaths>>
        /\ \A f \in Events : \/ outbox'[f] = outbox[f]
                             \/ outbox'[f].status = "FAILED"
                             \/ /\ outbox'[f].status = "PENDING"
                                /\ outbox'[f].attempts < MaxAttempts
    BY <1>5, <1>t DEF MarkFailed, Rescheduled, Shape
  <2>2. QED
    BY <2>1 DEF Attempting
<1>6. QED
  BY <1>1, <1>2, <1>3, <1>4, <1>5 DEF OutboxNext, Work

(* Rows and tasks have their types (OutboxTypeOK); in particular an event  *)
(* that waits for a delivery never waits without an attempt left, although *)
(* late tasks write back what they counted.                                *)
THEOREM OutboxTyped == OutboxSpec => []OutboxTypeOK
<1>1. OutboxInit => Attempting
  <2>1. SUFFICES ASSUME OutboxInit
                 PROVE  Attempting
    OBVIOUS
  <2>2. \A e \in Events : outbox[e].status = "absent" /\ outbox[e].attempts = 0
    BY <2>1 DEF OutboxInit
  <2>3. QED
    BY <2>1, <2>2, OutboxBounds DEF OutboxInit, Attempting
<1>2. Attempting /\ UNCHANGED vars => Attempting'
  BY DEF Attempting, vars
<1>3. Earned /\ Attempting /\ OutboxNext => Attempting'
  BY StepAttempts DEF Earned
<1>4. Earned /\ Attempting => OutboxTypeOK
  BY DEF Earned, Shape, Attempting, OutboxTypeOK, RowShape, RowType, TaskShape, TaskType
<1>5. QED
  BY <1>1, <1>2, <1>3, <1>4, StaysEarned, PTL DEF OutboxSpec
=============================================================================
