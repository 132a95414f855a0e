------------------------------- MODULE Outbox -------------------------------
(***************************************************************************)
(* The transactional outbox: repositories/event_outbox_repository.py,      *)
(* tasks/notification_tasks.py, and services/notification_provider.py with *)
(* repositories/notification_delivery_repository.py.                       *)
(*                                                                         *)
(* An event is committed with the change it announces.  A beat queues a    *)
(* delivery of every event that is due, whether or not one is on its way,  *)
(* and a delivery looks at the row without locking it: several may run for *)
(* one event, and each writes what it found plus one.                      *)
(***************************************************************************)
EXTENDS Naturals

CONSTANTS Events,
          Perishable,    \* the availability events, of no use once their date is past
          Tasks,         \* the deliveries that may be on their way at a time
          MaxAttempts,   \* MAX_DELIVERY_ATTEMPTS
          MaxDeaths      \* how many workers die

ASSUME OutboxBounds == /\ MaxAttempts \in Nat \ {0} /\ MaxDeaths \in Nat
                       /\ Events # {} /\ Perishable \subseteq Events

VARIABLES outbox,     \* the event_outbox rows
          delivered,  \* the events with a notification_delivery row
          failures,   \* how often the provider failed, up to MaxAttempts
          task,       \* the deliveries
          deaths

vars == <<outbox, delivered, failures, task, deaths>>

(* attempts: attempt_count.  due: next_attempt_at has come. *)
RowType == [status : {"absent", "PENDING", "SENT", "FAILED"}, attempts : Nat, due : BOOLEAN]

(* found: the attempt_count that the delivery read. *)
TaskType == [event : Events, at : {"idle", "queued", "send", "sent", "failed"},
             found : Nat]

(* An event that waits has attempts left, though late deliveries may count *)
(* beyond the last one.                                                    *)
OutboxTypeOK == /\ outbox \in [Events -> RowType]
                /\ \A e \in Events : outbox[e].status = "PENDING" =>
                                         outbox[e].attempts < MaxAttempts
                /\ delivered \subseteq Events
                /\ failures \in [Events -> 0..MaxAttempts]
                /\ task \in [Tasks -> TaskType]
                /\ deaths \in 0..MaxDeaths

Unused == [event |-> CHOOSE e \in Events : TRUE, at |-> "idle", found |-> 0]

OutboxInit ==
    /\ outbox = [e \in Events |-> [status |-> "absent", attempts |-> 0, due |-> FALSE]]
    /\ delivered = {}
    /\ failures = [e \in Events |-> 0]
    /\ task = [t \in Tasks |-> Unused]
    /\ deaths = 0

-----------------------------------------------------------------------------
(* enqueue, in the transaction of the change. *)
Enqueue(e) == /\ outbox[e].status = "absent"
              /\ outbox' = [outbox EXCEPT ![e].status = "PENDING", ![e].due = TRUE]
              /\ UNCHANGED <<delivered, failures, task, deaths>>

ComesDue(e) == /\ outbox[e].status = "PENDING"
               /\ ~outbox[e].due
               /\ outbox' = [outbox EXCEPT ![e].due = TRUE]
               /\ UNCHANGED <<delivered, failures, task, deaths>>

(* Mutant of Dispatch: the attempt is counted when it is queued. *)
DispatchCounts(e, t) ==
    /\ outbox[e].status = "PENDING"
    /\ outbox[e].due
    /\ outbox[e].attempts < MaxAttempts
    /\ task[t].at = "idle"
    /\ outbox' = [outbox EXCEPT ![e].attempts = @ + 1]
    /\ task' = [task EXCEPT ![t] = [event |-> e, at |-> "queued", found |-> 0]]
    /\ UNCHANGED <<delivered, failures, deaths>>

(* dispatch_pending: the row stays as it is. *)
Dispatch(e, t) == /\ outbox[e].status = "PENDING"
                  /\ outbox[e].due
                  /\ task[t].at = "idle"
                  /\ task' = [task EXCEPT ![t] = [event |-> e, at |-> "queued", found |-> 0]]
                  /\ UNCHANGED <<outbox, delivered, failures, deaths>>

-----------------------------------------------------------------------------
(* deliver_event reads the row, whatever its status. *)
Begin(t) == /\ task[t].at = "queued"
            /\ task' = [task EXCEPT ![t].at = "send",
                                    ![t].found = outbox[task[t].event].attempts]
            /\ UNCHANGED <<outbox, delivered, failures, deaths>>

(* record_delivery, in a session of its own: one row for each event.  One  *)
(* whose date is past is dropped, and counts as sent                       *)
(* (suppress_past_availability_events).                                    *)
Send(t) == /\ task[t].at = "send"
           /\ task' = [task EXCEPT ![t].at = "sent"]
           /\ \/ delivered' = delivered \cup {task[t].event}
              \/ task[t].event \in Perishable /\ UNCHANGED delivered
           /\ UNCHANGED <<outbox, failures, deaths>>

(* NotificationProviderTemporaryError, or any other exception. *)
SendFails(t) == /\ task[t].at = "send"
                /\ task' = [task EXCEPT ![t].at = "failed"]
                /\ failures' = [failures EXCEPT ![task[t].event] =
                                   IF @ < MaxAttempts THEN @ + 1 ELSE @]
                /\ UNCHANGED <<outbox, delivered, deaths>>

Attempt(t) == task[t].found + 1

MarkSent(t) ==
    /\ task[t].at = "sent"
    /\ outbox' = [outbox EXCEPT ![task[t].event] =
                     [status |-> "SENT", attempts |-> Attempt(t), due |-> FALSE]]
    /\ task' = [task EXCEPT ![t] = Unused]
    /\ UNCHANGED <<delivered, failures, deaths>>

(* Mutant of Rescheduled: the count is left alone. *)
RescheduledUncounted(t) == [outbox[task[t].event] EXCEPT !.status = "PENDING", !.due = FALSE]

Rescheduled(t) == [status |-> "PENDING", attempts |-> Attempt(t), due |-> FALSE]

(* Mutant of MarkFailed: the task is tried again after the last attempt.   *)
MarkFailedRetries(t) ==
    /\ task[t].at = "failed"
    /\ outbox' = [outbox EXCEPT ![task[t].event] = Rescheduled(t)]
    /\ task' = [task EXCEPT ![t].at = "queued", ![t].found = 0]
    /\ UNCHANGED <<delivered, failures, deaths>>

(* mark_failed.  The task is tried again too (self.retry), unless its own  *)
(* retries are used up, or this was the last attempt.                      *)
MarkFailed(t) ==
    /\ task[t].at = "failed"
    /\ IF Attempt(t) >= MaxAttempts
       THEN /\ outbox' = [outbox EXCEPT ![task[t].event] =
                             [status |-> "FAILED", attempts |-> Attempt(t), due |-> FALSE]]
            /\ task' = [task EXCEPT ![t] = Unused]
       ELSE /\ outbox' = [outbox EXCEPT ![task[t].event] = Rescheduled(t)]
            /\ \/ task' = [task EXCEPT ![t].at = "queued", ![t].found = 0]
               \/ task' = [task EXCEPT ![t] = Unused]
    /\ UNCHANGED <<delivered, failures, deaths>>

(* A worker dies; its task goes back to the queue (task_acks_late).        *)
Die(t) == /\ task[t].at \in {"send", "sent", "failed"}
          /\ deaths < MaxDeaths
          /\ deaths' = deaths + 1
          /\ task' = [task EXCEPT ![t].at = "queued", ![t].found = 0]
          /\ UNCHANGED <<outbox, delivered, failures>>

Work(t) == Begin(t) \/ Send(t) \/ SendFails(t) \/ MarkSent(t) \/ MarkFailed(t)

OutboxNext == \/ \E e \in Events : \/ Enqueue(e)
                                   \/ ComesDue(e)
                                   \/ \E t \in Tasks : Dispatch(e, t)
              \/ \E t \in Tasks : Work(t) \/ Die(t)

(* The beat runs for ever, time passes, and a worker gets on with a task.  *)
OutboxSpec == /\ OutboxInit /\ [][OutboxNext]_vars
              /\ \A e \in Events : /\ WF_vars(ComesDue(e))
                                   /\ WF_vars(\E t \in Tasks : Dispatch(e, t))
              /\ \A t \in Tasks : WF_vars(Work(t))

-----------------------------------------------------------------------------
(* What the row says in the end was earned: a SENT event was delivered,    *)
(* and a FAILED one has been tried MaxAttempts times in vain, or was       *)
(* delivered by another task; tasks that overwrite each other's count do   *)
(* not use up the attempts of an event (mark_sent, mark_failed).  Of an    *)
(* event that may be dropped nothing is said.                              *)
OutcomeIsEarned ==
    \A e \in Events \ Perishable :
       /\ outbox[e].status = "SENT" => e \in delivered
       /\ outbox[e].status = "FAILED" => e \in delivered \/ failures[e] = MaxAttempts

(* An event that was committed is settled for good one day, although a     *)
(* task that is late may turn a SENT or FAILED row back into a PENDING one *)
(* (deliver_event reads the row without a lock).                           *)
EventIsSettled ==
    \A e \in Events :
       outbox[e].status # "absent" ~> [](outbox[e].status \in {"SENT", "FAILED"})
=============================================================================
