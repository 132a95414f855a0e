--------------------------- MODULE WebhookLedger ---------------------------
(***************************************************************************)
(* Stripe's events on their way in: routes/v1/payments.py                  *)
(* (handle_stripe_webhook), services/webhook_ledger_service.py and         *)
(* repositories/webhook_event_repository.py.                               *)
(*                                                                         *)
(* Stripe delivers an event until it is answered with 200, and may deliver *)
(* it again after that.  The route logs the event, claims it, runs the     *)
(* handler and marks the row, all in the one session of the request: what  *)
(* the row says is committed by the handler's own transaction, or at the   *)
(* end of the request, and an answer of 503 rolls back what is not.  While *)
(* it is not, a second delivery waits on the unique index.                 *)
(*                                                                         *)
(* The handlers modelled here leave no failed row: one that fails has      *)
(* either rolled the row back or committed it as being processed.          *)
(***************************************************************************)
EXTENDS Naturals

CONSTANTS Workers,
          MaxReplays,  \* how often an administrator replays an event
          MaxCrashes   \* how many requests die half way

ASSUME LedgerBounds == MaxReplays \in Nat /\ MaxCrashes \in Nat

VARIABLES sent,    \* what Stripe knows of each event
          ledger,  \* the status of its webhook_events row, as committed
          calls,   \* the requests at work
          replays, crashes

(* The bank opens a dispute and decides it; an authorization succeeds. *)
Events == {"created", "closed", "intent"}

ledgerVars == <<sent, ledger, calls, replays, crashes>>

Steps == {"none", "handle", "reverse", "apply", "commit", "finish"}

(* event is of no meaning while the worker is idle; replay: started by an  *)
(* administrator, under a row of its own.                                  *)
CallType == [event : Events \cup {"none"}, at : Steps, replay : BOOLEAN]
Idle == [event |-> "none", at |-> "none", replay |-> FALSE]

LedgerTypeOK == /\ sent \in [Events -> {"no", "due", "acked"}]
                /\ ledger \in [Events -> {"absent", "processing", "processed"}]
                /\ calls \in [Workers -> CallType]
                /\ replays \in 0..MaxReplays
                /\ crashes \in 0..MaxCrashes

LedgerInit == /\ sent = [e \in Events |-> "no"]
              /\ ledger = [e \in Events |-> "absent"]
              /\ calls = [w \in Workers |-> Idle]
              /\ replays = 0
              /\ crashes = 0

At(w, e, step) == calls[w].event = e /\ calls[w].at = step

(* A request for the event whose row is not committed yet. *)
Claimed(e) == \E w \in Workers : calls[w].event = e /\ ~calls[w].replay

(* Mutant of Claim: an event that is being processed is claimed once more. *)
ClaimAnyUnprocessed(w, e) ==
    /\ calls[w] = Idle
    /\ sent[e] # "no"
    /\ ledger[e] # "processed"
    /\ calls' = [calls EXCEPT ![w] = [event |-> e, at |-> "handle", replay |-> FALSE]]
    /\ UNCHANGED <<sent, ledger, replays, crashes>>

(* log_received and mark_processing.  A row that is being processed is     *)
(* answered 503, and nothing changes.                                      *)
Claim(w, e) ==
    /\ calls[w] = Idle
    /\ sent[e] # "no"
    /\ ledger[e] = "absent"
    /\ ~Claimed(e)
    /\ calls' = [calls EXCEPT ![w] = [event |-> e, at |-> "handle", replay |-> FALSE]]
    /\ UNCHANGED <<sent, ledger, replays, crashes>>

(* A duplicate of a processed event is answered 200. *)
Duplicate(e) == /\ sent[e] = "due"
                /\ ledger[e] = "processed"
                /\ sent' = [sent EXCEPT ![e] = "acked"]
                /\ UNCHANGED <<ledger, calls, replays, crashes>>

(* replay_webhook: the handler runs without a claim. *)
Replay(w, e) ==
    /\ calls[w] = Idle
    /\ ledger[e] # "absent"
    /\ replays < MaxReplays
    /\ replays' = replays + 1
    /\ calls' = [calls EXCEPT ![w] = [event |-> e, at |-> "handle", replay |-> TRUE]]
    /\ UNCHANGED <<sent, ledger, crashes>>

GoOn(w, step) == /\ calls' = [calls EXCEPT ![w].at = step]
                 /\ UNCHANGED <<sent, ledger, replays, crashes>>

(* The commit of the handler's transaction, which has the row in it. *)
Commits(w) == ledger' = IF calls[w].replay THEN ledger
                        ELSE [ledger EXCEPT ![calls[w].event] = "processing"]

Handled(w) == /\ Commits(w)
              /\ calls' = [calls EXCEPT ![w].at = "finish"]
              /\ UNCHANGED <<sent, replays, crashes>>

(* The handler answers False: mark_failed, and an HTTPException that rolls *)
(* it back.  Stripe is asked to try again.                                 *)
Refused(w) == /\ calls' = [calls EXCEPT ![w] = Idle]
              /\ UNCHANGED <<sent, replays, crashes>>

(* mark_processed and the answer, which may get lost on its way to Stripe; *)
(* a replay marks the row of its own.                                      *)
Finish(w) ==
    /\ calls[w].at = "finish"
    /\ IF calls[w].replay
       THEN UNCHANGED <<sent, ledger>>
       ELSE /\ \/ sent' = [sent EXCEPT ![calls[w].event] = "acked"]
               \/ UNCHANGED sent
            /\ ledger' = [ledger EXCEPT ![calls[w].event] = "processed"]
    /\ calls' = [calls EXCEPT ![w] = Idle]
    /\ UNCHANGED <<replays, crashes>>

(* The request dies; Stripe is not answered. *)
Dies(w) == /\ calls[w] # Idle
           /\ crashes < MaxCrashes
           /\ crashes' = crashes + 1
           /\ calls' = [calls EXCEPT ![w] = Idle]
           /\ UNCHANGED <<sent, ledger, replays>>
=============================================================================
