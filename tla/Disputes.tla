------------------------------ MODULE Disputes ------------------------------
(***************************************************************************)
(* A bank dispute about a lesson that was cancelled for credit:            *)
(* services/stripe/webhook_disputes.py and webhook_router.py, with the     *)
(* ledger their events come through and the credits they take away.        *)
(***************************************************************************)
EXTENDS WebhookLedger, Credits

VARIABLES lesson,   \* the payment of the disputed booking
          verdict,  \* what the bank decided
          debited,  \* the negative_balance_applied event of the dispute
          mutex,    \* who holds the mutex of the booking
          intent    \* a payment that is authorized meanwhile

disputeVars == <<lesson, verdict, debited, mutex, intent>>
vars == <<ledgerVars, creditVars, disputeVars>>

LessonType == [pay : {"settled", "manual_review"},
               outcome : {"cancelled", "dispute_won", "student_wins_dispute_full_refund"}]

DisputesTypeOK == /\ LedgerTypeOK
                  /\ CreditsTypeOK
                  /\ lesson \in LessonType
                  /\ verdict \in {"none", "won", "lost"}
                  /\ debited \in 0..2
                  /\ mutex \in Workers \cup {"free", "other"}
                  /\ intent \in {"none", "stripe", "saved"}

DisputesInit == /\ LedgerInit
                /\ CreditsInit
                /\ lesson = [pay |-> "settled", outcome |-> "cancelled"]
                /\ verdict = "none"
                /\ debited = 0
                /\ mutex = "free"
                /\ intent = "none"

-----------------------------------------------------------------------------
BankOpens == /\ sent["created"] = "no"
             /\ sent' = [sent EXCEPT !["created"] = "due"]
             /\ UNCHANGED <<ledger, calls, replays, crashes, creditVars, disputeVars>>

BankDecides == /\ sent["created"] # "no"
               /\ sent["closed"] = "no"
               /\ sent' = [sent EXCEPT !["closed"] = "due"]
               /\ verdict' \in {"won", "lost"}
               /\ UNCHANGED <<ledger, calls, replays, crashes, creditVars, lesson, debited,
                              mutex, intent>>

(* Another operation on the booking holds its mutex. *)
OtherOperation == /\ \/ mutex = "free" /\ mutex' = "other"
                     \/ mutex = "other" /\ mutex' = "free"
                  /\ UNCHANGED <<ledgerVars, creditVars, lesson, verdict, debited, intent>>

-----------------------------------------------------------------------------
(* booking_lock_sync in _handle_dispute_created and _handle_dispute_closed:*)
(* without the mutex the handler answers False.                            *)
DisputeStart(w) ==
    /\ \/ At(w, "created", "handle")
       \/ At(w, "closed", "handle")
    /\ IF mutex = "free"
       THEN /\ mutex' = w
            /\ GoOn(w, IF calls[w].event = "created" THEN "reverse" ELSE "apply")
       ELSE Refused(w) /\ UNCHANGED <<ledger, mutex>>
    /\ UNCHANGED <<creditVars, lesson, verdict, debited, intent>>

(* _attempt_dispute_transfer_reversal: whether Stripe reverses the         *)
(* transfer is recorded, and changes nothing of what follows.              *)
DisputeReverse(w) == /\ At(w, "created", "reverse")
                     /\ GoOn(w, "apply")
                     /\ UNCHANGED <<creditVars, disputeVars>>

(* Mutant of Charge: whether the debt is on record is not looked up. *)
ChargeAgain(spent) == IF spent > 0
                      THEN student' = Debited(spent) /\ debited' = spent
                      ELSE UNCHANGED <<student, debited>>

(* The student owes what was spent of the credits, once per dispute. *)
Charge(spent) == IF spent > 0 /\ debited = 0
                 THEN student' = Debited(spent) /\ debited' = spent
                 ELSE UNCHANGED <<student, debited>>

(* The handler's transaction reads the credits that it freezes, thaws or   *)
(* revokes, ...                                                            *)
DisputeReads(w) ==
    \E op \in {"freeze", "unfreeze", "revoke"} :
       /\ \/ At(w, "created", "apply") /\ op = "freeze"
          \/ At(w, "closed", "apply") /\ verdict = "won" /\ op = "unfreeze"
          \/ At(w, "closed", "apply") /\ verdict = "lost" /\ op = "revoke"
       /\ Read("dispute", op, Affected(op), IF op = "unfreeze" THEN 0 ELSE Spent(Affected(op)))
       /\ GoOn(w, "commit")
       /\ UNCHANGED <<credit, next, student, disputeVars>>

(* ... and commits what it made of them, before it gives the mutex back. *)
DisputeCommits(w, e, op) == /\ At(w, e, "commit")
                            /\ reads["dispute"].op = op
                            /\ Write("dispute")
                            /\ mutex' = "free"
                            /\ Handled(w)
                            /\ UNCHANGED <<next, verdict, intent>>

(* _mark_open_dispute_state and _apply_open_dispute_credit_effects. *)
DisputeOpened(w) == /\ DisputeCommits(w, "created", "freeze")
                    /\ lesson' = [lesson EXCEPT !.pay = "manual_review"]
                    /\ Charge(reads["dispute"].spent)

(* _handle_won_dispute_outcome. *)
DisputeWon(w) == /\ DisputeCommits(w, "closed", "unfreeze")
                 /\ lesson' = [lesson EXCEPT !.pay = "settled", !.outcome = "dispute_won"]
                 /\ student' = IF debited > 0 THEN Cleared(debited) ELSE student
                 /\ UNCHANGED debited

(* _handle_lost_dispute_outcome. *)
DisputeLost(w) ==
    /\ DisputeCommits(w, "closed", "revoke")
    /\ lesson' = [lesson EXCEPT !.pay = "settled",
                                !.outcome = "student_wins_dispute_full_refund"]
    /\ LET owed == IF debited = 0 THEN reads["dispute"].spent ELSE 0 IN
       /\ student' = [Debited(owed) EXCEPT !.restricted = TRUE]
       /\ debited' = debited + owed

-----------------------------------------------------------------------------
(* A worker creates and confirms a payment intent at Stripe, ...           *)
Authorize == /\ intent = "none"
             /\ intent' = "stripe"
             /\ sent' = [sent EXCEPT !["intent"] = "due"]
             /\ UNCHANGED <<ledger, calls, replays, crashes, creditVars, lesson, verdict,
                            debited, mutex>>

(* ... and then commits its payment record. *)
RecordSaved == /\ intent = "stripe"
               /\ intent' = "saved"
               /\ UNCHANGED <<ledgerVars, creditVars, lesson, verdict, debited, mutex>>

(* handle_payment_intent_webhook.  It answers False, from within its       *)
(* transaction, when there is no record of the intent: what is committed   *)
(* then is the row.                                                        *)
IntentHandled(w) == /\ At(w, "intent", "handle")
                    /\ IF intent = "saved" THEN Handled(w) ELSE Commits(w) /\ Refused(w)
                    /\ UNCHANGED <<creditVars, disputeVars>>

RequestDies(w) == /\ Dies(w)
                  /\ IF mutex = w
                     THEN mutex' = "free" /\ reads' = [reads EXCEPT !["dispute"] = NoRead]
                     ELSE UNCHANGED <<mutex, reads>>
                  /\ UNCHANGED <<credit, next, student, lesson, verdict, debited, intent>>

-----------------------------------------------------------------------------
Request(w) == \/ /\ \/ \E e \in Events : Claim(w, e) \/ Replay(w, e)
                    \/ Finish(w)
                 /\ UNCHANGED <<creditVars, disputeVars>>
              \/ DisputeStart(w)
              \/ DisputeReverse(w)
              \/ DisputeReads(w)
              \/ DisputeOpened(w)
              \/ DisputeWon(w)
              \/ DisputeLost(w)
              \/ IntentHandled(w)
              \/ RequestDies(w)

Wallet == /\ \/ Book
             \/ \E units \in {1, 2} : Reserve(units)
             \/ \E op \in {"release", "forfeit"} : ReadReserved(op)
             \/ Release
             \/ Forfeit
             \/ SuspendReads
             \/ Suspend
             \/ RestoreReads
             \/ Restore
             \/ \E who \in {"booking", "admin"} : RolledBack(who)
          /\ UNCHANGED <<ledgerVars, disputeVars>>

DisputesNext == \/ BankOpens
                \/ BankDecides
                \/ OtherOperation
                \/ Authorize
                \/ RecordSaved
                \/ \E e \in Events : Duplicate(e) /\ UNCHANGED <<creditVars, disputeVars>>
                \/ Wallet
                \/ \E w \in Workers : Request(w)

DisputesSafety == DisputesInit /\ [][DisputesNext]_vars

-----------------------------------------------------------------------------
(* However often its events are delivered, replayed or cut short, and in   *)
(* whatever order, a dispute never costs the student more than the credits *)
(* that were issued for the lesson (negative_balance_applied).             *)
DebitedOnce == student.balance >= -2

(* Once the ledger has both events of the dispute, nobody but an           *)
(* administrator who replays one touches the lesson's payment or the       *)
(* student's balance again: redelivery, duplicates and dead requests are   *)
(* all absorbed (log_received, claim_for_processing, mark_processed).      *)
ClosedDisputeRests ==
    [][(\A e \in {"created", "closed"} : ledger[e] # "absent") /\ replays = 0 =>
          lesson'.pay = lesson.pay /\ student'.balance = student.balance]_vars

Lost == lesson.outcome = "student_wins_dispute_full_refund"
Gone(k) == credit[k].status \in {"absent", "revoked"}

(* The dispute was lost, every credit of the lesson is revoked for it, and *)
(* no transaction under way has read one of them before.                   *)
AllRevokedForGood ==
    /\ Lost
    /\ \A k \in Credits : /\ Gone(k) /\ credit[k].why # "suspended"
                          /\ \A who \in Readers : k \notin reads[who].rows

(* Nothing but the dispute's handler is at work on the credits, and none   *)
(* has come since it read them.                                            *)
Alone == /\ \A who \in Readers \ {"dispute"} : reads[who].op = "none"
         /\ \A k \in Credits \ reads["dispute"].rows : Gone(k) /\ credit[k].why # "suspended"

(* A lost dispute takes every credit that is not a suspension's, unless    *)
(* another transaction is under way with them or has split one meanwhile;  *)
(* and once they are gone they are gone for good, whatever comes after:    *)
(* bookings, late events, replays, a suspension that is lifted             *)
(* (revoke_credits_for_booking, _restore_forfeited_credits).               *)
RevokedForGood ==
    [][/\ AllRevokedForGood => AllRevokedForGood'
       /\ ~Lost /\ Lost' /\ Alone => AllRevokedForGood']_vars

(* Apart from disputes and suspensions, a booking that is paid for uses up *)
(* exactly the credits that were taken off its price, and one that is      *)
(* cancelled leaves none reserved (reserve, release and forfeit).          *)
DiscountIsPaidFor ==
    [][sent["created"] = "no" /\ student.suspended = "never" /\ next.status = "open" =>
          /\ next'.status = "done" =>
                UnitsIn({k \in Credits : Reserved(k) /\ credit'[k].used}) = next.applied
          /\ next'.status # "open" => \A k \in Credits : credit'[k].status # "reserved"]_vars

(* "mark failed and ask Stripe to retry": an event that was refused can be *)
(* claimed again; only a request that died leaves its row being processed  *)
(* (routes/v1/payments.py).                                                *)
RefusedIsRetried ==
    \A e \in Events : ledger[e] = "processing" => Claimed(e) \/ crashes > 0
=============================================================================
