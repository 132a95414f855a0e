---------------------------- MODULE StripeIntent ----------------------------
(***************************************************************************)
(* What Stripe holds for one booking, and what the calls of services/      *)
(* stripe/ do to it: the PaymentIntent of the booking (manual capture,     *)
(* destination charge), the reversal of its transfer and the transfers     *)
(* made from the platform balance.                                         *)
(*                                                                         *)
(* Every call ends in "ok" or, whatever went wrong, in the ServiceException*)
(* the wrappers raise.  A call made again under the idempotency key that   *)
(* already succeeded is answered "ok" and changes nothing; under any other *)
(* key it is an error.  With LostReplies the call may take effect although *)
(* the caller sees an error (a timeout after the last attempt).            *)
(*                                                                         *)
(* Money is counted in halves of the lesson price: a captured charge       *)
(* transfers two halves to the instructor, the late cancellation pays out  *)
(* one half, an escalated capture failure pays out two.                    *)
(***************************************************************************)
EXTENDS Naturals

CONSTANT LostReplies

ASSUME LostRepliesMode == LostReplies \in BOOLEAN

VARIABLE stripe

(* The keys capture_<reason>_<booking> of the tasks, of the scenarios of   *)
(* cancellation and of an administrator who cancels without a refund, and  *)
(* the keys of the ways of voiding the intent and of refunding its charge. *)
CaptureKeys == {"instructor_completed", "auto_completed", "expired_auth",
                "retry_failed_capture", "admin_force_complete", "reauth",
                "gaming", "between", "under", "force_keep"}
VoidKeys == {"regular", "instructor", "force_refund"}
RefundKeys == {"instructor", "admin_refund", "admin_cancel", "force_refund"}

(* In halves of the price: what a refund can give back. *)
Whole == 2
ReverseKeys == {"gaming", "between", "under"}

(* A second intent is created at most once: that is the bound of the model. *)
MaxIntents == 2

(* gen counts the intents created, pi is the state of the last one, by the *)
(* key that captured, voided or refunded it, in part or as a whole; older  *)
(* says what became of the charge of the one before it and its transfer,   *)
(* if that one was captured.                                               *)
StripeType == [gen : 0..MaxIntents,
               pi : {"none", "hold", "captured", "void", "partly_refunded", "refunded"},
               by : {"none"} \cup CaptureKeys \cup VoidKeys \cup RefundKeys,
               reversedBy : {"none"} \cup ReverseKeys,
               payouts : SUBSET {"half", "full"},
               keyLive : BOOLEAN,
               older : {"none", "kept", "reversed", "partly_refunded"}]

StripeInit == stripe = [gen |-> 0, pi |-> "none", by |-> "none",
                        reversedBy |-> "none", payouts |-> {},
                        keyLive |-> FALSE, older |-> "none"]

-----------------------------------------------------------------------------
(* A call that fails leaves the account alone; one that takes effect gives *)
(* "after", and its reply may be lost.                                     *)
Fails(ok) == ~ok /\ UNCHANGED stripe
TakesEffect(ok, after) == (ok \/ LostReplies) /\ stripe' = after
Replays(ok) == ok /\ UNCHANGED stripe

Superseded == IF stripe.pi = "partly_refunded" THEN "partly_refunded"
              ELSE IF stripe.pi # "captured" THEN stripe.older
              ELSE IF stripe.reversedBy = "none" THEN "kept" ELSE "reversed"

(* PaymentIntent.create under the key pi_booking_<booking>: a second call  *)
(* within the life of the key is answered with the first intent.           *)
CreateCall(ok) ==
    \/ stripe.keyLive /\ Replays(ok)
    \/ /\ ~stripe.keyLive
       /\ stripe.gen < MaxIntents
       /\ TakesEffect(ok, [stripe EXCEPT !.gen = @ + 1, !.pi = "hold",
                                         !.by = "none", !.reversedBy = "none",
                                         !.keyLive = TRUE,
                                         !.older = Superseded])
    \/ ~stripe.keyLive /\ Fails(ok)

(* The calls below name an intent by the id the caller read: only the last *)
(* one created still has anything to give.                                 *)

(* PaymentIntent.confirm: a hold stays a hold. *)
ConfirmCall(intent, ok) == /\ ok => intent = stripe.gen /\ stripe.pi = "hold"
                           /\ UNCHANGED stripe

DoneBefore(intent, key, state) ==
    intent = stripe.gen /\ stripe.pi = state /\ stripe.by = key

(* PaymentIntent.capture and PaymentIntent.cancel: what is done to a hold. *)
HoldCall(intent, key, state, ok) ==
    \/ DoneBefore(intent, key, state) /\ Replays(ok)
    \/ /\ intent = stripe.gen
       /\ stripe.pi = "hold"
       /\ TakesEffect(ok, [stripe EXCEPT !.pi = state, !.by = key])
    \/ ~DoneBefore(intent, key, state) /\ Fails(ok)

CaptureCall(intent, key, ok) == HoldCall(intent, key, "captured", ok)
VoidCall(intent, key, ok) == HoldCall(intent, key, "void", ok)

(* Transfer.create_reversal of the whole transfer of the captured charge. *)
ReverseCall(intent, key, ok) ==
    \/ intent = stripe.gen /\ stripe.reversedBy = key /\ Replays(ok)
    \/ /\ intent = stripe.gen
       /\ stripe.pi = "captured"
       /\ stripe.reversedBy = "none"
       /\ TakesEffect(ok, [stripe EXCEPT !.reversedBy = key])
    \/ stripe.reversedBy # key /\ Fails(ok)

(* Refund.create of an amount of the charge, with that share of its        *)
(* transfer: what is left of a charge is never enough for a second refund  *)
(* of another amount, and the key names the amount.                        *)
RefundCall(intent, key, amount, ok) ==
    LET given == IF amount = Whole THEN "refunded" ELSE "partly_refunded" IN
    \/ DoneBefore(intent, key, given) /\ Replays(ok)
    \/ /\ intent = stripe.gen
       /\ stripe.pi = "captured"
       /\ stripe.reversedBy = "none"
       /\ TakesEffect(ok, [stripe EXCEPT !.pi = given, !.by = key])
    \/ ~DoneBefore(intent, key, given) /\ Fails(ok)

(* Transfer.create from the platform balance, one key for each payout. *)
PayoutCall(part, ok) ==
    \/ part \in stripe.payouts /\ Replays(ok)
    \/ /\ part \notin stripe.payouts
       /\ TakesEffect(ok, [stripe EXCEPT !.payouts = @ \cup {part}])
    \/ part \notin stripe.payouts /\ Fails(ok)

(* Some seven days after its creation Stripe drops an uncaptured hold; the *)
(* idempotency key of the creation is long forgotten by then.              *)
Outdated(dropped) == [stripe EXCEPT !.pi = IF @ = "hold" /\ dropped THEN "void" ELSE @,
                                    !.keyLive = FALSE]

-----------------------------------------------------------------------------
Charges == (IF stripe.pi \in {"captured", "partly_refunded"} THEN 1 ELSE 0)
           + (IF stripe.older = "none" THEN 0 ELSE 1)

(* What the student has paid and was not given back. *)
StudentPaid == (IF stripe.pi = "captured" THEN 2 ELSE 0)
               + (IF stripe.pi = "partly_refunded" THEN 1 ELSE 0)
               + (IF stripe.older \in {"kept", "reversed"} THEN 2 ELSE 0)
               + (IF stripe.older = "partly_refunded" THEN 1 ELSE 0)

InstructorNet == (IF stripe.pi = "captured" /\ stripe.reversedBy = "none" THEN 2 ELSE 0)
                 + (IF stripe.pi = "partly_refunded" THEN 1 ELSE 0)
                 + (IF stripe.older = "kept" THEN 2 ELSE 0)
                 + (IF stripe.older = "partly_refunded" THEN 1 ELSE 0)
                 + (IF "half" \in stripe.payouts THEN 1 ELSE 0)
                 + (IF "full" \in stripe.payouts THEN 2 ELSE 0)
=============================================================================
