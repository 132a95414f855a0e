# InstaInstru: bookings, money and what runs behind them, in TLA+

InstaInstru ("instructly") is a marketplace for lessons: a FastAPI application on
PostgreSQL, Celery workers with a beat schedule, threads that drain a job table, Redis for
locks and caches, Stripe for the money, Checkr for background checks, and a Next.js front
end. These modules model the parts where processes meet: a booking from the moment its slot
is taken until its payment is settled, whatever moves, cancels, disputes or refunds it, and
the queues, webhooks and jobs that carry the rest. Paths below are relative to
`src/backend/app/` unless they begin with `docs/` or `src/`.

## 1. Inventory

### What is modelled

| Component | State | Operations | Interaction |
|---|---|---|---|
| Booking mutex (`core/booking_lock.py`, `ratelimit/locks.py`) | one Redis key per booking, TTL 90 s | acquire (SET NX EX), release (DELETE) | taken by the routes for cancel, complete, dispute, payment method, retry, reschedule, no-show and administration, by the payment jobs and the dispute webhooks |
| Booking row (`models/booking.py`, `models/booking_payment.py`) | status, payment status, settlement outcome, intent and method ids, failure and authorization times | `mark_*`, guarded by `_ALLOWED_TRANSITIONS` | shared by everything below |
| Authorization (`tasks/payment/authorization*.py`, `services/booking/payment_service.py`, `payment_retry.py`) | payment fields of the row, events, a queued timeout task | confirm, authorize at T-24h, retry, fail at T-12h, immediate timeout, student's retry | creates or confirms the intent |
| Capture (`tasks/payment/capture*.py`) | payment fields, events | capture, auto-complete, expire and reauthorize, retry, escalate after 72 h | captures the intent; pays from the platform balance |
| Cancellation (`services/booking/cancellation_*.py`) | payment fields, credits, transfers | seven scenarios by status, role and hours left | voids, captures, reverses, refunds, pays out, credits |
| Completion (`services/booking/completion_service.py`) | status, payment status | complete, mark complete, dispute | starts the 24 h capture clock, or stops it |
| Administration (`services/admin_*_service.py`, `services/booking_admin_service.py`, `routes/v1/admin/`) | the same row | refund, cancel, complete; forced cancellation and completion | refunds, voids or captures under the same mutex; one status update without it |
| Stripe wrappers (`services/stripe/`) | the PaymentIntent, its transfer, payouts | create, confirm, capture, cancel, reverse, refund, transfer | idempotency keys; timeouts of 30 s and three tries |
| Reschedule and locked funds (`services/booking/reschedule_*.py`, `lock_*.py`) | two linked rows, `lock_resolution`, the captured charge | move with a lock, with the payment, or afresh; resolve the lock | every path that ends the replacement resolves the lock of the original |
| No-show (`services/booking/noshow_*.py`, `tasks/payment/late_cancel_noshow.py`, `tasks/video_tasks.py`) | a report, its dispute and resolution | report, detect, dispute, resolve by job or administrator | refunds, captures, or resolves a lock |
| Student credits (`services/credit_service.py`, `repositories/credit_repository.py`) | credits, negative balance, suspension | reserve with a split, release, forfeit, freeze, unfreeze, revoke | payments use them, disputes take them away; only a reservation locks the rows it reads |
| Stripe webhooks and disputes (`services/webhook_ledger_service.py`, `services/stripe/webhook_*.py`, `routes/v1/payments.py`) | one ledger row per event, the dispute's marks on payment and student | log, claim, handle, mark, replay | take the booking mutex; freeze, revoke and debit credits |
| Creation and conflicts (`services/booking/creation_*.py`, `availability_conflicts.py`, `services/conflict_checker.py`) | bookings of a date, an advisory lock, two exclusion constraints | lock, check, insert, confirm, authorize | a declined payment frees the slot |
| Availability (`services/availability/`) | a bitmap for each day, the version of a week | fetch, save with a version check, or without | bookings look it up once |
| Notification outbox (`tasks/notification_tasks.py`, `repositories/event_outbox_repository.py`) | rows with status and count, delivery rows | enqueue, dispatch, deliver, retry, give up | Celery tasks, acknowledged late |
| Background jobs (`workers/background_jobs.py`, `repositories/background_job_repository.py`) | rows with status and attempts | fetch, run, retry, dead letter | one thread in each process |
| Background checks (`services/background_check_workflow_service.py`, `routes/v1/webhooks_checkr.py`, ...) | columns `bgc_*` and `is_live` of a profile, adverse events | Checkr's events, expiry sweep, final adverse action, disputes, overrides, suspension, go live | through the job table |

### What makes it hard

* *A money operation is not a transaction.* It reads and validates in one transaction,
  calls Stripe outside any, and writes in another, seldom reading the status again. In
  between a worker may die, a reply may be lost, the 90 s key may expire, and whoever does
  not take the mutex may write.
* *Jobs work from lists and plans made earlier*, in sessions that still hold what the list
  said.
* *Time decides which rule applies*: 24 h, 12 h, start, end, end + 24 h, 7 days, 72 h.
* *A booking's fate decides another's money*: funds locked on an original are resolved
  by whatever ends its replacement, under the replacement's mutex.
* *Events come twice, late and out of order*, and the answer to one decides whether it
  comes again.
* *Rows are fetched without locks* by several workers of the outbox and the job table, and
  each writes what it found plus one.
* *Checks are made before the transaction that relies on them* (open hours, week versions,
  conflicts of a student), and credit rows are read without a lock and written at the commit.
* *Compensations fail too*: an abort or a rollback that fails is logged and passed over.

### What makes each component correct

Locks: they exclude, and recover from dead holders and from lapses. Payment: what the row
says of the money is what Stripe has, a settlement splits the price as its outcome says,
nobody is charged twice or after death, the instructor never has more than the student paid, a settled payment is final, a disputed one is left
alone, held money moves on. Status: along the transition table only. Locked funds: given to
one party once, decided once, never forgotten. No-show: a verdict stands. Credits and
disputes: a lost dispute takes the lesson's credits for good, is debited once, and a closed
one rests. Calendar: nobody is double-booked, the buffer holds. Week: a checked save does
not undo another browser's days. Outbox: an outcome is earned, and final. Jobs: the chain of sweeps never
breaks. Background check: one adverse mail; an expired profile goes offline.

### What is not modelled

Listed in `PROJECT.json`, each with its reason. *Next in line*: checkout (no booking mutex),
the refund command of the MCP gateway with its confirmation tokens and idempotency rows,
referral rewards. *Algorithms without interleavings*: the GCRA rate limiter (one Lua script)
and the arithmetic of slots and prices. *Services, views and data*: search, accounts,
messaging, reviews, badges, video rooms, analytics, caches, the front end, migrations, seeds
and scripts; most of the repository's lines are there.

## 2. Modules

```
BookingLock     StripeIntent             the mutex; the Stripe account of one booking
       \         /
       BookingStore                      the row, the clock, the workers' jobs, the phases
   /      |       |        \
Authorization Capture Cancellation Completion
   \      |       |        /
       BookingLifecycle                  environment, next-state relation, fairness, properties
       /              \
Administration   BookingLifecycleProofs (with BookingLockProofs)
       |       \      /
MCBookingLifecycle  AdministrationProofs

Reschedule -> LockResolution -> NoShow -> LockedFunds      with Escrow, the abstract specification
WebhookLedger + Credits -> Disputes
Calendar + WeekSave -> Schedule
Outbox
JobQueue -> BackgroundCheck
```

An arrow is EXTENDS. Each of the five groups has its MC module, and all have proofs in a
module of their own (`...Proofs`).

### The life of one booking

**BookingLock.** `mutexKey` is the Redis key, `pc` where each client is. The key has no
owner, so `Release` removes whatever is there. `SlowHolders` lets the TTL run out on a
holder, `RedisFaults` lets any call to Redis fail: an acquisition then answers True. The
history variable `overlap` remembers that such a lapse touched the group of clients now
inside.

**StripeIntent.** One record for what Stripe holds: how many intents were made (`gen`),
the state of the last and the key that brought it there (`pi`, `by`), the reversal of its
transfer, the payouts from the platform balance, refunds of a part or the whole, whether
the creation key `pi_booking_<id>` is still remembered, and what became of the charge before it. Each
call is an operator with a result `ok`: a call repeated under its old key is replayed,
one that arrives too late fails, and with `LostReplies` a call may take effect although
its caller is told that it failed (a timeout after the last attempt, or the top-up
transfer that `capture_booking_payment_intent` makes after the capture). Money is counted
in halves of the lesson price.

**BookingStore.** `booking` is the row with the fields the properties tell apart;
`window` is the clock (24 h or more, 12 to 24 h, less than 12 h, started, ended, ended
24 h ago); `work` is the operation each worker is in, with what it read and what Stripe
answered. `Begin` is phase 1 (lock, read), `Proceed` a step of phase 2, `Finish` phase 3
with the release; `UnderLock` is an operation of a single transaction. Times are kept as
ages: `authAge` (the oldest authorization event, "old" after seven days), `failAge`
(since `capture_failed_at`: fresh, 4 h, 72 h).

**Authorization, Capture, Cancellation, Completion.** One action per handler phase;
the comment over each names the function. The jobs revalidate under the lock as the code
does; `PlanMarkFailed` is the one plan that is not revalidated, and so has an action of
its own. `InstructorMarkComplete` takes no lock, and may fall between any two steps.

**BookingLifecycle** composes them by EXTENDS (they share the store), adds the clock,
crashes and the lapse of the mutex, and states the properties.

**Administration** adds the administrators as further writers of the same row: the refund
page, the cancellation with and without a refund, the status update that takes no mutex,
and the gateway's forced cancellation (refund, or no refund) and completion. A command that
follows the policy cancels like the student, which is `CancelStart`. `LifecycleSafety` is
the specification without administrators, `AdministeredSafety` the one with them.

Modelling decisions a reader should know:

* A caller that finds the mutex taken answers 429 or skips; in the lifecycle it leaves no
  trace. `BookingLock` models the refusal.
* The write of phase 3 and the release are one step; nothing is visible in between.
* The clock and the age of a failure move between operations only: windows are hours,
  operations minutes. `AuthorizationAges` (seven days) also waits for a queued half-hour
  timeout.
* Stripe may drop a seven-day-old hold before or after the application counts seven days.
* A call that names an intent which has been replaced can only fail.
* The back-off of retries (1, 4, 8 h) is left out: a retry may come at any run of its job.
* The student always pays a fee, so an authorization by credits alone does not occur;
  a failing `issue_credit` (logged and swallowed) is not modelled.
* The branch of `classify_capture_exception` for "already been captured" is unreachable:
  the wrappers raise `ServiceException`, which it does not look into. The model has no
  such branch.
* The refund page gives back one half or the whole, `refunded` is what it writes to
  `refunded_to_card_amount`. A forced command's own idempotency key is one key per kind of
  command.
* `reversed` is the row's `transfer_reversal_id`. Stripe may not say how much was
  transferred (`CancelNoAmount`): then nothing is reversed, and full credit is issued.

### Two linked bookings

**Reschedule.** `rows["old"]` is the booking that is moved, `rows["new"]` its replacement
(until there is one, "old" is any ordinary booking). `account` is the charge at Stripe with
its reversal, the payouts, the refund and the credit. 12 to 24 hours ahead `LockStart`,
`LockCapture`, `LockReverse` and `LockSave` capture and reverse, and `LockReplace` makes the
replacement carry the lock; otherwise the payment moves along (`MoveWithPayment`) or the
replacement starts afresh: `FreshStart` creates it, `FreshConfirm` confirms it, leaves it
pending or aborts it, `FreshSwap` cancels the original or rolls the replacement back
(`RolledBack`). What the cancellation of the original makes of its charge is taken from
Cancellation (`Released`, `Stuck`). A death, a lapse, and an abort or rollback that fails
(`GiveUp`) are the faults, `MaxFaults` of them.

**LockResolution.** `ResolveLoad`, `ResolveCall`, `ResolveRecord` are
`resolve_lock_for_booking`, for its four resolutions; the actions that begin one are its
callers: cancellation, the capture job from a list it read earlier (`listed`),
auto-completion, a no-show. `ResolveRecord` revalidates the row, as the code does, after
the money was moved. `ChildSettled` is `_mark_child_booking_settled`.

**NoShow.** `report` is the row of `booking_no_shows`. The job reads its list
(`NoShowJobReads`) and resolves from it, whatever was decided since; an administrator
resolves under the mutex; the verdict decides the settlement, through the lock if there is
one.

**LockedFunds** composes the three with the clock and has the fairness. **Escrow** is the
abstract specification: free, held, decided once, with the credit that belongs to the
decision. `LockIsAnEscrow` is the refinement, with `fate` read off `lock_resolution` and
the payment status.

### Webhooks, disputes and credits

**WebhookLedger.** `sent` is what Stripe knows of each event (to be sent, answered 200 or
not), `ledger` the committed status of its row, `calls` the requests at work. `Claim` is
log_received with claim_for_processing, `Finish` the mark and the commit at the end of a
request; an answer may be lost, so an event that was handled comes again (`Duplicate`).
`Replay` is the administrator's.

**Credits.** Of the credit a cancelled lesson issued: reserved for the next payment, split
if it is worth more, released, forfeited, frozen, revoked; the student's balance and
restriction; a suspension, which revokes, and its end, which restores. A transaction is two
steps: it reads rows (`reads`), and at its commit writes the columns it has changed
(`Rewritten`), whatever another transaction has written meanwhile; a reservation, which
locks its rows, is one step. `Readers` are those that can overlap: what ends the booking the
credit is reserved for, an administrator, the dispute. `expire_old_credits` has no caller
outside the tests and is no action; a credit past its day expires when it is given back.

**Disputes** runs the handlers of `charge.dispute.created`, `charge.dispute.closed` and
`payment_intent.*` between those two, under the booking mutex of the lesson, which somebody
else may hold and which is not that of the booking the credits are reserved for.

### A day and a week

**Calendar.** `req` is where the request of a booking stands (locked, checked, ...), `guard`
the advisory lock of an instructor's date, `rows` the table. `Insert` is refused by the two
exclusion constraints; the authorization that would claim a freed slot again is, too.
`Sound` bookings, those whose payment was never declined, are the ones whose buffer nobody
may take. A slot is what the clock of the instructor reads; `Offset` is how far that clock is
ahead, and `Begins` the instant. Checks and constraints compare readings, as the code does,
and `NoDoubleBooking` speaks of instants.

**WeekSave.** Browsers fetch, edit and save all days of a week (`clear_existing`, the
default, is what the page sends); `Accepted` compares versions unless the request overrides
or has none, `Changed` computes the days to write, with the days forced by `save_week_bits`,
`SaveWrite` writes them later. A refusal tells the browser the version of the server, which
it sends next, while it still shows its own edits. **Schedule** puts calendar and week
together: a booking asks once whether the day is open.

### Queues

**Outbox.** `outbox` rows, `delivered` rows, and `task`s that found a row with a count; the
beat may dispatch an event that is on its way already. `Perishable` events, those of
availability, may be suppressed by a setting when their dates are past. **JobQueue.** `jobs` gives each job
its attempts left, `running` is the row lock, `fetched` the job a second thread has in its
batch. **BackgroundCheck** gives the jobs their meaning on one profile `bgc`; the
three-session final action is `FinalRead`, `FinalCommit`, `FinalMail`.

Where the model is coarser than the code, beyond what section 1 leaves out:

* A job's back-off and due time are left out: a waiting job or event may be taken at any
  time. `OutboxSpec` keeps "not yet due" as a flag.
* Reminders, which the outbox also carries, are not modelled; neither is the SMTP provider:
  a send succeeds or fails.
* "review" stands for "consider" as well; every guard of the background check asks for both.
* One dispute about one lesson, one credit it issued and one payment that spends it. The
  event `payment_intent.*` shares the ledger's code and none of the dispute's data.
* The rows of the credit ledger are amounts in halves of the lesson price.

## 3. What is checked

All runs use `tlc -workers 2`; "workers" are request threads and Celery workers alike.
Deadlock is checked for the mutex only: a settled lesson, a drained queue or a closed dispute
stops.

| Run | Instance | Shows |
|---|---|---|
| `lock_faults` | 4 clients, lapses, Redis failures, crashes | `ExclusiveUnlessOverlap`: a lapse harms the group it touched, and the mutex excludes again when that group has left. `KeyEventuallyFree`: a dead holder's key goes away. |
| `lifecycle_clean` | 2 workers and administrators, no faults | `SettledMeansMoney`: for each settlement outcome, Stripe's charge, the instructor's net and the credit are those of the policy; full credit goes with a reversed transfer, or the row has no `transfer_reversal_id` and the transfer stays. `AtMostOneCharge`. `AuthorizationIsBacked`: between operations, authorized means that Stripe has that hold. `AdminSettlementMeansMoney`: the student was given back what an administrator put on record, a part or the whole, the instructor has the rest, and no hold is left. `AdminRefundIsFinal`: nothing moves the money again. |
| `lifecycle_crashes` | 2 workers, 1 crash, lost replies; 2 million states | `OneMoneyAction`; `DeadBookingUnclaimed`: no dead booking is left for a job to pick up; `SettledIsFinal`; `ReviewFreezesMoney`: a disputed payment is moved by cancellations only; `TerminalStopsCharges`: no late write charges after death. |
| `lifecycle_lapses` | 2 workers and administrators, slow holders, Redis failures, within a week | `StatusFollowsTable`, even with overlapping operations; `PaidFromTheCharge`: overlapping cancellations, refunds and captures, each of which fails or succeeds at Stripe, never leave the instructor with more than the student has paid. |
| `lifecycle_live` | 1 worker, 1 crash, fairness; 1.2 million states | `HeldMoneyMoves`: a hold whose lesson ended a day ago does not stay a hold. |
| `locked_funds` | 2 workers, lost replies, 1 death or lapse; 1.3 million states | `LockIsAnEscrow`: the locked money is held and decided once, with the credit of that decision. `FundsGivenOnce`, `OneLesson`, `VerdictStands` for runs without a fault (the failure of a compensation is one); `SettledAfterItsLock`: with one fault at most, no replacement is settled before its lock. |
| `locked_funds_live` | 1 worker, 1 fault, fairness | `LockIsResolved`: locked money does not stay locked. |
| `disputes` | 2 requests, 1 replay or crash, lost answers, and transactions on the credits that overlap | `DebitedOnce`: a dispute costs the student no more than the lesson's credit was worth; `RevokedForGood`: a lost dispute takes every credit when nobody else is at work on them, and what is gone, with nobody who has read it before, is gone for good; `ClosedDisputeRests`: a duplicate moves nothing once both events are in; `DiscountIsPaidFor`: a payment is discounted by credit that is reserved for it. |
| `schedule` | 4 bookings, 2 students, 3 instructors, one of them a slot ahead, 3 slots, buffer 1, 2 browsers, 2 days | `NoDoubleBooking`: at no instant for an instructor, nor for a student with instructors whose clocks agree; `BufferKept`; `OtherDaysSurvive`: a save that was checked against the version its editor saw changes only edited days, and days sent as windows. |
| `outbox` | 2 events, one that may be suppressed, 3 tasks, 5 attempts, 1 death | `OutcomeIsEarned`: of an event that may not be suppressed, SENT was delivered, FAILED has used up its attempts; `EventIsSettled`: every event is SENT or FAILED for good. |
| `background_check` | 2 threads, 2 attempts, 1 job fetched twice, 1 fault, 1 check; 360 000 states | `SweepSurvives`: a sweep is always waiting; `ExpiredGoesOffline`; `AdverseMailedOnce`. |
| `webhook_stuck` | as `disputes` | a counterexample to `RefusedIsRetried`, see section 4 |

**Why these bounds.** A conflict needs two operations on one row; a third adds no pair that
two do not have. Where three matter there are three: the mutex is run with four clients
because its overlap needs a lapsed holder, its successor and the one let in by the ownerless
DELETE; the outbox has three tasks because a late writer may undo what a second task
settled after a third; the calendar needs three bookings for a student conflict beside an
instructor conflict, and a fourth for an instructor in another timezone. One crash suffices to leave each intermediate state behind, since a
dead operation leaves nothing but rows, Stripe and a key, and these then meet every other
operation. `MaxIntents` = 2: one intent replaces a captured, voided or lost one.
`MaxAttempts` = 5 in the outbox is the value of the code; the job table gets 2 attempts and
1 fault instead of its limit, which is the same relation ("fewer faults than attempts").
Liveness runs have one worker where a second would only wait for the mutex, and no symmetry.

Constraints cut state spaces along lines the code does not connect. `WithinAWeek`
(`lifecycle_lapses`): after a week the same operations come again, and the other runs cover
them without lapses. `InTurn` (`schedule`): a booking reads the week once, before it
begins, so browsers and bookings are explored one after the other. `Alone` (`outbox`): events
share nothing but the workers, so each is explored by itself. In `disputes`: `Apart`, the
authorization event and the dispute share the ledger's code and no data; `OthersInTheWay`,
another operation has the mutex when a handler may find it taken; `ReadsSome`, a suspension
that reads no credit is one that takes none; and, narrower than the code, `TwoAtATime`, the
end of a booking and an administrator each overlap the dispute and not each other;
`OneTrouble`, a request dies or an event is replayed; `ClosedIsAnswered`, the answer to the
second event arrives. `DisputesProofs` proves the same properties without them.

**Exemptions**, each a state where the code is known not to keep the promise, written into
the property rather than kept out of the model. `Escalated`: the platform paid the
instructor after 72 h, whatever happened to the booking. `CapturedEarly`: a hold renewed for
a lesson more than a week ahead is judged by its *oldest* authorization event, so it is
expired at once, retried, and captured before the lesson. `Administering`: an administrator
set the outcome, so that `AdminSettlementMeansMoney` speaks instead; it speaks of charge,
transfer and hold but not of credit, because a refund after a credited cancellation leaves
the student both. `Perishable` in `OutcomeIsEarned`; `checked` in `OtherDaysSurvive`; equal
clocks in `NoDoubleBooking`; `Alone` (of Disputes) in `RevokedForGood`: see section 4.
`faults = 0` in `FundsGivenOnce`, `OneLesson` and `VerdictStands`: a
worker that dies between a payout and its record lets a second, different resolution pay
again, since the idempotency key is one per kind of payout; and a rollback that fails leaves
both lessons. `faults <= 1` in
`SettledAfterItsLock`: with two lapses and three workers, TLC lets three moves of one lesson
overlap; the first leaves a replacement, which is settled, the second puts the original in
review because its reversal failed, and the third locks it after all.

**Fairness.** Nothing obliges a user or an administrator to act, Stripe to agree, or a
worker to die.

* `CaptureSpec`, `LifecycleSpec`: weak fairness for the expiry of the key, for a worker that
  goes on with what it began (the Stripe client's calls are bounded by timeout and tries),
  and for the jobs Celery beat starts again and again (`tasks/beat_schedule.py`). Strong
  fairness, in `LifecycleSpec` only, for jobs that are disabled whenever somebody holds the
  mutex and for the clock, which in the model moves between operations. `LifecycleSpec` is
  used for refutations only, where assuming more makes the counterexample stronger.
* `FundsSpec`: weak fairness for the clock, the age of a report, the jobs' reads and
  operations under way; strong for auto-completion, capture and the no-show job, which find
  the mutex taken now and then.
* `OutboxSpec`: weak fairness for an event that comes due, its dispatch by the beat, and a
  task that works on.
* `BgcSpec`: weak fairness for a job under way; strong for a waiting sweep, because
  `fetch_due` takes the oldest jobs first.

**Refinement.** `LockIsAnEscrow` (`INSTANCE Escrow WITH fate <- Fate, credit <-
account.credit`). That the lifecycle is a behaviour of `BookingLock` is a lemma only: it
takes the lock's own actions, so it holds by construction.

**Mutants.** Every property of a passing run has one: an operator beside the one it
replaces, with a plausible bug, which the run then refutes (`GiveUpReleases`,
`MarkedAnyway`, `ResolveRecordBlind`, `ClaimAnyUnprocessed`, `FinalFlush`, ...). They are
marked "Mutant of" and nothing else uses them.

## 4. Where the documents and the code disagree

One disagreement is part of the suite. `webhook_stuck`: `handle_payment_intent_webhook`
returns False inside `with self.transaction()` (`webhook_router.py:152-172`), which commits
the ledger row as "processing"; the 503 that follows rolls `mark_failed` back, so every later
delivery is answered 503 "Event still processing" (`routes/v1/payments.py:885`) and none is
let in, while `payments.py:938` says "mark failed and ask Stripe to retry".

The others have a configuration beside the project that ends in a counterexample. `POLICY` is
`docs/stripe/instainstru-payment-policy-v2.1.1.md`.

| Configuration | The document | The code |
|---|---|---|
| `MCBookingLifecycleConfirmedUnpaid` | POLICY:359, not authorized by T-12h is cancelled | the retry job lists PENDING bookings only; a student who confirmed early has a CONFIRMED one, which no job looks at again |
| `MCBookingLifecycleFailedCapture` | `capture_recovery.py`, "escalate after 72 hours" | each failed retry renews `capture_failed_at` every four hours |
| `MCBookingLifecycleCancelledPaid` | POLICY:214 and 372, the instructor gets nothing for 12-24 h, and is paid after collection only | a late cancellation whose capture failed is not retried (terminal) but is escalated, with full payment |
| `MCBookingLifecycleDoubleCharge` | POLICY:409, idempotent and protected against double execution | any failed capture of an old authorization, a lost reply included, is followed by a second intent; that takes a creation key already forgotten |
| `MCBookingLifecycleReviewCaptured` | `completion_service.py`, "pauses payment capture" | a cancellation reads the status, not the payment status |
| `MCBookingLifecycleLapseLateAuth` | POLICY's checklist:482, protected during lock TTL expiration | phase 3 of the authorization does not read the status again |
| `MCLockedFundsDispute` | `completion_service.py`, "This pauses payment capture pending resolution" | the resolution of a lock pays the instructor without asking whether the completion was disputed |
| `MCBackgroundCheckResumed` | `docs/runbooks/bgc-operations.md:13`, a resolved dispute resumes the final action | `bgc_dispute_opened_at` stays set, and stops the action brought forward (`background_check_workflow_service.py:711`) |

Seen while modelling, and part of the model's behaviour without a property of its own:

* The T-12h plan of the retry job is not revalidated against the payment status
  (`PlanMarkFailed`); `mark_lesson_complete` takes no mutex.
* `docs/stripe/payment-policy-v2.1-compliance-checklist.md:24` says that an administrator's
  cancellation settles the payment; without a refund the payment, and a hold, stay as they
  are, so `DeadBookingUnclaimed` is stated without administrators.
* `_mark_child_booking_settled` takes any resolution for a success; `dispute_upheld` settles
  although its capture failed; a failed reversal is never tried again.
* *Full credit without a reversal.* When Stripe's answer has no `transfer_amount`,
  `_attempt_cancellation_transfer_reversal` returns without a mark
  (`cancellation_stripe.py:92`), and the settlement asks only whether the reversal *failed*
  (`cancellation_late_finalize.py:112`, `cancellation_finalize.py:251`): the student has the
  credit and the instructor the transfer. `SettledMeansMoney` tells it by the missing
  `transfer_reversal_id`.
* *Refunds.* `routes/v1/admin/refunds.py:98` takes a part of the charge and writes an outcome
  that says full refund; a voided hold counts as a refund of the whole; after the refund of a
  no-show a forced cancellation without refund may rewrite the outcome.
* *Fresh reschedules.* `_rollback_reschedule_replacement` swallows its failure
  (`reschedule_execution.py:365`), and what `abort_pending_booking` answers is not looked at
  (`reschedule_service.py:388`): both lessons stay. An immediate authorization that failed is
  no error either, so the original is cancelled and the replacement left PENDING.
* *Credits.* `credit_repository.py:86-128` reads without FOR UPDATE, and the mutexes are those
  of different bookings: a release or a forfeit that has read a reserved credit overwrites the
  "revoked" that a lost dispute has committed meanwhile, and the revocation misses the half
  that a reservation has just split off. `expire_old_credits` is never called.
* *Clocks.* `timezone_service.py` says that all comparisons are made in UTC. Conflict checks
  (`conflict_checker.py:302`) and `bookings_no_overlap_per_student` compare the readings of the
  instructors' clocks: a student may have two lessons at one instant with instructors in two
  timezones, and is refused two that do not overlap.
* *Weeks.* A save without `base_version` is not checked (`bitmap_write.py:194`). After a 409 the
  browser takes over the server's version and keeps its own week (`useAvailability.ts:225`), so
  that the next save, after the dialog is closed, undoes the other session's days unasked.
  `save_week_bits` writes days that came with windows even when they are the same
  (`force_write_dates`); it has no caller outside the tests, and the live route does not force.
* *Suppressed events.* An availability event whose dates are past is marked SENT without a
  delivery (`notification_provider.py:122`).
* A dispute closed before it is created is frozen and reviewed afterwards for good; a
  credit taken by a suspension is skipped when the dispute is lost, and comes back when the
  suspension ends.
* The webhook's 503 paths roll back `attempt_count`, so that a retryable failure never
  reaches the dead letters; an exception in the transaction loses the event with a 200.
* Two saves of one day by two browsers: the second wins although its version matched. A
  `week_saved` key is the version of the content, so of A, B, A, B the second event is
  dropped.
* `outbox` counts may go down and exceed the limit; a late delivery may turn a settled row
  back to PENDING before it settles again.
* A live profile's adverse result is refused by the CHECK constraint, retried and given up;
  `go_live` does not ask for `bgc_valid_until`; a crash between the final adverse commit and
  its email means no email.

## 5. What is proved

With TLAPS, for every value of the constants that satisfies the named assumptions of the
modules: `LockModes`, `LostRepliesMode`, `MaxCrashesNat`, `QueueConstants`, `MaxChecksNat`,
`OutboxBounds` and their like (Booleans, natural numbers, and that a placeholder is not a
member). Where the table says "no lapses" the theorem assumes `~SlowHolders` and
`~RedisFaults`; "faultless" is `Faultless`: no lapses, `~LostReplies` and `MaxCrashes = 0`,
the constants of `MCBookingLifecycleClean`. The assumption is no
weaker than the properties need: with a lost reply `MCBookingLifecycleDoubleCharge` charges
twice, and a worker that dies between Stripe and the commit leaves the row behind the account.

| Theorem | Says |
|---|---|
| `LockTyping`, `LockExclusion`, `LockIsMutex` | type correctness; a lapse harms its own group; without lapses and Redis failures the lock excludes |
| `LifecycleTyping` | `StoreTypeOK` through every operation and every answer of Stripe |
| `MoneyActionsExclude` (no lapses) | `OneMoneyAction` |
| `StatusesFollowTable` | `StatusFollowsTable` |
| `DeadBookingsUnclaimed`, `NoChargeAfterDeath` (no lapses) | `DeadBookingUnclaimed`, `TerminalStopsCharges` |
| `SettledPaymentsAreFinal`, `ReviewedPaymentsAreFrozen` (no lapses) | `SettledIsFinal`, `ReviewFreezesMoney` |
| `AdministeredTyping`, `AdministratorsFollowTable` | the same of the types and the table with administrators, one of whose writes takes no mutex |
| `NobodyIsPaidTwice` | `PaidFromTheCharge`, in all fault modes, administrators included |
| `AdministratorsExclude` (no lapses) | `OneMoneyAction` with administrators |
| `SettlementsMeanMoney`, `OneChargePerLesson`, `AuthorizationsAreBacked` (faultless) | `SettledMeansMoney`, `AtMostOneCharge`, `AuthorizationIsBacked`, of the lifecycle with administrators, which `LifecycleIsAdministered` shows every behaviour of the lifecycle alone to be |
| `AdminSettlementsMeanMoney`, `AdminRefundsAreFinal` (faultless) | `AdminSettlementMeansMoney`, `AdminRefundIsFinal` |
| `FundsTyped`, `FundsImplementEscrow` | `NoShowTypeOK`; `LockIsAnEscrow`, deaths and lapses included |
| `SettledAfterLock` | `SettledAfterItsLock`, for any number of workers |
| `GivenOnce`, `OneLessonIsLeft`, `VerdictsStand` | `FundsGivenOnce`, `OneLesson`, `VerdictStands`, for any number of workers and lost replies (while nobody dies, no mutex lapses and no compensation fails) |
| `ScheduleTyped`, `NobodyIsDoubleBooked`, `BufferIsKept`, `OtherDaysAreKept` | `ScheduleTypeOK`, `NoDoubleBooking`, `BufferKept`, `OtherDaysSurvive`, for any calendar, timezones, buffer and browsers |
| `OutboxTyped`, `OutcomesAreEarned` | `OutboxTypeOK`, `OutcomeIsEarned`, for any events, tasks, deaths and limit |
| `BgcTyped`, `AdverseIsMailedOnce`, `ChainOfSweeps` | `BgcTypeOK`, `AdverseMailedOnce`, `SweepSurvives`, for any threads, stale fetches, attempts and faults |
| `DisputesTyped`, `DisputeDebitsOnce`, `DisputeRests`, `CreditsStayRevoked`, `DiscountsArePaidFor` | `DisputesTypeOK`, `DebitedOnce`, `ClosedDisputeRests`, `RevokedForGood`, `DiscountIsPaidFor`, for any requests, replays and deaths, and any overlap of the transactions |

**The arguments.**

*Lock.* `LockInv` adds to exclusion that as long as no lapse touched the present group, a
client inside implies that the key is in Redis; without it the induction does not know that
a second SET NX fails.

*Money actions.* The lifecycle is a behaviour of the lock (each operation steps through it
or leaves it alone), and `BusyInside` - a worker in the middle of an operation is inside -
transfers exclusion to operations.

*Dead bookings.* `DeadBookingUnclaimed` is not inductive, since a worker that began earlier
writes "authorized" without looking. `DeadInv` adds that no worker is charging (in the
middle of anything but an escalation) for a dead booking. Its step splits an operation into
when it starts (alive), what it leaves when it kills the booking (no claim, nobody else at
work, by exclusion) and what it writes to a dead one. The same three facts give
`NoChargeAfterDeath`; `MCBookingLifecycleLapseLateAuth` shows that the assumption about
lapses is needed.

*The instructor's net.* `PayoutInv`: a half is paid out only behind a transfer that was
reversed or a charge replaced since (`Backed`), also by the worker that is about to pay
(`JobBacked`); no call to Stripe takes that away (`AccountMoves`), because a charge can be
reversed and refunded once. No exclusion is needed, so it holds with lapses, deaths and lost
replies.

*Payments at rest.* That no step moves the money of a closed payment needs that nobody is
in the middle of an operation on it: `RestInv` says so (`ClosedRests`), with cancellations
as the exception for a payment in review (`ReviewRests`). Its step (`RestsWell`) asks of an
operation that it moves money only when it had begun before, that whoever writes a verdict
was alone and ends with it, and that none but a cancellation begins on a verdict. A
cancellation asks for the status and not for the payment, so the last part,
`PaidIsComplete`, keeps it off a paid lesson: a full payout is written with COMPLETED.

*Administrators.* Their actions are phases of the same store, so the lemmas about a step
(`LifecycleLockStep`, `LifecycleTypedStep`, `LifecycleStatusStep`) carry the old actions, and
only the new ones are proved again. `AdminComplete` leaves the lock alone and follows the
table by its own guard.

*Settlements.* Between a call to Stripe and the commit the row says less than the account
holds, so none of the money properties is inductive. `MoneyInv` says what each says of the
other: whenever nobody is in the middle of an operation the case is `AtRest` - one live
charge at most, and each payment status and settlement outcome names the account that goes
with it (`LiveRow`, `FailedRow`, `CancelledRow`), and what a worker knows of the intent is
so (`IntentKnown`); halfway through an operation there is instead one relation for each
kind of it and each phase (`Halfway`: charging, collecting, cancelling, escalating,
refunding, keeping). Exclusion (`OneMoneyAction`) makes the worker in the middle the only
one, so a step is judged by `MoneyKept` from what holds around its worker
(`MoneyAround`); the completion by the instructor, which takes no mutex, changes only what no
relation reads (`RowStays`). The five properties are then read off: a settled row is
`AtRest` or no relation allows it, and no operation begins on what an administrator settled.
`MoneyInv` was checked with TLC, with one client and two, before it was proved.

*Escrow.* A step that records a resolution revalidates the row, so a lock that is resolved
stays as it is; the invariant is typing with `CreditIsResolved` (no credit without its
decision). Everything else leaves `Fate` and the credit alone, or locks and unlocks.

*Locked funds after a fault.* `Company`: the mutex of a row keeps it to one worker, and after
the first death or lapse to two, of whom one is alone when the mutex is free.
`SettledAfterItsLock` then needs to know who may still lock the original: by the time there
is a replacement with locked funds one worker at most is left there (`OldIsLeft`), and one
who is about to lock (`Saving`) finds it locked already, or resolved (`SavesLate`,
`ReplacesLate`). Nor can a payment that has never been authorized be locked, which keeps the
move with a new payment apart from the lock (`FreshSound`, `CaseSound`). Most steps are
`Calm`: they leave what these facts read, or leave the original and nobody there
(`LeavesOld`).

*Locked funds without a fault.* Here `Exclusive` holds: while somebody locks the original
there is no replacement, and whoever settles the original finds none; so of all workers one
at most settles the lesson or locks it (`SettlesAlone`), although original and replacement
have a mutex each. `OneGoes` (a replacement beside a cancelled booking or a mover at work; a
compensation that fails is a fault and ends the premise) gives `OneLesson`, `VerdictSound` (an administrator's verdict is under way only while there
is none) gives `VerdictStands`. For `FundsGivenOnce`, `MoneySound`: funds that are locked and
not resolved have had their transfer reversed, and nothing was given out of them but by the
one worker that is about to record its plan, as that plan says (`Given`).

*Calendar.* `NoDoubleBooking` follows from the two exclusion constraints at each insert and
at each claim of a freed slot: they keep readings apart, and where clocks agree the readings
are apart exactly if the instants are. No constraint knows the buffer: `BufferKept` needs that the
holder of the advisory lock has checked against the rows as they are (`CheckHolds`), and
that only its insertion makes a booking sound; a request that authorizes a payment finds its
booking still PENDING (`PaysPending`). For `OtherDaysAreKept` the invariant is `WritesAreEdits`: since the
version sent was that of the week shown and equal to that of the server, the days on which a
checked save differs from the week are the days on which it differs from what its browser had
fetched, or days forced because they came as windows.

*Outbox.* `Covered(e, count)`: so many attempts, up to the limit, are behind the event, or
it was delivered. It holds of the row (`RowsAreEarned`) and of what each task has read and
is to write (`TaskEarned`), and only grows, so it survives a task that writes late. That an
event that waits has an attempt left (`OutboxTypeOK`) is kept by the tasks one by one
(`Attempting`): each judges the count it is about to write.

*Adverse action.* `MailInv`: of all threads at most one has committed the event and not
mailed yet, and then nothing was mailed before. The unique row of the event gives the step;
that it is committed before the email, and in a session of its own, is what the mutant
`FinalFlush` takes away.

*Sweeps.* `ChainInv`: a sweep has been tried at most once for every fault, so that none is
dead-lettered while faults are fewer than attempts; and the rows that some thread has
fetched twice are at most as many as such fetches (`Held`, by cardinality), one fewer than
there are rows. The successor of a sweep therefore finds a row that is not held, unless a
sweep waits in each of those already (`SweepPassesOn`); either way one waits. Deaths roll
back, and the other jobs touch other rows.

*Disputes.* `DebtInv`: the credit and its splits are worth two halves (`WorthTwo`), and the
balance is never below the debit on record, which is at most what the credit was worth
(`DebtOnRecord`). `DisputeRests` needs
`OneClaim`: unless it is a replay, the request that handles an event is the only one
of that event, and until it commits there is no row of it. For `CreditsStayRevoked`: only
`DisputeLost` makes a dispute lost, and nothing undoes that (`LostStays`, from `Decided`); its
commit takes what it has read and, when nobody else is at work, that is all (`LossTakesAll`);
and when all credits are gone and nobody has read one before, no operation finds one to take,
give back or freeze (`GoneForGood`). For `DiscountsArePaidFor`, `WalletInv`: before
the bank opens the dispute no request is about it (`Unsent`), and until then the credits
that are reserved are what was taken off the price of the open booking, split or not.

**Only model-checked.** Liveness under fairness is out of the prover's reach:
`KeyEventuallyFree`, `HeldMoneyMoves`, `LockIsResolved`, `EventIsSettled`,
`ExpiredGoesOffline`. Every other property of a passing run is the subject of a theorem.

## 6. Plan

1. *More proof.* The lessons with locked funds keep `OneLesson` and `VerdictStands` through
   faults that leave the mutex alone; which of the faultless money theorems survive a worker
   that dies before its call to Stripe.
2. *More of the system.* Checkout, which takes no booking mutex and confirms a PENDING
   booking; the gateway's refund with its confirmation token and idempotency row, which
   calls Stripe between reading and writing the booking; referral rewards (unlock, apply,
   reverse).
3. *An abstract specification of the settlement*: (charges, instructor's net, credit) that
   moves once, to one of the deals of the policy, and then stays.
