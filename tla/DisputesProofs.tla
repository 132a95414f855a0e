--------------------------- MODULE DisputesProofs ---------------------------
(* Proofs about Disputes for any number of workers, replays and crashes. *)
EXTENDS Disputes, TLAPS

-----------------------------------------------------------------------------
(* The credits of the lesson are worth two units at most, split or not.    *)
WorthTwo == /\ credit \in [Credits -> CreditType]
            /\ credit["issued"].units + credit["rest"].units <= 2

(* What was charged is on record, and the balance is never below it.       *)
DebtOnRecord == /\ student.balance \in Int
                /\ debited \in 0..2
                /\ student.balance >= -debited

LEMMA UnitsWorth ==
    ASSUME WorthTwo, NEW some
    PROVE  UnitsIn(some) \in 0..2
<1>1. credit["issued"].units \in 0..2 /\ credit["rest"].units \in 0..2
  BY DEF WorthTwo, Credits, CreditType
<1>2. QED
  BY <1>1 DEF UnitsIn, WorthTwo

(* A change of the credits that leaves their units alone. *)
LEMMA SameUnits ==
    ASSUME WorthTwo, credit' \in [Credits -> CreditType],
           \A k \in Credits : credit'[k].units = credit[k].units
    PROVE  WorthTwo'
  BY DEF WorthTwo, Credits

(* A credit of so many units, whatever its status. *)
LEMMA SplitTyped ==
    /\ NoCredit \in CreditType
    /\ [NoCredit EXCEPT !.status = "available", !.units = 1] \in CreditType
    /\ [NoCredit EXCEPT !.status = "available", !.units = 2] \in CreditType
    /\ \A c \in CreditType :
          [c EXCEPT !.status = "reserved", !.held = TRUE, !.units = 1] \in CreditType
<1> USE DEF CreditType, CreditStatuses
<1>0. 0 \in 0..2 /\ 1 \in 0..2 /\ 2 \in 0..2
  OBVIOUS
<1>1. NoCredit \in CreditType
  BY <1>0 DEF NoCredit
<1>2. ASSUME NEW c \in CreditType, NEW n \in 0..2
      PROVE  [c EXCEPT !.status = "available", !.units = n] \in CreditType
  OBVIOUS
<1>3. ASSUME NEW c \in CreditType, NEW n \in 0..2
      PROVE  [c EXCEPT !.status = "reserved", !.held = TRUE, !.units = n] \in CreditType
  OBVIOUS
<1>4. QED
  BY <1>0, <1>1, <1>2, <1>3

(* What a transaction makes of a row is a row of as many units. *)
LEMMA WriteWorth ==
    ASSUME WorthTwo, NEW who \in Readers, Write(who)
    PROVE  WorthTwo'
<1> DEFINE read == reads[who]
<1>1. PICK after \in {"available", "expired"} :
         credit' = [k \in Credits |-> IF k \in read.rows THEN Rewritten(read, k, after)
                                     ELSE credit[k]]
  BY DEF Write
<1> HIDE DEF read
<1>2. ASSUME NEW k \in Credits
      PROVE  Rewritten(read, k, after) \in CreditType
             /\ Rewritten(read, k, after).units = credit[k].units
  <2>1. credit[k] \in CreditType
    BY DEF WorthTwo
  <2>2. ASSUME NEW status \in CreditStatuses, NEW held \in BOOLEAN, NEW used \in BOOLEAN,
               NEW why \in {"none", "lost", "suspended"},
               Rewritten(read, k, after) = [credit[k] EXCEPT !.status = status, !.held = held,
                                                             !.used = used, !.why = why]
        PROVE  Rewritten(read, k, after) \in CreditType
               /\ Rewritten(read, k, after).units = credit[k].units
    BY <2>1, <2>2 DEF CreditType
  <2>3. QED
    BY <2>1 DEF Rewritten, CreditType, CreditStatuses
<1>3. \A k \in Credits : credit'[k] \in CreditType /\ credit'[k].units = credit[k].units
  BY <1>1, <1>2 DEF WorthTwo
<1>4. QED
  BY <1>1, <1>3, SameUnits

LEMMA WalletWorth ==
    ASSUME WorthTwo, Wallet
    PROVE  WorthTwo'
<1>1. CASE Book
  BY <1>1 DEF Book, WorthTwo
<1>2. ASSUME NEW units \in {1, 2}, Reserve(units)
      PROVE  WorthTwo'
  <2>1. /\ credit["issued"] \in CreditType /\ credit["rest"] \in CreditType
        /\ credit["issued"].units \in 0..2 /\ credit["rest"].units \in 0..2
    BY DEF WorthTwo, Credits, CreditType
  <2>2. CASE Splits(units)
    <3>1. credit["issued"].units = 2 /\ "issued" \in Taken(units)
      BY <2>2 DEF Splits, Taken
    <3>2. "rest" \notin Taken(units)
      BY <2>2 DEF Splits, Taken
    <3>3. /\ credit' = [k \in Credits |->
                          IF k = "issued"
                          THEN [credit["issued"] EXCEPT !.status = "reserved", !.held = TRUE,
                                                        !.units = 1]
                          ELSE [NoCredit EXCEPT !.status = "available", !.units = 1]]
      BY <1>2, <2>2, <3>1, <3>2 DEF Reserve, Kept, Credits
    <3>4. /\ [credit["issued"] EXCEPT !.status = "reserved", !.held = TRUE, !.units = 1]
                \in CreditType
          /\ [NoCredit EXCEPT !.status = "available", !.units = 1] \in CreditType
      BY <2>1, SplitTyped
    <3>5. credit'["issued"].units = 1 /\ credit'["rest"].units = 1
      <4>1. /\ [credit["issued"] EXCEPT !.status = "reserved", !.held = TRUE, !.units = 1].units
                  = 1
            /\ [NoCredit EXCEPT !.status = "available", !.units = 1].units = 1
        BY <2>1 DEF CreditType, NoCredit
      <4>2. QED
        BY <3>3, <4>1 DEF Credits
    <3>6. QED
      BY <3>3, <3>4, <3>5 DEF WorthTwo
  <2>3. CASE ~Splits(units)
    <3>1. credit' = [k \in Credits |->
                       IF k \in Taken(units)
                       THEN [credit[k] EXCEPT !.status = "reserved", !.held = TRUE,
                                              !.units = credit[k].units]
                       ELSE credit[k]]
      BY <1>2, <2>3 DEF Reserve, Kept
    <3>2. ASSUME NEW k \in Credits
          PROVE  credit'[k] \in CreditType /\ credit'[k].units = credit[k].units
      BY <3>1 DEF WorthTwo, CreditType, CreditStatuses
    <3>3. QED
      BY <3>1, <3>2, SameUnits
  <2>4. QED
    BY <2>2, <2>3
<1>3. ASSUME NEW who \in Readers, Write(who)
      PROVE  WorthTwo'
  BY <1>3, WriteWorth
<1>4. CASE Release \/ Forfeit \/ Suspend \/ Restore
  <2>1. UNCHANGED credit => WorthTwo'
    BY DEF WorthTwo
  <2>2. QED
    BY <1>3, <1>4, <2>1 DEF Release, Forfeit, Suspend, Restore, Readers
<1>5. CASE UNCHANGED credit
  BY <1>5 DEF WorthTwo
<1>6. QED
  BY <1>1, <1>2, <1>4, <1>5 DEF Wallet, ReadReserved, SuspendReads, RestoreReads, RolledBack

-----------------------------------------------------------------------------
StudentTyped == student \in [balance : Int, restricted : BOOLEAN,
                             suspended : {"never", "now", "lifted"}]

(* What a transaction has read; one that is not under way has read nothing.*)
ReadsTyped == /\ reads \in [Readers -> ReadType]
              /\ \A who \in Readers : reads[who].op = "none" => reads[who].rows = {}

LEMMA ReadsAreTyped ==
    ASSUME ReadsTyped, NEW who \in Readers
    PROVE  /\ \A op \in {"release", "forfeit", "suspend", "restore", "freeze", "unfreeze",
                        "revoke"}, some \in SUBSET Credits, spent \in 0..2 :
                 Read(who, op, some, spent) => ReadsTyped'
           /\ reads' = [reads EXCEPT ![who] = NoRead] => ReadsTyped'
           /\ Write(who) => ReadsTyped'
<1>1. ASSUME NEW read \in ReadType, read.op = "none" => read.rows = {},
             reads' = [reads EXCEPT ![who] = read]
      PROVE  ReadsTyped'
  BY <1>1 DEF ReadsTyped
<1>2. ASSUME NEW op \in {"release", "forfeit", "suspend", "restore", "freeze",
                         "unfreeze", "revoke"},
             NEW some \in SUBSET Credits, NEW spent \in 0..2,
             Read(who, op, some, spent)
      PROVE  ReadsTyped'
  <2> DEFINE read == [op |-> op, rows |-> some, held |-> {k \in some : credit[k].held},
                      spent |-> spent]
  <2>1. read \in ReadType /\ read.op # "none"
    BY DEF ReadType
  <2>2. reads' = [reads EXCEPT ![who] = read]
    BY <1>2 DEF Read
  <2> HIDE DEF read
  <2>3. QED
    BY <1>1, <2>1, <2>2
<1>3. NoRead \in ReadType /\ NoRead.rows = {}
  BY DEF NoRead, ReadType
<1>4. reads' = [reads EXCEPT ![who] = NoRead] => ReadsTyped'
  BY <1>1, <1>3
<1>5. QED
  BY <1>2, <1>4 DEF Write

DebtInv == WorthTwo /\ StudentTyped /\ DebtOnRecord /\ ReadsTyped

(* The wallet's own operations read what there is. *)
LEMMA WalletReads ==
    ASSUME DebtInv, Wallet
    PROVE  ReadsTyped'
<1> USE DEF DebtInv
<1>0. {k \in Credits : Reserved(k)} \in SUBSET Credits /\ ToRestore \in SUBSET Credits
      /\ {k \in Credits : credit[k].status \notin {"absent", "revoked", "forfeited", "expired"}}
            \in SUBSET Credits
      /\ "booking" \in Readers /\ "admin" \in Readers /\ 0 \in 0..2
  BY DEF ToRestore, Readers
<1>1. UNCHANGED reads => ReadsTyped'
  BY DEF ReadsTyped
<1>2. ASSUME NEW op \in {"release", "forfeit"}, ReadReserved(op)
      PROVE  ReadsTyped'
  BY <1>0, <1>2, ReadsAreTyped DEF ReadReserved
<1>3. CASE SuspendReads \/ RestoreReads
  BY <1>0, <1>3, ReadsAreTyped DEF SuspendReads, RestoreReads
<1>4. CASE Release \/ Forfeit \/ Suspend \/ Restore
  BY <1>0, <1>1, <1>4, ReadsAreTyped DEF Release, Forfeit, Suspend, Restore
<1>5. ASSUME NEW who \in {"booking", "admin"}, RolledBack(who)
      PROVE  ReadsTyped'
  BY <1>0, <1>5, ReadsAreTyped DEF RolledBack
<1>6. CASE Book \/ \E units \in {1, 2} : Reserve(units)
  BY <1>1, <1>6 DEF Book, Reserve
<1>7. QED
  BY <1>2, <1>3, <1>4, <1>5, <1>6 DEF Wallet

LEMMA StepKeepsDebt ==
    ASSUME DebtInv, DisputesNext
    PROVE  DebtInv'
<1> USE DEF DebtInv
<1>0. ASSUME UNCHANGED <<credit, student, debited, reads>>
      PROVE  DebtInv'
  BY <1>0 DEF WorthTwo, StudentTyped, DebtOnRecord, ReadsTyped
<1>w. "dispute" \in Readers
  BY DEF Readers
<1>b. ASSUME NEW amount \in 0..2
      PROVE
         /\ Debited(amount).balance = student.balance - amount
         /\ Cleared(amount).balance = student.balance + amount
         /\ Debited(amount) \in [balance : Int, restricted : BOOLEAN,
                                 suspended : {"never", "now", "lifted"}]
         /\ Cleared(amount) \in [balance : Int, restricted : BOOLEAN,
                                 suspended : {"never", "now", "lifted"}]
  <2>1. /\ student.balance - amount \in Int /\ student.balance + amount \in Int
        /\ (student.restricted \/ student.balance - amount < 0) \in BOOLEAN
        /\ (student.restricted /\ student.balance + amount < 0) \in BOOLEAN
    BY DEF StudentTyped
  <2>2. ASSUME NEW sum \in Int, NEW flag \in BOOLEAN
        PROVE  /\ [student EXCEPT !.balance = sum, !.restricted = flag].balance = sum
               /\ [student EXCEPT !.balance = sum, !.restricted = flag]
                     \in [balance : Int, restricted : BOOLEAN,
                         suspended : {"never", "now", "lifted"}]
    BY DEF StudentTyped
  <2>3. QED
    BY <2>1, <2>2 DEF Debited, Cleared
<1>1. ASSUME Wallet
      PROVE  DebtInv'
  <2>1. student'.balance = student.balance /\ StudentTyped' /\ UNCHANGED debited
    BY <1>1 DEF Wallet, Book, Reserve, ReadReserved, Release, Forfeit, SuspendReads, Suspend,
       RestoreReads, Restore, RolledBack, StudentTyped, disputeVars
  <2>2. QED
    BY <1>1, <2>1, WalletWorth, WalletReads DEF DebtOnRecord
<1>c. ASSUME NEW w \in Workers, NEW e, NEW op, DisputeCommits(w, e, op)
      PROVE  WorthTwo' /\ ReadsTyped' /\ reads["dispute"].spent \in 0..2
  BY <1>c, <1>w, WriteWorth, ReadsAreTyped DEF DisputeCommits, ReadsTyped, ReadType
<1>2. ASSUME NEW w \in Workers, DisputeOpened(w)
      PROVE  DebtInv'
  <2>1. WorthTwo' /\ ReadsTyped' /\ reads["dispute"].spent \in 0..2
    BY <1>2, <1>c DEF DisputeOpened
  <2>2. Charge(reads["dispute"].spent)
    BY <1>2 DEF DisputeOpened
  <2>3. QED
    BY <1>b, <2>1, <2>2 DEF Charge, DebtOnRecord, StudentTyped
<1>3. ASSUME NEW w \in Workers, DisputeWon(w)
      PROVE  DebtInv'
  <2>1. /\ WorthTwo' /\ ReadsTyped' /\ UNCHANGED debited
        /\ student' = IF debited > 0 THEN Cleared(debited) ELSE student
    BY <1>3, <1>c DEF DisputeWon
  <2>2. QED
    BY <1>b, <2>1 DEF DebtOnRecord, StudentTyped
<1>4. ASSUME NEW w \in Workers, DisputeLost(w)
      PROVE  DebtInv'
  <2> DEFINE owed == IF debited = 0 THEN reads["dispute"].spent ELSE 0
  <2>1. /\ WorthTwo' /\ ReadsTyped' /\ reads["dispute"].spent \in 0..2
        /\ student' = [Debited(owed) EXCEPT !.restricted = TRUE]
        /\ debited' = debited + owed
    BY <1>4, <1>c DEF DisputeLost
  <2>2. owed \in 0..2 /\ (debited # 0 => owed = 0)
    BY <2>1
  <2>3. student'.balance = student.balance - owed /\ StudentTyped'
    BY <1>b, <2>1, <2>2 DEF StudentTyped
  <2>4. QED
    BY <1>b, <2>1, <2>2, <2>3 DEF DebtOnRecord
<1>5. ASSUME NEW w \in Workers,
             \/ \E e \in Events : Claim(w, e) \/ Replay(w, e)
             \/ Finish(w),
             UNCHANGED <<creditVars, disputeVars>>
      PROVE  DebtInv'
  BY <1>0, <1>5 DEF creditVars, disputeVars
<1>6. ASSUME NEW w \in Workers,
             DisputeStart(w) \/ DisputeReverse(w) \/ IntentHandled(w)
      PROVE  DebtInv'
  BY <1>0, <1>6 DEF DisputeStart, DisputeReverse, IntentHandled, creditVars, disputeVars
<1>r. ASSUME ReadsTyped', UNCHANGED <<credit, student, debited>>
      PROVE  DebtInv'
  BY <1>r DEF WorthTwo, StudentTyped, DebtOnRecord
<1>d. ASSUME NEW w \in Workers, RequestDies(w)
      PROVE  DebtInv'
  <2>1. ReadsTyped'
    BY <1>d, <1>w, ReadsAreTyped DEF RequestDies, ReadsTyped
  <2>2. QED
    BY <1>d, <1>r, <2>1 DEF RequestDies
<1>s. ASSUME NEW w \in Workers, DisputeReads(w)
      PROVE  DebtInv'
  <2>1. PICK op \in {"freeze", "unfreeze", "revoke"} :
           Read("dispute", op, Affected(op), IF op = "unfreeze" THEN 0 ELSE Spent(Affected(op)))
    BY <1>s DEF DisputeReads
  <2>2. Affected(op) \in SUBSET Credits
    BY DEF Affected
  <2>3. (IF op = "unfreeze" THEN 0 ELSE Spent(Affected(op))) \in 0..2
    BY UnitsWorth DEF Spent
  <2>4. ReadsTyped'
    BY <1>w, <2>1, <2>2, <2>3, ReadsAreTyped
  <2>5. QED
    BY <1>r, <1>s, <2>4 DEF DisputeReads, disputeVars
<1>7. ASSUME \/ BankOpens \/ BankDecides \/ OtherOperation \/ Authorize \/ RecordSaved
             \/ \E e \in Events : Duplicate(e) /\ UNCHANGED <<creditVars, disputeVars>>
      PROVE  DebtInv'
  BY <1>0, <1>7 DEF BankOpens, BankDecides, OtherOperation, Authorize, RecordSaved, creditVars,
     disputeVars
<1>8. QED
  BY <1>1, <1>2, <1>3, <1>4, <1>5, <1>6, <1>7, <1>d, <1>s DEF DisputesNext, Request

(* The debt on record is an invariant of every behaviour. *)
LEMMA DebtIsKept == DisputesSafety => []DebtInv
<1>1. DisputesInit => DebtInv
  <2>1. CreditsInit => WorthTwo
    <3> DEFINE first == [NoCredit EXCEPT !.status = "available", !.units = 2]
    <3>1. first \in CreditType /\ NoCredit \in CreditType
      BY SplitTyped
    <3>2. NoCredit.units = 0
      BY DEF NoCredit
    <3>3. first.units = 2
      BY <3>1 DEF CreditType
    <3>4. CreditsInit => credit = [k \in Credits |-> IF k = "issued" THEN first ELSE NoCredit]
      BY DEF CreditsInit
    <3> HIDE DEF first
    <3>5. QED
      BY <3>1, <3>2, <3>3, <3>4 DEF WorthTwo, Credits
  <2>2. DisputesInit => StudentTyped /\ DebtOnRecord
    BY DEF DisputesInit, CreditsInit, StudentTyped, DebtOnRecord
  <2>4. DisputesInit => ReadsTyped
    BY DEF DisputesInit, CreditsInit, ReadsTyped, ReadType, NoRead
  <2>3. QED
    BY <2>1, <2>2, <2>4 DEF DisputesInit, DebtInv
<1>2. DebtInv /\ [DisputesNext]_vars => DebtInv'
  <2>1. DebtInv /\ UNCHANGED vars => DebtInv'
    BY DEF DebtInv, WorthTwo, StudentTyped, DebtOnRecord, ReadsTyped, vars, creditVars,
       disputeVars
  <2>2. QED
    BY <2>1, StepKeepsDebt
<1>3. QED
  BY <1>1, <1>2, PTL DEF DisputesSafety

(* A dispute never costs the student more than the credits that were       *)
(* issued (DebitedOnce), however its events come.                          *)
THEOREM DisputeDebitsOnce == DisputesSafety => []DebitedOnce
<1>1. DebtInv => DebitedOnce
  BY DEF DebtInv, DebtOnRecord, DebitedOnce
<1>2. QED
  BY <1>1, DebtIsKept, PTL

-----------------------------------------------------------------------------
(* A request whose handler has not committed yet is the only one of its    *)
(* event, and there is no row of it; a replay says that it was one.        *)
Unfinished == {"handle", "reverse", "apply", "commit"}
OneClaim ==
    /\ calls \in [Workers -> CallType]
    /\ ledger \in [Events -> {"absent", "processing", "processed"}]
    /\ replays \in Nat
    /\ \A w \in Workers : calls[w].replay => replays > 0
    /\ \A w \in Workers : ~calls[w].replay /\ calls[w].at \in Unfinished =>
                             ledger[calls[w].event] = "absent"
    /\ \A w \in Workers : calls[w].at # "none" => calls[w].event \in Events
    /\ \A v, w \in Workers : /\ calls[v].event \in Events
                             /\ calls[v].event = calls[w].event
                             /\ ~calls[v].replay /\ ~calls[w].replay
                             => v = w

(* The steps of the ledger that leave one request in another state and     *)
(* write no row but that of its event.                                     *)
LEMMA OneRequestMoves ==
    ASSUME OneClaim, NEW w \in Workers, NEW call \in CallType,
           calls' = [calls EXCEPT ![w] = call],
           ledger' \in [Events -> {"absent", "processing", "processed"}],
           replays' \in Nat, replays' >= replays,
           call.replay => replays' > 0,
           call.at # "none" => call.event \in Events,
           \/ call.event \notin Events \/ call.replay
           \/ call.event = calls[w].event /\ ~calls[w].replay
           \/ \A v \in Workers : calls[v].event = call.event => calls[v].replay,
           ~call.replay /\ call.at \in Unfinished =>
              ledger'[call.event] = "absent",
           \A e \in Events : \/ ledger'[e] = ledger[e]
                             \/ e = calls[w].event /\ ~calls[w].replay
    PROVE  OneClaim'
<1>1. calls' \in [Workers -> CallType] /\ calls'[w] = call
      /\ \A v \in Workers : v # w => calls'[v] = calls[v]
  BY DEF OneClaim
<1>2. \A v \in Workers : calls'[v].replay => replays' > 0
  BY <1>1 DEF OneClaim
<1>3. \A v \in Workers : calls'[v].at # "none" => calls'[v].event \in Events
  BY <1>1 DEF OneClaim
<1>4. ASSUME NEW v \in Workers, ~calls'[v].replay,
             calls'[v].at \in Unfinished
      PROVE  ledger'[calls'[v].event] = "absent"
  BY <1>1, <1>4 DEF OneClaim, Unfinished
<1>5. ASSUME NEW u \in Workers, NEW v \in Workers, calls'[u].event \in Events,
             calls'[u].event = calls'[v].event, ~calls'[u].replay, ~calls'[v].replay
      PROVE  u = v
  BY <1>1, <1>5 DEF OneClaim
<1>6. QED
  BY <1>1, <1>2, <1>3, <1>4, <1>5 DEF OneClaim

LEMMA StepKeepsOneClaim ==
    ASSUME OneClaim, DisputesNext
    PROVE  OneClaim'
<1> USE DEF Unfinished
<1>0. ASSUME UNCHANGED <<ledger, calls, replays>>
      PROVE  OneClaim'
  BY <1>0 DEF OneClaim
<1>i. /\ Idle \in CallType /\ Idle.event \notin Events /\ ~Idle.replay /\ Idle.at = "none"
      /\ \A w \in Workers : calls[w] \in CallType
  BY DEF Idle, CallType, Steps, Events, OneClaim
<1>m. ASSUME NEW w \in Workers, NEW step \in {"reverse", "apply", "commit", "finish"},
             calls[w].at # "none",
             calls' = [calls EXCEPT ![w].at = step], UNCHANGED replays,
             \/ UNCHANGED ledger /\ calls[w].at \in Unfinished
             \/ Commits(w) /\ step = "finish"
      PROVE  OneClaim'
  <2> DEFINE call == [calls[w] EXCEPT !.at = step]
  <2>1. call \in CallType /\ call.event = calls[w].event /\ call.replay = calls[w].replay
        /\ call.at = step
    BY <1>i DEF CallType, Steps
  <2>2. calls' = [calls EXCEPT ![w] = call]
    BY <1>m
  <2>3. calls[w].event \in Events
    BY <1>m DEF OneClaim
  <2>4. /\ ledger' \in [Events -> {"absent", "processing", "processed"}]
        /\ \A e \in Events : \/ ledger'[e] = ledger[e]
                             \/ e = calls[w].event /\ ~calls[w].replay
    BY <1>m, <2>3 DEF Commits, OneClaim
  <2>5. ~call.replay /\ call.at \in Unfinished =>
           ledger'[call.event] = "absent"
    BY <1>m, <2>1 DEF OneClaim
  <2>6. call.replay => replays' > 0
    BY <1>m, <2>1 DEF OneClaim
  <2>7. replays' \in Nat /\ replays' >= replays
    BY <1>m DEF OneClaim
  <2> HIDE DEF call
  <2>8. QED
    BY <2>1, <2>2, <2>3, <2>4, <2>5, <2>6, <2>7, OneRequestMoves
<1>e. ASSUME NEW w \in Workers, calls' = [calls EXCEPT ![w] = Idle], UNCHANGED replays,
             ledger' \in [Events -> {"absent", "processing", "processed"}],
             \A e \in Events : \/ ledger'[e] = ledger[e]
                               \/ e = calls[w].event /\ ~calls[w].replay
      PROVE  OneClaim'
  <2>1. replays' \in Nat /\ replays' >= replays
    BY <1>e DEF OneClaim
  <2>2. QED
    BY <1>e, <1>i, <2>1, OneRequestMoves
<1>1. ASSUME NEW w \in Workers, NEW e \in Events, Claim(w, e)
      PROVE  OneClaim'
  <2> DEFINE call == [event |-> e, at |-> "handle", replay |-> FALSE]
  <2>1. call \in CallType /\ calls' = [calls EXCEPT ![w] = call]
    BY <1>1 DEF Claim, CallType, Steps
  <2>2. \A v \in Workers : calls[v].event = e => calls[v].replay
    BY <1>1 DEF Claim, Claimed
  <2>3. /\ ledger'[e] = "absent" /\ UNCHANGED <<ledger, replays>>
        /\ replays' \in Nat /\ replays' >= replays
        /\ ledger' \in [Events -> {"absent", "processing", "processed"}]
    BY <1>1 DEF Claim, OneClaim
  <2>4. call.event = e /\ ~call.replay
    OBVIOUS
  <2> HIDE DEF call
  <2>5. QED
    BY <2>1, <2>2, <2>3, <2>4, OneRequestMoves
<1>2. ASSUME NEW w \in Workers, NEW e \in Events, Replay(w, e)
      PROVE  OneClaim'
  <2> DEFINE call == [event |-> e, at |-> "handle", replay |-> TRUE]
  <2>1. call \in CallType /\ calls' = [calls EXCEPT ![w] = call]
    BY <1>2 DEF Replay, CallType, Steps
  <2>2. /\ UNCHANGED ledger /\ replays' \in Nat /\ replays' >= replays /\ replays' > 0
        /\ ledger' \in [Events -> {"absent", "processing", "processed"}]
    BY <1>2 DEF Replay, OneClaim
  <2>3. call.event = e /\ call.replay
    OBVIOUS
  <2> HIDE DEF call
  <2>4. QED
    BY <2>1, <2>2, <2>3, OneRequestMoves
<1>3. ASSUME NEW w \in Workers, Finish(w)
      PROVE  OneClaim'
  <2>1. calls[w].event \in Events
    BY <1>3 DEF Finish, OneClaim
  <2>2. /\ calls' = [calls EXCEPT ![w] = Idle] /\ UNCHANGED replays
        /\ \/ UNCHANGED ledger
           \/ /\ ~calls[w].replay
              /\ ledger' = [ledger EXCEPT ![calls[w].event] = "processed"]
    BY <1>3 DEF Finish
  <2>3. /\ ledger' \in [Events -> {"absent", "processing", "processed"}]
        /\ \A e \in Events : \/ ledger'[e] = ledger[e]
                             \/ e = calls[w].event /\ ~calls[w].replay
    BY <2>1, <2>2 DEF OneClaim
  <2>4. QED
    BY <2>2, <2>3, <1>e
<1>4. ASSUME NEW w \in Workers, DisputeStart(w)
      PROVE  OneClaim'
  <2>1. CASE mutex = "free"
    BY <1>4, <2>1, <1>m DEF DisputeStart, GoOn, At
  <2>2. CASE mutex # "free"
    BY <1>4, <2>2, <1>e DEF DisputeStart, Refused, OneClaim
  <2>3. QED
    BY <2>1, <2>2
<1>5. ASSUME NEW w \in Workers, DisputeReverse(w)
      PROVE  OneClaim'
  BY <1>5, <1>m DEF DisputeReverse, GoOn, At
<1>s. ASSUME NEW w \in Workers, DisputeReads(w)
      PROVE  OneClaim'
  BY <1>s, <1>m DEF DisputeReads, GoOn, At
<1>6. ASSUME NEW w \in Workers, Handled(w), calls[w].at # "none"
      PROVE  OneClaim'
  BY <1>6, <1>m DEF Handled
<1>7. ASSUME NEW w \in Workers, IntentHandled(w)
      PROVE  OneClaim'
  <2>1. CASE intent = "saved"
    BY <1>6, <1>7, <2>1 DEF IntentHandled, At
  <2>2. CASE intent # "saved"
    <3>1. calls[w].event \in Events /\ calls' = [calls EXCEPT ![w] = Idle]
          /\ UNCHANGED replays /\ Commits(w)
      BY <1>7, <2>2 DEF IntentHandled, At, Refused, Events
    <3>2. QED
      BY <3>1, <1>e DEF Commits, OneClaim
  <2>3. QED
    BY <2>1, <2>2
<1>8. ASSUME NEW w \in Workers, RequestDies(w)
      PROVE  OneClaim'
  BY <1>8, <1>e DEF RequestDies, Dies, OneClaim
<1>9. ASSUME NEW w \in Workers, Request(w)
      PROVE  OneClaim'
  <2>1. DisputeOpened(w) \/ DisputeWon(w) \/ DisputeLost(w) =>
           Handled(w) /\ calls[w].at # "none"
    BY DEF DisputeOpened, DisputeWon, DisputeLost, DisputeCommits, At
  <2>2. QED
    BY <1>9, <2>1, <1>s, <1>1, <1>2, <1>3, <1>4, <1>5, <1>6, <1>7, <1>8 DEF Request
<1>10. QED
  BY <1>0, <1>9 DEF DisputesNext, BankOpens, BankDecides, OtherOperation, Authorize,
     RecordSaved, Duplicate, Wallet, ledgerVars

LEMMA ClaimIsKept == DisputesSafety => []OneClaim
<1>1. DisputesInit => OneClaim
  BY DEF DisputesInit, LedgerInit, OneClaim, Unfinished, Idle, CallType, Steps, Events
<1>2. OneClaim /\ UNCHANGED vars => OneClaim'
  BY DEF OneClaim, vars, ledgerVars
<1>3. QED
  BY <1>1, <1>2, StepKeepsOneClaim, PTL DEF DisputesSafety

(* What was decided of a dispute stays as it is: once both of its events   *)
(* are in the ledger, only an administrator's replay touches the lesson's  *)
(* payment or the student's balance (ClosedDisputeRests).                  *)
THEOREM DisputeRests == DisputesSafety => ClosedDisputeRests
<1> DEFINE Quiet == (\A e \in {"created", "closed"} : ledger[e] # "absent") /\ replays = 0
           Rests == Quiet => lesson'.pay = lesson.pay /\ student'.balance = student.balance
<1>1. ASSUME DebtInv, OneClaim, [DisputesNext]_vars
      PROVE  Rests
  <2>1. ASSUME Quiet, NEW w \in Workers,
               At(w, "created", "commit") \/ At(w, "closed", "commit")
        PROVE  FALSE
    BY <1>1, <2>1 DEF At, OneClaim, Unfinished
  <2>2. ASSUME Quiet, NEW w \in Workers, Request(w)
        PROVE  UNCHANGED <<lesson, student>>
    <3>1. ~DisputeOpened(w) /\ ~DisputeWon(w) /\ ~DisputeLost(w)
      BY <2>1, <2>2 DEF DisputeOpened, DisputeWon, DisputeLost, DisputeCommits
    <3>2. QED
      BY <2>2, <3>1 DEF Request, DisputeStart, DisputeReverse, DisputeReads, IntentHandled,
         RequestDies, creditVars, disputeVars
  <2>3. ASSUME Wallet
        PROVE  UNCHANGED lesson /\ student'.balance = student.balance
    BY <1>1, <2>3 DEF Wallet, Book, Reserve, ReadReserved, Release, Forfeit, SuspendReads,
       Suspend, RestoreReads, Restore, RolledBack, DebtInv, StudentTyped, disputeVars
  <2>4. QED
    BY <1>1, <2>2, <2>3 DEF DisputesNext, BankOpens, BankDecides, OtherOperation, Authorize,
       RecordSaved, creditVars, disputeVars, vars
<1>2. DebtInv /\ OneClaim /\ [DisputesNext]_vars => [Rests]_vars
  BY <1>1
<1>3. QED
  BY <1>2, DebtIsKept, ClaimIsKept, PTL DEF DisputesSafety, ClosedDisputeRests

-----------------------------------------------------------------------------
(* The columns that the lemmas above leave open. *)
RestTyped == /\ sent \in [Events -> {"no", "due", "acked"}]
             /\ replays \in 0..MaxReplays
             /\ crashes \in 0..MaxCrashes
             /\ next \in NextType
             /\ lesson \in LessonType
             /\ verdict \in {"none", "won", "lost"}
             /\ mutex \in Workers \cup {"free", "other"}
             /\ intent \in {"none", "stripe", "saved"}

LEMMA WalletTyped ==
    ASSUME RestTyped, WorthTwo, Wallet
    PROVE  RestTyped'
<1>1. next' \in NextType
  <2>0. next \in NextType
    BY DEF RestTyped
  <2>1. CASE Book
    BY <2>1 DEF Book, NextType
  <2>2. ASSUME NEW units \in {1, 2}, Reserve(units)
        PROVE  next' \in NextType
    <3>1. (IF Splits(units) THEN 1 ELSE UnitsIn(Taken(units))) \in 0..2
      BY UnitsWorth
    <3>2. QED
      BY <2>0, <2>2, <3>1 DEF Reserve, NextType
  <2>3. CASE Release \/ Forfeit
    BY <2>0, <2>3 DEF Release, Forfeit, NextType
  <2>4. CASE UNCHANGED next
    BY <2>0, <2>4
  <2>5. Suspend \/ Restore \/ SuspendReads \/ RestoreReads => UNCHANGED next
    BY DEF Suspend, Restore, SuspendReads, RestoreReads
  <2>6. (\E op \in {"release", "forfeit"} : ReadReserved(op)) => UNCHANGED next
    BY DEF ReadReserved
  <2>7. (\E who \in {"booking", "admin"} : RolledBack(who)) => UNCHANGED next
    BY DEF RolledBack
  <2>8. QED
    BY <2>5, <2>6, <2>7, <2>1, <2>2, <2>3, <2>4 DEF Wallet
<1>2. QED
  BY <1>1 DEF RestTyped, Wallet, ledgerVars, disputeVars

LEMMA RequestTyped ==
    ASSUME RestTyped, OneClaim, NEW w \in Workers, Request(w)
    PROVE  RestTyped'
<1> USE LedgerBounds DEF RestTyped
<1>1. ASSUME NEW e \in Events, Claim(w, e) \/ Replay(w, e),
             UNCHANGED <<creditVars, disputeVars>>
      PROVE  RestTyped'
  BY <1>1 DEF Claim, Replay, creditVars, disputeVars
<1>2. ASSUME Finish(w), UNCHANGED <<creditVars, disputeVars>>
      PROVE  RestTyped'
  BY <1>2 DEF Finish, creditVars, disputeVars
<1>3. CASE DisputeStart(w)
  BY <1>3 DEF DisputeStart, GoOn, Refused, creditVars
<1>4. CASE DisputeReverse(w)
  BY <1>4 DEF DisputeReverse, GoOn, creditVars, disputeVars
<1>s. CASE DisputeReads(w)
  BY <1>s DEF DisputeReads, GoOn, disputeVars
<1>5. CASE DisputeOpened(w) \/ DisputeWon(w) \/ DisputeLost(w)
  <2>1. lesson' \in LessonType
    BY <1>5 DEF DisputeOpened, DisputeWon, DisputeLost, LessonType
  <2>2. PICK e, op : DisputeCommits(w, e, op)
    BY <1>5 DEF DisputeOpened, DisputeWon, DisputeLost
  <2>3. QED
    BY <2>1, <2>2 DEF DisputeCommits, Handled
<1>6. CASE IntentHandled(w)
  BY <1>6 DEF IntentHandled, Handled, Refused, creditVars, disputeVars
<1>7. CASE RequestDies(w)
  BY <1>7 DEF RequestDies, Dies, creditVars
<1>8. QED
  BY <1>1, <1>2, <1>3, <1>4, <1>5, <1>6, <1>7, <1>s DEF Request

LEMMA StepTyped ==
    ASSUME RestTyped, DebtInv, OneClaim, DisputesNext
    PROVE  RestTyped'
<1>1. CASE BankOpens \/ BankDecides \/ OtherOperation \/ Authorize \/ RecordSaved
  BY <1>1 DEF RestTyped, BankOpens, BankDecides, OtherOperation, Authorize, RecordSaved,
     creditVars, disputeVars, ledgerVars
<1>2. ASSUME NEW e \in Events, Duplicate(e), UNCHANGED <<creditVars, disputeVars>>
      PROVE  RestTyped'
  BY <1>2 DEF RestTyped, Duplicate, creditVars, disputeVars
<1>3. QED
  BY <1>1, <1>2, WalletTyped, RequestTyped DEF DisputesNext, DebtInv

LEMMA TypesAreKept == DisputesSafety => []RestTyped
<1>1. DisputesInit => RestTyped
  BY LedgerBounds DEF DisputesInit, LedgerInit, CreditsInit, RestTyped, NextType, LessonType
<1>2. RestTyped /\ UNCHANGED vars => RestTyped'
  BY DEF RestTyped, vars, ledgerVars, creditVars, disputeVars
<1>3. QED
  BY <1>1, <1>2, StepTyped, DebtIsKept, ClaimIsKept, PTL DEF DisputesSafety

(* The ledger, the wallet and the dispute have their types (DisputesTypeOK)*)
(* and the amounts stay within the two units that were issued.             *)
THEOREM DisputesTyped == DisputesSafety => []DisputesTypeOK
<1>1. RestTyped /\ DebtInv /\ OneClaim => DisputesTypeOK
  BY DEF RestTyped, DebtInv, WorthTwo, StudentTyped, DebtOnRecord, OneClaim, DisputesTypeOK,
     LedgerTypeOK, CreditsTypeOK, StudentType, ReadsTyped
<1>2. QED
  BY <1>1, TypesAreKept, DebtIsKept, ClaimIsKept, PTL

-----------------------------------------------------------------------------
(* What was decided of the dispute stays decided, and a handler that is at *)
(* work on a loss, or one that was, has it from the bank.                  *)
Decided == /\ sent \in [Events -> {"no", "due", "acked"}]
           /\ verdict # "none" => sent["closed"] # "no"
           /\ Lost => verdict = "lost"
           /\ reads["dispute"].op = "revoke" => verdict = "lost"
           /\ reads["dispute"].op = "unfreeze" => verdict = "won"

LEMMA StepDecided ==
    ASSUME Decided, ReadsTyped, RestTyped, OneClaim, DisputesNext
    PROVE  Decided'
<1>0. "closed" \in Events /\ "created" \in Events /\ "intent" \in Events
      /\ "dispute" \in Readers /\ "booking" \in Readers /\ "admin" \in Readers
      /\ reads \in [Readers -> ReadType] /\ NoRead.op = "none"
  BY DEF Events, Readers, ReadsTyped, NoRead
<1>1. /\ sent' \in [Events -> {"no", "due", "acked"}]
      /\ sent["closed"] # "no" => sent'["closed"] # "no"
  <2>1. ASSUME NEW e \in Events, NEW mark \in {"due", "acked"},
               sent' = [sent EXCEPT ![e] = mark]
        PROVE  /\ sent' \in [Events -> {"no", "due", "acked"}]
               /\ sent["closed"] # "no" => sent'["closed"] # "no"
    BY <1>0, <2>1 DEF Decided
  <2>2. UNCHANGED sent => /\ sent' \in [Events -> {"no", "due", "acked"}]
                          /\ sent["closed"] # "no" => sent'["closed"] # "no"
    BY DEF Decided
  <2>3. CASE BankOpens \/ BankDecides \/ Authorize
    BY <1>0, <2>1, <2>3 DEF BankOpens, BankDecides, Authorize
  <2>4. ASSUME NEW e \in Events, Duplicate(e)
        PROVE  /\ sent' \in [Events -> {"no", "due", "acked"}]
               /\ sent["closed"] # "no" => sent'["closed"] # "no"
    BY <2>1, <2>4 DEF Duplicate
  <2>5. CASE OtherOperation \/ RecordSaved \/ Wallet
    BY <2>2, <2>5 DEF OtherOperation, RecordSaved, Wallet, ledgerVars
  <2>6. ASSUME NEW w \in Workers, Finish(w)
        PROVE  /\ sent' \in [Events -> {"no", "due", "acked"}]
               /\ sent["closed"] # "no" => sent'["closed"] # "no"
    BY <2>1, <2>2, <2>6 DEF Finish, OneClaim
  <2>7. ASSUME NEW w \in Workers, Request(w), ~Finish(w)
        PROVE  UNCHANGED sent
    BY <2>7 DEF Request, Claim, Replay, DisputeStart, DisputeReverse, DisputeReads,
       DisputeOpened, DisputeWon, DisputeLost, DisputeCommits, IntentHandled, RequestDies,
       GoOn, Handled, Refused, Dies
  <2>8. QED
    BY <2>2, <2>3, <2>4, <2>5, <2>6, <2>7 DEF DisputesNext
<1>2. CASE BankDecides
  <2>1. verdict = "none" /\ sent'["closed"] # "no"
    BY <1>0, <1>2 DEF BankDecides, Decided
  <2>2. UNCHANGED <<lesson, reads>>
    BY <1>2 DEF BankDecides, creditVars
  <2>3. QED
    BY <1>1, <2>1, <2>2 DEF Decided, Lost
<1>3. ASSUME UNCHANGED <<verdict, lesson>>,
             \/ reads'["dispute"].op \in {reads["dispute"].op, "none", "freeze"}
             \/ reads'["dispute"].op = "revoke" /\ verdict = "lost"
             \/ reads'["dispute"].op = "unfreeze" /\ verdict = "won"
      PROVE  Decided'
  BY <1>1, <1>3 DEF Decided, Lost
<1>4. CASE Wallet
  <2>1. reads'["dispute"] = reads["dispute"]
    BY <1>0, <1>4 DEF Wallet, Book, Reserve, ReadReserved, Release, Forfeit, SuspendReads,
       Suspend, RestoreReads, Restore, RolledBack, Read, Write
  <2>2. QED
    BY <1>3, <1>4, <2>1 DEF Wallet, disputeVars
<1>5. ASSUME NEW w \in Workers, DisputeReads(w)
      PROVE  Decided'
  BY <1>0, <1>3, <1>5 DEF DisputeReads, Read, disputeVars
<1>6. ASSUME NEW w \in Workers, NEW e, NEW op, DisputeCommits(w, e, op),
             Lost' => op = "revoke" \/ Lost
      PROVE  Decided'
  <2>1. reads'["dispute"].op = "none" /\ UNCHANGED verdict /\ reads["dispute"].op = op
    BY <1>0, <1>6 DEF DisputeCommits, Write
  <2>2. QED
    BY <1>1, <1>6, <2>1 DEF Decided
<1>7. ASSUME NEW w \in Workers, DisputeOpened(w) \/ DisputeWon(w) \/ DisputeLost(w)
      PROVE  Decided'
  <2>1. lesson \in LessonType
    BY DEF RestTyped
  <2>2. DisputeOpened(w) \/ DisputeWon(w) => (Lost' => Lost)
    BY <2>1 DEF DisputeOpened, DisputeWon, Lost, LessonType
  <2>3. QED
    BY <1>6, <1>7, <2>2 DEF DisputeOpened, DisputeWon, DisputeLost
<1>8. ASSUME NEW w \in Workers, RequestDies(w)
      PROVE  Decided'
  BY <1>0, <1>3, <1>8 DEF RequestDies
<1>9. CASE UNCHANGED <<verdict, lesson, reads>>
  BY <1>3, <1>9
<1>10. QED
  BY <1>2, <1>4, <1>5, <1>7, <1>8, <1>9 DEF DisputesNext, Request, BankOpens, OtherOperation,
     Authorize, RecordSaved, DisputeStart, DisputeReverse, IntentHandled, creditVars, disputeVars

LEMMA DecidedIsKept == DisputesSafety => []Decided
<1>1. DisputesInit => Decided
  BY DEF DisputesInit, LedgerInit, CreditsInit, Decided, Lost, NoRead, Readers
<1>2. Decided /\ UNCHANGED vars => Decided'
  BY DEF Decided, Lost, vars, ledgerVars, creditVars, disputeVars
<1>3. DebtInv => ReadsTyped
  BY DEF DebtInv
<1>4. QED
  BY <1>1, <1>2, <1>3, StepDecided, DebtIsKept, TypesAreKept, ClaimIsKept, PTL
  DEF DisputesSafety

(* Only a handler that the bank told of a victory undoes a loss. *)
LEMMA LostStays ==
    ASSUME Lost, RestTyped, NEW w \in Workers, DisputeOpened(w) \/ DisputeLost(w)
    PROVE  Lost'
  BY DEF Lost, RestTyped, LessonType, DisputeOpened, DisputeLost

(* When all credits of the lesson are gone and none has been read before,  *)
(* no operation reads one, and none comes back.                            *)
LEMMA GoneForGood ==
    ASSUME WorthTwo, ReadsTyped, RestTyped, Decided, AllRevokedForGood, DisputesNext
    PROVE  AllRevokedForGood'
<1>1. \A k \in Credits : credit[k].status \in {"absent", "revoked"} /\ credit[k].why # "suspended"
  BY DEF AllRevokedForGood, Gone
<1>2. \A who \in Readers : reads[who].rows = {}
  <2>1. \A who \in Readers : reads[who].rows \in SUBSET Credits
    BY DEF ReadsTyped, ReadType
  <2>2. QED
    BY <2>1 DEF AllRevokedForGood
<1>3. /\ Available = {} /\ {k \in Credits : Reserved(k)} = {} /\ ToRestore = {}
      /\ {k \in Credits :
             credit[k].status \notin {"absent", "revoked", "forfeited", "expired"}} = {}
      /\ \A op \in {"freeze", "unfreeze", "revoke"} : Affected(op) = {}
  BY <1>1 DEF Available, Reserved, ToRestore, Affected
<1>4. /\ "dispute" \in Readers /\ "booking" \in Readers /\ "admin" \in Readers
      /\ reads \in [Readers -> ReadType] /\ NoRead.rows = {}
  BY DEF Readers, ReadsTyped, NoRead
<1>5. ASSUME NEW who \in Readers, Write(who)
      PROVE  UNCHANGED credit /\ \A any \in Readers : reads'[any].rows = {}
  <2>1. reads[who].rows = {}
    BY <1>2
  <2>2. credit' = [k \in Credits |-> credit[k]]
    BY <1>5, <2>1 DEF Write
  <2>3. QED
    BY <1>2, <1>4, <1>5, <2>2 DEF Write, WorthTwo
<1>6. ASSUME NEW who \in Readers, NEW op, NEW spent, Read(who, op, {}, spent)
      PROVE  \A any \in Readers : reads'[any].rows = {}
  BY <1>2, <1>4, <1>6 DEF Read
<1>7. ASSUME Lost', UNCHANGED credit, \A who \in Readers : reads'[who].rows = {}
      PROVE  AllRevokedForGood'
  BY <1>7 DEF AllRevokedForGood, Gone
<1>8. UNCHANGED reads => \A who \in Readers : reads'[who].rows = {}
  BY <1>2
<1>9. CASE Wallet
  <2>1. Lost'
    BY <1>9 DEF Wallet, disputeVars, AllRevokedForGood, Lost
  <2>2. CASE Book
    BY <1>7, <1>8, <2>1, <2>2 DEF Book
  <2>3. ASSUME NEW units \in {1, 2}, Reserve(units)
        PROVE  FALSE
    BY <1>3, <2>3 DEF Reserve
  <2>4. CASE Release \/ Forfeit \/ Suspend \/ Restore
    BY <1>4, <1>5, <1>7, <1>8, <2>1, <2>4 DEF Release, Forfeit, Suspend, Restore
  <2>5. ASSUME NEW op \in {"release", "forfeit"}, ReadReserved(op)
        PROVE  AllRevokedForGood'
    BY <1>3, <1>4, <1>6, <1>7, <2>1, <2>5 DEF ReadReserved
  <2>6. CASE SuspendReads \/ RestoreReads
    BY <1>3, <1>4, <1>6, <1>7, <2>1, <2>6 DEF SuspendReads, RestoreReads
  <2>7. ASSUME NEW who \in {"booking", "admin"}, RolledBack(who)
        PROVE  AllRevokedForGood'
    <3>1. \A any \in Readers : reads'[any].rows = {}
      BY <1>2, <1>4, <2>7 DEF RolledBack
    <3>2. QED
      BY <1>7, <2>1, <2>7, <3>1 DEF RolledBack
  <2>8. QED
    BY <1>9, <2>2, <2>3, <2>4, <2>5, <2>6, <2>7 DEF Wallet
<1>10. ASSUME NEW w \in Workers, DisputeOpened(w) \/ DisputeWon(w) \/ DisputeLost(w)
       PROVE  AllRevokedForGood'
  <2>1. verdict = "lost" /\ lesson.outcome = "student_wins_dispute_full_refund"
    BY DEF AllRevokedForGood, Decided, Lost
  <2>2. ~DisputeWon(w)
    BY <2>1 DEF Decided, DisputeWon, DisputeCommits
  <2>3. Lost'
    BY <1>10, <2>1, <2>2, LostStays DEF Lost
  <2>4. Write("dispute")
    BY <1>10 DEF DisputeOpened, DisputeWon, DisputeLost, DisputeCommits
  <2>5. QED
    BY <1>4, <1>5, <1>7, <2>3, <2>4
<1>11. ASSUME NEW w \in Workers, DisputeReads(w)
       PROVE  AllRevokedForGood'
  <2>1. PICK op \in {"freeze", "unfreeze", "revoke"} :
           Read("dispute", op, {}, IF op = "unfreeze" THEN 0 ELSE Spent(Affected(op)))
    BY <1>3, <1>11 DEF DisputeReads
  <2>2. \A who \in Readers : reads'[who].rows = {}
    BY <1>4, <1>6, <2>1
  <2>3. Lost' /\ UNCHANGED credit
    BY <1>11 DEF DisputeReads, disputeVars, AllRevokedForGood, Lost
  <2>4. QED
    BY <1>7, <2>2, <2>3
<1>12. ASSUME NEW w \in Workers, RequestDies(w)
       PROVE  AllRevokedForGood'
  <2>1. \A who \in Readers : reads'[who].rows = {}
    BY <1>2, <1>4, <1>12 DEF RequestDies
  <2>2. Lost' /\ UNCHANGED credit
    BY <1>12 DEF RequestDies, AllRevokedForGood, Lost
  <2>3. QED
    BY <1>7, <2>1, <2>2
<1>13. UNCHANGED <<credit, reads, lesson>> => AllRevokedForGood'
  BY <1>7, <1>8 DEF AllRevokedForGood, Lost
<1>14. QED
  BY <1>9, <1>10, <1>11, <1>12, <1>13 DEF DisputesNext, Request, BankOpens, BankDecides,
     OtherOperation, Authorize, RecordSaved, DisputeStart, DisputeReverse, IntentHandled,
     creditVars, disputeVars

(* A loss takes what its handler has read. *)
LEMMA LossTakesAll ==
    ASSUME WorthTwo, ReadsTyped, Alone, NEW w \in Workers, DisputeLost(w), Lost'
    PROVE  AllRevokedForGood'
<1>0. "dispute" \in Readers /\ NoRead.rows = {} /\ reads \in [Readers -> ReadType]
  BY DEF Readers, NoRead, ReadsTyped
<1>1. /\ reads["dispute"].op = "revoke"
      /\ Write("dispute")
  BY DEF DisputeLost, DisputeCommits
<1>2. ASSUME NEW k \in Credits, k \in reads["dispute"].rows
      PROVE  Gone(k)' /\ credit'[k].why # "suspended"
  <2>1. credit[k] \in CreditType
    BY DEF WorthTwo
  <2>2. credit'[k] = [credit[k] EXCEPT !.status = "revoked", !.why = "lost"]
    BY <1>1, <1>2 DEF Write, Rewritten
  <2>3. QED
    BY <2>1, <2>2 DEF Gone, CreditType
<1>3. ASSUME NEW k \in Credits, k \notin reads["dispute"].rows
      PROVE  Gone(k)' /\ credit'[k].why # "suspended"
  <2>1. credit'[k] = credit[k]
    BY <1>1, <1>3 DEF Write
  <2>2. QED
    BY <1>3, <2>1 DEF Alone, Gone
<1>4. \A who \in Readers : reads'[who].rows = {}
  BY <1>0, <1>1 DEF Write, Alone, ReadsTyped
<1>5. QED
  BY <1>2, <1>3, <1>4 DEF AllRevokedForGood

(* A lost dispute takes every credit that nothing else is at work on, and  *)
(* once they are gone no transaction that starts later brings one back     *)
(* (RevokedForGood).                                                       *)
THEOREM CreditsStayRevoked == DisputesSafety => RevokedForGood
<1> DEFINE Stays == /\ AllRevokedForGood => AllRevokedForGood'
                    /\ ~Lost /\ Lost' /\ Alone => AllRevokedForGood'
<1>1. ASSUME DebtInv, RestTyped, Decided, [DisputesNext]_vars
      PROVE  [Stays]_vars
  <2>1. SUFFICES ASSUME DisputesNext
                 PROVE  Stays
    BY <1>1
  <2>2. AllRevokedForGood => AllRevokedForGood'
    BY <1>1, <2>1, GoneForGood DEF DebtInv
  <2>3. ASSUME ~Lost, Lost', Alone
        PROVE  AllRevokedForGood'
    <3>1. lesson'.outcome = "student_wins_dispute_full_refund" /\ lesson' # lesson
      BY <2>3 DEF Lost
    <3>2. PICK w \in Workers : DisputeOpened(w) \/ DisputeWon(w) \/ DisputeLost(w)
      BY <2>1, <3>1 DEF DisputesNext, Request, Wallet, BankOpens, BankDecides, OtherOperation,
         Authorize, RecordSaved, DisputeStart, DisputeReverse, DisputeReads, IntentHandled,
         RequestDies, disputeVars
    <3>3. lesson \in LessonType
      BY <1>1 DEF RestTyped
    <3>4. DisputeLost(w)
      BY <2>3, <3>1, <3>2, <3>3 DEF DisputeOpened, DisputeWon, LessonType, Lost
    <3>5. QED
      BY <1>1, <2>3, <3>4, LossTakesAll DEF DebtInv
  <2>4. QED
    BY <2>2, <2>3
<1>2. QED
  BY <1>1, DebtIsKept, TypesAreKept, DecidedIsKept, PTL DEF DisputesSafety, RevokedForGood

-----------------------------------------------------------------------------
(* Before the bank opens the dispute, no request is about it.              *)
Unsent == /\ \A e \in Events : sent[e] = "no" =>
                ledger[e] = "absent" /\ \A w \in Workers : calls[w].event # e
          /\ sent["created"] = "no" => sent["closed"] = "no"

(* Until then, and without a suspension, what is reserved is held, and it  *)
(* is what was taken off the price of the open booking.                    *)
Undisturbed == sent["created"] = "no" /\ student.suspended = "never"
WalletInv ==
    Undisturbed =>
       /\ \A k \in Credits : credit[k].status = "reserved" => credit[k].held
       /\ next.status = "open" => UnitsIn({k \in Credits : Reserved(k)}) = next.applied
       /\ next.status # "open" => \A k \in Credits : credit[k].status # "reserved"
       /\ reads["booking"].op # "none" =>
             next.status = "open" /\ reads["booking"].rows = {k \in Credits : Reserved(k)}

LEMMA StepUnsent ==
    ASSUME RestTyped, OneClaim, Unsent, DisputesNext
    PROVE  Unsent' /\ (sent'["created"] = "no" => sent["created"] = "no")
<1> DEFINE Goal == Unsent' /\ (sent'["created"] = "no" => sent["created"] = "no")
<1>0. /\ sent \in [Events -> {"no", "due", "acked"}]
      /\ ledger \in [Events -> {"absent", "processing", "processed"}]
      /\ calls \in [Workers -> CallType]
      /\ "created" \in Events /\ "closed" \in Events /\ "intent" \in Events
      /\ Idle.event \notin Events
  BY DEF RestTyped, OneClaim, Events, Idle
<1>a. ASSUME NEW e \in Events,
             sent' = [sent EXCEPT ![e] = "due"] \/ sent' = [sent EXCEPT ![e] = "acked"],
             e = "closed" => sent["created"] # "no", UNCHANGED <<ledger, calls>>
      PROVE  Goal
  BY <1>0, <1>a DEF Unsent
<1>b. ASSUME UNCHANGED <<sent, ledger, calls>>
      PROVE  Goal
  BY <1>b DEF Unsent
<1>c. ASSUME NEW w \in Workers, NEW call, calls' = [calls EXCEPT ![w] = call],
             call.event \notin Events \/ sent[call.event] # "no",
             sent' = sent \/ (calls[w].event \in Events
                                 /\ sent' = [sent EXCEPT ![calls[w].event] = "acked"]),
             \A e \in Events : ledger'[e] = ledger[e] \/ e = calls[w].event
      PROVE  Goal
  <2>1. ASSUME NEW e \in Events, sent'[e] = "no"
        PROVE  sent[e] = "no" /\ calls[w].event # e
    BY <1>0, <1>c, <2>1 DEF Unsent
  <2>2. ASSUME NEW e \in Events, sent'[e] = "no"
        PROVE  ledger'[e] = "absent" /\ \A v \in Workers : calls'[v].event # e
    BY <1>0, <1>c, <2>1, <2>2 DEF Unsent
  <2>3. sent'["created"] = "no" => sent'["closed"] = "no"
    <3>1. ASSUME sent'["created"] = "no"
          PROVE  sent["closed"] = "no"
      BY <1>0, <2>1, <3>1 DEF Unsent
    <3>2. sent["closed"] = "no" => calls[w].event # "closed"
      BY <1>0 DEF Unsent
    <3>3. QED
      BY <1>0, <1>c, <3>1, <3>2
  <2>4. QED
    BY <1>0, <2>1, <2>2, <2>3 DEF Unsent
<1>d. ASSUME NEW w \in Workers, NEW step, calls[w].at # "none",
             calls' = [calls EXCEPT ![w].at = step], UNCHANGED sent, UNCHANGED ledger \/ Commits(w)
      PROVE  Goal
  <2>1. calls[w].event \in Events
    BY <1>d DEF OneClaim
  <2>2. /\ calls' = [calls EXCEPT ![w] = [calls[w] EXCEPT !.at = step]]
        /\ [calls[w] EXCEPT !.at = step].event = calls[w].event
    BY <1>0, <1>d DEF CallType
  <2>3. sent[calls[w].event] # "no"
    BY <2>1 DEF Unsent
  <2>4. \A e \in Events : ledger'[e] = ledger[e] \/ e = calls[w].event
    BY <1>0, <1>d DEF Commits
  <2>5. QED
    BY <1>c, <1>d, <2>1, <2>2, <2>3, <2>4
<1>1. CASE BankOpens
  BY <1>0, <1>1, <1>a DEF BankOpens
<1>2. CASE BankDecides
  BY <1>0, <1>2, <1>a DEF BankDecides
<1>3. CASE Authorize
  BY <1>0, <1>3, <1>a DEF Authorize
<1>4. ASSUME NEW e \in Events, Duplicate(e)
      PROVE  Goal
  BY <1>0, <1>4, <1>a DEF Duplicate, Unsent
<1>5. CASE OtherOperation \/ RecordSaved \/ Wallet
  BY <1>b, <1>5 DEF OtherOperation, RecordSaved, Wallet, ledgerVars
<1>6. ASSUME NEW w \in Workers, Request(w)
      PROVE  Goal
  <2>1. ASSUME NEW e \in Events, Claim(w, e) \/ Replay(w, e)
        PROVE  Goal
    <3>1. PICK replay \in BOOLEAN :
             calls' = [calls EXCEPT ![w] = [event |-> e, at |-> "handle", replay |-> replay]]
      BY <2>1 DEF Claim, Replay
    <3>2. sent[e] # "no" /\ UNCHANGED <<sent, ledger>>
      BY <2>1 DEF Claim, Replay, Unsent
    <3>3. QED
      BY <1>c, <3>1, <3>2
  <2>2. CASE Finish(w)
    <3>1. calls[w].event \in Events
      BY <2>2 DEF Finish, OneClaim
    <3>2. \A e \in Events : ledger'[e] = ledger[e] \/ e = calls[w].event
      BY <1>0, <2>2 DEF Finish
    <3>3. QED
      BY <1>0, <1>c, <2>2, <3>1, <3>2 DEF Finish
  <2>3. CASE DisputeStart(w)
    <3>1. CASE mutex = "free"
      BY <1>d, <2>3, <3>1 DEF DisputeStart, GoOn, At
    <3>2. CASE mutex # "free"
      BY <1>0, <1>c, <2>3, <3>2 DEF DisputeStart, Refused
    <3>3. QED
      BY <3>1, <3>2
  <2>4. CASE DisputeReverse(w)
    BY <1>d, <2>4 DEF DisputeReverse, GoOn, At
  <2>s. CASE DisputeReads(w)
    BY <1>d, <2>s DEF DisputeReads, GoOn, At
  <2>5. CASE DisputeOpened(w) \/ DisputeWon(w) \/ DisputeLost(w)
    BY <1>d, <2>5 DEF DisputeOpened, DisputeWon, DisputeLost, DisputeCommits, Handled, At
  <2>6. CASE IntentHandled(w)
    <3>1. CASE intent = "saved"
      BY <1>d, <2>6, <3>1 DEF IntentHandled, Handled, At
    <3>2. CASE intent # "saved"
      <4>1. \A e \in Events : ledger'[e] = ledger[e] \/ e = calls[w].event
        BY <1>0, <2>6, <3>2 DEF IntentHandled, Commits
      <4>2. QED
        BY <1>0, <1>c, <2>6, <3>2, <4>1 DEF IntentHandled, Refused
    <3>3. QED
      BY <3>1, <3>2
  <2>7. CASE RequestDies(w)
    BY <1>0, <1>c, <2>7 DEF RequestDies, Dies
  <2>8. QED
    BY <1>6, <2>1, <2>2, <2>3, <2>4, <2>s, <2>5, <2>6, <2>7 DEF Request
<1>7. QED
  BY <1>1, <1>2, <1>3, <1>4, <1>5, <1>6 DEF DisputesNext

(* The handlers of the dispute are not at work before it is opened. *)
LEMMA NoDisputeYet ==
    ASSUME Unsent, sent["created"] = "no", NEW w \in Workers
    PROVE  ~DisputeOpened(w) /\ ~DisputeWon(w) /\ ~DisputeLost(w)
  BY DEF Unsent, DisputeOpened, DisputeWon, DisputeLost, DisputeCommits, At, Events

(* Units of the same credits, which keep theirs.                           *)
LEMMA SameReserved ==
    ASSUME \A k \in Credits : Reserved(k)' = Reserved(k) /\ credit'[k].units = credit[k].units
    PROVE  UnitsIn({k \in Credits : Reserved(k)})' = UnitsIn({k \in Credits : Reserved(k)})
  BY DEF UnitsIn, Credits

(* Neither end of a booking leaves a credit reserved. *)
LEMMA NoneIsLeft ==
    ASSUME credit \in [Credits -> CreditType], Release \/ Forfeit,
           \A k \in Credits : credit[k].status = "reserved" => credit[k].held,
           reads["booking"].rows = {k \in Credits : Reserved(k)},
           NEW k \in Credits
    PROVE  credit'[k].status # "reserved" /\ (Forfeit /\ Reserved(k) => credit'[k].used)
<1>0. credit[k] \in CreditType
  OBVIOUS
<1>1. PICK after \in {"available", "expired"} :
         credit'[k] = IF Reserved(k) THEN Rewritten(reads["booking"], k, after) ELSE credit[k]
  BY DEF Release, Forfeit, Write
<1>2. CASE Release
  BY <1>0, <1>1, <1>2 DEF Release, Forfeit, Rewritten, Reserved, CreditType
<1>3. CASE Forfeit
  BY <1>0, <1>1, <1>3 DEF Forfeit, Rewritten, Reserved, CreditType
<1>4. QED
  BY <1>2, <1>3 DEF Release, Forfeit

LEMMA WalletKept ==
    ASSUME WorthTwo, StudentTyped, ReadsTyped, RestTyped, WalletInv, Undisturbed, Undisturbed',
           Wallet
    PROVE  WalletInv'
<1>0. /\ credit \in [Credits -> CreditType] /\ next \in NextType
      /\ \A k \in Credits : credit[k].status = "reserved" => credit[k].held
      /\ next.status = "open" => UnitsIn({k \in Credits : Reserved(k)}) = next.applied
      /\ next.status # "open" => \A k \in Credits : credit[k].status # "reserved"
      /\ reads["booking"].op # "none" =>
            next.status = "open" /\ reads["booking"].rows = {k \in Credits : Reserved(k)}
      /\ reads \in [Readers -> ReadType] /\ "booking" \in Readers /\ "admin" \in Readers
      /\ NoRead.op = "none"
  BY DEF WorthTwo, RestTyped, WalletInv, ReadsTyped, Readers, NoRead
<1>1. CASE Book
  <2>1. next'.status = "open" /\ next'.applied = 0 /\ UNCHANGED credit
    BY <1>1 DEF Book
  <2>2. \A k \in Credits : ~Reserved(k)'
    BY <1>0, <1>1, <2>1 DEF Book, Reserved
  <2>3. UnitsIn({k \in Credits : Reserved(k)})' = 0
    BY <2>2 DEF UnitsIn, Credits
  <2>4. reads'["booking"].op = "none"
    BY <1>0, <1>1 DEF Book
  <2>5. QED
    BY <1>0, <2>1, <2>3, <2>4 DEF WalletInv
<1>2. ASSUME NEW units \in {1, 2}, Reserve(units)
      PROVE  WalletInv'
  <2>0. /\ next'.status = "open" /\ \A k \in Credits : ~Reserved(k)
        /\ reads'["booking"].op = "none"
    BY <1>0, <1>2 DEF Reserve, NextType
  <2>1. \A k \in Taken(units) : k \in Credits
    BY DEF Taken, Available, Credits
  <2>2. CASE Splits(units)
    <3>1. "issued" \in Taken(units) /\ "rest" \notin Taken(units)
      BY <2>2 DEF Splits, Taken
    <3>2. /\ credit'["issued"].units = 1 /\ Reserved("issued")'
          /\ credit'["rest"].status = "available"
      BY <1>0, <1>2, <2>2, <3>1 DEF Reserve, Kept, Credits, CreditType, NoCredit, Reserved
    <3>3. next'.applied = 1
      BY <1>0, <1>2, <2>2 DEF Reserve, NextType
    <3>4. UnitsIn({k \in Credits : Reserved(k)})' = 1
      BY <3>2 DEF UnitsIn, Reserved, Credits
    <3>5. \A k \in Credits : credit'[k].status = "reserved" => credit'[k].held
      BY <3>2 DEF Credits, Reserved
    <3>6. QED
      BY <2>0, <3>3, <3>4, <3>5 DEF WalletInv
  <2>3. CASE ~Splits(units)
    <3>1. \A k \in Credits :
             /\ k \in Taken(units) => /\ credit'[k].status = "reserved" /\ credit'[k].held
                                      /\ credit'[k].units = credit[k].units
             /\ k \notin Taken(units) => credit'[k] = credit[k]
      BY <1>0, <1>2, <2>3 DEF Reserve, Kept, CreditType
    <3>2. \A k \in Credits : Reserved(k)' <=> k \in Taken(units)
      BY <2>0, <3>1 DEF Reserved
    <3>3. UnitsIn({k \in Credits : Reserved(k)})' = UnitsIn(Taken(units))
      BY <3>1, <3>2 DEF UnitsIn, Credits
    <3>4. next'.applied = UnitsIn(Taken(units))
      BY <1>0, <1>2, <2>3 DEF Reserve, NextType
    <3>5. \A k \in Credits : credit'[k].status = "reserved" => credit'[k].held
      BY <1>0, <3>1
    <3>6. QED
      BY <2>0, <3>3, <3>4, <3>5 DEF WalletInv
  <2>4. QED
    BY <2>2, <2>3
<1>3. CASE Release \/ Forfeit
  <2>0. reads["booking"].op # "none"
    BY <1>3 DEF Release, Forfeit
  <2>1. \A k \in Credits : credit'[k].status # "reserved"
    BY <1>0, <1>3, <2>0, NoneIsLeft
  <2>2. next'.status # "open"
    BY <1>0, <1>3 DEF Release, Forfeit, NextType
  <2>3. reads'["booking"].op = "none"
    BY <1>0, <1>3 DEF Release, Forfeit, Write
  <2>4. QED
    BY <2>1, <2>2, <2>3 DEF WalletInv
<1>s. ASSUME UNCHANGED <<credit, next>>
      PROVE  UNCHANGED UnitsIn({k \in Credits : Reserved(k)})
             /\ UNCHANGED {k \in Credits : Reserved(k)}
  BY <1>s DEF UnitsIn, Reserved
<1>4. ASSUME UNCHANGED <<credit, next>>,
             \/ reads'["booking"] = reads["booking"]
             \/ reads'["booking"].op = "none"
             \/ next.status = "open" /\ reads'["booking"].rows = {k \in Credits : Reserved(k)}
      PROVE  WalletInv'
  BY <1>0, <1>4, <1>s DEF WalletInv
<1>5. ASSUME NEW op \in {"release", "forfeit"}, ReadReserved(op)
      PROVE  WalletInv'
  BY <1>0, <1>4, <1>5 DEF ReadReserved, Read
<1>6. CASE SuspendReads \/ RestoreReads
  BY <1>0, <1>4, <1>6 DEF SuspendReads, RestoreReads, Read
<1>7. ASSUME NEW who \in {"booking", "admin"}, RolledBack(who)
      PROVE  WalletInv'
  BY <1>0, <1>4, <1>7 DEF RolledBack
<1>8. CASE Suspend \/ Restore
  BY <1>8 DEF Suspend, Restore, Undisturbed, StudentTyped
<1>9. QED
  BY <1>1, <1>2, <1>3, <1>5, <1>6, <1>7, <1>8 DEF Wallet

LEMMA StepWallet ==
    ASSUME DebtInv, RestTyped, OneClaim, Unsent, WalletInv, DisputesNext
    PROVE  WalletInv'
<1>1. SUFFICES ASSUME Undisturbed'
               PROVE  WalletInv'
  BY DEF WalletInv
<1>2. sent["created"] = "no"
  BY <1>1, StepUnsent DEF Undisturbed
<1>3. CASE Wallet
  <2>1. Undisturbed
    BY <1>1, <1>2, <1>3 DEF Wallet, Undisturbed, Book, Reserve, ReadReserved, Release, Forfeit,
       SuspendReads, Suspend, RestoreReads, Restore, RolledBack, DebtInv, StudentTyped
  <2>2. QED
    BY <1>1, <1>3, <2>1, WalletKept DEF DebtInv
<1>4. CASE ~Wallet
  <2>1. UNCHANGED <<credit, next, student>>
    BY <1>2, <1>4, NoDisputeYet DEF DisputesNext, Request, BankOpens, BankDecides,
       OtherOperation, Authorize, RecordSaved, DisputeStart, DisputeReverse, DisputeReads,
       IntentHandled, RequestDies, creditVars
  <2>2. reads'["booking"] = reads["booking"]
    BY <1>2, <1>4, NoDisputeYet DEF DisputesNext, Request, BankOpens, BankDecides,
       OtherOperation, Authorize, RecordSaved, DisputeStart, DisputeReverse, DisputeReads,
       IntentHandled, RequestDies, creditVars, Read, DebtInv, ReadsTyped, Readers
  <2>3. UNCHANGED UnitsIn({k \in Credits : Reserved(k)})
        /\ UNCHANGED {k \in Credits : Reserved(k)}
    BY <2>1 DEF UnitsIn, Reserved
  <2>4. QED
    BY <1>1, <1>2, <2>1, <2>2, <2>3 DEF WalletInv, Undisturbed
<1>5. QED
  BY <1>3, <1>4

(* A booking that is paid for uses up the credits taken off its price, and *)
(* one that is cancelled leaves none reserved (DiscountIsPaidFor).         *)
THEOREM DiscountsArePaidFor == DisputesSafety => DiscountIsPaidFor
<1> DEFINE Pays ==
       sent["created"] = "no" /\ student.suspended = "never" /\ next.status = "open" =>
          /\ next'.status = "done" =>
                UnitsIn({k \in Credits : Reserved(k) /\ credit'[k].used}) = next.applied
          /\ next'.status # "open" => \A k \in Credits : credit'[k].status # "reserved"
<1>1. DisputesInit => Unsent
  BY DEF DisputesInit, LedgerInit, Unsent, Idle, Events
<1>2. DisputesInit => WalletInv
  <2>1. /\ NoCredit.status # "reserved"
        /\ [NoCredit EXCEPT !.status = "available", !.units = 2].status # "reserved"
    BY DEF NoCredit
  <2>2. CreditsInit => \A k \in Credits : credit[k].status # "reserved"
    BY <2>1 DEF CreditsInit
  <2>3. CreditsInit => next.status = "none"
    BY DEF CreditsInit
  <2>4. CreditsInit => reads["booking"].op = "none"
    BY DEF CreditsInit, Readers, NoRead
  <2>5. QED
    BY <2>2, <2>3, <2>4 DEF DisputesInit, WalletInv
<1>3. RestTyped /\ OneClaim /\ Unsent /\ [DisputesNext]_vars => Unsent'
  <2>1. Unsent /\ UNCHANGED vars => Unsent'
    BY DEF Unsent, vars, ledgerVars
  <2>2. QED
    BY <2>1, StepUnsent
<1>4. DebtInv /\ RestTyped /\ OneClaim /\ Unsent /\ WalletInv /\ [DisputesNext]_vars => WalletInv'
  <2>1. WalletInv /\ UNCHANGED vars => WalletInv'
    <3>1. ASSUME UNCHANGED <<sent, credit, next, student, reads>>
          PROVE  UNCHANGED UnitsIn({k \in Credits : Reserved(k)})
                 /\ UNCHANGED {k \in Credits : Reserved(k)}
      BY <3>1 DEF UnitsIn, Reserved
    <3>2. QED
      BY <3>1 DEF WalletInv, Undisturbed, vars, ledgerVars, creditVars
  <2>2. QED
    BY <2>1, StepWallet
<1>5. ASSUME DebtInv, RestTyped, Unsent, WalletInv, [DisputesNext]_vars
      PROVE  [Pays]_vars
  <2>1. SUFFICES ASSUME DisputesNext, Undisturbed, next.status = "open", next'.status # "open"
                 PROVE  Pays
    BY <1>5 DEF Undisturbed
  <2>2. CASE Wallet
    <3>1. Release \/ Forfeit
      <4>1. next \in NextType
        BY <1>5 DEF RestTyped
      <4>2. QED
        BY <2>1, <2>2, <4>1 DEF Wallet, Book, Reserve, ReadReserved, SuspendReads, Suspend,
           RestoreReads, Restore, RolledBack, NextType
    <3>2. /\ credit \in [Credits -> CreditType]
          /\ \A k \in Credits : credit[k].status = "reserved" => Reserved(k)
          /\ UnitsIn({k \in Credits : Reserved(k)}) = next.applied
          /\ reads["booking"].rows = {k \in Credits : Reserved(k)}
      BY <1>5, <2>1, <3>1 DEF DebtInv, WorthTwo, WalletInv, Reserved, Release, Forfeit
    <3>3. \A k \in Credits : credit'[k].status # "reserved"
      BY <3>1, <3>2, NoneIsLeft DEF Reserved
    <3>4. ASSUME next'.status = "done"
          PROVE  \A k \in Credits : Reserved(k) => credit'[k].used
      <4>1. Forfeit
        BY <1>5, <3>1, <3>4 DEF Release, RestTyped, NextType
      <4>2. QED
        BY <3>2, <4>1, NoneIsLeft DEF Reserved
    <3>5. ASSUME next'.status = "done"
          PROVE  {k \in Credits : Reserved(k) /\ credit'[k].used}
                    = {k \in Credits : Reserved(k)}
      BY <3>4, <3>5
    <3>6. QED
      BY <3>2, <3>3, <3>5
  <2>3. CASE ~Wallet
    <3>1. UNCHANGED next
      BY <2>1, <2>3 DEF DisputesNext, Request, BankOpens, BankDecides, OtherOperation, Authorize,
         RecordSaved, DisputeStart, DisputeReverse, DisputeReads, DisputeOpened, DisputeWon,
         DisputeLost, DisputeCommits, IntentHandled, RequestDies, creditVars
    <3>2. QED
      BY <2>1, <3>1
  <2>4. QED
    BY <2>2, <2>3
<1>6. QED
  BY <1>1, <1>2, <1>3, <1>4, <1>5, DebtIsKept, ClaimIsKept, TypesAreKept, PTL
  DEF DisputesSafety, DiscountIsPaidFor
=============================================================================
