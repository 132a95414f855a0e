------------------------- MODULE BookingLockProofs -------------------------
(* Proofs that the booking mutex keeps its promises for every set of       *)
(* clients, in each of the fault modes of BookingLock.                     *)
EXTENDS BookingLock, TLAPS

(* The inductive strengthening: as long as no lapse or fail-open entry     *)
(* touched the present group of clients, there is at most one client, and  *)
(* its key is in Redis.  Without the second half the key could be missing  *)
(* and a second SET NX would succeed.                                      *)
KeyHeldWhileInside == ~overlap => (Inside # {} => mutexKey)

LockInv == /\ LockTypeOK
           /\ ExclusiveUnlessOverlap
           /\ KeyHeldWhileInside

(* A step of client c that ends outside the block only shrinks the group,  *)
(* and a step of c that ends inside adds at most c to it.                  *)
LEMMA InsideAfterStep ==
    ASSUME LockTypeOK, NEW c \in Clients, NEW s \in {"idle", "inside", "refused"},
           pc' = [pc EXCEPT ![c] = s]
    PROVE  Inside' = IF s = "inside" THEN Inside \cup {c} ELSE Inside \ {c}
  BY DEF LockTypeOK, Inside

(* Every reachable state of the lock is well typed. *)
THEOREM LockTyping == LockSafety => []LockTypeOK
<1>1. LockInit => LockTypeOK
  BY DEF LockInit, LockTypeOK
<1>2. LockTypeOK /\ [LockNext]_lockVars => LockTypeOK'
  <2> SUFFICES ASSUME LockTypeOK, [LockNext]_lockVars
               PROVE  LockTypeOK'
    OBVIOUS
  <2> USE DEF LockTypeOK
  <2>1. CASE Expire
    BY <2>1 DEF Expire
  <2>2. ASSUME NEW c \in Clients, ClientStep(c)
        PROVE  LockTypeOK'
    BY <2>2 DEF ClientStep, Acquire, Blocked, AcquireFailOpen, Release,
                ReleaseLost, GiveUp, Crash, OverlapAfter
  <2>3. CASE UNCHANGED lockVars
    BY <2>3 DEF lockVars
  <2>4. QED
    BY <2>1, <2>2, <2>3 DEF LockNext
<1>3. QED
  BY <1>1, <1>2, PTL DEF LockSafety

(* LockInv is inductive, one step per action of the lock. *)
LEMMA LockInvariance == LockSafety => []LockInv
<1>1. LockInit => LockInv
  BY DEF LockInit, LockInv, LockTypeOK, ExclusiveUnlessOverlap,
         AtMostOneInside, KeyHeldWhileInside, Inside
<1>2. LockInv /\ LockTypeOK' /\ [LockNext]_lockVars => LockInv'
  <2> SUFFICES ASSUME LockInv, LockTypeOK', [LockNext]_lockVars
               PROVE  ExclusiveUnlessOverlap' /\ KeyHeldWhileInside'
    BY DEF LockInv
  <2> USE DEF LockInv, ExclusiveUnlessOverlap, AtMostOneInside, KeyHeldWhileInside
  <2>1. CASE Expire
    BY <2>1 DEF Expire, Inside
  <2>2. ASSUME NEW c \in Clients, ClientStep(c)
        PROVE  ExclusiveUnlessOverlap' /\ KeyHeldWhileInside'
    <3>1. CASE Acquire(c)
      <4>1. Inside' = Inside \cup {c}
        BY <3>1, InsideAfterStep DEF Acquire
      <4>2. QED
        BY <3>1, <4>1 DEF Acquire
    <3>2. CASE Blocked(c) \/ GiveUp(c)
      <4>1. c \notin Inside
        BY <3>2 DEF Blocked, GiveUp, Inside
      <4>2. Inside' = Inside
        BY <3>2, <4>1, InsideAfterStep DEF Blocked, GiveUp
      <4>3. QED
        BY <3>2, <4>2 DEF Blocked, GiveUp
    <3>3. CASE AcquireFailOpen(c)
      BY <3>3 DEF AcquireFailOpen
    <3>4. CASE Release(c) \/ ReleaseLost(c) \/ Crash(c)
      <4>1. Inside' = Inside \ {c} /\ c \in Inside /\ overlap' = OverlapAfter({c})
        BY <3>4, InsideAfterStep DEF Release, ReleaseLost, Crash, Inside
      <4>2. ~overlap' => Inside' = {}
        BY <4>1 DEF OverlapAfter
      <4>3. QED
        BY <4>1, <4>2
    <3>5. QED
      BY <2>2, <3>1, <3>2, <3>3, <3>4 DEF ClientStep
  <2>3. CASE UNCHANGED lockVars
    BY <2>3 DEF lockVars, Inside
  <2>4. QED
    BY <2>1, <2>2, <2>3 DEF LockNext
<1>3. QED
  BY <1>1, <1>2, LockTyping, PTL DEF LockSafety

(* Two clients are inside together only while a lapse or a fail-open entry *)
(* of their own group is being lived through, whatever the number of       *)
(* clients and whatever the fault mode.                                    *)
THEOREM LockExclusion == LockSafety => []ExclusiveUnlessOverlap
  BY LockInvariance, PTL DEF LockInv

(* In the fault-free mode the history variable never rises. *)
LEMMA NoOverlapWithoutFaults ==
    ASSUME ~SlowHolders, ~RedisFaults
    PROVE  LockSafety => []~overlap
<1>1. LockInit => ~overlap
  BY DEF LockInit
<1>2. ~overlap /\ [LockNext]_lockVars => ~overlap'
  BY DEF LockNext, lockVars, Expire, ClientStep, Acquire, Blocked, AcquireFailOpen,
         Release, ReleaseLost, GiveUp, Crash, OverlapAfter
<1>3. QED
  BY <1>1, <1>2, PTL DEF LockSafety

(* With Redis reachable and holders faster than the TTL, the booking mutex *)
(* excludes any number of clients from each other, crashes included.       *)
THEOREM LockIsMutex == LockSafety => []MutualExclusion
<1>1. CASE ~SlowHolders /\ ~RedisFaults
  <2>1. LockSafety => []~overlap
    BY <1>1, NoOverlapWithoutFaults
  <2>2. ~overlap /\ ExclusiveUnlessOverlap => MutualExclusion
    BY DEF ExclusiveUnlessOverlap, MutualExclusion
  <2>3. QED
    BY <2>1, <2>2, LockExclusion, PTL
<1>2. CASE SlowHolders \/ RedisFaults
  <2>1. MutualExclusion
    BY <1>2 DEF MutualExclusion
  <2>2. QED
    BY <2>1, PTL
<1>3. QED
  BY <1>1, <1>2
=============================================================================
