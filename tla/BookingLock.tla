---------------------------- MODULE BookingLock ----------------------------
(***************************************************************************)
(* The per-booking mutex of app/core/booking_lock.py.                      *)
(*                                                                         *)
(* A request handler or a Celery task enters "with booking_lock_sync(id)"  *)
(* (or its asyncio twin) before it moves money.  The mutex is one Redis    *)
(* key, written with SET NX EX and removed by a plain DELETE: the value is *)
(* a timestamp that nobody compares, so a release removes whatever key is  *)
(* there, whoever wrote it.  When Redis cannot be reached the acquisition  *)
(* answers True (fail-open) and a release does nothing.                    *)
(*                                                                         *)
(* SlowHolders says whether a holder may outlive the 90 s TTL, RedisFaults *)
(* whether a call to Redis may fail.  "overlap" is a history variable: it  *)
(* says that a lapse or a fail-open entry touched the group of clients now *)
(* inside, and is cleared when the last of them has left.                  *)
(***************************************************************************)
EXTENDS FiniteSets

CONSTANTS Clients, SlowHolders, RedisFaults

ASSUME LockModes == /\ SlowHolders \in BOOLEAN
                    /\ RedisFaults \in BOOLEAN

VARIABLES mutexKey, pc, overlap

lockVars == <<mutexKey, pc, overlap>>

Inside == {c \in Clients : pc[c] = "inside"}

LockInit == /\ mutexKey = FALSE
            /\ pc = [c \in Clients |-> "idle"]
            /\ overlap = FALSE

-----------------------------------------------------------------------------
(* SET key NX EX 90 succeeds: the key did not exist. *)
Acquire(c) == /\ pc[c] = "idle"
              /\ ~mutexKey
              /\ mutexKey' = TRUE
              /\ pc' = [pc EXCEPT ![c] = "inside"]
              /\ UNCHANGED overlap

(* SET NX finds the key: the caller is told False, answers 429 or skips. *)
Blocked(c) == /\ pc[c] = "idle"
              /\ mutexKey
              /\ pc' = [pc EXCEPT ![c] = "refused"]
              /\ UNCHANGED <<mutexKey, overlap>>

(* Redis is unreachable: the caller is told True and no key is written. *)
AcquireFailOpen(c) == /\ RedisFaults
                      /\ pc[c] = "idle"
                      /\ pc' = [pc EXCEPT ![c] = "inside"]
                      /\ overlap' = TRUE
                      /\ UNCHANGED mutexKey

(* The history variable after the clients of the set left. *)
OverlapAfter(left) == overlap /\ ~ (Inside \subseteq left)

(* DELETE key, whoever wrote it. *)
Release(c) == /\ pc[c] = "inside"
              /\ mutexKey' = FALSE
              /\ pc' = [pc EXCEPT ![c] = "idle"]
              /\ overlap' = OverlapAfter({c})

(* The DELETE fails; the error is logged and swallowed. *)
ReleaseLost(c) == /\ RedisFaults
                  /\ pc[c] = "inside"
                  /\ pc' = [pc EXCEPT ![c] = "idle"]
                  /\ overlap' = OverlapAfter({c})
                  /\ UNCHANGED mutexKey

(* Mutant of GiveUp: the release sits in a finally that refused callers    *)
(* reach too.                                                              *)
GiveUpReleases(c) == /\ pc[c] = "refused"
                     /\ mutexKey' = FALSE
                     /\ pc' = [pc EXCEPT ![c] = "idle"]
                     /\ UNCHANGED overlap

(* A refused caller leaves without touching the key. *)
GiveUp(c) == /\ pc[c] = "refused"
             /\ pc' = [pc EXCEPT ![c] = "idle"]
             /\ UNCHANGED <<mutexKey, overlap>>

(* Mutant of Crash: a client that died is neither inside nor idle. *)
CrashLeavesTrace(c) == /\ pc[c] = "inside"
                       /\ pc' = [pc EXCEPT ![c] = "dead"]
                       /\ overlap' = OverlapAfter({c})
                       /\ UNCHANGED mutexKey

(* The process dies inside the block: no release, the key stays. *)
Crash(c) == /\ pc[c] = "inside"
            /\ pc' = [pc EXCEPT ![c] = "idle"]
            /\ overlap' = OverlapAfter({c})
            /\ UNCHANGED mutexKey

(* Mutant of Expire: SET without EX. *)
NeverExpires == FALSE /\ UNCHANGED lockVars

(* The TTL runs out. *)
Expire == /\ mutexKey
          /\ SlowHolders \/ Inside = {}
          /\ mutexKey' = FALSE
          /\ overlap' = (overlap \/ Inside # {})
          /\ UNCHANGED pc

ClientStep(c) == \/ Acquire(c)
                 \/ Blocked(c)
                 \/ AcquireFailOpen(c)
                 \/ Release(c)
                 \/ ReleaseLost(c)
                 \/ GiveUp(c)
                 \/ Crash(c)

LockNext == Expire \/ \E c \in Clients : ClientStep(c)

LockSafety == LockInit /\ [][LockNext]_lockVars

(* Redis does expire keys, and a holder does leave its block: the calls it *)
(* makes inside are bounded by the Stripe client's timeouts and retries.   *)
LockSpec == /\ LockSafety
            /\ WF_lockVars(Expire)
            /\ \A c \in Clients : WF_lockVars(Release(c))

-----------------------------------------------------------------------------
LockTypeOK == /\ mutexKey \in BOOLEAN
              /\ pc \in [Clients -> {"idle", "inside", "refused"}]
              /\ overlap \in BOOLEAN

AtMostOneInside == \A c, d \in Inside : c = d

(* Two clients are never inside together unless a TTL lapse or a fail-open *)
(* entry touched this very group; once its last client has left, the       *)
(* ownerless DELETE of core/booking_lock.py has done all its harm and the  *)
(* mutex excludes again.                                                   *)
ExclusiveUnlessOverlap == ~overlap => AtMostOneInside

(* With Redis reachable and every holder faster than the TTL,              *)
(* booking_lock_sync is a mutual exclusion lock, crashes included.         *)
MutualExclusion == ~SlowHolders /\ ~RedisFaults => AtMostOneInside

(* A key left behind by a dead or cut-off holder does not lock the booking *)
(* for ever: SET carries EX, so the key is absent again and again.         *)
KeyEventuallyFree == []<>(~mutexKey)
=============================================================================
