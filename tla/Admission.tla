----------------------------- MODULE Admission -----------------------------
(***************************************************************************)
(* SIP-24 admission requests: the queue an unlisted device may ask to be   *)
(* put in, and the administrator's two answers (sqexd/src/admission.rs).   *)
(*                                                                         *)
(* The queue is three maps under three mutexes.  `request` takes the       *)
(* `denied` lock, releases it, then takes the `pending` lock, and `deny`   *)
(* takes `pending` (in `take`) and then `denied`: each is two steps here,  *)
(* and handlers of different connections interleave between them.          *)
(***************************************************************************)
EXTENDS Naturals, FiniteSets, Sequences, SequencesExt

CONSTANTS
  Devices,          \* device keys that may ask
  Accounts,         \* accounts a credential may name
  None,             \* no value
  MAX_PENDING, MAX_PER_ACCOUNT, MAX_PER_CONNECTION,
  RATE_WINDOW,      \* seconds the per-connection budget is counted over
  DENY_DEFAULT,     \* how long a denial of a device that had no request lasts
  Expiries,         \* the credential expiries that occur
  MaxTime           \* bound on the clock

ASSUME AdmissionAssumption ==
  /\ None \notin Accounts
  /\ {MAX_PENDING, MAX_PER_ACCOUNT, MAX_PER_CONNECTION} \subseteq Nat \ {0}
  /\ {RATE_WINDOW, DENY_DEFAULT, MaxTime} \subseteq Nat \ {0, 1}
  /\ Expiries \subseteq 1..MaxTime

VARIABLES
  now,       \* the wall clock
  pending,   \* device |-> the credential it was queued with, or None
  denied,    \* device |-> when its denial lapses (0: not denied)
  accepted,  \* device |-> when the requests of its connection landed
  asking,    \* device |-> its request between the two locks, or None
  denying,   \* device |-> the expiry `deny` read, between its two locks (0: none)
  landed     \* history: device |-> when each of its requests was really queued

admissionVars == <<now, pending, denied, accepted, asking, denying, landed>>

AdmissionInit ==
  /\ now = 0
  /\ pending = [d \in Devices |-> None]
  /\ denied = [d \in Devices |-> 0]
  /\ accepted = [d \in Devices |-> <<>>]
  /\ asking = [d \in Devices |-> None]
  /\ denying = [d \in Devices |-> 0]
  /\ landed = [d \in Devices |-> <<>>]

Queued == {d \in Devices : pending[d] # None}

(* `pending.retain(|_, p| p.not_after > now)` *)
RetainPending(p, t) ==
  [d \in Devices |-> IF p[d] # None /\ p[d].not_after > t THEN p[d] ELSE None]

(* `denied.retain(until > now)` *)
RetainDenied(t) == [d \in Devices |-> IF denied[d] > t THEN denied[d] ELSE 0]

(* Mutant of InWindow: only the requests of this very second count. *)
InWindowTooShort(times, t) == SelectSeq(times, LAMBDA s : s = t)

(* `now.saturating_sub(t) < RATE_WINDOW` *)
Recent(s, t) == (IF t >= s THEN t - s ELSE 0) < RATE_WINDOW

(* `retain`, of every connection's list *)
InWindow(times, t) ==
  LET kept[n \in 0..Len(times)] ==
        IF n = 0 THEN <<>>
        ELSE IF Recent(times[n], t) THEN Append(kept[n - 1], times[n]) ELSE kept[n - 1]
  IN kept[Len(times)]

(* The first half of `request`: the credential is verified and the denials *)
(* are consulted, under the `denied` lock alone.  `keyed` is whether the   *)
(* connection has a transport key for the budget to be counted against.    *)
Ask(d, cred, keyed) ==
  /\ asking[d] = None
  /\ now <= cred.not_after
  /\ denied' = RetainDenied(now)
  /\ asking' = IF denied[d] > now THEN asking
               ELSE [asking EXCEPT ![d] = [cred |-> cred, at |-> now, keyed |-> keyed]]
  /\ UNCHANGED <<now, pending, accepted, denying, landed>>

(* Mutant of Room: the per-account limit is not counted. *)
RoomIgnoringAccount(kept, d, cred) ==
  LET held == {e \in Devices : kept[e] # None}
  IN kept[d] = None /\ Cardinality(held) < MAX_PENDING

(* The queue's own limits, counted under the `pending` lock. *)
Room(kept, d, cred) ==
  LET held == {e \in Devices : kept[e] # None}
  IN /\ kept[d] = None
     /\ Cardinality(held) < MAX_PENDING
     /\ Cardinality({e \in held : kept[e].account = cred.account}) < MAX_PER_ACCOUNT

(* The second half, under the `pending` lock: the queue's limits, then the *)
(* connection's budget, which only a request the queue would take spends.  *)
Land(d) ==
  LET r == asking[d]
      kept == RetainPending(pending, r.at)
      room == Room(kept, d, r.cred)
      window == [e \in Devices |-> InWindow(accepted[e], r.at)]
      budget == r.keyed => Len(window[d]) < MAX_PER_CONNECTION
  IN /\ r # None
     /\ asking' = [asking EXCEPT ![d] = None]
     /\ pending' = IF room /\ budget THEN [kept EXCEPT ![d] = r.cred] ELSE kept
     /\ accepted' = IF ~room \/ ~r.keyed THEN accepted
                    ELSE IF budget THEN [window EXCEPT ![d] = Append(@, r.at)]
                    ELSE window
     /\ landed' = IF room /\ budget /\ r.keyed THEN [landed EXCEPT ![d] = Append(@, now)]
                  ELSE landed
     /\ UNCHANGED <<now, denied, denying>>

(* `list`, which an administrator reads, also drops what has expired. *)
List ==
  /\ pending' = RetainPending(pending, now)
  /\ UNCHANGED <<now, denied, accepted, asking, denying, landed>>

(* `take`, for AdmissionApprove: the request is removed and decided. *)
Take(d) ==
  /\ pending' = [pending EXCEPT ![d] = None]
  /\ UNCHANGED <<now, denied, accepted, asking, denying, landed>>

(* `deny`: take the request, reading its credential's expiry ...  *)
DenyTake(d) ==
  /\ denying[d] = 0
  /\ denying' = [denying EXCEPT ![d] =
       IF pending[d] # None THEN pending[d].not_after ELSE now + DENY_DEFAULT]
  /\ pending' = [pending EXCEPT ![d] = None]
  /\ UNCHANGED <<now, denied, accepted, asking, landed>>

(* ... then remember the refusal until it.  *)
DenyRecord(d) ==
  /\ denying[d] # 0
  /\ denied' = [denied EXCEPT ![d] = denying[d]]
  /\ denying' = [denying EXCEPT ![d] = 0]
  /\ UNCHANGED <<now, pending, accepted, asking, landed>>

(* The clock.  A handler between two mutexes takes far less than a second, *)
(* so a request outlives at most one tick. *)
Tick ==
  /\ now < MaxTime
  /\ \A d \in Devices : asking[d] # None => asking[d].at = now
  /\ now' = now + 1
  /\ UNCHANGED <<pending, denied, accepted, asking, denying, landed>>

AdmissionNext ==
  \/ \E d \in Devices, a \in Accounts, n \in Expiries, k \in BOOLEAN :
       Ask(d, [account |-> a, not_after |-> n], k)
  \/ \E d \in Devices : Land(d)
  \/ List
  \/ \E d \in Devices : Take(d)
  \/ \E d \in Devices : DenyTake(d)
  \/ \E d \in Devices : DenyRecord(d)
  \/ Tick

AdmissionSpec == AdmissionInit /\ [][AdmissionNext]_admissionVars

(* The queue never outgrows its two limits, however handlers interleave:   *)
(* at most MAX_PENDING requests, and at most MAX_PER_ACCOUNT of them       *)
(* naming one account (`request`'s silent limits). *)
QueueWithinLimits ==
  /\ Cardinality(Queued) <= MAX_PENDING
  /\ \A a \in Accounts :
       Cardinality({d \in Queued : pending[d].account = a}) <= MAX_PER_ACCOUNT

(* One connection lands at most MAX_PER_CONNECTION requests in any window  *)
(* of RATE_WINDOW seconds, by the time they really landed and not by the   *)
(* list the code prunes as it goes.  The clock a request compares against  *)
(* is the one it read before it waited for the locks, so a request may be  *)
(* counted in the second before: the window checked is one second shorter. *)
WindowBound ==
  \A d \in Devices : \A t \in 0..now :
    Cardinality({i \in DOMAIN landed[d] :
                   t <= landed[d][i] /\ landed[d][i] + 1 < t + RATE_WINDOW})
      <= MAX_PER_CONNECTION

(* The silent limits of `request` hold at every moment although its two  *)
(* locks are taken one after the other.                                  *)
AdmissionLimits == QueueWithinLimits /\ WindowBound

(* What `deny` says of itself: a device whose denial stands is not in the  *)
(* queue. *)
DeniedNotQueued ==
  \A d \in Queued : denied[d] <= now
=============================================================================
