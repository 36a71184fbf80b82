------------------------------- MODULE Limits -------------------------------
(***************************************************************************)
(* The exchange's rate limits (sqexd limits.rs): a token bucket for each   *)
(* (kind, account, scope), taken from before the work is done and swept    *)
(* once it has refilled. Tokens are counted in parts, LimitSecs to a       *)
(* token, so that LimitN of them come back each second and the arithmetic  *)
(* is exact where the code's is floating. A burst of zero is no limit.     *)
(*                                                                         *)
(* Bounds: the clock stops at MaxLTime.                                    *)
(***************************************************************************)
EXTENDS Integers, Sequences, FiniteSets

CONSTANTS
    Buckets,        \* the keys (kind, account, scope) of one limit
    LimitBurst,     \* tokens a full bucket holds
    LimitN,         \* tokens that come back ...
    LimitSecs,      \* ... over so many seconds
    MaxLTime        \* bound on the clock

ASSUME LimitsAssumption ==
    /\ LimitBurst \in Nat /\ MaxLTime \in Nat
    /\ LimitN \in Nat \ {0} /\ LimitSecs \in Nat \ {0}

VARIABLES
    parts,          \* parts of a token in each live bucket; a bucket that is not kept has -1
    countedAt,      \* when they were counted
    lTime,          \* the exchange's clock
    taken,          \* history: when a token was given, oldest first
    comeBack        \* history: when the refused was told a token would be there; 0 when not refused

limitVars == <<parts, countedAt, lTime, taken, comeBack>>

FullBucket == LimitBurst * LimitSecs
NotKept == -1

LeastOf(a, b) == IF a < b THEN a ELSE b

RefilledUncapped(b, t) ==
    IF parts[b] = NotKept THEN FullBucket ELSE parts[b] + (t - countedAt[b]) * LimitN

(* What a bucket holds at time t. *)
Refilled(b, t) ==
    IF parts[b] = NotKept THEN FullBucket
    ELSE LeastOf(parts[b] + (t - countedAt[b]) * LimitN, FullBucket)

(* Whole seconds until a token is there, counted up, one at least. *)
SecondsUntil(held) ==
    LET short == LimitSecs - held
        up == (short + LimitN - 1) \div LimitN
    IN IF up < 1 THEN 1 ELSE up

LimitsInit ==
    /\ parts = [b \in Buckets |-> NotKept] /\ countedAt = [b \in Buckets |-> 0]
    /\ lTime = 0
    /\ taken = [b \in Buckets |-> << >>] /\ comeBack = [b \in Buckets |-> 0]

TakeToken(b) ==
    /\ LimitBurst > 0
    /\ countedAt' = [countedAt EXCEPT ![b] = lTime]
    /\ \/ /\ Refilled(b, lTime) >= LimitSecs
          /\ parts' = [parts EXCEPT ![b] = Refilled(b, lTime) - LimitSecs]
          /\ taken' = [taken EXCEPT ![b] = Append(@, lTime)]
          /\ comeBack' = [comeBack EXCEPT ![b] = 0]
       \/ /\ Refilled(b, lTime) < LimitSecs
          /\ parts' = [parts EXCEPT ![b] = Refilled(b, lTime)]
          /\ comeBack' = [comeBack EXCEPT ![b] = lTime + SecondsUntil(Refilled(b, lTime))]
          /\ UNCHANGED taken
    /\ UNCHANGED lTime

ForgettableMutant(b) == parts[b] # NotKept /\ lTime > countedAt[b]

(* The sweep forgets the buckets that are full: that is what no bucket is. *)
Forgettable(b) == parts[b] # NotKept /\ parts[b] + (lTime - countedAt[b]) * LimitN >= FullBucket

SweepBuckets ==
    /\ \E b \in Buckets : Forgettable(b)
    /\ parts' = [b \in Buckets |-> IF Forgettable(b) THEN NotKept ELSE parts[b]]
    /\ UNCHANGED <<countedAt, lTime, taken, comeBack>>

LimitsTick == lTime < MaxLTime /\ lTime' = lTime + 1 /\ UNCHANGED <<parts, countedAt, taken, comeBack>>

LimitsNext == (\E b \in Buckets : TakeToken(b)) \/ SweepBuckets \/ LimitsTick

LimitsSpec == LimitsInit /\ [][LimitsNext]_limitVars

-----------------------------------------------------------------------------

(* Over any stretch of time a key is given the burst and what came back    *)
(* meanwhile, never more, whatever the sweep forgot between (limits.rs     *)
(* take, sweep); and one who is refused and waits as long as it was told   *)
(* finds a token, and would not have found one a second earlier.           *)
LimitsHold ==
    \A b \in Buckets :
        /\ \A i, j \in DOMAIN taken[b] : i <= j =>
              (j - i + 1) * LimitSecs <= FullBucket + (taken[b][j] - taken[b][i]) * LimitN
        /\ comeBack[b] # 0 =>
              /\ Refilled(b, comeBack[b]) >= LimitSecs
              /\ lTime < comeBack[b] - 1 => Refilled(b, comeBack[b] - 1) < LimitSecs
=============================================================================
