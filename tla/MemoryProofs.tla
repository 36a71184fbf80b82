---------------------------- MODULE MemoryProofs ----------------------------
(***************************************************************************)
(* Proofs about what an exchange keeps in memory behind its mutexes: the   *)
(* buckets of the rate limits, for every burst and rate; the sessions of   *)
(* any identities; introductions; and the limits of the admission queue.   *)
(***************************************************************************)
EXTENDS Admission, Sessions, Rendezvous, Limits, Induction, SequenceTheorems, TLAPS

-----------------------------------------------------------------------------

(* The rate limits. Products are of variables and constants: these two     *)
(* facts are all the proofs below need of multiplication.                  *)
LEMMA TimesSum == ASSUME NEW a \in Int, NEW b \in Int, NEW n \in Int
                  PROVE  (a + b) * n = a * n + b * n /\ a * n \in Int
  OBVIOUS

LEMMA TimesMonotone == ASSUME NEW a \in Int, NEW b \in Int, NEW n \in Nat, a <= b
                       PROVE  a * n <= b * n
  OBVIOUS

(* Seconds counted up: so many bring back what is short, one less does not. *)
LEMMA CountedUp ==
    ASSUME NEW x \in Nat, NEW n \in Nat \ {0}
    PROVE  LET up == (x + n - 1) \div n IN
           up \in Nat /\ up * n >= x /\ (up - 1) * n < x
  OBVIOUS

LimitsTypeOK ==
    /\ parts \in [Buckets -> 0..FullBucket \cup {NotKept}]
    /\ countedAt \in [Buckets -> Nat]
    /\ lTime \in Nat
    /\ taken \in [Buckets -> Seq(Nat)]
    /\ comeBack \in [Buckets -> Nat]

(* What comes back to a bucket from time t to time u, and what k takes cost. *)
Back(t, u) == (u - t) * LimitN
Spent(k) == k * LimitSecs

(* The account of one bucket, in parts of a token. A bucket that is kept   *)
(* holds no more than is left of the burst and of what came back since any *)
(* earlier take, once the takes from then on are paid for; of one that was *)
(* forgotten, every such debt is paid by what came back.                   *)
Balanced(b) ==
    /\ countedAt[b] <= lTime
    /\ \A i \in 1..Len(taken[b]) :
          LET spent == Spent(Len(taken[b]) - i + 1) IN
          IF parts[b] = NotKept
          THEN taken[b][i] <= lTime /\ spent <= Back(taken[b][i], lTime)
          ELSE taken[b][i] <= countedAt[b]
               /\ parts[b] + spent <= FullBucket + Back(taken[b][i], countedAt[b])

(* What LimitsHold says of one bucket: the tokens given, and the promise   *)
(* made to the refused.                                                    *)
NeverMore(b) ==
    \A i, j \in 1..Len(taken[b]) : i <= j =>
        Spent(j - i + 1) <= FullBucket + Back(taken[b][i], taken[b][j])

WorthWaiting(b) ==
    comeBack[b] # 0 =>
        /\ Refilled(b, comeBack[b]) >= LimitSecs
        /\ lTime < comeBack[b] - 1 => Refilled(b, comeBack[b] - 1) < LimitSecs

BucketInv(b) == Balanced(b) /\ NeverMore(b) /\ WorthWaiting(b)

LimitsInv == LimitsTypeOK /\ \A b \in Buckets : BucketInv(b)

LEMMA BackAdds ==
    ASSUME NEW t \in Nat, NEW u \in Nat, NEW v \in Nat
    PROVE  /\ Back(t, u) \in Int /\ Back(t, t) = 0
           /\ Back(t, u) + Back(u, v) = Back(t, v)
           /\ t <= u => Back(t, u) >= 0
<1> USE LimitsAssumption
<1>1. (v - t) * LimitN = (u - t) * LimitN + (v - u) * LimitN
  <2>1. (v - t) = (u - t) + (v - u)
    OBVIOUS
  <2> QED
    BY <2>1, TimesSum
<1>2. (u - t) * LimitN \in Int /\ (t - t) * LimitN = 0 /\ (t <= u => (u - t) * LimitN >= 0)
  OBVIOUS
<1> QED
  BY <1>1, <1>2 DEF Back

LEMMA BackGrows ==
    ASSUME NEW t \in Nat, NEW u \in Nat, NEW v \in Nat, u <= v
    PROVE  Back(t, u) \in Int /\ Back(t, v) \in Int /\ Back(t, u) <= Back(t, v)
<1>1. Back(t, u) \in Int /\ Back(u, v) \in Int /\ Back(t, u) + Back(u, v) = Back(t, v) /\ Back(u, v) >= 0
  BY BackAdds
<1> QED
  BY <1>1

LEMMA SpentAdds ==
    ASSUME NEW k \in Nat
    PROVE  Spent(k) \in Nat /\ Spent(k + 1) = Spent(k) + LimitSecs /\ Spent(1) = LimitSecs
  BY LimitsAssumption DEF Spent

LEMMA FullBucketIsNat == FullBucket \in Nat /\ (LimitBurst > 0 => FullBucket >= LimitSecs)
  BY LimitsAssumption DEF FullBucket

(* What a bucket holds, in the terms of the balance.                       *)
LEMMA RefilledIs ==
    ASSUME LimitsTypeOK, NEW b \in Buckets, NEW t \in Nat, countedAt[b] <= t
    PROVE  /\ Refilled(b, t) \in 0..FullBucket
           /\ parts[b] = NotKept => Refilled(b, t) = FullBucket
           /\ parts[b] # NotKept =>
                 Refilled(b, t) = LeastOf(parts[b] + Back(countedAt[b], t), FullBucket)
<1>1. Back(countedAt[b], t) \in Int /\ Back(countedAt[b], t) >= 0
  BY BackAdds DEF LimitsTypeOK
<1>2. Refilled(b, t) = IF parts[b] = NotKept THEN FullBucket
                       ELSE LeastOf(parts[b] + Back(countedAt[b], t), FullBucket)
  BY DEF Refilled, Back
<1> HIDE DEF FullBucket
<1> QED
  BY <1>1, <1>2, FullBucketIsNat DEF LeastOf, LimitsTypeOK

(* What a bucket holds by now is covered: the takes from any one on, and   *)
(* what is left, were the burst and what came back since.                  *)
LEMMA HeldIsCovered ==
    ASSUME LimitsInv, NEW b \in Buckets
    PROVE  LET n == Len(taken[b]) IN
           /\ n \in Nat /\ countedAt[b] \in Nat /\ countedAt[b] <= lTime
           /\ \A i \in 1..n :
                 /\ taken[b][i] \in Nat /\ taken[b][i] <= lTime
                 /\ Spent(n - i + 1) \in Nat /\ Back(taken[b][i], lTime) \in Int
                 /\ Refilled(b, lTime) + Spent(n - i + 1) <= FullBucket + Back(taken[b][i], lTime)
<1> DEFINE n == Len(taken[b])
           has == Refilled(b, lTime)
           F == FullBucket
           t(i) == taken[b][i]
<1>1. taken[b] \in Seq(Nat) /\ n \in Nat /\ lTime \in Nat /\ countedAt[b] \in Nat /\ countedAt[b] <= lTime
  BY LenProperties DEF LimitsInv, LimitsTypeOK, BucketInv, Balanced
<1>2. F \in Nat
  BY FullBucketIsNat
<1>3. has \in 0..F /\ parts[b] \in Int
  BY <1>1, <1>2, RefilledIs DEF LimitsInv, LimitsTypeOK, NotKept
<1>5. \A i \in 1..n : t(i) \in Nat
  BY <1>1
<1>7. \A i \in 1..n : /\ t(i) <= lTime /\ Spent(n - i + 1) \in Nat /\ Back(t(i), lTime) \in Int
                      /\ has + Spent(n - i + 1) <= F + Back(t(i), lTime)
  <2> SUFFICES ASSUME NEW i \in 1..n
               PROVE  /\ t(i) <= lTime /\ Spent(n - i + 1) \in Nat /\ Back(t(i), lTime) \in Int
                      /\ has + Spent(n - i + 1) <= F + Back(t(i), lTime)
    OBVIOUS
  <2>1. t(i) \in Nat /\ n - i + 1 \in Nat
    BY <1>1, <1>5
  <2>2. Spent(n - i + 1) \in Nat
    BY <2>1, SpentAdds
  <2>3. Back(t(i), lTime) \in Int /\ Back(t(i), countedAt[b]) \in Int /\ Back(countedAt[b], lTime) \in Int
        /\ Back(t(i), countedAt[b]) + Back(countedAt[b], lTime) = Back(t(i), lTime)
    BY <1>1, <2>1, BackAdds
  <2>4. CASE parts[b] = NotKept
    <3>1. t(i) <= lTime /\ Spent(n - i + 1) <= Back(t(i), lTime)
      BY <2>4 DEF LimitsInv, BucketInv, Balanced
    <3>2. has = F
      BY <1>1, <2>4, RefilledIs DEF LimitsInv
    <3> HIDE DEF n, has, F, t
    <3> QED
      BY <1>2, <2>2, <2>3, <3>1, <3>2
  <2>5. CASE parts[b] # NotKept
    <3>1. t(i) <= countedAt[b] /\ parts[b] + Spent(n - i + 1) <= F + Back(t(i), countedAt[b])
      BY <2>5 DEF LimitsInv, BucketInv, Balanced
    <3>2. has = LeastOf(parts[b] + Back(countedAt[b], lTime), F)
      BY <1>1, <2>5, RefilledIs DEF LimitsInv
    <3> HIDE DEF n, has, F, t
    <3>3. has <= parts[b] + Back(countedAt[b], lTime)
      BY <1>2, <1>3, <2>3, <3>2 DEF LeastOf
    <3>4. t(i) <= lTime
      BY <1>1, <2>1, <3>1
    <3>5. \A p, h, m, x, y, z \in Int :
             h <= p + y /\ p + m <= F + x /\ x + y = z => h + m <= F + z
      BY <1>2
    <3>6. has \in Int /\ Spent(n - i + 1) \in Int
      BY <1>2, <1>3, <2>2
    <3>7. has + Spent(n - i + 1) <= F + Back(t(i), lTime)
      BY <1>3, <2>3, <3>1, <3>3, <3>5, <3>6
    <3> QED
      BY <2>2, <2>3, <3>4, <3>7
  <2> QED
    BY <2>4, <2>5
<1> QED
  BY <1>1, <1>5, <1>7

(* A take pays for itself: the balance of the bucket stands after it.      *)
LEMMA TakeBalances ==
    ASSUME LimitsInv, NEW b \in Buckets, TakeToken(b), Refilled(b, lTime) >= LimitSecs
    PROVE  Balanced(b)' /\ NeverMore(b)' /\ parts'[b] \in 0..FullBucket /\ taken'[b] \in Seq(Nat)
<1> DEFINE n == Len(taken[b])
           has == Refilled(b, lTime)
           F == FullBucket
           t(i) == taken[b][i]
<1>1. taken[b] \in Seq(Nat) /\ n \in Nat /\ lTime \in Nat /\ countedAt[b] \in Nat /\ countedAt[b] <= lTime
  BY LenProperties DEF LimitsInv, LimitsTypeOK, BucketInv, Balanced
<1>2. F \in Nat /\ F >= LimitSecs /\ LimitSecs \in Nat
  BY FullBucketIsNat, LimitsAssumption DEF TakeToken
<1>3. has \in 0..F /\ has >= LimitSecs /\ parts[b] \in Int
  BY <1>1, <1>2, RefilledIs DEF LimitsInv, LimitsTypeOK, NotKept
<1>4. /\ taken'[b] = Append(taken[b], lTime) /\ lTime' = lTime /\ countedAt'[b] = lTime
      /\ parts'[b] = has - LimitSecs
  BY <1>1, <1>2, <1>3 DEF TakeToken, LimitsInv, LimitsTypeOK
<1>5. /\ Len(taken'[b]) = n + 1 /\ taken'[b][n + 1] = lTime /\ taken'[b] \in Seq(Nat)
      /\ \A i \in 1..n : taken'[b][i] = t(i) /\ t(i) \in Nat
  BY <1>1, <1>4, AppendProperties
<1>6. parts'[b] \in 0..F /\ parts'[b] # NotKept
  BY <1>2, <1>3, <1>4 DEF NotKept
<1>7. \A i \in 1..n : /\ t(i) <= lTime /\ Spent(n - i + 1) \in Nat /\ Back(t(i), lTime) \in Int
                      /\ has + Spent(n - i + 1) <= F + Back(t(i), lTime)
  BY HeldIsCovered
<1> HIDE DEF n, has, F, t
<1>8. \A i \in 1..n : Spent((n + 1) - i + 1) = Spent(n - i + 1) + LimitSecs
  <2> SUFFICES ASSUME NEW i \in 1..n PROVE Spent((n + 1) - i + 1) = Spent(n - i + 1) + LimitSecs
    OBVIOUS
  <2>1. n - i + 1 \in Nat /\ (n + 1) - i + 1 = (n - i + 1) + 1
    BY <1>1
  <2> QED
    BY <2>1, SpentAdds
<1>9. Spent((n + 1) - (n + 1) + 1) = LimitSecs /\ Back(lTime, lTime) = 0
  <2>1. (n + 1) - (n + 1) + 1 = 1
    BY <1>1
  <2> QED
    BY <1>1, <2>1, SpentAdds, BackAdds
<1>10. \A i \in 1..(n + 1) :
          /\ taken'[b][i] <= lTime
          /\ parts'[b] + Spent((n + 1) - i + 1) <= F + Back(taken'[b][i], lTime)
  <2> SUFFICES ASSUME NEW i \in 1..(n + 1)
               PROVE  /\ taken'[b][i] <= lTime
                      /\ parts'[b] + Spent((n + 1) - i + 1) <= F + Back(taken'[b][i], lTime)
    OBVIOUS
  <2>1. CASE i \in 1..n
    <3>1. /\ taken'[b][i] = t(i) /\ t(i) <= lTime /\ Spent(n - i + 1) \in Nat /\ Back(t(i), lTime) \in Int
          /\ has + Spent(n - i + 1) <= F + Back(t(i), lTime)
          /\ Spent((n + 1) - i + 1) = Spent(n - i + 1) + LimitSecs
      BY <1>5, <1>7, <1>8, <2>1
    <3> QED
      BY <1>2, <1>3, <1>4, <3>1
  <2>2. CASE i = n + 1
    BY <1>1, <1>2, <1>3, <1>4, <1>5, <1>9, <2>2
  <2> QED
    BY <1>1, <2>1, <2>2
<1>11. Balanced(b)'
  BY <1>1, <1>4, <1>5, <1>6, <1>10 DEF Balanced, F
<1>12. NeverMore(b)'
  <2> SUFFICES ASSUME NEW i \in 1..(n + 1), NEW j \in 1..(n + 1), i <= j
               PROVE  Spent(j - i + 1) <= F + Back(taken'[b][i], taken'[b][j])
    BY <1>5 DEF NeverMore, F
  <2>1. CASE j \in 1..n
    <3>1. i \in 1..n
      BY <1>1, <2>1
    <3> QED
      BY <1>5, <2>1, <3>1 DEF LimitsInv, BucketInv, NeverMore, n, t, F
  <2>2. CASE j = n + 1
    <3>1. /\ taken'[b][j] = lTime /\ parts'[b] >= 0 /\ j - i + 1 \in Nat
          /\ parts'[b] + Spent(j - i + 1) <= F + Back(taken'[b][i], lTime)
      BY <1>1, <1>2, <1>5, <1>6, <1>10, <2>2
    <3>2. taken'[b][i] \in Nat
      BY <1>1, <1>5
    <3>3. Spent(j - i + 1) \in Nat /\ Back(taken'[b][i], lTime) \in Int
      BY <1>1, <3>1, <3>2, SpentAdds, BackAdds
    <3> QED
      BY <1>2, <1>6, <3>1, <3>3
  <2> QED
    BY <1>1, <2>1, <2>2
<1> QED
  BY <1>5, <1>6, <1>11, <1>12 DEF F

(* The refused is told when to come back, and it is worth it then and not  *)
(* before; what it found is counted anew and costs nothing.                *)
LEMMA RefusalTells ==
    ASSUME LimitsInv, NEW b \in Buckets, TakeToken(b), Refilled(b, lTime) < LimitSecs
    PROVE  BucketInv(b)' /\ parts'[b] \in 0..FullBucket /\ taken'[b] \in Seq(Nat) /\ comeBack'[b] \in Nat
<1> DEFINE n == Len(taken[b])
           has == Refilled(b, lTime)
           F == FullBucket
           short == LimitSecs - has
           up == (short + LimitN - 1) \div LimitN
<1>1. taken[b] \in Seq(Nat) /\ n \in Nat /\ lTime \in Nat /\ countedAt[b] \in Nat /\ countedAt[b] <= lTime
  BY LenProperties DEF LimitsInv, LimitsTypeOK, BucketInv, Balanced
<1>2. F \in Nat /\ F >= LimitSecs /\ LimitSecs \in Nat /\ LimitN \in Nat \ {0}
  BY FullBucketIsNat, LimitsAssumption DEF TakeToken
<1>3. has \in 0..F /\ has < LimitSecs
  BY <1>1, <1>2, RefilledIs DEF LimitsInv
<1>4. /\ UNCHANGED <<taken, lTime>> /\ countedAt'[b] = lTime /\ parts'[b] = has
      /\ comeBack'[b] = lTime + SecondsUntil(has)
  BY <1>1, <1>2, <1>3 DEF TakeToken, LimitsInv, LimitsTypeOK
<1>5. parts'[b] \in 0..F /\ parts'[b] # NotKept
  BY <1>2, <1>3, <1>4 DEF NotKept
<1>6. Balanced(b)'
  <2>1. \A i \in 1..n : taken[b][i] <= lTime /\ has + Spent(n - i + 1) <= F + Back(taken[b][i], lTime)
    BY HeldIsCovered
  <2>2. Len(taken'[b]) = n /\ taken'[b] = taken[b] /\ lTime' = lTime
    BY <1>4
  <2> HIDE DEF n, has
  <2> QED
    BY <1>1, <1>4, <1>5, <2>1, <2>2 DEF Balanced
<1>7. NeverMore(b)'
  BY <1>1, <1>4 DEF LimitsInv, BucketInv, NeverMore
<1>8. short \in Nat /\ up \in Nat /\ up * LimitN >= short /\ (up - 1) * LimitN < short
  <2>1. short \in Nat
    BY <1>2, <1>3
  <2> HIDE DEF short
  <2> QED
    BY <1>2, <2>1, CountedUp
<1>9. up >= 1 /\ SecondsUntil(has) = up
  BY <1>2, <1>3, <1>8 DEF SecondsUntil
<1>10. /\ comeBack'[b] = lTime + up /\ comeBack'[b] \in Nat
       /\ comeBack'[b] - countedAt'[b] = up /\ (comeBack'[b] - 1) - countedAt'[b] = up - 1
  BY <1>1, <1>4, <1>8, <1>9
<1>11. \A t \in Nat : Refilled(b, t)' = LeastOf(has + (t - lTime) * LimitN, F)
  BY <1>4, <1>5 DEF Refilled, FullBucket
<1>12. Refilled(b, comeBack[b])' = LeastOf(has + up * LimitN, F)
  BY <1>4, <1>5, <1>10 DEF Refilled
<1>13. Refilled(b, comeBack[b] - 1)' = LeastOf(has + (up - 1) * LimitN, F)
  BY <1>4, <1>5, <1>10 DEF Refilled
<1>14. up * LimitN \in Int /\ (up - 1) * LimitN \in Int
  BY <1>2, <1>8
<1>15. Refilled(b, comeBack[b])' >= LimitSecs /\ Refilled(b, comeBack[b] - 1)' < LimitSecs
  <2> HIDE DEF up, has, F
  <2> QED
    BY <1>2, <1>3, <1>8, <1>12, <1>13, <1>14 DEF LeastOf, short
<1>16. WorthWaiting(b)'
  BY <1>15 DEF WorthWaiting
<1> QED
  BY <1>1, <1>4, <1>5, <1>6, <1>7, <1>10, <1>16 DEF BucketInv

(* A bucket nobody takes from keeps its account as time passes ...         *)
LEMMA QuietBucket ==
    ASSUME LimitsInv, NEW b \in Buckets, parts'[b] = parts[b], countedAt'[b] = countedAt[b],
           taken'[b] = taken[b], comeBack'[b] = comeBack[b], lTime' \in Nat, lTime' >= lTime
    PROVE  BucketInv(b)'
<1>1. taken[b] \in Seq(Nat) /\ Len(taken[b]) \in Nat /\ lTime \in Nat /\ countedAt[b] \in Nat
      /\ countedAt[b] <= lTime /\ comeBack[b] \in Nat
  BY LenProperties DEF LimitsInv, LimitsTypeOK, BucketInv, Balanced
<1>2. ASSUME NEW i \in 1..Len(taken[b]), parts[b] = NotKept
      PROVE  taken[b][i] <= lTime' /\ Spent(Len(taken[b]) - i + 1) <= Back(taken[b][i], lTime')
  <2>1. taken[b][i] \in Nat /\ taken[b][i] <= lTime
        /\ Spent(Len(taken[b]) - i + 1) <= Back(taken[b][i], lTime)
    <3>1. Balanced(b)
      BY DEF LimitsInv, BucketInv
    <3>2. taken[b][i] \in Nat
      BY <1>1, <1>2, ElementOfSeq
    <3> QED
      BY <1>2, <3>1, <3>2 DEF Balanced
  <2>2. Len(taken[b]) - i + 1 \in Nat
    BY <1>1
  <2>3. Spent(Len(taken[b]) - i + 1) \in Nat
    BY <2>2, SpentAdds
  <2>4. /\ Back(taken[b][i], lTime) <= Back(taken[b][i], lTime')
        /\ Back(taken[b][i], lTime) \in Int /\ Back(taken[b][i], lTime') \in Int
    BY <1>1, <2>1, BackGrows
  <2>5. taken[b][i] <= lTime'
    BY <1>1, <2>1
  <2> QED
    BY <2>1, <2>3, <2>4, <2>5
<1>3. Balanced(b)'
  <2>1. Balanced(b) /\ lTime' >= lTime /\ countedAt[b] <= lTime'
    BY <1>1 DEF LimitsInv, BucketInv
  <2> QED
    BY <1>2, <2>1 DEF Balanced
<1>4. NeverMore(b)'
  BY DEF LimitsInv, BucketInv, NeverMore
<1>5. WorthWaiting(b)'
  BY <1>1 DEF LimitsInv, BucketInv, WorthWaiting, Refilled
<1> QED
  BY <1>3, <1>4, <1>5 DEF BucketInv

(* ... and when the sweep forgets it: it was full by then.                 *)
LEMMA ForgottenBucket ==
    ASSUME LimitsInv, NEW b \in Buckets, Forgettable(b), parts'[b] = NotKept,
           UNCHANGED <<countedAt, taken, comeBack, lTime>>
    PROVE  BucketInv(b)'
<1> DEFINE n == Len(taken[b])
           F == FullBucket
<1>1. taken[b] \in Seq(Nat) /\ n \in Nat /\ lTime \in Nat /\ countedAt[b] \in Nat
      /\ countedAt[b] <= lTime /\ comeBack[b] \in Nat /\ parts[b] \in Int /\ parts[b] # NotKept
  BY LenProperties DEF LimitsInv, LimitsTypeOK, BucketInv, Balanced, Forgettable, NotKept, FullBucket
<1>2. F \in Nat /\ LimitSecs \in Nat
  BY FullBucketIsNat, LimitsAssumption
<1>3. parts[b] + Back(countedAt[b], lTime) >= F
  BY DEF Forgettable, Back
<1>4. \A u \in Nat : countedAt[b] <= u =>
        Refilled(b, u) = LeastOf(parts[b] + Back(countedAt[b], u), F) /\ Back(countedAt[b], u) \in Int
  BY <1>1, RefilledIs, BackAdds DEF LimitsInv
<1> HIDE DEF F
<1>full. \A u \in Nat : lTime <= u => Refilled(b, u) = F
  <2> SUFFICES ASSUME NEW u \in Nat, lTime <= u PROVE Refilled(b, u) = F
    OBVIOUS
  <2>1. Back(countedAt[b], lTime) <= Back(countedAt[b], u) /\ Back(countedAt[b], lTime) \in Int
    BY <1>1, BackGrows
  <2>2. countedAt[b] <= u
    BY <1>1
  <2>3. Refilled(b, u) = LeastOf(parts[b] + Back(countedAt[b], u), F) /\ Back(countedAt[b], u) \in Int
    BY <1>4, <2>2
  <2>4. parts[b] + Back(countedAt[b], u) >= F
    BY <1>1, <1>2, <1>3, <2>1, <2>3
  <2> QED
    BY <1>1, <1>2, <2>3, <2>4 DEF LeastOf
<1>5. Balanced(b)'
  <2>1. ASSUME NEW i \in 1..n
        PROVE  taken[b][i] <= lTime /\ Spent(n - i + 1) <= Back(taken[b][i], lTime)
    <3>1. /\ taken[b][i] <= lTime /\ Spent(n - i + 1) \in Nat /\ Back(taken[b][i], lTime) \in Int
          /\ Refilled(b, lTime) + Spent(n - i + 1) <= F + Back(taken[b][i], lTime)
      BY HeldIsCovered DEF F
    <3>2. Refilled(b, lTime) = F
      BY <1>1, <1>full
    <3> QED
      BY <1>2, <3>1, <3>2
  <2> QED
    BY <1>1, <2>1 DEF Balanced
<1>6. NeverMore(b)'
  BY DEF LimitsInv, BucketInv, NeverMore
<1>7. WorthWaiting(b)'
  <2> SUFFICES ASSUME comeBack[b] # 0
               PROVE  /\ FullBucket >= LimitSecs
                      /\ lTime < comeBack[b] - 1 => FALSE
    BY <1>1 DEF WorthWaiting, Refilled
  <2>1. /\ Refilled(b, comeBack[b]) >= LimitSecs
        /\ lTime < comeBack[b] - 1 => Refilled(b, comeBack[b] - 1) < LimitSecs
    BY DEF LimitsInv, BucketInv, WorthWaiting
  <2>2. FullBucket >= LimitSecs
    <3>1. Refilled(b, comeBack[b]) = LeastOf(parts[b] + Back(countedAt[b], comeBack[b]), F)
      BY <1>1 DEF Refilled, Back, F
    <3>2. Back(countedAt[b], comeBack[b]) \in Int
      BY <1>1, BackAdds
    <3>3. Refilled(b, comeBack[b]) <= F /\ Refilled(b, comeBack[b]) \in Int
      BY <1>1, <1>2, <3>1, <3>2 DEF LeastOf
    <3> QED
      BY <1>2, <2>1, <3>3 DEF F
  <2>3. ASSUME lTime < comeBack[b] - 1 PROVE FALSE
    <3>1. comeBack[b] - 1 \in Nat /\ lTime <= comeBack[b] - 1
      BY <1>1, <2>3
    <3>2. Refilled(b, comeBack[b] - 1) = F
      BY <3>1, <1>full
    <3> QED
      BY <1>2, <2>1, <2>2, <2>3, <3>2 DEF F
  <2> QED
    BY <2>2, <2>3
<1> QED
  BY <1>5, <1>6, <1>7 DEF BucketInv

LEMMA LimitsInvInit == LimitsInit => LimitsInv
<1> SUFFICES ASSUME LimitsInit PROVE LimitsInv
  OBVIOUS
<1>1. LimitsTypeOK
  BY DEF LimitsInit, LimitsTypeOK
<1>2. ASSUME NEW b \in Buckets PROVE BucketInv(b)
  <2>1. taken[b] = << >> /\ Len(taken[b]) = 0 /\ countedAt[b] = 0 /\ lTime = 0 /\ comeBack[b] = 0
    BY EmptySeq DEF LimitsInit
  <2> QED
    BY <2>1 DEF BucketInv, Balanced, NeverMore, WorthWaiting
<1> QED
  BY <1>1, <1>2 DEF LimitsInv

LEMMA LimitsInvNext == LimitsInv /\ [LimitsNext]_limitVars => LimitsInv'
<1> SUFFICES ASSUME LimitsInv, [LimitsNext]_limitVars PROVE LimitsInv'
  OBVIOUS
<1>type. LimitsTypeOK /\ \A b \in Buckets : BucketInv(b)
  BY DEF LimitsInv
<1>1. ASSUME NEW b \in Buckets, TakeToken(b) PROVE LimitsInv'
  <2>1. Refilled(b, lTime) \in 0..FullBucket /\ FullBucket \in Nat /\ LimitSecs \in Nat
    BY <1>type, HeldIsCovered, RefilledIs, FullBucketIsNat, LimitsAssumption DEF LimitsTypeOK
  <2>2. BucketInv(b)' /\ parts'[b] \in 0..FullBucket /\ taken'[b] \in Seq(Nat) /\ comeBack'[b] \in Nat
    <3>1. CASE Refilled(b, lTime) >= LimitSecs
      <4>1. comeBack'[b] = 0
        BY <1>1, <1>type, <2>1, <3>1 DEF TakeToken, LimitsTypeOK
      <4> QED
        BY <1>1, <3>1, <4>1, TakeBalances DEF BucketInv, WorthWaiting
    <3>2. CASE Refilled(b, lTime) < LimitSecs
      BY <1>1, <3>2, RefusalTells
    <3> QED
      BY <2>1, <3>1, <3>2
  <2>3. /\ parts' = [parts EXCEPT ![b] = parts'[b]] /\ taken' = [taken EXCEPT ![b] = taken'[b]]
        /\ countedAt' = [countedAt EXCEPT ![b] = lTime] /\ comeBack' = [comeBack EXCEPT ![b] = comeBack'[b]]
        /\ lTime' = lTime
    BY <1>1, <1>type DEF TakeToken, LimitsTypeOK
  <2>4. LimitsTypeOK'
    BY <1>type, <2>2, <2>3 DEF LimitsTypeOK
  <2>5. ASSUME NEW c \in Buckets, c # b PROVE BucketInv(c)'
    <3>1. /\ parts'[c] = parts[c] /\ countedAt'[c] = countedAt[c] /\ taken'[c] = taken[c]
          /\ comeBack'[c] = comeBack[c] /\ lTime' \in Nat /\ lTime' >= lTime
      BY <1>type, <2>3, <2>5 DEF LimitsTypeOK
    <3> QED
      BY <3>1, QuietBucket
  <2> QED
    BY <2>2, <2>4, <2>5 DEF LimitsInv
<1>2. CASE SweepBuckets
  <2>1. LimitsTypeOK'
    BY <1>2, <1>type DEF SweepBuckets, LimitsTypeOK
  <2>2. ASSUME NEW b \in Buckets PROVE BucketInv(b)'
    <3>1. CASE Forgettable(b)
      BY <1>2, <3>1, ForgottenBucket DEF SweepBuckets
    <3>2. CASE ~Forgettable(b)
      <4>1. /\ parts'[b] = parts[b] /\ UNCHANGED <<countedAt, taken, comeBack, lTime>>
            /\ lTime \in Nat
        BY <1>2, <1>type, <3>2 DEF SweepBuckets, LimitsTypeOK
      <4> QED
        BY <4>1, QuietBucket
    <3> QED
      BY <3>1, <3>2
  <2> QED
    BY <2>1, <2>2 DEF LimitsInv
<1>3. CASE LimitsTick \/ UNCHANGED limitVars
  <2>1. UNCHANGED <<parts, countedAt, taken, comeBack>> /\ lTime' \in Nat /\ lTime' >= lTime
    BY <1>3, <1>type DEF LimitsTick, limitVars, LimitsTypeOK
  <2>2. LimitsTypeOK'
    BY <1>type, <2>1 DEF LimitsTypeOK
  <2> QED
    BY <2>1, <2>2, QuietBucket DEF LimitsInv
<1> QED
  BY <1>1, <1>2, <1>3 DEF LimitsNext

(* Whatever the burst and the rate, however takes, refusals, sweeps and    *)
(* the clock follow one another: over any stretch of time a key is given   *)
(* the burst and what came back, never more; and who is refused and waits  *)
(* as told finds a token, and not a second earlier (limits.rs).            *)
THEOREM LimitsHoldAlways == LimitsSpec => []LimitsHold
<1>1. LimitsInv => LimitsHold
  <2> SUFFICES ASSUME LimitsInv, NEW b \in Buckets
               PROVE  /\ \A i, j \in DOMAIN taken[b] : i <= j =>
                            (j - i + 1) * LimitSecs <= FullBucket + (taken[b][j] - taken[b][i]) * LimitN
                      /\ comeBack[b] # 0 =>
                            /\ Refilled(b, comeBack[b]) >= LimitSecs
                            /\ lTime < comeBack[b] - 1 => Refilled(b, comeBack[b] - 1) < LimitSecs
    BY DEF LimitsHold
  <2>1. DOMAIN taken[b] = 1..Len(taken[b])
    BY LenProperties DEF LimitsInv, LimitsTypeOK
  <2>2. NeverMore(b) /\ WorthWaiting(b)
    BY DEF LimitsInv, BucketInv
  <2> QED
    BY <2>1, <2>2 DEF NeverMore, WorthWaiting, Spent, Back
<1> QED
  BY <1>1, LimitsInvInit, LimitsInvNext, PTL DEF LimitsSpec

-----------------------------------------------------------------------------

(* Sessions. A session is forgotten or it is one of two distinct ends, its *)
(* number among those given.                                               *)
Count(n) == [i \in 1..n |-> i]

SessionRow(ends, eph, queue, created, open) ==
    [ends |-> ends, eph |-> eph, queue |-> queue, created |-> created, open |-> open]

IsSession(s) ==
    /\ s = SessionRow(s.ends, s.eph, s.queue, s.created, s.open)
    /\ \E p, q \in SPeers : p # q /\ s.ends = {p, q}
    /\ s.queue \in [s.ends -> Seq(Nat)]
    /\ s.open \in BOOLEAN

SessionsTypeOK ==
    /\ sNext \in 0..MaxSessions
    /\ sSessions = [id \in SessionIds |-> sSessions[id]]
    /\ \A id \in SessionIds :
          sSessions[id] # NotMade => IsSession(sSessions[id]) /\ id <= sNext
    /\ held = [p \in SPeers |-> held[p]]
    /\ \A p \in SPeers : held[p].id \in 0..sNext
    /\ sSent \in [SessionIds -> [SPeers -> Nat]]
    /\ sGot \in [SessionIds -> [SPeers -> Seq(Nat)]]

(* While the exchange keeps a session, whoever believes to be in it is one *)
(* of its ends and knows both ephemerals as the exchange paired them. Once *)
(* it is forgotten nobody is told of it any more.                          *)
KnowsPairing(p) ==
    held[p].id # 0 /\ sSessions[held[p].id] # NotMade =>
        LET s == sSessions[held[p].id] IN
        /\ p \in s.ends /\ held[p].own = s.eph[p]
        /\ \A q \in s.ends : q # p => held[p].theirs = s.eph[q]

FramesOf(id) ==
    IF id > sNext THEN \A p \in SPeers : sSent[id][p] = 0 /\ sGot[id][p] = << >>
    ELSE sSessions[id] # NotMade =>
           \A p, q \in SPeers : p # q /\ sSessions[id].ends = {p, q} =>
               sGot[id][q] \o sSessions[id].queue[q] = Count(sSent[id][p])

SessionsInv ==
    /\ SessionsTypeOK
    /\ \A p \in SPeers : KnowsPairing(p)
    /\ SessionKeysAgree
    /\ OneSessionAPair
    /\ \A id \in SessionIds : FramesOf(id)

LEMMA RowsOf ==
    ASSUME NEW s, IsSession(s)
    PROVE  /\ \A open : [s EXCEPT !.open = open] = SessionRow(s.ends, s.eph, s.queue, s.created, open)
           /\ \A queue : [s EXCEPT !.queue = queue] = SessionRow(s.ends, s.eph, queue, s.created, s.open)
<1>1. s = [ends |-> s.ends, eph |-> s.eph, queue |-> s.queue, created |-> s.created, open |-> s.open]
  BY DEF IsSession, SessionRow
<1> DEFINE e == s.ends f == s.eph k == s.queue c == s.created o == s.open
<1> HIDE DEF e, f, k, c, o
<1>2. s = [ends |-> e, eph |-> f, queue |-> k, created |-> c, open |-> o]
  BY <1>1 DEF e, f, k, c, o
<1>3. ASSUME NEW x
      PROVE  /\ [s EXCEPT !.open = x] = [ends |-> e, eph |-> f, queue |-> k, created |-> c, open |-> x]
             /\ [s EXCEPT !.queue = x] = [ends |-> e, eph |-> f, queue |-> x, created |-> c, open |-> o]
  BY <1>2
<1> QED
  BY <1>3 DEF SessionRow, e, f, k, c, o

LEMMA NotMadeIsNone == ~NotMade.open /\ NotMade.ends = {} /\ ~IsSession(NotMade)
  BY DEF NotMade, IsSession

LEMMA LiveOrNot ==
    /\ LiveSessions = [id \in SessionIds |-> LiveSessions[id]]
    /\ \A id \in SessionIds : LiveSessions[id] \in {sSessions[id], NotMade}
  BY DEF LiveSessions

LEMMA TheOther ==
    ASSUME NEW id, NEW p, NEW q, p # q, sSessions[id].ends = {p, q}
    PROVE  Other(id, p) = q
  BY DEF Other

(* What the ends believe, when a step only makes some of them forget.      *)
OnlyForget ==
    /\ held' = [p \in SPeers |-> held'[p]]
    /\ \A p \in SPeers : held'[p] = held[p] \/ held'[p] = NotHeld

(* An end that forgets disagrees with nobody ...                           *)
LEMMA EndsForget ==
    ASSUME SessionsInv, OnlyForget
    PROVE  /\ SessionKeysAgree'
           /\ \A p \in SPeers : held'[p] = held[p] \/ held'[p].id = 0
           /\ \A p \in SPeers : held'[p].id \in 0..sNext
           /\ \A p \in SPeers : held[p].id # 0 => held[p].id \in SessionIds
<1>1. \A p \in SPeers : held'[p] = held[p] \/ held'[p].id = 0
  BY DEF NotHeld, OnlyForget
<1>2. sNext \in Nat /\ \A p \in SPeers : held[p].id \in 0..sNext
  BY SessionsAssumption DEF SessionsInv, SessionsTypeOK
<1>3. \A p \in SPeers : held[p].id # 0 => held[p].id \in SessionIds
  BY SessionsAssumption DEF SessionsInv, SessionsTypeOK, SessionIds
<1>4. SessionKeysAgree'
  BY <1>1 DEF SessionsInv, SessionKeysAgree
<1> QED
  BY <1>1, <1>2, <1>3, <1>4

(* ... and no pair comes to have a second session as long as none opens.   *)
LEMMA NoneOpens ==
    ASSUME SessionsInv,
           \A i \in SessionIds : sSessions'[i].open =>
               sSessions[i].open /\ sSessions'[i].ends = sSessions[i].ends
    PROVE  OneSessionAPair'
  BY DEF SessionsInv, OneSessionAPair

(* Sessions may be forgotten and ends may forget them.                     *)
LEMMA Forgetting ==
    ASSUME SessionsInv, UNCHANGED <<sNext, sSent, sGot>>,
           sSessions' = [id \in SessionIds |-> sSessions'[id]],
           \A id \in SessionIds : sSessions'[id] \in {sSessions[id], NotMade},
           OnlyForget
    PROVE  SessionsInv'
<1>2. SessionsTypeOK'
  <2>1. \A id \in SessionIds : sSessions'[id] # NotMade => IsSession(sSessions'[id]) /\ id <= sNext
    BY DEF SessionsInv, SessionsTypeOK
  <2>2. /\ sNext' = sNext /\ held' = [p \in SPeers |-> held'[p]] /\ \A p \in SPeers : held'[p].id \in 0..sNext
    BY EndsForget DEF OnlyForget
  <2> QED
    BY <2>1, <2>2 DEF SessionsInv, SessionsTypeOK
<1>4. ASSUME NEW p \in SPeers PROVE KnowsPairing(p)'
  <2>1. /\ held'[p] = held[p] \/ held'[p].id = 0
        /\ held[p].id # 0 => held[p].id \in SessionIds
        /\ KnowsPairing(p)
    BY EndsForget DEF SessionsInv
  <2> QED
    BY <2>1 DEF KnowsPairing
<1>5. SessionKeysAgree'
  BY EndsForget
<1>6. OneSessionAPair'
  BY NotMadeIsNone, NoneOpens
<1>7. ASSUME NEW id \in SessionIds PROVE FramesOf(id)'
  <2>1. FramesOf(id)
    BY DEF SessionsInv
  <2>2. CASE sSessions'[id] = sSessions[id]
    BY <2>1, <2>2 DEF FramesOf
  <2>3. CASE sSessions'[id] = NotMade
    BY <2>1, <2>3 DEF FramesOf
  <2> QED
    BY <2>2, <2>3
<1> QED
  BY <1>2, <1>4, <1>5, <1>6, <1>7 DEF SessionsInv

(* Looking a session up forgets what has expired, and no more.             *)
LEMMA LookingUp ==
    ASSUME SessionsInv, UNCHANGED <<sNext, sSent, sGot>>, sSessions' = LiveSessions,
           OnlyForget
    PROVE  SessionsInv'
  BY LiveOrNot, Forgetting

(* An answer to one that asks again: it is told what is kept.              *)
LEMMA OpenAgainInv ==
    ASSUME SessionsInv, NEW p \in SPeers, NEW q \in SPeers, p # q, OpenAgain(p, q)
    PROVE  SessionsInv'
<1>1. PICK id \in Between(p, q) :
        IsRetry(p, id) /\ Answer(p, Told(p, q, id, LiveSessions[id].eph[q]))
  BY DEF OpenAgain
<1>2. UNCHANGED <<sNext, sSent, sGot>> /\ sSessions' = LiveSessions
  BY DEF OpenAgain
<1>3. CASE held' = held
  BY <1>2, <1>3, LookingUp DEF SessionsInv, SessionsTypeOK, OnlyForget
<1>4. CASE held' = [held EXCEPT ![p] = Told(p, q, id, LiveSessions[id].eph[q])]
  <2> DEFINE told == Told(p, q, id, LiveSessions[id].eph[q])
  <2>1. id \in SessionIds /\ LiveSessions[id] = sSessions[id] /\ sSessions[id] # NotMade
        /\ sSessions[id].ends = {p, q}
    BY LiveOrNot, NotMadeIsNone DEF Between
  <2>2. told.id = id /\ told.own = sSessions[id].eph[p] /\ told.theirs = sSessions[id].eph[q]
    BY <1>1, <2>1 DEF Told, IsRetry
  <2>3. held'[p] = told /\ \A r \in SPeers \ {p} : held'[r] = held[r]
    BY <1>4 DEF SessionsInv, SessionsTypeOK
  <2> HIDE DEF told
  <2>4. \A i \in SessionIds : sSessions'[i] \in {sSessions[i], NotMade}
    BY <1>2, LiveOrNot
  <2>5. SessionsTypeOK'
    <3>1. held' = [r \in SPeers |-> held'[r]]
      BY <1>4 DEF SessionsInv, SessionsTypeOK
    <3>2. id \in 0..sNext
      BY <2>1, SessionsAssumption DEF SessionsInv, SessionsTypeOK, SessionIds
    <3>3. \A r \in SPeers : held'[r].id \in 0..sNext
      BY <2>2, <2>3, <3>2 DEF SessionsInv, SessionsTypeOK
    <3>4. sSessions' = [i \in SessionIds |-> sSessions'[i]]
      BY <1>2, LiveOrNot
    <3>5. \A i \in SessionIds : sSessions'[i] # NotMade => IsSession(sSessions'[i]) /\ i <= sNext
      BY <2>4 DEF SessionsInv, SessionsTypeOK
    <3> QED
      BY <1>2, <3>1, <3>3, <3>4, <3>5 DEF SessionsInv, SessionsTypeOK
  <2>6. ASSUME NEW r \in SPeers PROVE KnowsPairing(r)'
    <3>1. CASE r = p
      BY <1>2, <2>1, <2>2, <2>3, <3>1 DEF KnowsPairing
    <3>2. CASE r # p
      <4>1. held'[r] = held[r] /\ (held[r].id # 0 => held[r].id \in SessionIds)
        BY <2>3, <3>2, SessionsAssumption DEF SessionsInv, SessionsTypeOK, SessionIds
      <4> QED
        BY <2>4, <4>1 DEF SessionsInv, KnowsPairing
    <3> QED
      BY <3>1, <3>2
  <2>7. ASSUME NEW r \in SPeers, r # p, held[r].id = id
        PROVE  held[r].own = told.theirs /\ held[r].theirs = told.own
    <3>1. id # 0
      BY <2>1 DEF SessionIds
    <3> QED
      BY <2>1, <2>2, <2>7, <3>1 DEF SessionsInv, KnowsPairing
  <2>8. SessionKeysAgree'
    <3> SUFFICES ASSUME NEW a \in SPeers, NEW c \in SPeers, a # c, held'[a].id # 0, held'[a].id = held'[c].id
                 PROVE  held'[a].theirs = held'[c].own /\ held'[c].theirs = held'[a].own
      BY DEF SessionKeysAgree
    <3>1. CASE a = p
      BY <2>2, <2>3, <2>7, <3>1
    <3>2. CASE c = p
      BY <2>2, <2>3, <2>7, <3>2
    <3>3. CASE a # p /\ c # p
      BY <2>3, <3>3 DEF SessionsInv, SessionKeysAgree
    <3> QED
      BY <3>1, <3>2, <3>3
  <2>9. OneSessionAPair'
    BY <2>4, NotMadeIsNone DEF SessionsInv, OneSessionAPair
  <2>10. ASSUME NEW i \in SessionIds PROVE FramesOf(i)'
    <3>1. FramesOf(i)
      BY DEF SessionsInv
    <3>2. CASE sSessions'[i] = sSessions[i]
      BY <1>2, <3>1, <3>2 DEF FramesOf
    <3>3. CASE sSessions'[i] = NotMade
      BY <1>2, <3>1, <3>3 DEF FramesOf
    <3> QED
      BY <2>4, <3>2, <3>3
  <2> QED
    BY <2>5, <2>6, <2>8, <2>9, <2>10 DEF SessionsInv
<1> QED
  BY <1>1, <1>3, <1>4 DEF Answer

(* Both asked: the sessions the two had are forgotten and a new one, whose *)
(* number nobody holds, pairs the ephemerals of the two requests.          *)
LEMMA OpenMatchedInv ==
    ASSUME SessionsInv, NEW p \in SPeers, NEW q \in SPeers, p # q, OpenMatched(p, q)
    PROVE  SessionsInv'
<1> DEFINE id == sNext + 1
           theirs == LivePending[q][p].eph
           new == SessionRow({p, q}, [e \in {p, q} |-> IF e = p THEN Eph(p) ELSE theirs],
                             [e \in {p, q} |-> << >>], sClock, TRUE)
           told == Told(p, q, id, theirs)
<1>1. id \in SessionIds /\ id \in Nat /\ id # 0 /\ sNext' = id /\ UNCHANGED <<sSent, sGot>>
      /\ sNext \in Nat
  BY SessionsAssumption DEF OpenMatched, SessionIds, SessionsInv, SessionsTypeOK
<1>2. sSessions' = [Remaining(p, q) EXCEPT ![id] = new]
  BY DEF OpenMatched, SessionRow
<1>3. /\ new # NotMade /\ IsSession(new) /\ new.ends = {p, q} /\ new.open
      /\ new.eph[p] = Eph(p) /\ new.eph[q] = theirs /\ new.queue[p] = << >> /\ new.queue[q] = << >>
  <2>1. [e \in {p, q} |-> << >>] \in [{p, q} -> Seq(Nat)]
    BY EmptySeq
  <2>2. IsSession(new)
    BY <2>1 DEF IsSession, SessionRow
  <2> QED
    BY <2>2, NotMadeIsNone DEF SessionRow
<1>4. /\ held' \in {held, [held EXCEPT ![p] = told]} /\ told.id = id
      /\ told.own = Eph(p) /\ told.theirs = theirs
  BY DEF OpenMatched, Answer, Told
<1> HIDE DEF new, told
<1>5. /\ sSessions' = [i \in SessionIds |-> sSessions'[i]] /\ sSessions'[id] = new
      /\ \A i \in SessionIds : i # id => sSessions'[i] \in {sSessions[i], NotMade}
                                       /\ ~(sSessions'[i].open /\ sSessions'[i].ends = {p, q})
  <2>1. \A i \in SessionIds : Remaining(p, q)[i] \in {sSessions[i], NotMade}
                              /\ ~(Remaining(p, q)[i].open /\ Remaining(p, q)[i].ends = {p, q})
    BY LiveOrNot, NotMadeIsNone DEF Remaining, Between
  <2>2. Remaining(p, q) = [i \in SessionIds |-> Remaining(p, q)[i]]
    BY DEF Remaining
  <2> QED
    BY <1>1, <1>2, <2>1, <2>2
<1>6. \A r \in SPeers : held'[r] = held[r] \/ (r = p /\ held'[r] = told)
  BY <1>4 DEF SessionsInv, SessionsTypeOK
<1>7. \A r \in SPeers : held[r].id \in 0..sNext /\ held[r].id # id
  BY <1>1 DEF SessionsInv, SessionsTypeOK
<1>8. SessionsTypeOK'
  <2>1. held' = [r \in SPeers |-> held'[r]]
    BY <1>4 DEF SessionsInv, SessionsTypeOK
  <2>2. \A r \in SPeers : held'[r].id \in 0..id
    BY <1>1, <1>4, <1>6, <1>7
  <2>3. ASSUME NEW i \in SessionIds, sSessions'[i] # NotMade PROVE IsSession(sSessions'[i]) /\ i <= id
    <3>1. CASE i = id
      BY <1>1, <1>3, <1>5, <3>1
    <3>2. CASE i # id
      <4>1. sSessions'[i] = sSessions[i] /\ sSessions[i] # NotMade
        BY <1>5, <2>3, <3>2
      <4>2. IsSession(sSessions[i]) /\ i <= sNext /\ i \in Nat
        BY <4>1 DEF SessionsInv, SessionsTypeOK, SessionIds
      <4> QED
        BY <1>1, <4>1, <4>2
    <3> QED
      BY <3>1, <3>2
  <2>4. id \in 0..MaxSessions
    BY <1>1 DEF SessionIds
  <2> QED
    BY <1>1, <1>5, <2>1, <2>2, <2>3, <2>4 DEF SessionsInv, SessionsTypeOK
<1>9. ASSUME NEW r \in SPeers PROVE KnowsPairing(r)'
  <2>1. CASE held'[r] = held[r]
    <3>1. held[r].id # 0 => held[r].id \in SessionIds
      BY <1>7, SessionsAssumption DEF SessionsInv, SessionsTypeOK, SessionIds
    <3> QED
      BY <1>5, <1>7, <2>1, <3>1 DEF SessionsInv, KnowsPairing
  <2>2. CASE r = p /\ held'[r] = told
    BY <1>1, <1>3, <1>4, <1>5, <2>2 DEF KnowsPairing
  <2> QED
    BY <1>6, <2>1, <2>2
<1>10. SessionKeysAgree'
  BY <1>4, <1>6, <1>7 DEF SessionsInv, SessionKeysAgree
<1>11. OneSessionAPair'
  BY <1>3, <1>5, NotMadeIsNone DEF SessionsInv, OneSessionAPair
<1>12. ASSUME NEW i \in SessionIds PROVE FramesOf(i)'
  <2>1. FramesOf(i)
    BY DEF SessionsInv
  <2>2. CASE i = id
    <3>0. id > sNext /\ ~(id > sNext')
      BY <1>1
    <3>1. \A r \in SPeers : sSent'[id][r] = 0 /\ sGot'[id][r] = << >>
      BY <1>1, <2>1, <2>2, <3>0 DEF FramesOf
    <3>2. Count(0) = << >> /\ << >> \o << >> = << >>
      BY DEF Count
    <3>3. \A r \in SPeers : r \in new.ends => new.queue[r] = << >>
      BY <1>3
    <3>4. ASSUME NEW r \in SPeers, NEW t \in SPeers, new.ends = {r, t}
          PROVE  sGot'[id][t] \o new.queue[t] = Count(sSent'[id][r])
      BY <3>1, <3>2, <3>3, <3>4
    <3> QED
      BY <1>5, <2>2, <3>0, <3>4 DEF FramesOf
  <2>3. CASE i # id
    <3>1. i > sNext' <=> i > sNext
      BY <1>1, <2>3 DEF SessionIds
    <3>2. CASE sSessions'[i] = sSessions[i]
      BY <1>1, <2>1, <3>1, <3>2 DEF FramesOf
    <3>3. CASE sSessions'[i] = NotMade
      BY <1>1, <2>1, <3>1, <3>3 DEF FramesOf
    <3> QED
      BY <1>5, <2>3, <3>2, <3>3
  <2> QED
    BY <2>2, <2>3
<1> QED
  BY <1>8, <1>9, <1>10, <1>11, <1>12 DEF SessionsInv

(* One session moves on: its ends and its keys stay, it is not opened.     *)
LEMMA OneMovesOn ==
    ASSUME SessionsInv, NEW id \in SessionIds, sSessions[id] # NotMade,
           NEW queue, queue \in [sSessions[id].ends -> Seq(Nat)],
           NEW open \in BOOLEAN, open => sSessions[id].open,
           sSessions' = [LiveSessions EXCEPT ![id] =
               SessionRow(sSessions[id].ends, sSessions[id].eph, queue, sSessions[id].created, open)],
           OnlyForget,
           sNext' = sNext,
           sSent' \in [SessionIds -> [SPeers -> Nat]], sGot' \in [SessionIds -> [SPeers -> Seq(Nat)]],
           \A i \in SessionIds \ {id} : sSent'[i] = sSent[i] /\ sGot'[i] = sGot[i],
           FramesOf(id)'
    PROVE  SessionsInv'
<1> DEFINE old == sSessions[id]
           row == SessionRow(old.ends, old.eph, queue, old.created, open)
<1>1. /\ row.ends = old.ends /\ row.eph = old.eph /\ row.open = open /\ row.queue = queue
      /\ row.created = old.created
  BY DEF SessionRow
<1>2. IsSession(old) /\ id <= sNext /\ sNext \in Nat
  BY SessionsAssumption DEF SessionsInv, SessionsTypeOK
<1>3. IsSession(row)
  <2>1. row = SessionRow(row.ends, row.eph, row.queue, row.created, row.open)
    BY <1>1
  <2> QED
    BY <1>1, <1>2, <2>1 DEF IsSession
<1> HIDE DEF row
<1>4. /\ sSessions' = [i \in SessionIds |-> sSessions'[i]] /\ sSessions'[id] = row
      /\ \A i \in SessionIds \ {id} : sSessions'[i] \in {sSessions[i], NotMade}
  BY LiveOrNot DEF row
<1>5. row # NotMade
  BY <1>3, NotMadeIsNone
<1>6. \A p \in SPeers : /\ held'[p] = held[p] \/ held'[p].id = 0
                        /\ held'[p].id \in 0..sNext
  BY EndsForget
<1>7. SessionsTypeOK'
  <2>1. \A i \in SessionIds : sSessions'[i] # NotMade => IsSession(sSessions'[i]) /\ i <= sNext
    BY <1>2, <1>3, <1>4 DEF SessionsInv, SessionsTypeOK
  <2> QED
    BY <1>4, <1>6, <2>1 DEF SessionsInv, SessionsTypeOK, OnlyForget
<1>8. ASSUME NEW p \in SPeers PROVE KnowsPairing(p)'
  <2>1. KnowsPairing(p) /\ (held[p].id # 0 => held[p].id \in SessionIds)
    BY EndsForget DEF SessionsInv
  <2>2. CASE held'[p].id = 0
    BY <2>2 DEF KnowsPairing
  <2>3. CASE held'[p] = held[p] /\ held[p].id # 0 /\ held[p].id # id
    BY <1>4, <2>1, <2>3 DEF KnowsPairing
  <2>4. CASE held'[p] = held[p] /\ held[p].id # 0 /\ held[p].id = id
    BY <1>1, <1>4, <2>1, <2>4 DEF KnowsPairing
  <2> QED
    BY <1>6, <2>2, <2>3, <2>4
<1>9. SessionKeysAgree'
  BY EndsForget
<1>10. OneSessionAPair'
  BY <1>1, <1>4, NotMadeIsNone, NoneOpens
<1>11. ASSUME NEW i \in SessionIds PROVE FramesOf(i)'
  <2>1. FramesOf(i)
    BY DEF SessionsInv
  <2>2. CASE i # id /\ sSessions'[i] = sSessions[i]
    BY <2>1, <2>2 DEF FramesOf
  <2>3. CASE i # id /\ sSessions'[i] = NotMade
    BY <2>1, <2>3 DEF FramesOf
  <2> QED
    BY <1>4, <2>2, <2>3
<1> QED
  BY <1>7, <1>8, <1>9, <1>10, <1>11 DEF SessionsInv

(* One end closes a session.                                               *)
LEMMA CloseSessionInv ==
    ASSUME SessionsInv, NEW p \in SPeers, CloseSession(p)
    PROVE  SessionsInv'
<1>1. PICK id \in SessionIds : id = held[p].id
  BY SessionsAssumption DEF CloseSession, SessionsInv, SessionsTypeOK, SessionIds
<1>2. OnlyForget /\ UNCHANGED <<sNext, sSent, sGot>>
  BY DEF CloseSession, SessionsInv, SessionsTypeOK, OnlyForget
<1>3. CASE LiveSessions[id].open
  <2> DEFINE s == sSessions[id]
  <2>1. LiveSessions[id] = s /\ s # NotMade /\ IsSession(s)
    BY <1>1, <1>3, LiveOrNot, NotMadeIsNone DEF SessionsInv, SessionsTypeOK
  <2>2. [s EXCEPT !.open = FALSE] = SessionRow(s.ends, s.eph, s.queue, s.created, FALSE)
    BY <2>1, RowsOf
  <2>3. sSessions' = [LiveSessions EXCEPT ![id] = SessionRow(s.ends, s.eph, s.queue, s.created, FALSE)]
    BY <1>1, <1>3, <2>1, <2>2 DEF CloseSession
  <2>4. s.queue \in [s.ends -> Seq(Nat)]
    BY <2>1 DEF IsSession
  <2>5. sSent \in [SessionIds -> [SPeers -> Nat]] /\ sGot \in [SessionIds -> [SPeers -> Seq(Nat)]]
    BY DEF SessionsInv, SessionsTypeOK
  <2>6. FramesOf(id)'
    <3>1. FramesOf(id) /\ sSessions'[id].ends = s.ends /\ sSessions'[id].queue = s.queue
      BY <1>1, <2>3, LiveOrNot DEF SessionsInv, SessionRow
    <3> QED
      BY <1>2, <2>1, <3>1 DEF FramesOf
  <2> QED
    BY <1>2, <1>3, <2>1, <2>3, <2>4, <2>5, <2>6, OneMovesOn
<1>4. CASE ~LiveSessions[id].open
  BY <1>1, <1>2, <1>4, LookingUp DEF CloseSession
<1> QED
  BY <1>3, <1>4

LEMMA CountOn == ASSUME NEW n \in Nat
                 PROVE  Count(n) \in Seq(Nat) /\ Append(Count(n), n + 1) = Count(n + 1)
<1>1. Count(n) \in Seq(Nat) /\ Len(Count(n)) = n
  BY DEF Count
<1>2. Count(n + 1) \in Seq(Nat) /\ Len(Count(n + 1)) = n + 1
  BY DEF Count
<1>3. \A i \in 1..(n + 1) : Append(Count(n), n + 1)[i] = Count(n + 1)[i]
  BY <1>1, AppendProperties DEF Count
<1> QED
  BY <1>1, <1>2, <1>3, AppendProperties, SeqEqual

LEMMA ConcatAppend ==
    ASSUME NEW s \in Seq(Nat), NEW t \in Seq(Nat), NEW n \in Nat
    PROVE  s \o Append(t, n) = Append(s \o t, n)
<1>1. <<n>> \in Seq(Nat) /\ s \o t \in Seq(Nat)
  BY ConcatProperties
<1>2. Append(t, n) = t \o <<n>> /\ Append(s \o t, n) = (s \o t) \o <<n>>
  BY <1>1, AppendIsConcat
<1> QED
  BY <1>1, <1>2, ConcatAssociative

(* An end in a session that is kept, and the other end.                    *)
LEMMA EndAndOther ==
    ASSUME SessionsInv, NEW p \in SPeers, NEW id \in SessionIds, held[p].id = id, sSessions[id] # NotMade
    PROVE  \E q \in SPeers : /\ p # q /\ sSessions[id].ends = {p, q} /\ Other(id, p) = q
                            /\ sGot[id][q] \o sSessions[id].queue[q] = Count(sSent[id][p])
                            /\ sGot[id][p] \o sSessions[id].queue[p] = Count(sSent[id][q])
<1>1. id # 0 /\ IsSession(sSessions[id]) /\ ~(id > sNext)
  BY SessionsAssumption DEF SessionsInv, SessionsTypeOK, SessionIds
<1>2. p \in sSessions[id].ends
  BY <1>1 DEF SessionsInv, KnowsPairing
<1>3. PICK q \in SPeers : p # q /\ sSessions[id].ends = {p, q}
  BY <1>1, <1>2 DEF IsSession
<1>4. FramesOf(id) /\ Other(id, p) = q
  BY <1>3, TheOther DEF SessionsInv
<1>5. \A r, t \in SPeers : r # t /\ sSessions[id].ends = {r, t} =>
          sGot[id][t] \o sSessions[id].queue[t] = Count(sSent[id][r])
  BY <1>1, <1>4 DEF FramesOf
<1>6. sSessions[id].ends = {q, p}
  BY <1>3
<1>7. sGot[id][q] \o sSessions[id].queue[q] = Count(sSent[id][p])
  BY <1>3, <1>5
<1>8. sGot[id][p] \o sSessions[id].queue[p] = Count(sSent[id][q])
  BY <1>3, <1>5, <1>6
<1> QED
  BY <1>3, <1>4, <1>7, <1>8

LEMMA SendFrameInv ==
    ASSUME SessionsInv, NEW p \in SPeers, SendFrame(p)
    PROVE  SessionsInv'
<1>1. PICK id \in SessionIds : id = held[p].id
  BY SessionsAssumption DEF SendFrame, SessionsInv, SessionsTypeOK, SessionIds
<1> DEFINE s == sSessions[id]
           n == sSent[id][p]
<1>2. LiveSessions[id] = s /\ s # NotMade /\ IsSession(s) /\ s.open
  BY <1>1, LiveOrNot, NotMadeIsNone DEF SendFrame, SessionsInv, SessionsTypeOK
<1>3. PICK q \in SPeers : /\ p # q /\ s.ends = {p, q} /\ Other(id, p) = q
                         /\ sGot[id][q] \o s.queue[q] = Count(n)
                         /\ sGot[id][p] \o s.queue[p] = Count(sSent[id][q])
  BY <1>1, <1>2, EndAndOther
<1> DEFINE queue == [s.queue EXCEPT ![q] = Append(s.queue[q], n + 1)]
<1>4. sSent \in [SessionIds -> [SPeers -> Nat]] /\ sGot \in [SessionIds -> [SPeers -> Seq(Nat)]] /\ n \in Nat
      /\ s.queue \in [{p, q} -> Seq(Nat)]
  <2>1. sSent \in [SessionIds -> [SPeers -> Nat]] /\ sGot \in [SessionIds -> [SPeers -> Seq(Nat)]]
    BY DEF SessionsInv, SessionsTypeOK
  <2>2. s.queue \in [s.ends -> Seq(Nat)]
    BY <1>2 DEF IsSession
  <2>3. s.ends = {p, q}
    BY <1>3
  <2> HIDE DEF s
  <2>4. s.queue \in [{p, q} -> Seq(Nat)]
    BY <2>2, <2>3
  <2> QED
    BY <2>1, <2>4
<1>5. queue \in [s.ends -> Seq(Nat)] /\ queue[q] = Append(s.queue[q], n + 1) /\ queue[p] = s.queue[p]
  <2>1. Append(s.queue[q], n + 1) \in Seq(Nat)
    BY <1>4, AppendProperties
  <2> QED
    BY <1>3, <1>4, <2>1
<1>6. sSessions' = [LiveSessions EXCEPT ![id] = [s EXCEPT !.queue = queue]]
  BY <1>1, <1>2, <1>3 DEF SendFrame
<1> HIDE DEF queue
<1>7. sSessions' = [LiveSessions EXCEPT ![id] = SessionRow(s.ends, s.eph, queue, s.created, s.open)]
  <2> HIDE DEF s
  <2>1. [s EXCEPT !.queue = queue] = SessionRow(s.ends, s.eph, queue, s.created, s.open)
    BY ONLY <1>2, RowsOf
  <2> QED
    BY ONLY <1>6, <2>1
<1>8. /\ sSent' = [sSent EXCEPT ![id][p] = n + 1] /\ UNCHANGED <<sGot, held, sNext>>
  BY <1>1 DEF SendFrame
<1>9. OnlyForget
  BY <1>8 DEF OnlyForget, SessionsInv, SessionsTypeOK
<1>10. /\ sSent' \in [SessionIds -> [SPeers -> Nat]] /\ sSent'[id][p] = n + 1 /\ sSent'[id][q] = sSent[id][q]
       /\ \A i \in SessionIds \ {id} : sSent'[i] = sSent[i] /\ sGot'[i] = sGot[i]
  BY <1>3, <1>4, <1>8
<1>11. FramesOf(id)'
  <2>1. sSessions'[id].ends = s.ends /\ sSessions'[id].queue = queue
    BY <1>7, LiveOrNot DEF SessionRow
  <2>2. ~(id > sNext')
    BY <1>2, <1>8, SessionsAssumption DEF SessionsInv, SessionsTypeOK, SessionIds
  <2>3. sGot[id][q] \o queue[q] = Count(n + 1)
    <3>1. sGot[id][q] \in Seq(Nat) /\ s.queue[q] \in Seq(Nat) /\ n + 1 \in Nat
      BY <1>4
    <3>2. sGot[id][q] \o Append(s.queue[q], n + 1) = Append(sGot[id][q] \o s.queue[q], n + 1)
      BY <3>1, ConcatAppend
    <3> QED
      BY <1>3, <1>4, <1>5, <3>2, CountOn
  <2> SUFFICES ASSUME NEW r \in SPeers, NEW t \in SPeers, r # t, s.ends = {r, t}
               PROVE  sGot'[id][t] \o queue[t] = Count(sSent'[id][r])
    BY <2>1, <2>2 DEF FramesOf
  <2>4. (r = p /\ t = q) \/ (r = q /\ t = p)
    BY <1>3
  <2> QED
    BY <1>3, <1>5, <1>8, <1>10, <2>3, <2>4
<1>12. sGot' \in [SessionIds -> [SPeers -> Seq(Nat)]] /\ sNext' = sNext /\ s.open \in BOOLEAN
  BY <1>2, <1>4, <1>8 DEF IsSession
<1> QED
  BY <1>2, <1>5, <1>7, <1>9, <1>10, <1>11, <1>12, OneMovesOn

LEMMA RecvFramesInv ==
    ASSUME SessionsInv, NEW p \in SPeers, RecvFrames(p)
    PROVE  SessionsInv'
<1>1. PICK id \in SessionIds : id = held[p].id
  BY SessionsAssumption DEF RecvFrames, SessionsInv, SessionsTypeOK, SessionIds
<1> DEFINE s == sSessions[id]
<1>2. OnlyForget /\ UNCHANGED <<sNext, sSent>>
  BY DEF RecvFrames, Answer, SessionsInv, SessionsTypeOK, OnlyForget
<1>3. CASE LiveSessions[id] = NotMade
  <2>1. sSessions' = LiveSessions /\ UNCHANGED sGot
    BY <1>1, <1>3 DEF RecvFrames
  <2> QED
    BY <1>2, <2>1, LookingUp
<1>4. CASE LiveSessions[id] # NotMade
  <2>1. LiveSessions[id] = s /\ s # NotMade /\ IsSession(s)
    BY <1>4, LiveOrNot DEF SessionsInv, SessionsTypeOK
  <2>2. PICK q \in SPeers : /\ p # q /\ s.ends = {p, q}
                           /\ sGot[id][q] \o s.queue[q] = Count(sSent[id][p])
                           /\ sGot[id][p] \o s.queue[p] = Count(sSent[id][q])
    BY <1>1, <2>1, EndAndOther
  <2> DEFINE queue == [s.queue EXCEPT ![p] = << >>]
  <2>3. sSent \in [SessionIds -> [SPeers -> Nat]] /\ sGot \in [SessionIds -> [SPeers -> Seq(Nat)]]
        /\ s.queue \in [{p, q} -> Seq(Nat)] /\ s.open \in BOOLEAN
    BY <2>1, <2>2 DEF SessionsInv, SessionsTypeOK, IsSession
  <2>4. queue \in [s.ends -> Seq(Nat)] /\ queue[p] = << >> /\ queue[q] = s.queue[q]
    BY <2>2, <2>3
  <2>5. /\ sSessions' = [LiveSessions EXCEPT ![id] = [s EXCEPT !.queue = queue]]
        /\ sGot' = [sGot EXCEPT ![id][p] = sGot[id][p] \o s.queue[p]]
    BY <1>1, <1>4, <2>1 DEF RecvFrames
  <2> HIDE DEF queue
  <2>6. sSessions' = [LiveSessions EXCEPT ![id] = SessionRow(s.ends, s.eph, queue, s.created, s.open)]
    BY <2>1, <2>5, RowsOf
  <2>7. sGot[id][p] \o s.queue[p] \in Seq(Nat)
    BY <2>3, ConcatProperties
  <2>8. /\ sGot' \in [SessionIds -> [SPeers -> Seq(Nat)]] /\ sGot'[id][q] = sGot[id][q]
        /\ sGot'[id][p] = sGot[id][p] \o s.queue[p]
        /\ \A i \in SessionIds \ {id} : sSent'[i] = sSent[i] /\ sGot'[i] = sGot[i]
    BY <1>2, <2>2, <2>3, <2>5, <2>7
  <2>9. FramesOf(id)'
    <3>1. sSessions'[id].ends = s.ends /\ sSessions'[id].queue = queue
      BY <2>6, LiveOrNot DEF SessionRow
    <3>2. ~(id > sNext')
      BY <1>2, <2>1, SessionsAssumption DEF SessionsInv, SessionsTypeOK, SessionIds
    <3>3. (sGot[id][p] \o s.queue[p]) \o << >> = sGot[id][p] \o s.queue[p]
      BY <2>7, ConcatEmptySeq
    <3> SUFFICES ASSUME NEW r \in SPeers, NEW t \in SPeers, r # t, s.ends = {r, t}
                 PROVE  sGot'[id][t] \o queue[t] = Count(sSent'[id][r])
      BY <3>1, <3>2 DEF FramesOf
    <3>4. (r = p /\ t = q) \/ (r = q /\ t = p)
      BY <2>2
    <3> QED
      BY <1>2, <2>2, <2>4, <2>8, <3>3, <3>4
  <2>10. sSent' \in [SessionIds -> [SPeers -> Nat]]
    BY <1>2, <2>3
  <2> QED
    BY <1>2, <2>1, <2>3, <2>4, <2>6, <2>8, <2>9, <2>10, OneMovesOn
<1> QED
  BY <1>3, <1>4

LEMMA SessionsInvInit == SessionInit => SessionsInv
<1> SUFFICES ASSUME SessionInit PROVE SessionsInv
  OBVIOUS
<1>1. /\ sNext = 0 /\ sSessions = [id \in SessionIds |-> NotMade] /\ held = [p \in SPeers |-> NotHeld]
      /\ sSent = [id \in SessionIds |-> [p \in SPeers |-> 0]]
      /\ sGot = [id \in SessionIds |-> [p \in SPeers |-> << >>]]
  BY DEF SessionInit
<1>2. NotHeld.id = 0
  BY DEF NotHeld
<1>3. SessionsTypeOK
  BY <1>1, <1>2, EmptySeq, SessionsAssumption DEF SessionsTypeOK
<1>4. \A p \in SPeers : KnowsPairing(p)
  BY <1>1, <1>2 DEF KnowsPairing
<1>5. SessionKeysAgree
  BY <1>1, <1>2 DEF SessionKeysAgree
<1>6. OneSessionAPair
  BY <1>1, NotMadeIsNone DEF OneSessionAPair
<1>7. \A id \in SessionIds : FramesOf(id)
  BY <1>1 DEF FramesOf, SessionIds
<1> QED
  BY <1>3, <1>4, <1>5, <1>6, <1>7 DEF SessionsInv

LEMMA SessionsInvNext == SessionsInv /\ [SessionNext]_sessionVars => SessionsInv'
<1> SUFFICES ASSUME SessionsInv, [SessionNext]_sessionVars PROVE SessionsInv'
  OBVIOUS
<1>kept. /\ held = [p \in SPeers |-> held[p]] /\ sSessions = [id \in SessionIds |-> sSessions[id]]
  BY DEF SessionsInv, SessionsTypeOK
<1>1. ASSUME NEW p \in SPeers, NEW q \in SPeers, OpenSession(p, q) PROVE SessionsInv'
  <2>1. CASE OpenAgain(p, q)
    BY <1>1, <2>1, OpenAgainInv DEF OpenSession
  <2>2. CASE OpenMatched(p, q)
    BY <1>1, <2>2, OpenMatchedInv DEF OpenSession
  <2>3. CASE OpenWaits(p, q)
    <3>1. UNCHANGED <<sNext, sSent, sGot>> /\ OnlyForget /\ sSessions' = Remaining(p, q)
      BY <1>kept, <2>3 DEF OpenWaits, OnlyForget
    <3>2. /\ Remaining(p, q) = [id \in SessionIds |-> Remaining(p, q)[id]]
          /\ \A id \in SessionIds : Remaining(p, q)[id] \in {sSessions[id], NotMade}
      BY LiveOrNot DEF Remaining
    <3> QED
      BY <3>1, <3>2, Forgetting
  <2> QED
    BY <1>1, <2>1, <2>2, <2>3 DEF OpenSession
<1>2. ASSUME NEW p \in SPeers, SendFrame(p) PROVE SessionsInv'
  BY <1>2, SendFrameInv
<1>3. ASSUME NEW p \in SPeers, RecvFrames(p) PROVE SessionsInv'
  BY <1>3, RecvFramesInv
<1>4. ASSUME NEW p \in SPeers, CloseSession(p) PROVE SessionsInv'
  BY <1>4, CloseSessionInv
<1>5. ASSUME NEW p \in SPeers, EndRestarts(p) PROVE SessionsInv'
  <2>1. UNCHANGED <<sNext, sSent, sGot, sSessions>> /\ OnlyForget
    BY <1>kept, <1>5 DEF EndRestarts, OnlyForget
  <2> QED
    BY <1>kept, <2>1, Forgetting
<1>6. CASE SessionTick \/ UNCHANGED sessionVars
  <2>1. UNCHANGED <<sNext, sSent, sGot, sSessions>> /\ OnlyForget
    BY <1>kept, <1>6 DEF SessionTick, sessionVars, OnlyForget
  <2> QED
    BY <1>kept, <2>1, Forgetting
<1> QED
  BY <1>1, <1>2, <1>3, <1>4, <1>5, <1>6 DEF SessionNext

(* The two ends of a session agree on its keys, on its being the only one  *)
(* of the two and on what each has said in it, for any identities, any     *)
(* lifetime of a session and any length of its queues, whatever answers    *)
(* are lost, ends restart and sessions expire (session.rs).                *)
THEOREM SessionsAgreeAlways == SessionSpec => []SessionsAgree
<1>1. SessionsInv => SessionsAgree
  <2> SUFFICES ASSUME SessionsInv PROVE FramesKept
    BY DEF SessionsInv, SessionsAgree
  <2> SUFFICES ASSUME NEW id \in SessionIds, sSessions[id] # NotMade, NEW p \in sSessions[id].ends
               PROVE  LET q == Other(id, p) IN
                      sGot[id][q] \o sSessions[id].queue[q] = [i \in 1..sSent[id][p] |-> i]
    BY DEF FramesKept
  <2>1. IsSession(sSessions[id]) /\ ~(id > sNext) /\ FramesOf(id)
    BY SessionsAssumption DEF SessionsInv, SessionsTypeOK, SessionIds
  <2>2. PICK q \in SPeers : p # q /\ p \in SPeers /\ sSessions[id].ends = {p, q}
    BY <2>1 DEF IsSession
  <2>3. Other(id, p) = q
    BY <2>2, TheOther
  <2> QED
    BY <2>1, <2>2, <2>3 DEF FramesOf, Count
<1> QED
  BY <1>1, SessionsInvInit, SessionsInvNext, PTL DEF SessionSpec
-----------------------------------------------------------------------------

(* The admission queue. Its bounds need no finite set of devices: the queue *)
(* begins empty and a step adds one to it at most.                          *)
NamedIn(a) == {d \in Queued : pending[d].account = a}

QueueInv ==
    /\ pending = [d \in Devices |-> pending[d]]
    /\ IsFiniteSet(Queued)
    /\ QueueWithinLimits

LEMMA OneMore ==
    ASSUME NEW S, IsFiniteSet(S), NEW x
    PROVE  IsFiniteSet(S \cup {x}) /\ Cardinality(S \cup {x}) <= Cardinality(S) + 1
<1>1. Cardinality(S) \in Nat
  BY FS_CardinalityType
<1>2. IsFiniteSet(S \cup {x}) /\ Cardinality(S \cup {x}) = IF x \in S THEN Cardinality(S) ELSE Cardinality(S) + 1
  BY FS_AddElement
<1> QED
  BY <1>1, <1>2

(* Fewer are queued, or the same. *)
LEMMA QueueShrinks ==
    ASSUME QueueInv, pending' = [d \in Devices |-> pending'[d]],
           \A d \in Devices : pending'[d] \in {pending[d], None}
    PROVE  QueueInv'
<1>1. Queued' \subseteq Queued
  BY DEF Queued
<1>2. IsFiniteSet(Queued') /\ Cardinality(Queued') <= Cardinality(Queued)
      /\ Cardinality(Queued) \in Nat /\ Cardinality(Queued') \in Nat
  BY <1>1, FS_Subset, FS_CardinalityType DEF QueueInv
<1>3. ASSUME NEW a \in Accounts PROVE Cardinality(NamedIn(a)') <= MAX_PER_ACCOUNT
  <2>1. NamedIn(a)' \subseteq NamedIn(a) /\ NamedIn(a) \subseteq Queued
    BY DEF NamedIn, Queued
  <2>2. IsFiniteSet(NamedIn(a))
    BY <2>1, FS_Subset DEF QueueInv
  <2>3. Cardinality(NamedIn(a)') <= Cardinality(NamedIn(a))
        /\ Cardinality(NamedIn(a)) \in Nat /\ Cardinality(NamedIn(a)') \in Nat
    BY <2>1, <2>2, FS_Subset, FS_CardinalityType
  <2>4. Cardinality(NamedIn(a)) <= MAX_PER_ACCOUNT
    BY DEF QueueInv, QueueWithinLimits, NamedIn
  <2> QED
    BY <2>3, <2>4, AdmissionAssumption
<1>4. Cardinality(Queued') <= MAX_PENDING
  BY <1>2, AdmissionAssumption DEF QueueInv, QueueWithinLimits
<1> QED
  BY <1>2, <1>3, <1>4 DEF QueueInv, QueueWithinLimits, NamedIn

(* One more is queued, where there was room for it. *)
LEMMA OneIsQueued ==
    ASSUME QueueInv, NEW d \in Devices, NEW t, NEW cred,
           Room(RetainPending(pending, t), d, cred),
           pending' = [RetainPending(pending, t) EXCEPT ![d] = cred]
    PROVE  QueueInv'
<1> DEFINE kept == RetainPending(pending, t)
           heldK == {e \in Devices : kept[e] # None}
           named == {e \in heldK : kept[e].account = cred.account}
<1>1. /\ kept = [e \in Devices |-> kept[e]]
      /\ \A e \in Devices : kept[e] \in {pending[e], None}
  BY DEF RetainPending
<1>2. kept[d] = None /\ Cardinality(heldK) < MAX_PENDING /\ Cardinality(named) < MAX_PER_ACCOUNT
  BY DEF Room
<1> HIDE DEF kept
<1>3. pending' = [kept EXCEPT ![d] = cred]
  BY DEF kept
<1>4. pending' = [e \in Devices |-> pending'[e]] /\ pending'[d] = cred
      /\ \A e \in Devices \ {d} : pending'[e] = kept[e]
  BY <1>1, <1>3
<1>5. heldK \subseteq Queued /\ named \subseteq heldK
  BY <1>1 DEF Queued
<1>6. IsFiniteSet(Queued)
  BY DEF QueueInv
<1>7. IsFiniteSet(heldK) /\ IsFiniteSet(named) /\ Cardinality(heldK) \in Nat /\ Cardinality(named) \in Nat
  BY <1>5, <1>6, FS_Subset, FS_CardinalityType
<1>8. Queued' \subseteq heldK \cup {d}
  BY <1>1, <1>4 DEF Queued
<1>9. IsFiniteSet(Queued') /\ Cardinality(Queued') <= MAX_PENDING
  <2>1. IsFiniteSet(heldK \cup {d}) /\ Cardinality(heldK \cup {d}) <= Cardinality(heldK) + 1
    BY <1>7, OneMore
  <2>2. /\ IsFiniteSet(Queued') /\ Cardinality(Queued') <= Cardinality(heldK \cup {d})
        /\ Cardinality(Queued') \in Nat /\ Cardinality(heldK \cup {d}) \in Nat
    BY <1>8, <2>1, FS_Subset, FS_CardinalityType
  <2> QED
    BY <1>2, <1>7, <2>1, <2>2, AdmissionAssumption
<1>10. ASSUME NEW a \in Accounts PROVE Cardinality(NamedIn(a)') <= MAX_PER_ACCOUNT
  <2>1. CASE a = cred.account
    <3>1. NamedIn(a)' \subseteq named \cup {d}
      BY <1>4, <1>8, <2>1 DEF NamedIn, Queued
    <3>2. IsFiniteSet(named \cup {d}) /\ Cardinality(named \cup {d}) <= Cardinality(named) + 1
      BY <1>7, OneMore
    <3>3. /\ Cardinality(NamedIn(a)') <= Cardinality(named \cup {d})
          /\ Cardinality(NamedIn(a)') \in Nat /\ Cardinality(named \cup {d}) \in Nat
      BY <3>1, <3>2, FS_Subset, FS_CardinalityType
    <3> QED
      BY <1>2, <1>7, <3>2, <3>3, AdmissionAssumption
  <2>2. CASE a # cred.account
    <3>1. NamedIn(a)' \subseteq NamedIn(a) /\ NamedIn(a) \subseteq Queued
      BY <1>1, <1>4, <2>2 DEF NamedIn, Queued
    <3>2. IsFiniteSet(NamedIn(a))
      BY <1>6, <3>1, FS_Subset
    <3>3. /\ Cardinality(NamedIn(a)') <= Cardinality(NamedIn(a))
          /\ Cardinality(NamedIn(a)') \in Nat /\ Cardinality(NamedIn(a)) \in Nat
      BY <3>1, <3>2, FS_Subset, FS_CardinalityType
    <3>4. Cardinality(NamedIn(a)) <= MAX_PER_ACCOUNT
      BY DEF QueueInv, QueueWithinLimits, NamedIn
    <3> QED
      BY <3>3, <3>4, AdmissionAssumption
  <2> QED
    BY <2>1, <2>2
<1> QED
  BY <1>4, <1>9, <1>10 DEF QueueInv, QueueWithinLimits, NamedIn

LEMMA QueueInvInit == AdmissionInit => QueueInv
<1> SUFFICES ASSUME AdmissionInit PROVE QueueInv
  OBVIOUS
<1>1. Queued = {} /\ \A a \in Accounts : {d \in Queued : pending[d].account = a} = {}
  BY DEF AdmissionInit, Queued
<1> QED
  BY <1>1, FS_EmptySet, AdmissionAssumption DEF QueueInv, QueueWithinLimits, AdmissionInit

LEMMA QueueInvNext == QueueInv /\ [AdmissionNext]_admissionVars => QueueInv'
<1> SUFFICES ASSUME QueueInv, [AdmissionNext]_admissionVars PROVE QueueInv'
  OBVIOUS
<1>0. pending = [d \in Devices |-> pending[d]]
  BY DEF QueueInv
<1>1. CASE UNCHANGED pending
  BY <1>0, <1>1, QueueShrinks
<1>2. CASE \E d \in Devices : Land(d)
  <2>1. PICK d \in Devices : Land(d)
    BY <1>2
  <2> DEFINE r == asking[d]
             kept == RetainPending(pending, r.at)
  <2>2. pending' = kept \/ (Room(kept, d, r.cred) /\ pending' = [kept EXCEPT ![d] = r.cred])
    BY <2>1 DEF Land
  <2>3. CASE pending' = kept
    BY <2>3, QueueShrinks DEF RetainPending
  <2>4. CASE Room(kept, d, r.cred) /\ pending' = [kept EXCEPT ![d] = r.cred]
    BY <2>4, OneIsQueued
  <2> QED
    BY <2>2, <2>3, <2>4
<1>3. CASE List
  BY <1>3, QueueShrinks DEF List, RetainPending
<1>4. CASE \E d \in Devices : Take(d) \/ DenyTake(d)
  <2>1. PICK d \in Devices : pending' = [pending EXCEPT ![d] = None]
    BY <1>4 DEF Take, DenyTake
  <2> QED
    BY <1>0, <2>1, QueueShrinks
<1>5. \/ UNCHANGED pending \/ List
      \/ \E d \in Devices : Land(d)
      \/ \E d \in Devices : Take(d) \/ DenyTake(d)
  BY DEF AdmissionNext, Ask, DenyRecord, Tick, admissionVars
<1> QED
  BY <1>1, <1>2, <1>3, <1>4, <1>5

(* The budget of a connection. What is retained of its list is what is     *)
(* recent, in order; the list is filtered entry by entry.                  *)
Filtering(times, t, g, m) ==
    g = [n \in 0..m |-> IF n = 0 THEN <<>>
                        ELSE IF Recent(times[n], t) THEN Append(g[n - 1], times[n]) ELSE g[n - 1]]

LEMMA FilteringEnds ==
    ASSUME NEW times \in Seq(Nat), NEW t \in Nat, NEW m \in 0..Len(times)
    PROVE  \E g : Filtering(times, t, g, m)
<1> DEFINE Good == {k \in Nat : k <= Len(times) => \E g : Filtering(times, t, g, k)}
<1>1. 0 \in Good
  <2> DEFINE g == [n \in 0..0 |-> <<>>]
  <2>1. Filtering(times, t, g, 0)
    BY DEF Filtering
  <2> QED
    BY <2>1
<1>2. ASSUME NEW k \in Nat, k \in Good PROVE k + 1 \in Good
  <2> SUFFICES ASSUME k + 1 <= Len(times) PROVE \E g : Filtering(times, t, g, k + 1)
    OBVIOUS
  <2>1. PICK g : Filtering(times, t, g, k)
    BY <1>2, LenProperties
  <2> DEFINE next == IF Recent(times[k + 1], t) THEN Append(g[k], times[k + 1]) ELSE g[k]
             h == [n \in 0..(k + 1) |-> IF n = k + 1 THEN next ELSE g[n]]
  <2>2. ASSUME NEW n \in 0..(k + 1)
        PROVE  h[n] = IF n = 0 THEN <<>>
                      ELSE IF Recent(times[n], t) THEN Append(h[n - 1], times[n]) ELSE h[n - 1]
    <3>1. CASE n = k + 1
      <4>1. h[n] = next /\ n # 0 /\ n - 1 \in 0..(k + 1) /\ n - 1 # k + 1 /\ n - 1 = k
        BY <3>1
      <4>2. h[n - 1] = g[k]
        BY <4>1
      <4> QED
        BY <3>1, <4>1, <4>2
    <3>2. CASE n = 0
      <4>1. g[0] = <<>>
        BY <2>1 DEF Filtering
      <4> QED
        BY <3>2, <4>1
    <3>3. CASE n # k + 1 /\ n # 0
      <4>1. h[n] = g[n] /\ n \in 0..k /\ n - 1 \in 0..(k + 1) /\ n - 1 # k + 1
        BY <3>3
      <4>2. h[n - 1] = g[n - 1]
        BY <4>1
      <4>3. g[n] = IF Recent(times[n], t) THEN Append(g[n - 1], times[n]) ELSE g[n - 1]
        BY <2>1, <3>3, <4>1 DEF Filtering
      <4> QED
        BY <3>3, <4>1, <4>2, <4>3
    <3> QED
      BY <3>1, <3>2, <3>3
  <2>3. h = [n \in 0..(k + 1) |-> h[n]]
    OBVIOUS
  <2> HIDE DEF h
  <2>4. Filtering(times, t, h, k + 1)
    BY <2>2, <2>3 DEF Filtering
  <2> QED
    BY <2>4
<1> HIDE DEF Good
<1>3. Nat \subseteq Good
  BY <1>1, <1>2, NumberInduction
<1> QED
  BY <1>3, LenProperties DEF Good

(* The times of a list from t on.                                          *)
From(s, t) == {j \in 1..Len(s) : s[j] >= t}

LEMMA FromIsFinite ==
    ASSUME NEW s \in Seq(Nat), NEW t \in Int
    PROVE  /\ IsFiniteSet(From(s, t)) /\ Cardinality(From(s, t)) \in Nat
           /\ Cardinality(From(s, t)) <= Len(s) /\ Len(s) \in Nat
<1>1. Len(s) \in Nat
  BY LenProperties
<1>2. IsFiniteSet(1..Len(s)) /\ Cardinality(1..Len(s)) = Len(s)
  <2> DEFINE n == Len(s)
  <2>1. n \in Nat
    BY <1>1
  <2> HIDE DEF n
  <2>2. 1 \in Int /\ n \in Int
    BY <2>1
  <2>3. IsFiniteSet(1..n)
    BY <2>2, FS_Interval
  <2>4. Cardinality(1..n) = IF 1 > n THEN 0 ELSE n - 1 + 1
    BY <2>2, FS_Interval
  <2>5. Cardinality(1..n) = n
    BY <2>1, <2>4
  <2> QED
    BY <2>3, <2>5 DEF n
<1>3. From(s, t) \subseteq 1..Len(s)
  BY DEF From
<1> QED
  BY <1>1, <1>2, <1>3, FS_Subset, FS_CardinalityType

LEMMA OneMoreFrom ==
    ASSUME NEW s \in Seq(Nat), NEW x \in Nat, NEW t \in Int
    PROVE  /\ Append(s, x) \in Seq(Nat) /\ Cardinality(From(s, t)) \in Nat
           /\ Cardinality(From(Append(s, x), t)) =
                IF x >= t THEN Cardinality(From(s, t)) + 1 ELSE Cardinality(From(s, t))
<1> DEFINE r == Append(s, x)
<1>1. /\ r \in Seq(Nat) /\ Len(r) = Len(s) + 1 /\ Len(s) \in Nat /\ r[Len(s) + 1] = x
      /\ \A n \in 1..Len(s) : r[n] = s[n]
  BY AppendProperties, LenProperties
<1>2. IsFiniteSet(From(s, t)) /\ Cardinality(From(s, t)) \in Nat
  BY FromIsFinite
<1> HIDE DEF r
<1>0. 1..Len(r) = 1..Len(s) \cup {Len(s) + 1} /\ Len(s) + 1 \notin 1..Len(s)
  BY <1>1
<1>3. CASE x >= t
  <2>1. From(r, t) = From(s, t) \cup {Len(s) + 1} /\ Len(s) + 1 \notin From(s, t)
    BY <1>0, <1>1, <1>3 DEF From
  <2>2. Cardinality(From(r, t)) = Cardinality(From(s, t)) + 1
    BY <1>2, <2>1, FS_AddElement
  <2> QED
    BY <1>1, <1>2, <1>3, <2>2 DEF r
<1>4. CASE ~ (x >= t)
  <2>1. From(r, t) = From(s, t)
    BY <1>0, <1>1, <1>4 DEF From
  <2> QED
    BY <1>1, <1>2, <1>4, <2>1 DEF r
<1> QED
  BY <1>3, <1>4

(* Nothing that is soon enough is let go.                                  *)
LEMMA RecentAreKept ==
    ASSUME NEW times \in Seq(Nat), NEW u \in Nat, NEW t \in Int,
           \A x \in Nat : x >= t => Recent(x, u)
    PROVE  /\ InWindow(times, u) \in Seq(Nat)
           /\ Cardinality(From(times, t)) <= Cardinality(From(InWindow(times, u), t))
<1> DEFINE len == Len(times)
           kept == CHOOSE g : Filtering(times, u, g, len)
           Upto(n) == {j \in 1..n : times[j] >= t}
           Good == {n \in Nat : n <= len => /\ kept[n] \in Seq(Nat)
                                            /\ Cardinality(Upto(n)) <= Cardinality(From(kept[n], t))}
<1>1. len \in Nat /\ \A n \in 1..len : times[n] \in Nat
  BY LenProperties, ElementOfSeq
<1>2. Filtering(times, u, kept, len)
  BY <1>1, FilteringEnds
<1>3. InWindow(times, u) = kept[len]
  BY DEF InWindow, Filtering
<1> HIDE DEF kept
<1>4. kept[0] = <<>> /\ \A n \in 1..len :
        kept[n] = IF Recent(times[n], u) THEN Append(kept[n - 1], times[n]) ELSE kept[n - 1]
  <2> HIDE DEF len
  <2>1. /\ 0 \in 0..len /\ \A n \in 1..len : n \in 0..len /\ n # 0
    BY <1>1
  <2> QED
    BY <1>2, <2>1 DEF Filtering
<1>5. ASSUME NEW n \in Nat
      PROVE  IsFiniteSet(Upto(n)) /\ Cardinality(Upto(n)) \in Nat
  <2>1. IsFiniteSet(1..n) /\ Upto(n) \subseteq 1..n
    BY FS_Interval
  <2> QED
    BY <2>1, FS_Subset, FS_CardinalityType
<1>6. 0 \in Good
  <2>1. Upto(0) = {}
    OBVIOUS
  <2>2. <<>> \in Seq(Nat) /\ Len(<<>>) = 0
    OBVIOUS
  <2>3. From(<<>>, t) = {}
    BY <2>2 DEF From
  <2>4. Cardinality({}) <= Cardinality({})
    BY FS_EmptySet
  <2> QED
    BY <1>4, <2>1, <2>2, <2>3, <2>4
<1>7. ASSUME NEW n \in Nat, n \in Good PROVE n + 1 \in Good
  <2> SUFFICES ASSUME n + 1 <= len
               PROVE  /\ kept[n + 1] \in Seq(Nat)
                      /\ Cardinality(Upto(n + 1)) <= Cardinality(From(kept[n + 1], t))
    OBVIOUS
  <2> DEFINE x == times[n + 1]
             s == kept[n]
  <2>1. s \in Seq(Nat) /\ Cardinality(Upto(n)) <= Cardinality(From(s, t)) /\ x \in Nat
    BY <1>1, <1>7
  <2>2. kept[n + 1] = IF Recent(x, u) THEN Append(s, x) ELSE s
    <3>1. n + 1 \in 1..len /\ (n + 1) - 1 = n
      BY <1>1
    <3> HIDE DEF len
    <3> QED
      BY <1>4, <3>1
  <2>3. /\ Cardinality(From(s, t)) \in Nat /\ Append(s, x) \in Seq(Nat)
        /\ Cardinality(From(Append(s, x), t)) =
             IF x >= t THEN Cardinality(From(s, t)) + 1 ELSE Cardinality(From(s, t))
    <3>1. s \in Seq(Nat) /\ x \in Nat
      BY <2>1
    <3> HIDE DEF x, s
    <3>2. Cardinality(From(s, t)) \in Nat
      BY <3>1, OneMoreFrom
    <3>3. Append(s, x) \in Seq(Nat)
      BY <3>1, OneMoreFrom
    <3>4. Cardinality(From(Append(s, x), t)) =
             IF x >= t THEN Cardinality(From(s, t)) + 1 ELSE Cardinality(From(s, t))
      BY <3>1, OneMoreFrom
    <3> QED
      BY ONLY <3>2, <3>3, <3>4
  <2>4. Cardinality(Upto(n + 1)) = IF x >= t THEN Cardinality(Upto(n)) + 1 ELSE Cardinality(Upto(n))
    <3>1. CASE x >= t
      <4>1. Upto(n + 1) = Upto(n) \cup {n + 1} /\ n + 1 \notin Upto(n)
        BY <3>1
      <4> QED
        BY <1>5, <3>1, <4>1, FS_AddElement
    <3>2. CASE ~ (x >= t)
      <4>1. Upto(n + 1) = Upto(n)
        BY <3>2
      <4> QED
        BY <3>2, <4>1
    <3> QED
      BY <3>1, <3>2
  <2>5. x >= t => Recent(x, u)
    BY <2>1
  <2>6. Cardinality(Upto(n)) \in Nat
    BY <1>5
  <2> HIDE DEF x, s, Upto
  <2> QED
    BY <2>1, <2>2, <2>3, <2>4, <2>5, <2>6
<1>8. len \in Good
  <2> HIDE DEF Good
  <2> QED
    BY <1>1, <1>6, <1>7, NumberInduction
<1>9. Upto(len) = From(times, t)
  BY DEF From
<1> QED
  <2>1. kept[len] \in Seq(Nat) /\ Cardinality(Upto(len)) <= Cardinality(From(kept[len], t))
    BY <1>1, <1>8
  <2> QED
    BY <1>3, <1>9, <2>1

(* What is counted in one window, by the times the requests landed.        *)
Landings(d, t) == {i \in DOMAIN landed[d] : t <= landed[d][i] /\ landed[d][i] + 1 < t + RATE_WINDOW}

WindowTypes ==
    /\ now \in Nat
    /\ accepted \in [Devices -> Seq(Nat)] /\ landed \in [Devices -> Seq(Nat)]
    /\ \A d \in Devices : \A i \in 1..Len(landed[d]) : landed[d][i] <= now
    /\ asking = [d \in Devices |-> asking[d]]
    /\ \A d \in Devices : asking[d] # None =>
          asking[d].at \in Nat /\ asking[d].at <= now /\ now <= asking[d].at + 1

(* The list of a connection holds as many as landed, for as long as they   *)
(* count: what was dropped from it is too old for any window still open.   *)
Listed ==
    \A d \in Devices, t \in Nat : t + RATE_WINDOW > now + 1 =>
        Cardinality(From(landed[d], t)) <= Cardinality(From(accepted[d], t - 1))

WithinBudget == \A d \in Devices, t \in Nat : Cardinality(Landings(d, t)) <= MAX_PER_CONNECTION

WindowInv == WindowTypes /\ Listed /\ WithinBudget

LEMMA WindowInvInit == AdmissionInit => WindowInv
<1> SUFFICES ASSUME AdmissionInit PROVE WindowInv
  OBVIOUS
<1>1. <<>> \in Seq(Nat) /\ Len(<<>>) = 0 /\ DOMAIN <<>> = {}
  OBVIOUS
<1>2. WindowTypes
  BY <1>1 DEF AdmissionInit, WindowTypes
<1>3. \A d \in Devices, t \in Int : From(landed[d], t) = {} /\ From(accepted[d], t) = {} /\ Landings(d, t) = {}
  BY <1>1 DEF AdmissionInit, From, Landings
<1>4. Cardinality({}) <= Cardinality({}) /\ Cardinality({}) <= MAX_PER_CONNECTION
  BY FS_EmptySet, AdmissionAssumption
<1>5. \A t \in Nat : t \in Int /\ t - 1 \in Int
  OBVIOUS
<1> QED
  BY <1>2, <1>3, <1>4, <1>5 DEF WindowInv, Listed, WithinBudget

(* One more lands, within the budget of what is listed. *)
LEMMA LandedWithin ==
    ASSUME WindowInv, NEW d \in Devices, NEW w \in Seq(Nat), NEW at \in Nat, at <= now, now <= at + 1,
           Len(w) < MAX_PER_CONNECTION, landed'[d] = Append(landed[d], now), accepted'[d] = Append(w, at),
           now' = now,
           \A t \in Nat : t + RATE_WINDOW > now + 1 =>
             Cardinality(From(accepted[d], t - 1)) <= Cardinality(From(w, t - 1))
    PROVE  /\ landed'[d] \in Seq(Nat) /\ accepted'[d] \in Seq(Nat)
           /\ \A i \in 1..Len(landed'[d]) : landed'[d][i] <= now
           /\ \A t \in Nat : t + RATE_WINDOW > now + 1 =>
                Cardinality(From(landed'[d], t)) <= Cardinality(From(accepted'[d], t - 1))
           /\ \A t \in Nat : Cardinality(Landings(d, t)') <= MAX_PER_CONNECTION
<1> DEFINE l == landed[d]
           m == landed'[d]
<1>1. /\ l \in Seq(Nat) /\ now \in Nat /\ accepted[d] \in Seq(Nat) /\ RATE_WINDOW \in Nat
      /\ MAX_PER_CONNECTION \in Nat /\ \A i \in 1..Len(l) : l[i] <= now
  BY AdmissionAssumption DEF WindowInv, WindowTypes
<1>2. m = Append(l, now)
  OBVIOUS
<1> HIDE DEF l
<1>3. /\ m \in Seq(Nat) /\ Len(m) = Len(l) + 1 /\ Len(l) \in Nat /\ m[Len(l) + 1] = now
      /\ \A n \in 1..Len(l) : m[n] = l[n]
  BY <1>1, <1>2, AppendProperties, LenProperties
<1>4. DOMAIN m = 1..(Len(l) + 1) /\ DOMAIN l = 1..Len(l)
  BY <1>1, <1>3, LenProperties
<1> HIDE DEF m
<1>0. 1..(Len(l) + 1) = 1..Len(l) \cup {Len(l) + 1} /\ Len(l) + 1 \notin 1..Len(l)
  <2> DEFINE k == Len(l)
  <2>1. k \in Nat
    BY <1>3
  <2> HIDE DEF k
  <2>2. 1..(k + 1) = 1..k \cup {k + 1} /\ k + 1 \notin 1..k
    BY ONLY <2>1
  <2> QED
    BY <2>2 DEF k
<1>5. accepted'[d] \in Seq(Nat) /\ \A i \in 1..Len(m) : m[i] <= now
  <2>1. accepted'[d] \in Seq(Nat)
    BY AppendProperties
  <2>2. \A i \in 1..Len(m) : m[i] <= now
    <3> SUFFICES ASSUME NEW i \in 1..Len(m) PROVE m[i] <= now
      OBVIOUS
    <3>1. i \in 1..Len(l) \/ i = Len(l) + 1
      BY <1>3
    <3>2. now <= now
      BY <1>1
    <3> QED
      BY <1>1, <1>3, <3>1, <3>2
  <2> QED
    BY <2>1, <2>2
<1>6. ASSUME NEW t \in Nat, t + RATE_WINDOW > now + 1
      PROVE  /\ Cardinality(From(l, t)) <= Cardinality(From(w, t - 1))
             /\ Cardinality(From(l, t)) \in Nat /\ Cardinality(From(w, t - 1)) \in Nat
  <2>1. t - 1 \in Int
    OBVIOUS
  <2>2. Cardinality(From(l, t)) <= Cardinality(From(accepted[d], t - 1))
    BY <1>6 DEF WindowInv, Listed, l
  <2>3. /\ Cardinality(From(l, t)) \in Nat /\ Cardinality(From(w, t - 1)) \in Nat
        /\ Cardinality(From(accepted[d], t - 1)) \in Nat
    <3>1. Cardinality(From(l, t)) \in Nat
      <4>1. l \in Seq(Nat) /\ t \in Int
        BY <1>1
      <4> QED
        BY ONLY <4>1, FromIsFinite
    <3> DEFINE u == t - 1
    <3>2. u \in Int
      BY <2>1
    <3> HIDE DEF u
    <3>3. Cardinality(From(w, u)) \in Nat
      BY <3>2, FromIsFinite
    <3>4. Cardinality(From(accepted[d], u)) \in Nat
      BY <1>1, <3>2, FromIsFinite
    <3> QED
      BY <3>1, <3>3, <3>4 DEF u
  <2>4. Cardinality(From(accepted[d], t - 1)) <= Cardinality(From(w, t - 1))
    BY <1>6
  <2> QED
    BY <2>2, <2>3, <2>4
<1>7. ASSUME NEW t \in Nat, t + RATE_WINDOW > now + 1
      PROVE  Cardinality(From(m, t)) <= Cardinality(From(accepted'[d], t - 1))
  <2>1. t - 1 \in Int /\ t \in Int
    OBVIOUS
  <2>2. Cardinality(From(m, t)) = IF now >= t THEN Cardinality(From(l, t)) + 1 ELSE Cardinality(From(l, t))
    <3>1. l \in Seq(Nat) /\ t \in Int /\ now \in Nat
      BY <1>1
    <3> QED
      BY ONLY <1>2, <3>1, OneMoreFrom
  <2>3. Cardinality(From(accepted'[d], t - 1)) =
          IF at >= t - 1 THEN Cardinality(From(w, t - 1)) + 1 ELSE Cardinality(From(w, t - 1))
    <3> DEFINE u == t - 1
               c == Cardinality(From(w, u))
    <3>1. u \in Int
      BY <2>1
    <3> HIDE DEF u
    <3>2. Cardinality(From(Append(w, at), u)) = IF at >= u THEN c + 1 ELSE c
      BY ONLY <3>1, w \in Seq(Nat), at \in Nat, OneMoreFrom
    <3> QED
      BY <3>2 DEF u
  <2>4. now >= t => at >= t - 1
    BY <1>1
  <2>5. /\ Cardinality(From(l, t)) <= Cardinality(From(w, t - 1))
        /\ Cardinality(From(l, t)) \in Nat /\ Cardinality(From(w, t - 1)) \in Nat
    BY <1>6, <1>7
  <2> QED
    BY <2>2, <2>3, <2>4, <2>5
<1>8. ASSUME NEW t \in Nat PROVE Cardinality(Landings(d, t)') <= MAX_PER_CONNECTION
  <2> DEFINE before == Landings(d, t)
             after == {i \in DOMAIN m : t <= m[i] /\ m[i] + 1 < t + RATE_WINDOW}
  <2>1. Landings(d, t)' = after
    BY DEF Landings, m
  <2>2. before = {i \in DOMAIN l : t <= l[i] /\ l[i] + 1 < t + RATE_WINDOW}
    BY DEF Landings, l
  <2>3. Cardinality(before) <= MAX_PER_CONNECTION
    BY DEF WindowInv, WithinBudget
  <2> HIDE DEF before
  <2>4. CASE t <= now /\ now + 1 < t + RATE_WINDOW
    <3>1. after = before \cup {Len(l) + 1} /\ Len(l) + 1 \notin before /\ before \subseteq From(l, t)
      BY <1>0, <1>3, <1>4, <2>2, <2>4 DEF From
    <3>2. IsFiniteSet(From(l, t))
      BY <1>1, FromIsFinite
    <3>3. IsFiniteSet(before) /\ Cardinality(before) <= Cardinality(From(l, t)) /\ Cardinality(before) \in Nat
      BY <3>1, <3>2, FS_Subset, FS_CardinalityType
    <3>4. Cardinality(after) = Cardinality(before) + 1
      BY <3>1, <3>3, FS_AddElement
    <3>5. Cardinality(From(w, t - 1)) <= Len(w) /\ Len(w) \in Nat
      <4>1. t - 1 \in Int
        OBVIOUS
      <4> QED
        BY <4>1, FromIsFinite
    <3>6. /\ Cardinality(From(l, t)) <= Cardinality(From(w, t - 1))
          /\ Cardinality(From(l, t)) \in Nat /\ Cardinality(From(w, t - 1)) \in Nat
      BY <1>6, <2>4
    <3> QED
      BY <1>1, <2>1, <3>3, <3>4, <3>5, <3>6
  <2>5. CASE ~ (t <= now /\ now + 1 < t + RATE_WINDOW)
    <3>1. after = before
      BY <1>0, <1>3, <1>4, <2>2, <2>5
    <3> QED
      BY <2>1, <2>3, <3>1
  <2> QED
    BY <2>4, <2>5
<1> QED
  BY <1>3, <1>5, <1>7, <1>8 DEF m

(* What a handler lets go of in a connection's list is too old to count.   *)
LEMMA LetsGoOfOld ==
    ASSUME WindowInv, NEW e \in Devices, NEW at \in Nat, at <= now, now <= at + 1
    PROVE  /\ InWindow(accepted[e], at) \in Seq(Nat)
           /\ \A t \in Nat : t + RATE_WINDOW > now + 1 =>
                Cardinality(From(accepted[e], t - 1)) <= Cardinality(From(InWindow(accepted[e], at), t - 1))
<1>1. accepted[e] \in Seq(Nat) /\ now \in Nat /\ RATE_WINDOW \in Nat /\ RATE_WINDOW >= 2
  <2>1. accepted[e] \in Seq(Nat) /\ now \in Nat
    BY DEF WindowInv, WindowTypes
  <2>2. RATE_WINDOW \in Nat \ {0, 1}
    BY AdmissionAssumption
  <2>3. RATE_WINDOW \in Nat /\ RATE_WINDOW >= 2
    BY ONLY <2>2
  <2> QED
    BY <2>1, <2>3
<1>2. ASSUME NEW t \in Nat, t + RATE_WINDOW > now + 1
      PROVE  /\ InWindow(accepted[e], at) \in Seq(Nat)
             /\ Cardinality(From(accepted[e], t - 1)) <= Cardinality(From(InWindow(accepted[e], at), t - 1))
  <2>1. t - 1 \in Int /\ \A x \in Nat : x >= t - 1 => Recent(x, at)
    BY <1>1, <1>2 DEF Recent
  <2> QED
    BY <1>1, <2>1, RecentAreKept
<1>3. now + 2 \in Nat /\ (now + 2) + RATE_WINDOW > now + 1
  BY <1>1
<1> QED
  BY <1>2, <1>3

LEMMA WindowInvLand == ASSUME WindowInv, NEW d \in Devices, Land(d) PROVE WindowInv'
<1> DEFINE r == asking[d]
           window == [e \in Devices |-> InWindow(accepted[e], r.at)]
<1>1. /\ r.at \in Nat /\ r.at <= now /\ now <= r.at + 1 /\ now \in Nat /\ now' = now
      /\ accepted \in [Devices -> Seq(Nat)] /\ landed \in [Devices -> Seq(Nat)]
  BY DEF Land, WindowInv, WindowTypes
<1>2. asking' = [asking EXCEPT ![d] = None]
  BY DEF Land
<1>3. \/ landed' = landed /\ accepted' \in {accepted, window}
      \/ /\ landed' = [landed EXCEPT ![d] = Append(@, now)] /\ Len(window[d]) < MAX_PER_CONNECTION
         /\ accepted' = [window EXCEPT ![d] = Append(@, r.at)]
  BY DEF Land
<1>4. ASSUME NEW e \in Devices
      PROVE  /\ window[e] \in Seq(Nat)
             /\ \A t \in Nat : t + RATE_WINDOW > now + 1 =>
                  Cardinality(From(accepted[e], t - 1)) <= Cardinality(From(window[e], t - 1))
  <2>1. window[e] = InWindow(accepted[e], r.at)
    OBVIOUS
  <2> QED
    BY <1>1, <2>1, LetsGoOfOld
<1>5. window = [e \in Devices |-> window[e]]
  OBVIOUS
<1> HIDE DEF window, r
<1>6. /\ asking' = [e \in Devices |-> asking'[e]]
      /\ \A e \in Devices : asking'[e] # None =>
            asking'[e].at \in Nat /\ asking'[e].at <= now /\ now <= asking'[e].at + 1
  BY <1>2 DEF WindowInv, WindowTypes
<1> DEFINE Sound(e) ==
      /\ landed'[e] \in Seq(Nat) /\ accepted'[e] \in Seq(Nat)
      /\ \A i \in 1..Len(landed'[e]) : landed'[e][i] <= now
      /\ \A t \in Nat : t + RATE_WINDOW > now + 1 =>
           Cardinality(From(landed'[e], t)) <= Cardinality(From(accepted'[e], t - 1))
      /\ \A t \in Nat : Cardinality(Landings(e, t)') <= MAX_PER_CONNECTION
<1>7. ASSUME NEW e \in Devices, landed'[e] = landed[e], accepted'[e] \in {accepted[e], window[e]}
      PROVE  Sound(e)
  <2>1. \A t \in Nat : Landings(e, t)' = Landings(e, t)
    BY <1>7 DEF Landings
  <2>2. \A i \in 1..Len(landed[e]) : landed[e][i] <= now
    BY DEF WindowInv, WindowTypes
  <2>3. \A t \in Nat : Cardinality(Landings(e, t)) <= MAX_PER_CONNECTION
    BY DEF WindowInv, WithinBudget
  <2>4. ASSUME NEW t \in Nat, t + RATE_WINDOW > now + 1
        PROVE  Cardinality(From(landed'[e], t)) <= Cardinality(From(accepted'[e], t - 1))
    <3>1. Cardinality(From(landed[e], t)) <= Cardinality(From(accepted[e], t - 1))
      BY <2>4 DEF WindowInv, Listed
    <3>2. t - 1 \in Int /\ t \in Int
      OBVIOUS
    <3>3. /\ Cardinality(From(landed[e], t)) \in Nat /\ Cardinality(From(accepted[e], t - 1)) \in Nat
          /\ Cardinality(From(window[e], t - 1)) \in Nat
      BY <1>1, <1>4, <3>2, FromIsFinite
    <3>4. Cardinality(From(accepted[e], t - 1)) <= Cardinality(From(window[e], t - 1))
      BY <1>4, <2>4
    <3> QED
      BY <1>7, <3>1, <3>3, <3>4
  <2> QED
    BY <1>1, <1>4, <1>7, <2>1, <2>2, <2>3, <2>4
<1>8. ASSUME NEW e \in Devices PROVE Sound(e)
  <2>1. CASE landed' = landed /\ accepted' \in {accepted, window}
    BY <1>7, <2>1
  <2>2. CASE /\ landed' = [landed EXCEPT ![d] = Append(@, now)] /\ Len(window[d]) < MAX_PER_CONNECTION
             /\ accepted' = [window EXCEPT ![d] = Append(@, r.at)]
    <3>1. CASE e # d
      <4>1. landed'[e] = landed[e] /\ accepted'[e] = window[e]
        BY <1>1, <1>5, <2>2, <3>1
      <4> QED
        BY <1>7, <4>1
    <3>2. CASE e = d
      <4> DEFINE w == window[d]
      <4>1. landed'[d] = Append(landed[d], now) /\ accepted'[d] = Append(w, r.at)
        BY <1>1, <1>5, <2>2
      <4>2. /\ w \in Seq(Nat) /\ Len(w) < MAX_PER_CONNECTION
            /\ \A t \in Nat : t + RATE_WINDOW > now + 1 =>
                 Cardinality(From(accepted[d], t - 1)) <= Cardinality(From(w, t - 1))
        BY <1>4, <2>2
      <4> HIDE DEF w
      <4>3. Sound(d)
        BY <1>1, <4>1, <4>2, LandedWithin
      <4> QED
        BY <3>2, <4>3
    <3> QED
      BY <3>1, <3>2
  <2> QED
    BY <1>3, <2>1, <2>2
<1>9. accepted' \in [Devices -> Seq(Nat)] /\ landed' \in [Devices -> Seq(Nat)]
  <2>1. accepted' = [e \in Devices |-> accepted'[e]] /\ landed' = [e \in Devices |-> landed'[e]]
    BY <1>1, <1>3, <1>5
  <2>2. \A e \in Devices : accepted'[e] \in Seq(Nat) /\ landed'[e] \in Seq(Nat)
    BY <1>8
  <2> QED
    BY <2>1, <2>2
<1> HIDE DEF Sound
<1> QED
  <2> USE DEF Sound
  <2>1. WindowTypes'
    BY <1>1, <1>6, <1>8, <1>9 DEF WindowTypes
  <2>2. Listed'
    BY <1>1, <1>8 DEF Listed
  <2>3. WithinBudget'
    BY <1>8 DEF WithinBudget
  <2> QED
    BY <2>1, <2>2, <2>3 DEF WindowInv

(* The clock moves on: the windows that count are later ones. *)
LEMMA WindowInvTick == ASSUME WindowInv, Tick PROVE WindowInv'
<1>1. now \in Nat /\ now' = now + 1 /\ accepted' = accepted /\ landed' = landed /\ asking' = asking
      /\ \A d \in Devices : asking[d] # None => asking[d].at = now
  BY DEF Tick, WindowInv, WindowTypes
<1>2. \A d \in Devices, t \in Nat : Landings(d, t)' = Landings(d, t)
  BY <1>1 DEF Landings
<1>3. WindowTypes'
  <2>1. \A d \in Devices : \A i \in 1..Len(landed[d]) : landed[d][i] <= now + 1
    <3> SUFFICES ASSUME NEW d \in Devices, NEW i \in 1..Len(landed[d]) PROVE landed[d][i] <= now + 1
      OBVIOUS
    <3>1. landed[d] \in Seq(Nat) /\ landed[d][i] <= now
      BY DEF WindowInv, WindowTypes
    <3>2. landed[d][i] \in Nat
      BY <3>1, ElementOfSeq
    <3> QED
      BY <1>1, <3>1, <3>2
  <2> QED
    BY <1>1, <2>1 DEF WindowInv, WindowTypes
<1>4. Listed'
  <2> SUFFICES ASSUME NEW d \in Devices, NEW t \in Nat, t + RATE_WINDOW > now + 1 + 1
               PROVE  Cardinality(From(landed[d], t)) <= Cardinality(From(accepted[d], t - 1))
    BY <1>1 DEF Listed
  <2>1. t + RATE_WINDOW > now + 1
    BY <1>1, AdmissionAssumption
  <2> QED
    BY <2>1 DEF WindowInv, Listed
<1> QED
  BY <1>2, <1>3, <1>4 DEF WindowInv, WithinBudget

LEMMA WindowInvNext == WindowInv /\ [AdmissionNext]_admissionVars => WindowInv'
<1> SUFFICES ASSUME WindowInv, [AdmissionNext]_admissionVars PROVE WindowInv'
  OBVIOUS
<1>1. CASE UNCHANGED <<now, accepted, landed>> /\ UNCHANGED asking
  BY <1>1 DEF WindowInv, WindowTypes, Listed, WithinBudget, Landings
<1>2. CASE \E d \in Devices, a \in Accounts, n \in Expiries, k \in BOOLEAN :
             Ask(d, [account |-> a, not_after |-> n], k)
  <2>1. PICK d \in Devices, a \in Accounts, n \in Expiries, k \in BOOLEAN :
               Ask(d, [account |-> a, not_after |-> n], k)
    BY <1>2
  <2> DEFINE cred == [account |-> a, not_after |-> n]
             q == [cred |-> cred, at |-> now, keyed |-> k]
  <2>2. /\ UNCHANGED <<now, accepted, landed>>
        /\ asking' = asking \/ asking' = [asking EXCEPT ![d] = q]
    BY <2>1 DEF Ask
  <2>4. q.at = now /\ now \in Nat /\ now <= now /\ now <= now + 1
    BY DEF WindowInv, WindowTypes
  <2> HIDE DEF q
  <2>3. WindowTypes'
    BY <2>2, <2>4 DEF WindowInv, WindowTypes
  <2> QED
    BY <2>2, <2>3 DEF WindowInv, Listed, WithinBudget, Landings
<1>3. CASE \E d \in Devices : Land(d)
  BY <1>3, WindowInvLand
<1>4. CASE Tick
  BY <1>4, WindowInvTick
<1> QED
  BY <1>1, <1>2, <1>3, <1>4
     DEF AdmissionNext, List, Take, DenyTake, DenyRecord, admissionVars

(* The silent limits and the budget of a connection hold, for any devices, *)
(* any limits and any window, although `request` takes its locks one after *)
(* the other, compares against a clock it read before, and prunes the      *)
(* lists of all connections as it goes (admission.rs).                     *)
THEOREM AdmissionLimitsAlways == AdmissionSpec => []AdmissionLimits
<1>1. WindowInv => WindowBound
  <2> SUFFICES ASSUME WindowInv, NEW d \in Devices, NEW t \in 0..now
               PROVE  Cardinality(Landings(d, t)) <= MAX_PER_CONNECTION
    BY DEF WindowBound, Landings
  <2>1. t \in Nat
    OBVIOUS
  <2> QED
    BY <2>1 DEF WindowInv, WithinBudget
<1>2. AdmissionSpec => []WindowInv
  BY WindowInvInit, WindowInvNext, PTL DEF AdmissionSpec
<1>3. QueueInv => QueueWithinLimits
  BY DEF QueueInv
<1>4. AdmissionSpec => []QueueInv
  BY QueueInvInit, QueueInvNext, PTL DEF AdmissionSpec
<1>5. QueueWithinLimits /\ WindowBound => AdmissionLimits
  BY DEF AdmissionLimits
<1> QED
  BY <1>1, <1>2, <1>3, <1>4, <1>5, PTL
-----------------------------------------------------------------------------

(* Introductions. *)
Standing == [at : Nat, start : Nat]
InWait == [at : {"again", "notifier", "poll", "sleep"}, family : Families, until : Nat]

IntroductionsTypeOK ==
    /\ asked \in [Parties -> [Families -> Standing]]
    /\ rTask \in [Parties -> InWait \cup {Served}]
    /\ met \in [Parties -> BOOLEAN]
    /\ rClock \in Nat \ {0}
    /\ \A p \in Parties, f \in Families : asked[p][f].at <= rClock

(* A request that lasts out the wait of p: it stands until then, whoever   *)
(* asks again or sweeps meanwhile, since PENDING_TTL is longer than a wait. *)
Outlasts(a, p) == a.at # 0 /\ rTask[p].until <= a.at + MaxWait

(* Whoever waits has a request that outlasts its wait, and so has the      *)
(* other from the moment it was told of the one that waits.                *)
WaitsCovered(p) ==
    rTask[p] # Served =>
        /\ rClock <= rTask[p].until
        /\ Outlasts(asked[p][rTask[p].family], p)
        /\ met[p] => Outlasts(asked[Peer(p)][rTask[p].family], p)

IntroductionsInv ==
    /\ IntroductionsTypeOK
    /\ OneStart
    /\ \A p \in Parties : /\ WaitsCovered(p)
                          /\ met[p] => rTask[p] # Served

LEMMA ThePeer == \A p \in Parties : /\ Peer(p) \in Parties /\ Peer(p) # p /\ Peer(Peer(p)) = p
                                    /\ Parties = {p, Peer(p)}
<1>1. PICK a \in Parties, b \in Parties : a # b /\ Parties = {a, b}
  BY RendezvousAssumption
<1>2. \A p \in Parties : Peer(p) \in Parties /\ Peer(p) # p
  <2> TAKE p \in Parties
  <2>1. \E q \in Parties : q # p
    BY <1>1
  <2> QED
    BY <2>1 DEF Peer
<1> QED
  BY <1>1, <1>2

(* What still stands is what is live, as it was.                           *)
LEMMA StillOrNot ==
    ASSUME IntroductionsTypeOK
    PROVE  /\ StillAsked \in [Parties -> [Families -> Standing]]
           /\ NotAsking \in Standing /\ NotAsking.at = 0 /\ NotAsking.start = 0
           /\ \A p \in Parties, f \in Families :
                 /\ IsLive(asked[p][f]) => StillAsked[p][f] = asked[p][f] /\ StillAsked[p][f] # NotAsking
                 /\ ~IsLive(asked[p][f]) => StillAsked[p][f] = NotAsking
                 /\ StillAsked[p][f].at <= rClock
<1>1. NotAsking \in Standing /\ NotAsking.at = 0 /\ NotAsking.start = 0
  BY DEF NotAsking, Standing
<1>2. \A p \in Parties, f \in Families : asked[p][f] \in Standing /\ asked[p][f].at <= rClock
  BY DEF IntroductionsTypeOK
<1>3. StillAsked \in [Parties -> [Families -> Standing]]
  BY <1>1, <1>2 DEF StillAsked
<1>4. \A p \in Parties, f \in Families :
          StillAsked[p][f] = IF IsLive(asked[p][f]) THEN asked[p][f] ELSE NotAsking
  BY DEF StillAsked
<1>5. \A a : IsLive(a) => a # NotAsking
  BY DEF IsLive
<1>6. rClock \in Nat
  BY DEF IntroductionsTypeOK
<1> QED
  BY <1>1, <1>2, <1>3, <1>4, <1>5, <1>6

(* A request that outlasts a wait that is not over is live.                *)
LEMMA OutlastsIsLive ==
    ASSUME IntroductionsTypeOK, NEW p \in Parties, rTask[p] # Served, rClock <= rTask[p].until,
           NEW a \in Standing, Outlasts(a, p)
    PROVE  IsLive(a)
<1>1. rTask[p].until \in Nat /\ rClock \in Nat /\ a.at \in Nat
  BY DEF IntroductionsTypeOK, InWait, Standing
<1>2. a # NotAsking
  BY DEF Outlasts, NotAsking
<1> QED
  BY <1>1, <1>2, RendezvousAssumption DEF Outlasts, IsLive

LEMMA CoveredIsLive ==
    ASSUME IntroductionsInv, NEW p \in Parties, rTask[p] # Served
    PROVE  /\ IsLive(asked[p][rTask[p].family])
           /\ met[p] => IsLive(asked[Peer(p)][rTask[p].family])
<1>1. rTask[p].family \in Families /\ IntroductionsTypeOK
  BY DEF IntroductionsInv, IntroductionsTypeOK, InWait
<1>2. asked[p][rTask[p].family] \in Standing /\ asked[Peer(p)][rTask[p].family] \in Standing
  BY <1>1, ThePeer DEF IntroductionsTypeOK
<1> QED
  BY <1>1, <1>2, OutlastsIsLive DEF IntroductionsInv, WaitsCovered

(* What a request of p over f leaves in the table: its own renewed, the    *)
(* rest as it stands but for the start of the one it is paired with.       *)
LEMMA RequestMade ==
    ASSUME IntroductionsTypeOK, NEW p \in Parties, NEW f \in Families, asked' = Request(p, f)
    PROVE  /\ asked' \in [Parties -> [Families -> Standing]]
           /\ asked'[p][f].at = rClock
           /\ \A t \in Parties, g \in Families :
                 t # p \/ g # f => asked'[t][g].at = StillAsked[t][g].at
           /\ \A t \in Parties, g \in Families \ {f} : asked'[t][g] = StillAsked[t][g]
           /\ StillAsked[Peer(p)][f] = NotAsking => asked'[Peer(p)][f] = NotAsking
           /\ StillAsked[Peer(p)][f] # NotAsking =>
                 asked'[p][f].start = StartFor(p, f) /\ asked'[Peer(p)][f].start = StartFor(p, f)
<1> DEFINE q == Peer(p)
           S == StillAsked
           new == StartFor(p, f)
<1>1. q \in Parties /\ q # p /\ S \in [Parties -> [Families -> Standing]] /\ rClock \in Nat
  BY ThePeer, StillOrNot DEF IntroductionsTypeOK
<1>2. S[q][f] \in Standing
  BY <1>1
<1>3. new \in Nat
  BY <1>1, <1>2, RendezvousAssumption DEF StartFor, Standing
<1>4. CASE S[q][f] = NotAsking
  <2> DEFINE row == [at |-> rClock, start |-> 0]
  <2>1. row \in Standing /\ row.at = rClock
    BY <1>1 DEF Standing
  <2>2. asked' = [S EXCEPT ![p][f] = row]
    BY <1>4 DEF Request
  <2> HIDE DEF row, S
  <2> QED
    BY <1>1, <1>4, <2>1, <2>2 DEF S
<1>5. CASE S[q][f] # NotAsking
  <2> DEFINE row == [at |-> rClock, start |-> new]
             theirs == [S[q][f] EXCEPT !.start = new]
  <2>1. row \in Standing /\ row.at = rClock /\ row.start = new
    BY <1>1, <1>3 DEF Standing
  <2>2. theirs \in Standing /\ theirs.at = S[q][f].at /\ theirs.start = new
    BY <1>2, <1>3 DEF Standing
  <2>3. asked' = [S EXCEPT ![p][f] = row, ![q][f] = theirs]
    BY <1>1, <1>5 DEF Request
  <2> HIDE DEF row, theirs, S, new
  <2>4. asked' = [t \in Parties |-> IF t = q THEN [S[q] EXCEPT ![f] = theirs]
                                    ELSE IF t = p THEN [S[p] EXCEPT ![f] = row] ELSE S[t]]
    BY <1>1, <2>3
  <2>5. asked'[p] = [S[p] EXCEPT ![f] = row] /\ asked'[q] = [S[q] EXCEPT ![f] = theirs]
    BY <1>1, <2>4
  <2>6. S[p] \in [Families -> Standing] /\ S[q] \in [Families -> Standing]
    BY <1>1
  <2>7. asked' \in [Parties -> [Families -> Standing]]
    BY <1>1, <2>1, <2>2, <2>4, <2>6
  <2>8. \A t \in Parties : t = p \/ t = q
    BY ThePeer
  <2>9. \A t \in Parties, g \in Families \ {f} : asked'[t][g] = S[t][g]
    BY <2>5, <2>6, <2>8
  <2>10. asked'[p][f] = row /\ asked'[q][f] = theirs
    BY <2>5, <2>6
  <2> QED
    BY <1>1, <1>5, <2>1, <2>2, <2>7, <2>8, <2>9, <2>10 DEF S, new
<1> QED
  BY <1>4, <1>5

(* Paired in the table means one start, after a request as before it.      *)
LEMMA RequestOneStart ==
    ASSUME IntroductionsInv, NEW p \in Parties, NEW f \in Families, asked' = Request(p, f), UNCHANGED rClock
    PROVE  OneStart'
<1> DEFINE q == Peer(p)
<1>0. IntroductionsTypeOK /\ OneStart
  BY DEF IntroductionsInv
<1>1. \A a : IsLive(a)' <=> IsLive(a)
  BY DEF IsLive
<1>2. q \in Parties /\ Parties = {p, q}
  BY ThePeer
<1>3. rClock \in Nat \ {0}
  BY <1>0 DEF IntroductionsTypeOK
<1>4. ASSUME NEW g \in Families, \A t \in Parties : IsLive(asked'[t][g])
      PROVE  asked'[p][g].start = asked'[q][g].start /\ asked'[p][g].start # 0
  <2>1. CASE g # f
    <3>1. \A t \in Parties : asked'[t][g] = StillAsked[t][g]
      BY <1>0, <2>1, RequestMade
    <3>2. \A t \in Parties : StillAsked[t][g] = asked[t][g] /\ IsLive(asked[t][g])
      BY <1>0, <1>4, <3>1, StillOrNot DEF IsLive
    <3> QED
      BY <1>0, <1>2, <3>1, <3>2 DEF OneStart
  <2>2. CASE g = f
    <3>1. StillAsked[q][f] # NotAsking
      BY <1>0, <1>2, <1>4, <2>2, RequestMade DEF IsLive
    <3>2. StartFor(p, f) # 0
      <4>1. StillAsked[q][f].start \in Nat
        BY <1>0, <1>2, StillOrNot DEF Standing
      <4> QED
        BY <1>3, <4>1, RendezvousAssumption DEF StartFor
    <3> QED
      BY <1>0, <2>2, <3>1, <3>2, RequestMade
  <2> QED
    BY <2>1, <2>2
<1> QED
  BY <1>1, <1>2, <1>4 DEF OneStart

LEMMA AsksInv ==
    ASSUME IntroductionsInv, NEW p \in Parties, NEW f \in Families, NEW until \in Nat,
           NEW next \in {"again", "notifier"}, Asks(p, f, until, next),
           rClock <= until, until <= rClock + MaxWait,
           rTask[p] # Served => rTask[p].family = f
    PROVE  IntroductionsInv'
<1> DEFINE q == Peer(p)
           told == RequestTold(p, f)
           goesOn == told.answer = "waiting" /\ until > rClock
           goingOn == [at |-> next, family |-> f, until |-> until]
<1>0. IntroductionsTypeOK /\ rClock \in Nat \ {0} /\ MaxWait \in Nat /\ rClock' = rClock
  BY RendezvousAssumption DEF IntroductionsInv, IntroductionsTypeOK, Asks
<1>1. q \in Parties /\ q # p /\ Parties = {p, q} /\ Peer(q) = p
  BY ThePeer
<1>2. asked' = Request(p, f)
  BY DEF Asks
<1>3. /\ asked' \in [Parties -> [Families -> Standing]] /\ asked'[p][f].at = rClock
      /\ \A t \in Parties, g \in Families : t # p \/ g # f => asked'[t][g].at = StillAsked[t][g].at
  BY <1>0, <1>2, RequestMade
<1>4. /\ rTask' = [Woken(p, f) EXCEPT ![p] = IF goesOn THEN goingOn ELSE Served]
      /\ met' = [Meets(p, f) EXCEPT ![p] = Meets(p, f)[p] /\ told.answer # "ready"]
  BY DEF Asks
<1>5. goingOn \in InWait /\ goingOn.at # Served.at
  BY DEF InWait, Served
<1>6. rTask \in [Parties -> InWait \cup {Served}] /\ met \in [Parties -> BOOLEAN]
  BY <1>0 DEF IntroductionsTypeOK
<1> HIDE DEF goesOn, goingOn, told
<1>7. rTask'[p] = IF goesOn THEN goingOn ELSE Served
  BY <1>4 DEF Woken
<1>8. rTask'[q] = IF StillAsked[q][f] # NotAsking /\ rTask[q].at = "sleep" THEN [rTask[q] EXCEPT !.at = "poll"] ELSE rTask[q]
  BY <1>1, <1>4 DEF Woken
<1>9. /\ rTask'[q] \in InWait \cup {Served} /\ (rTask'[q] = Served <=> rTask[q] = Served)
      /\ rTask[q] # Served => rTask'[q].family = rTask[q].family /\ rTask'[q].until = rTask[q].until
  BY <1>1, <1>6, <1>8 DEF InWait, Served
<1>10. rTask' \in [Parties -> InWait \cup {Served}]
  BY <1>1, <1>4, <1>5, <1>7, <1>9 DEF Woken
<1>11. met'[q] = (met[q] \/ (told.answer = "ready" /\ rTask[q].at # "none" /\ rTask[q].family = f))
  BY <1>1, <1>4 DEF Meets, told
<1>12. ~met'[p]
  <2>1. met'[p] = (met[p] /\ told.answer # "ready")
    BY <1>4, <1>6 DEF Meets
  <2>2. met[p] => rTask[p] # Served
    BY DEF IntroductionsInv
  <2>3. met[p] => IsLive(asked[q][f])
    BY <2>2, CoveredIsLive
  <2>4. met[p] => StillAsked[q][f] # NotAsking
    BY <1>0, <1>1, <2>3, StillOrNot
  <2>5. StillAsked[q][f] # NotAsking => told.answer = "ready"
    BY DEF told, RequestTold
  <2> QED
    BY <2>1, <2>4, <2>5
<1>13. met' \in [Parties -> BOOLEAN]
  BY <1>4 DEF Meets
<1>14. \A t \in Parties, g \in Families : asked'[t][g].at <= rClock
  BY <1>0, <1>3, StillOrNot
<1>15. IntroductionsTypeOK'
  BY <1>0, <1>3, <1>10, <1>13, <1>14 DEF IntroductionsTypeOK
<1>16. OneStart'
  BY <1>0, <1>2, RequestOneStart
<1>17. WaitsCovered(p)'
  BY <1>0, <1>3, <1>7, <1>12 DEF WaitsCovered, Outlasts, goingOn
<1>18. WaitsCovered(q)' /\ (met'[q] => rTask'[q] # Served)
  <2>1. SUFFICES ASSUME rTask[q] # Served
                 PROVE  WaitsCovered(q)'
    <3>1. rTask[q] = Served => ~met'[q]
      <4>1. met[q] => rTask[q] # Served
        BY <1>1 DEF IntroductionsInv
      <4>2. Served.at = "none"
        BY DEF Served
      <4> QED
        BY <1>11, <4>1, <4>2
    <3> QED
      BY <1>9, <3>1 DEF WaitsCovered
  <2> DEFINE g == rTask[q].family
             u == rTask[q].until
  <2>2. g \in Families /\ u \in Nat
    BY <1>1, <1>6, <2>1 DEF InWait
  <2>3. /\ rClock <= u /\ asked[q][g].at # 0 /\ u <= asked[q][g].at + MaxWait
        /\ met[q] => asked[p][g].at # 0 /\ u <= asked[p][g].at + MaxWait
    BY <1>1, <2>1 DEF IntroductionsInv, WaitsCovered, Outlasts
  <2>4. StillAsked[q][g] = asked[q][g] /\ (met[q] => StillAsked[p][g] = asked[p][g])
    BY <1>0, <1>1, <2>1, <2>2, CoveredIsLive, StillOrNot
  <2>5. asked'[q][g].at = asked[q][g].at
    BY <1>1, <1>3, <2>2, <2>4
  <2>6. asked[q][g].at <= rClock /\ asked[p][g].at <= rClock /\ asked[q][g].at \in Nat /\ asked[p][g].at \in Nat
    BY <1>0, <1>1, <2>2 DEF IntroductionsTypeOK, Standing
  <2>7. ASSUME met'[q] PROVE asked'[p][g].at # 0 /\ u <= asked'[p][g].at + MaxWait
    <3>1. CASE g = f
      BY <1>0, <1>3, <2>2, <2>3, <2>6, <3>1
    <3>2. CASE g # f
      <4>1. met[q] /\ asked'[p][g].at = asked[p][g].at
        BY <1>3, <1>11, <2>2, <2>4, <2>7, <3>2
      <4> QED
        BY <2>3, <4>1
    <3> QED
      BY <3>1, <3>2
  <2>8. rTask'[q] # Served /\ rTask'[q].family = g /\ rTask'[q].until = u
    BY <1>9, <2>1
  <2> HIDE DEF g, u
  <2> QED
    BY <1>0, <1>1, <2>3, <2>5, <2>7, <2>8 DEF WaitsCovered, Outlasts
<1> QED
  BY <1>1, <1>12, <1>15, <1>16, <1>17, <1>18 DEF IntroductionsInv

(* A step of p's own wait that asks nothing: the others are as they were.   *)
LEMMA WaitMovesInv ==
    ASSUME IntroductionsInv, NEW p \in Parties, UNCHANGED <<asked, rClock>>, rTask[p] # Served,
           NEW at \in {"again", "notifier", "poll", "sleep"},
           \/ rTask' = [rTask EXCEPT ![p] = Served] /\ met' = [met EXCEPT ![p] = FALSE]
           \/ rTask' = [rTask EXCEPT ![p].at = at] /\ met' = met
    PROVE  IntroductionsInv'
<1>0. IntroductionsTypeOK /\ OneStart
  BY DEF IntroductionsInv
<1>1. rTask \in [Parties -> InWait \cup {Served}] /\ met \in [Parties -> BOOLEAN] /\ rTask[p] \in InWait
  BY <1>0 DEF IntroductionsTypeOK
<1>2. [rTask[p] EXCEPT !.at = at] \in InWait /\ [rTask[p] EXCEPT !.at = at] # Served
  BY <1>1 DEF InWait, Served
<1>3. IntroductionsTypeOK'
  BY <1>0, <1>1, <1>2 DEF IntroductionsTypeOK
<1>4. OneStart'
  BY <1>0 DEF OneStart, IsLive
<1>5. ASSUME NEW t \in Parties PROVE WaitsCovered(t)' /\ (met'[t] => rTask'[t] # Served)
  <2>1. \/ rTask'[t] = Served /\ ~met'[t]
        \/ /\ (rTask'[t] = Served <=> rTask[t] = Served) /\ met'[t] = met[t]
           /\ rTask[t] # Served => rTask'[t].family = rTask[t].family /\ rTask'[t].until = rTask[t].until
    <3>1. CASE t # p
      BY <1>1, <3>1
    <3>2. CASE t = p
      BY <1>1, <1>2, <3>2 DEF InWait
    <3> QED
      BY <3>1, <3>2
  <2>2. WaitsCovered(t) /\ (met[t] => rTask[t] # Served)
    BY DEF IntroductionsInv
  <2> QED
    BY <2>1, <2>2 DEF WaitsCovered, Outlasts
<1> QED
  BY <1>3, <1>4, <1>5 DEF IntroductionsInv

(* While it is told the other is there, nobody is told `waiting`.           *)
LEMMA PollsInv ==
    ASSUME IntroductionsInv, NEW p \in Parties, Polls(p)
    PROVE  IntroductionsInv'
<1> DEFINE told == PollTold(p, rTask[p].family)
<1>0. IntroductionsTypeOK
  BY DEF IntroductionsInv
<1>1. rTask[p] # Served
  BY DEF Polls, Served
<1>2. rTask[p].family \in Families /\ Peer(p) \in Parties
  BY <1>0, <1>1, ThePeer DEF IntroductionsTypeOK, InWait
<1>3. IsLive(asked[p][rTask[p].family]) /\ (met[p] => IsLive(asked[Peer(p)][rTask[p].family]))
  BY <1>1, CoveredIsLive
<1>4. met[p] => told.answer = "ready"
  BY <1>3 DEF PollTold
<1> HIDE DEF told
<1>5. \/ /\ rTask' = [rTask EXCEPT ![p] = Served]
         /\ met' = [met EXCEPT ![p] = met[p] /\ told.answer # "ready"]
      \/ /\ rTask' = [rTask EXCEPT ![p].at = "sleep"]
         /\ met' = met
  BY DEF Polls, told
<1>6. met[p] \in BOOLEAN /\ (met[p] /\ told.answer # "ready") = FALSE
  BY <1>0, <1>4 DEF IntroductionsTypeOK
<1>7. UNCHANGED <<asked, rClock>>
  BY DEF Polls
<1> QED
  BY <1>1, <1>5, <1>6, <1>7, WaitMovesInv

(* The sweep takes what no longer stands, and no wait rests on that.        *)
LEMMA SweepAskedInv ==
    ASSUME IntroductionsInv, SweepAsked
    PROVE  IntroductionsInv'
<1>0. IntroductionsTypeOK /\ asked' = StillAsked /\ UNCHANGED <<rTask, met, rClock>>
  BY DEF IntroductionsInv, SweepAsked
<1>1. IntroductionsTypeOK'
  BY <1>0, StillOrNot DEF IntroductionsTypeOK
<1>2. OneStart'
  <2>1. \A p \in Parties, f \in Families :
            IsLive(asked[p][f])' => IsLive(asked[p][f]) /\ asked'[p][f] = asked[p][f]
    BY <1>0, StillOrNot DEF IsLive
  <2> QED
    BY <2>1 DEF IntroductionsInv, OneStart
<1>3. ASSUME NEW p \in Parties PROVE WaitsCovered(p)' /\ (met'[p] => rTask'[p] # Served)
  <2>1. WaitsCovered(p) /\ (met[p] => rTask[p] # Served)
    BY DEF IntroductionsInv
  <2>2. CASE rTask[p] = Served
    BY <1>0, <2>1, <2>2 DEF WaitsCovered
  <2>3. CASE rTask[p] # Served
    <3> DEFINE f == rTask[p].family
    <3>1. f \in Families /\ Peer(p) \in Parties
      BY <1>0, <2>3, ThePeer DEF IntroductionsTypeOK, InWait
    <3>2. asked'[p][f] = asked[p][f] /\ (met[p] => asked'[Peer(p)][f] = asked[Peer(p)][f])
      BY <1>0, <2>3, <3>1, CoveredIsLive, StillOrNot
    <3> QED
      BY <1>0, <2>1, <3>2 DEF WaitsCovered, Outlasts
  <2> QED
    BY <2>2, <2>3
<1> QED
  BY <1>1, <1>2, <1>3 DEF IntroductionsInv

LEMMA RendezvousTickInv ==
    ASSUME IntroductionsInv, RendezvousTick
    PROVE  IntroductionsInv'
<1>0. IntroductionsTypeOK /\ rClock' = rClock + 1 /\ rClock \in Nat \ {0} /\ UNCHANGED <<asked, rTask, met>>
  BY DEF IntroductionsInv, RendezvousTick, IntroductionsTypeOK
<1>1. \A p \in Parties, f \in Families : asked[p][f] \in Standing /\ asked[p][f].at \in Nat
  BY <1>0 DEF IntroductionsTypeOK, Standing
<1>2. IntroductionsTypeOK'
  BY <1>0, <1>1 DEF IntroductionsTypeOK
<1>3. OneStart'
  <2>1. \A p \in Parties, f \in Families : IsLive(asked[p][f])' => IsLive(asked[p][f])
    BY <1>0, <1>1, RendezvousAssumption DEF IsLive
  <2> QED
    BY <1>0, <2>1 DEF IntroductionsInv, OneStart
<1>4. ASSUME NEW p \in Parties PROVE WaitsCovered(p)' /\ (met'[p] => rTask'[p] # Served)
  <2>1. rTask[p] # Served => rTask[p].until \in Nat /\ rClock < rTask[p].until
    BY <1>0 DEF RendezvousTick, IntroductionsTypeOK, InWait
  <2>2. rTask[p] # Served => rClock' <= rTask[p].until
    BY <1>0, <2>1
  <2> QED
    BY <1>0, <2>2 DEF IntroductionsInv, WaitsCovered, Outlasts
<1> QED
  BY <1>2, <1>3, <1>4 DEF IntroductionsInv

LEMMA IntroductionsInvInit == RendezvousInit => IntroductionsInv
<1> SUFFICES ASSUME RendezvousInit PROVE IntroductionsInv
  OBVIOUS
<1>1. IntroductionsTypeOK
  BY DEF RendezvousInit, IntroductionsTypeOK, NotAsking, Standing
<1>2. OneStart
  <2>1. PICK p \in Parties : TRUE
    BY RendezvousAssumption
  <2>2. \A f \in Families : ~IsLive(asked[p][f])
    BY DEF RendezvousInit, IsLive
  <2> QED
    BY <2>2 DEF OneStart
<1>3. \A p \in Parties : WaitsCovered(p) /\ (met[p] => rTask[p] # Served)
  BY DEF RendezvousInit, WaitsCovered
<1> QED
  BY <1>1, <1>2, <1>3 DEF IntroductionsInv

LEMMA IntroductionsInvNext == IntroductionsInv /\ [RendezvousNext]_rendezvousVars => IntroductionsInv'
<1> SUFFICES ASSUME IntroductionsInv, [RendezvousNext]_rendezvousVars PROVE IntroductionsInv'
  OBVIOUS
<1>0. IntroductionsTypeOK /\ rClock \in Nat \ {0}
  BY DEF IntroductionsInv, IntroductionsTypeOK
<1>1. ASSUME NEW p \in Parties, NEW f \in Families, NEW wait \in 0..MaxWait, Introduce(p, f, wait)
      PROVE  IntroductionsInv'
  <2>1. /\ rTask[p] = Served /\ Asks(p, f, rClock + wait, "again")
        /\ rClock + wait \in Nat /\ rClock <= rClock + wait /\ rClock + wait <= rClock + MaxWait
    BY <1>0, <1>1, RendezvousAssumption DEF Introduce
  <2> QED
    BY <2>1, AsksInv
<1>2. ASSUME NEW p \in Parties, AsksAgain(p) PROVE IntroductionsInv'
  <2> DEFINE f == rTask[p].family
             u == rTask[p].until
  <2>1. rTask[p] # Served
    BY <1>2 DEF AsksAgain, Served
  <2>2. f \in Families /\ u \in Nat
    BY <1>0, <2>1 DEF IntroductionsTypeOK, InWait
  <2>3. asked[p][f].at \in Nat /\ asked[p][f].at <= rClock
    BY <1>0, <2>2 DEF IntroductionsTypeOK, Standing
  <2>4. rClock <= u /\ u <= asked[p][f].at + MaxWait
    BY <2>1 DEF IntroductionsInv, WaitsCovered, Outlasts
  <2>5. Asks(p, f, u, "notifier")
    BY <1>2 DEF AsksAgain
  <2>6. rTask[p].family = f
    OBVIOUS
  <2> HIDE DEF f, u
  <2>7. u <= rClock + MaxWait
    BY <1>0, <2>2, <2>3, <2>4, RendezvousAssumption
  <2> QED
    BY <2>2, <2>4, <2>5, <2>6, <2>7, AsksInv
<1>3. ASSUME NEW p \in Parties, Sleeps(p) PROVE IntroductionsInv'
  <2>1. /\ rTask[p] # Served /\ rTask' = [rTask EXCEPT ![p].at = "sleep"]
        /\ met' = met /\ UNCHANGED <<asked, rClock>>
    BY <1>3 DEF Sleeps, Served
  <2> QED
    BY <2>1, WaitMovesInv
<1>4. ASSUME NEW p \in Parties, Polls(p) PROVE IntroductionsInv'
  BY <1>4, PollsInv
<1>5. CASE SweepAsked
  BY <1>5, SweepAskedInv
<1>6. CASE RendezvousTick
  BY <1>6, RendezvousTickInv
<1>7. CASE UNCHANGED rendezvousVars
  <2>1. UNCHANGED <<asked, rTask, met, rClock>>
    BY <1>7 DEF rendezvousVars
  <2> QED
    BY <2>1 DEF IntroductionsInv, IntroductionsTypeOK, OneStart, IsLive, WaitsCovered, Outlasts
<1> QED
  BY <1>1, <1>2, <1>3, <1>4, <1>5, <1>6, <1>7 DEF RendezvousNext

(* Of any two parties, over any families: whoever waits while the other    *)
(* asks is introduced in its turn, its wake-up lost or not, and both are    *)
(* told one moment to begin (rendezvous.rs, request and wait).              *)
THEOREM IntroducedTogetherAlways == RendezvousSpec => []IntroducedTogether
<1>1. IntroductionsInv => IntroducedTogether
  <2> SUFFICES ASSUME IntroductionsInv PROVE IntroducedTogether
    OBVIOUS
  <2>1. \A p \in Parties : rTask[p] # Served => rTask[p].at # "none"
    BY DEF IntroductionsInv, IntroductionsTypeOK, InWait
  <2> QED
    BY <2>1 DEF IntroducedTogether, BothIntroduced, IntroductionsInv
<1> QED
  BY <1>1, IntroductionsInvInit, IntroductionsInvNext, PTL DEF RendezvousSpec
=============================================================================
