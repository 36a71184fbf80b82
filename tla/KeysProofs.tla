----------------------------- MODULE KeysProofs -----------------------------
(***************************************************************************)
(* Proofs about the devices of an account: that an epoch of a channel has  *)
(* one key (EpochKeys), that a device whose key was revoked stays out of   *)
(* its account (Registry), and that two devices which finish a sync have   *)
(* handed each other what they told of (SiblingSync), for any exchanges,   *)
(* accounts, devices, credentials and stocks.                              *)
(***************************************************************************)
EXTENDS EpochKeys, Registry, SiblingSync, Induction, SequenceTheorems, TLAPS

-----------------------------------------------------------------------------
(* Why an epoch has one key.  The exchange refuses a put only when it      *)
(* names a device that has an envelope already, so two puts for one epoch  *)
(* can both be accepted only when their recipients are disjoint.  They     *)
(* never are while no pool is started again: a client that mints has       *)
(* published before, so of two that mint one finds the other's prekeys.    *)

(* `d` is in the middle of `mint_epoch`. *)
Mints(d) == task[d] # None /\ task[d].does = "mint"

(* The mint `t` has passed `x` on the roster without sealing to it. *)
Skips(t, x) == x \notin t.sealed /\ \E i \in 1..(t.at - 1) : Roster[i] = x

(* A client that does anything has prekeys at the exchange. *)
WorkersReady == up \subseteq ready /\ \A d \in Devices : task[d] # None => d \in up

(* The minter of what was accepted is up and has an envelope of it itself. *)
MinterSealed ==
  \A d \in Devices, e \in Epochs : envelope[d][e] # None =>
    /\ envelope[d][e].by \in up
    /\ envelope[envelope[d][e].by][e] = envelope[d][e]

OneKeySealed ==
  \A c, d \in Devices, e \in Epochs :
    envelope[c][e] # None /\ envelope[d][e] # None => envelope[c][e] = envelope[d][e]

HeldIsSealed ==
  \A d \in Devices, e \in Epochs : held[d][e] # None => envelope[d][e] = held[d][e]

(* A mint never leaves its own device out, *)
MintsForItself ==
  \A d \in Devices : Mints(d) => task[d].key.by = d /\ ~Skips(task[d], d)

(* two mints never leave out each other's, *)
NotBothSkip ==
  \A c, d \in Devices :
    Mints(c) /\ Mints(d) => ~(Skips(task[c], d) /\ Skips(task[d], c))

(* and one that leaves out the minter of what was accepted was not left out *)
(* by it. *)
WinnerNotSkipped ==
  \A d, x \in Devices :
    LET e == task[d].epoch
    IN Mints(d) /\ envelope[x][e] # None /\ Skips(task[d], envelope[x][e].by)
         => envelope[d][e] # None

KeysInv ==
  /\ TypeOK /\ WorkersReady /\ MinterSealed /\ OneKeySealed /\ HeldIsSealed
  /\ MintsForItself /\ NotBothSkip /\ WinnerNotSkipped

----------------------------------------------------------------------------
LEMMA RosterFacts ==
  /\ Len(Roster) \in Nat /\ DOMAIN Roster = 1..Len(Roster)
  /\ \A i \in 1..Len(Roster) : Roster[i] \in Devices
  /\ \A x \in Devices : \E i \in 1..Len(Roster) : Roster[i] = x
  /\ MaxEpoch \in Nat /\ MaxMints \in Nat /\ None \notin Key
BY KeysAssumption DEF Key

LEMMA MintTaskFacts ==
  ASSUME TypeOK, NEW d \in Devices, Mints(d)
  PROVE  /\ task[d] \in MintTask
         /\ task[d].epoch \in Epochs /\ task[d].key \in Key
         /\ task[d].at \in 1..(Len(Roster) + 1) /\ task[d].sealed \subseteq Devices
<1>1. task[d] \in MintTask
  BY DEF TypeOK, Mints, EnsureTask
<1> QED BY <1>1 DEF MintTask

(* What `Begins` leaves in `task` and `minted`. *)
LEMMA BeginsType ==
  ASSUME TypeOK, NEW d \in Devices, NEW e \in Nat \ {0}, Begins(d, e)
  PROVE  /\ Minting(d, e) \in MintTask
         /\ task' \in [Devices -> {None} \cup EnsureTask \cup MintTask]
         /\ minted' \in [Devices -> 0..MaxMints]
<1>1. minted[d] \in Nat /\ e \in Epochs /\ minted[d] + 1 \in 0..MaxMints
  BY RosterFacts DEF TypeOK, Begins, Epochs
<1>2. [by |-> d, n |-> minted[d] + 1] \in Key
  BY <1>1 DEF Key
<1>3. Minting(d, e) \in MintTask
  BY <1>1, <1>2, RosterFacts DEF Minting, MintTask
<1> QED BY <1>1, <1>3 DEF Begins, TypeOK

LEMMA AcceptType ==
  ASSUME TypeOK, NEW d \in Devices, Mints(d), Accept(task[d])
  PROVE  /\ epoch' \in 0..MaxEpoch
         /\ envelope' \in [Devices -> [Epochs -> Key \cup {None}]]
BY MintTaskFacts, RosterFacts DEF Accept, TypeOK, Epochs

LEMMA CollectedType ==
  ASSUME TypeOK, NEW d \in Devices
  PROVE  [held EXCEPT ![d] = Collected(d)] \in [Devices -> [Epochs -> Key \cup {None}]]
BY DEF Collected, TypeOK

(* Every variable keeps its type, pools started again or not. *)
LEMMA TypeStep ==
  ASSUME TypeOK, NEW d \in Devices,
         \/ Start(d) \/ StartFails(d) \/ Drained(d) \/ Clear(d) \/ Publish(d)
         \/ EnsureFirst(d) \/ Ensure(d)
         \/ EnsureCollects(d) \/ Rotate(d) \/ TakePrekey(d) \/ PutAccepted(d) \/ PutUnheard(d)
         \/ PutRefused(d) \/ PutFails(d) \/ Poll(d) \/ Collect(d) \/ Stop(d)
  PROVE  TypeOK'
<1>1. CASE Start(d) \/ StartFails(d) \/ Drained(d) \/ Clear(d) \/ Publish(d)
  BY <1>1 DEF Start, StartFails, Drained, Clear, Publish, TypeOK
<1>2. CASE EnsureFirst(d)
  BY <1>2, BeginsType DEF EnsureFirst, TypeOK
<1>3. CASE Ensure(d)
  <2>1. epoch \in Epochs
    BY <1>3, RosterFacts DEF Ensure, TypeOK, Epochs
  <2>2. [does |-> "ensure", epoch |-> epoch] \in EnsureTask
    BY <2>1 DEF EnsureTask
  <2> QED BY <1>3, <2>2 DEF Ensure, TypeOK
<1>4. CASE EnsureCollects(d)
  <2>1. task[d].epoch \in Epochs
    BY <1>4 DEF EnsureCollects, TypeOK, EnsureTask, MintTask
  <2>2. task[d].epoch + 1 \in Nat \ {0}
    BY <2>1 DEF Epochs
  <2>3. /\ task' \in [Devices -> {None} \cup EnsureTask \cup MintTask]
        /\ minted' \in [Devices -> 0..MaxMints]
    BY <1>4, <2>2, BeginsType DEF EnsureCollects, TypeOK
  <2> QED BY <1>4, <2>3, CollectedType DEF EnsureCollects, TypeOK
<1>5. CASE Rotate(d)
  <2>1. epoch + 1 \in Nat \ {0}
    BY DEF TypeOK
  <2> QED BY <1>5, <2>1, BeginsType DEF Rotate, TypeOK
<1>6. CASE TakePrekey(d)
  <2>1. Mints(d) /\ task[d].at \in 1..Len(Roster)
    BY <1>6, MintTaskFacts DEF TakePrekey, Mints
  <2>2. Roster[task[d].at] \in Devices
    BY <2>1, RosterFacts
  <2>3. /\ [task[d] EXCEPT !.at = @ + 1, !.sealed = @ \cup {Roster[task[d].at]}] \in MintTask
        /\ [task[d] EXCEPT !.at = @ + 1] \in MintTask
    <3>1. task[d] \in MintTask
      BY <2>1, MintTaskFacts
    <3>2. task[d].at + 1 \in 1..(Len(Roster) + 1)
      BY <2>1, RosterFacts
    <3> QED BY <2>2, <3>1, <3>2 DEF MintTask
  <2>4. task' \in [Devices -> {None} \cup EnsureTask \cup MintTask]
    BY <1>6, <2>3 DEF TakePrekey, TypeOK
  <2> QED BY <1>6, <2>4 DEF TakePrekey, TypeOK
<1>7. CASE PutAccepted(d) \/ PutUnheard(d)
  <2>1. Mints(d) /\ Accept(task[d])
    BY <1>7 DEF PutAccepted, PutUnheard, Ready, Mints
  <2>2. held' \in [Devices -> [Epochs -> Key \cup {None}]]
    <3>1. put_key(held[d], task[d].epoch, task[d].key) \in [Epochs -> Key \cup {None}]
      BY <2>1, MintTaskFacts DEF put_key, TypeOK
    <3> QED BY <1>7, <3>1 DEF PutAccepted, PutUnheard, TypeOK
  <2> QED BY <1>7, <2>1, <2>2, AcceptType DEF PutAccepted, PutUnheard, TypeOK
<1>8. CASE PutRefused(d) \/ PutFails(d) \/ Poll(d) \/ Collect(d) \/ Stop(d)
  BY <1>8, CollectedType DEF PutRefused, PutFails, Poll, Collect, Stop, TypeOK
<1> QED BY <1>1, <1>2, <1>3, <1>4, <1>5, <1>6, <1>7, <1>8

(* The variables of the exchange and of every client keep their types. *)
THEOREM KeysTypeCorrect == Spec => []TypeOK
<1>1. Init => TypeOK
  BY KeysAssumption, RosterFacts DEF Init, TypeOK, Nothing
<1>2. TypeOK /\ [Next]_vars => TypeOK'
  <2> SUFFICES ASSUME TypeOK, [Next]_vars PROVE TypeOK'
    OBVIOUS
  <2>1. CASE Next
    BY <2>1, TypeStep DEF Next
  <2>2. CASE UNCHANGED vars
    BY <2>2 DEF vars, TypeOK
  <2> QED BY <2>1, <2>2
<1> QED BY <1>1, <1>2, PTL DEF Spec

----------------------------------------------------------------------------
(* A mint that has just begun has passed nobody. *)
LEMMA BeginsSkipsNone ==
  ASSUME NEW d \in Devices, NEW e, NEW x
  PROVE  ~Skips(Minting(d, e), x)
BY DEF Skips, Minting

(* A mint that has been through the roster sealed to whom it did not skip. *)
LEMMA SealedUnlessSkipped ==
  ASSUME TypeOK, NEW d \in Devices, Ready(d), NEW x \in Devices, ~Skips(task[d], x)
  PROVE  x \in task[d].sealed
<1>1. Mints(d) /\ task[d].at > Len(Roster)
  BY DEF Ready, Mints
<1>2. task[d].at = Len(Roster) + 1
  BY <1>1, MintTaskFacts, RosterFacts
<1>3. PICK i \in 1..Len(Roster) : Roster[i] = x
  BY RosterFacts
<1>4. i \in 1..(task[d].at - 1)
  BY <1>2, RosterFacts
<1> QED BY <1>3, <1>4 DEF Skips

(* What a step keeps that leaves the envelopes alone and in which `d` at   *)
(* most collects, begins a mint or stops. *)
LEMMA QuietStep ==
  ASSUME KeysInv, TypeOK', NEW d \in Devices,
         up' \subseteq ready', up \subseteq up', envelope' = envelope,
         held' = held \/ held' = [held EXCEPT ![d] = Collected(d)],
         \A c \in Devices : c # d => task'[c] = task[c],
         task'[d] # None => d \in up',
         \/ task'[d] = task[d] \/ task'[d] = None \/ task'[d].does = "ensure"
         \/ \E e \in Epochs : task'[d] = Minting(d, e)
  PROVE  KeysInv'
<1>1. ASSUME NEW c \in Devices, NEW x \in Devices, Mints(c)', Skips(task'[c], x)
      PROVE  Mints(c) /\ task'[c] = task[c]
  BY <1>1, BeginsSkipsNone DEF Mints
<1>2. WorkersReady'
  BY DEF KeysInv, WorkersReady
<1>3. MinterSealed' /\ OneKeySealed'
  BY DEF KeysInv, MinterSealed, OneKeySealed
<1>4. HeldIsSealed'
  <2>1. ASSUME NEW e \in Epochs
        PROVE  Collected(d)[e] # None => envelope[d][e] = Collected(d)[e]
    BY DEF Collected, KeysInv, HeldIsSealed
  <2> QED BY <2>1 DEF KeysInv, HeldIsSealed, TypeOK
<1>5. MintsForItself'
  <2> SUFFICES ASSUME NEW c \in Devices, Mints(c)'
               PROVE  task'[c].key.by = c /\ ~Skips(task'[c], c)
    BY DEF MintsForItself, Skips
  <2>1. task'[c] = task[c] \/ \E e \in Epochs : c = d /\ task'[c] = Minting(c, e)
    BY DEF Mints
  <2>2. CASE task'[c] = task[c]
    BY <2>2 DEF KeysInv, MintsForItself, Mints
  <2>3. ASSUME NEW e \in Epochs, task'[c] = Minting(c, e)
        PROVE  task'[c].key.by = c /\ ~Skips(task'[c], c)
    BY <2>3, BeginsSkipsNone DEF Minting
  <2> QED BY <2>1, <2>2, <2>3
<1>6. NotBothSkip'
  <2> SUFFICES ASSUME NEW a \in Devices, NEW b \in Devices, Mints(a)', Mints(b)',
                      Skips(task'[a], b), Skips(task'[b], a)
               PROVE  FALSE
    BY DEF NotBothSkip, Skips
  <2> QED BY <1>1 DEF KeysInv, NotBothSkip
<1>7. WinnerNotSkipped'
  <2> SUFFICES ASSUME NEW c \in Devices, NEW x \in Devices, Mints(c)',
                      envelope'[x][task'[c].epoch] # None,
                      Skips(task'[c], envelope'[x][task'[c].epoch].by)
               PROVE  envelope'[c][task'[c].epoch] # None
    BY DEF WinnerNotSkipped, Skips
  <2>1. task'[c].epoch \in Epochs
    BY DEF TypeOK, Mints, EnsureTask, MintTask
  <2>2. envelope[x][task'[c].epoch].by \in Devices
    BY <2>1 DEF KeysInv, MinterSealed, TypeOK
  <2>3. Mints(c) /\ task'[c] = task[c]
    BY <1>1, <2>2
  <2> QED BY <2>3 DEF KeysInv, WinnerNotSkipped
<1> QED BY <1>2, <1>3, <1>4, <1>5, <1>6, <1>7 DEF KeysInv

(* A prekey is missing only of a device that is not up, and so neither     *)
(* mints nor has minted. *)
LEMMA TakeStep ==
  ASSUME KeysInv, TypeOK', NEW d \in Devices, TakePrekey(d)
  PROVE  KeysInv'
<1> DEFINE who == Roster[task[d].at]
<1>1. Mints(d) /\ task[d].at \in 1..Len(Roster) /\ task[d] \in MintTask
  BY MintTaskFacts DEF TakePrekey, Mints, KeysInv
<1>2. \A c \in Devices : c # d => task'[c] = task[c]
  BY DEF TakePrekey, KeysInv, TypeOK
<1>3. UNCHANGED <<epoch, envelope, up, ready, held>>
  BY DEF TakePrekey
<1>4. CASE task'[d] = None
  BY <1>2, <1>3, <1>4, QuietStep DEF KeysInv, WorkersReady
<1>5. CASE task'[d] # None
  <2>1. /\ Mints(d)' /\ task'[d].epoch = task[d].epoch /\ task'[d].key = task[d].key
        /\ task'[d].at = task[d].at + 1
        /\ task'[d].sealed = IF who \in ready THEN task[d].sealed \cup {who} ELSE task[d].sealed
    BY <1>1, <1>5 DEF TakePrekey, take, Mints, MintTask, KeysInv, TypeOK
  <2>2. ASSUME NEW x \in Devices, Skips(task'[d], x)
        PROVE  Skips(task[d], x) \/ x \notin up
    <3>1. PICK i \in 1..(task'[d].at - 1) : Roster[i] = x
      BY <2>2 DEF Skips
    <3>2. i \in 1..(task[d].at - 1) \/ x = who
      BY <1>1, <2>1, <3>1, RosterFacts
    <3>3. x \notin task[d].sealed
      BY <2>1, <2>2 DEF Skips
    <3>4. CASE i \in 1..(task[d].at - 1)
      BY <3>1, <3>3, <3>4 DEF Skips
    <3>5. CASE x = who
      BY <2>1, <2>2, <3>5 DEF Skips, KeysInv, WorkersReady
    <3> QED BY <3>2, <3>4, <3>5
  <2>3. \A c \in Devices : Mints(c)' => Mints(c)
    BY <1>1, <1>2 DEF Mints
  <2>4. WorkersReady' /\ MinterSealed' /\ OneKeySealed' /\ HeldIsSealed'
    BY <1>1, <1>2, <1>3 DEF KeysInv, WorkersReady, MinterSealed, OneKeySealed, HeldIsSealed, Mints
  <2>5. MintsForItself'
    <3> SUFFICES ASSUME NEW c \in Devices, Mints(c)'
                 PROVE  task'[c].key.by = c /\ ~Skips(task'[c], c)
      BY DEF MintsForItself, Skips
    <3>1. Mints(c) /\ c \in up
      BY <2>3 DEF KeysInv, WorkersReady, Mints
    <3> QED BY <1>2, <2>1, <2>2, <3>1 DEF KeysInv, MintsForItself
  <2>6. NotBothSkip'
    <3> SUFFICES ASSUME NEW a \in Devices, NEW b \in Devices, Mints(a)', Mints(b)',
                        Skips(task'[a], b), Skips(task'[b], a)
                 PROVE  FALSE
      BY DEF NotBothSkip, Skips
    <3>1. Mints(a) /\ Mints(b) /\ a \in up /\ b \in up
      BY <2>3 DEF KeysInv, WorkersReady, Mints
    <3>2. Skips(task[a], b) /\ Skips(task[b], a)
      BY <1>2, <2>2, <3>1
    <3> QED BY <3>1, <3>2 DEF KeysInv, NotBothSkip
  <2>7. WinnerNotSkipped'
    <3> SUFFICES ASSUME NEW c \in Devices, NEW x \in Devices, Mints(c)',
                        envelope'[x][task'[c].epoch] # None,
                        Skips(task'[c], envelope'[x][task'[c].epoch].by)
                 PROVE  envelope'[c][task'[c].epoch] # None
      BY DEF WinnerNotSkipped, Skips
    <3>1. Mints(c) /\ task'[c].epoch = task[c].epoch /\ task[c].epoch \in Epochs
      BY <1>2, <2>1, <2>3, MintTaskFacts DEF KeysInv
    <3>2. envelope[x][task[c].epoch].by \in up /\ up \subseteq Devices
      BY <1>3, <3>1 DEF KeysInv, MinterSealed, TypeOK
    <3>3. Skips(task[c], envelope[x][task[c].epoch].by)
      BY <1>2, <1>3, <2>2, <3>1, <3>2
    <3> QED BY <1>3, <3>1, <3>3 DEF KeysInv, WinnerNotSkipped
  <2> QED BY <2>4, <2>5, <2>6, <2>7 DEF KeysInv
<1> QED BY <1>4, <1>5

(* A put is accepted only for an epoch that nobody has an envelope of: the *)
(* minter of what there is would be among its recipients, or it among the  *)
(* recipients of what there is. *)
LEMMA AcceptedIsFirst ==
  ASSUME KeysInv, NEW d \in Devices, Ready(d), ~Taken(d, task[d])
  PROVE  \A x \in Devices : envelope[x][task[d].epoch] = None
<1> SUFFICES ASSUME NEW x \in Devices, envelope[x][task[d].epoch] # None PROVE FALSE
  OBVIOUS
<1> DEFINE e == task[d].epoch
           k == envelope[x][e]
<1>1. Mints(d) /\ e \in Epochs /\ TypeOK
  BY MintTaskFacts DEF Ready, Mints, KeysInv
<1>2. k.by \in Devices /\ envelope[k.by][e] # None
  BY <1>1 DEF KeysInv, MinterSealed, TypeOK
<1>3. d \in task[d].sealed
  BY <1>1, SealedUnlessSkipped DEF KeysInv, MintsForItself
<1>4. CASE Skips(task[d], k.by)
  BY <1>1, <1>3, <1>4 DEF KeysInv, WinnerNotSkipped, Taken
<1>5. CASE ~Skips(task[d], k.by)
  BY <1>1, <1>2, <1>5, SealedUnlessSkipped DEF Taken
<1> QED BY <1>4, <1>5

LEMMA AcceptStep ==
  ASSUME KeysInv, TypeOK', NEW d \in Devices, PutAccepted(d) \/ PutUnheard(d)
  PROVE  KeysInv'
<1> DEFINE t == task[d]
<1>1. /\ Mints(d) /\ Ready(d) /\ ~Taken(d, t) /\ Accept(t)
      /\ UNCHANGED <<up, ready>> /\ TypeOK
      /\ task' = [task EXCEPT ![d] = None]
  BY DEF PutAccepted, PutUnheard, Ready, Mints, KeysInv
<1>2. /\ t.epoch \in Epochs /\ t.key \in Key /\ t.sealed \subseteq Devices
      /\ t.key # None /\ t.key.by = d /\ d \in up
  BY <1>1, MintTaskFacts, RosterFacts DEF KeysInv, MintsForItself, WorkersReady, Mints
<1>3. \A x \in Devices : envelope[x][t.epoch] = None
  BY <1>1, AcceptedIsFirst
<1>4. \A x \in Devices, e \in Epochs :
        envelope'[x][e] = IF x \in t.sealed /\ e = t.epoch THEN t.key ELSE envelope[x][e]
  BY <1>1 DEF Accept
<1>5. d \in t.sealed
  BY <1>1, SealedUnlessSkipped DEF KeysInv, MintsForItself
<1>6. task'[d] = None /\ \A c \in Devices : c # d => task'[c] = task[c]
  BY <1>1 DEF TypeOK
<1>7. \A c \in Devices : Mints(c)' => c # d /\ Mints(c) /\ task'[c] = task[c]
  BY <1>6 DEF Mints
<1>8. WorkersReady'
  BY <1>1, <1>6 DEF KeysInv, WorkersReady
<1>9. MinterSealed' /\ OneKeySealed'
  <2>1. OneKeySealed'
    BY <1>3, <1>4 DEF KeysInv, OneKeySealed
  <2> SUFFICES ASSUME NEW c \in Devices, NEW e \in Epochs, envelope'[c][e] # None
               PROVE  /\ envelope'[c][e].by \in up'
                      /\ envelope'[envelope'[c][e].by][e] = envelope'[c][e]
    BY <2>1 DEF MinterSealed
  <2>2. CASE e = t.epoch
    BY <1>1, <1>2, <1>3, <1>4, <1>5, <2>2
  <2>3. CASE e # t.epoch
    <3>1. envelope[c][e].by \in up /\ envelope[envelope[c][e].by][e] = envelope[c][e]
      BY <1>4, <2>3 DEF KeysInv, MinterSealed
    <3>2. envelope[c][e].by \in Devices
      BY <1>1, <3>1 DEF TypeOK
    <3> QED BY <1>1, <1>4, <2>3, <3>1, <3>2
  <2> QED BY <2>2, <2>3
<1>10. HeldIsSealed'
  <2> SUFFICES ASSUME NEW c \in Devices, NEW e \in Epochs, held'[c][e] # None
               PROVE  envelope'[c][e] = held'[c][e]
    BY DEF HeldIsSealed
  <2>1. held'[c][e] = held[c][e] \/ (c = d /\ e = t.epoch /\ held'[c][e] = t.key)
    BY <1>1, <1>2 DEF PutAccepted, PutUnheard, put_key, TypeOK
  <2>2. CASE c = d /\ e = t.epoch /\ held'[c][e] = t.key
    BY <1>4, <1>5, <2>2
  <2>3. CASE held'[c][e] = held[c][e]
    <3>1. envelope[c][e] = held[c][e]
      BY <2>3 DEF KeysInv, HeldIsSealed
    <3> QED BY <1>3, <1>4, <2>3, <3>1
  <2> QED BY <2>1, <2>2, <2>3
<1>11. MintsForItself'
  BY <1>7 DEF KeysInv, MintsForItself, Skips
<1>12. NotBothSkip'
  BY <1>7 DEF KeysInv, NotBothSkip, Skips
<1>13. WinnerNotSkipped'
  <2> SUFFICES ASSUME NEW c \in Devices, NEW x \in Devices, Mints(c)',
                      envelope'[x][task'[c].epoch] # None,
                      Skips(task'[c], envelope'[x][task'[c].epoch].by)
               PROVE  envelope'[c][task'[c].epoch] # None
    BY DEF WinnerNotSkipped, Skips
  <2> DEFINE e == task[c].epoch
  <2>1. Mints(c) /\ task'[c] = task[c] /\ e \in Epochs
    BY <1>1, <1>7, MintTaskFacts
  <2>2. CASE e = t.epoch
    <3>1. envelope'[x][e] = t.key
      BY <1>3, <1>4, <2>1, <2>2
    <3>2. ~Skips(t, c)
      BY <1>1, <1>2, <2>1, <3>1 DEF KeysInv, NotBothSkip
    <3>3. c \in t.sealed
      BY <1>1, <3>2, SealedUnlessSkipped
    <3> QED BY <1>2, <1>4, <2>1, <2>2, <3>3
  <2>3. CASE e # t.epoch
    BY <1>4, <2>1, <2>3 DEF KeysInv, WinnerNotSkipped
  <2> QED BY <2>2, <2>3
<1> QED BY <1>8, <1>9, <1>10, <1>11, <1>12, <1>13 DEF KeysInv

LEMMA KeysInvStep ==
  ASSUME ~Restarts, KeysInv, Next
  PROVE  KeysInv'
<1>1. PICK d \in Devices :
         \/ Start(d) \/ StartFails(d) \/ Drained(d) \/ Clear(d) \/ Publish(d)
         \/ EnsureFirst(d) \/ Ensure(d)
         \/ EnsureCollects(d) \/ Rotate(d) \/ TakePrekey(d) \/ PutAccepted(d) \/ PutUnheard(d)
         \/ PutRefused(d) \/ PutFails(d) \/ Poll(d) \/ Collect(d) \/ Stop(d)
  BY DEF Next
<1>2. TypeOK /\ TypeOK'
  BY <1>1, TypeStep DEF KeysInv
<1>3. up \subseteq ready /\ \A c \in Devices : task[c] # None => c \in up
  BY DEF KeysInv, WorkersReady
<1>4. CASE Start(d) \/ StartFails(d) \/ Drained(d)
  BY <1>2, <1>3, <1>4, QuietStep DEF Start, StartFails, Drained
<1>5. CASE Clear(d) \/ Publish(d)
  BY <1>3, <1>5 DEF Clear, Publish
<1>6. ASSUME NEW e, Begins(d, e), e \in Nat \ {0}, d \in up, UNCHANGED <<epoch, envelope, up, ready>>,
             held' = held \/ held' = [held EXCEPT ![d] = Collected(d)]
      PROVE  KeysInv'
  <2>1. e \in Epochs
    BY <1>6, RosterFacts DEF Begins, Epochs
  <2>2. task'[d] = Minting(d, e) /\ \A c \in Devices : c # d => task'[c] = task[c]
    BY <1>2, <1>6 DEF Begins, TypeOK
  <2> QED BY <1>2, <1>3, <1>6, <2>1, <2>2, QuietStep
<1>7. CASE EnsureFirst(d)
  BY <1>6, <1>7 DEF EnsureFirst
<1>8. CASE Ensure(d)
  <2>1. task'[d].does = "ensure" /\ \A c \in Devices : c # d => task'[c] = task[c]
    BY <1>2, <1>8 DEF Ensure, TypeOK
  <2> QED BY <1>2, <1>3, <1>8, <2>1, QuietStep DEF Ensure
<1>9. CASE EnsureCollects(d)
  <2>1. task[d].epoch + 1 \in Nat \ {0} /\ d \in up
    BY <1>2, <1>3, <1>9 DEF EnsureCollects, TypeOK, EnsureTask, MintTask, Epochs
  <2>2. CASE Begins(d, task[d].epoch + 1)
    BY <1>6, <1>9, <2>1, <2>2 DEF EnsureCollects
  <2>3. CASE task' = [task EXCEPT ![d] = None]
    <3>1. task'[d] = None /\ \A c \in Devices : c # d => task'[c] = task[c]
      BY <1>2, <2>3 DEF TypeOK
    <3> QED BY <1>2, <1>3, <1>9, <3>1, QuietStep DEF EnsureCollects
  <2> QED BY <1>9, <2>2, <2>3 DEF EnsureCollects
<1>10. CASE Rotate(d)
  <2>1. epoch + 1 \in Nat \ {0}
    BY <1>2 DEF TypeOK
  <2> QED BY <1>6, <1>10, <2>1 DEF Rotate
<1>11. CASE TakePrekey(d)
  BY <1>2, <1>11, TakeStep
<1>12. CASE PutAccepted(d) \/ PutUnheard(d)
  BY <1>2, <1>12, AcceptStep
<1>13. CASE PutRefused(d) \/ PutFails(d) \/ Stop(d)
  <2>1. task'[d] = None /\ \A c \in Devices : c # d => task'[c] = task[c]
    BY <1>2, <1>13 DEF PutRefused, PutFails, Stop, TypeOK
  <2> QED BY <1>2, <1>3, <1>13, <2>1, QuietStep DEF PutRefused, PutFails, Stop
<1>14. CASE Poll(d) \/ Collect(d)
  BY <1>2, <1>3, <1>14, QuietStep DEF Poll, Collect
<1> QED BY <1>1, <1>4, <1>5, <1>7, <1>8, <1>9, <1>10, <1>11, <1>12, <1>13, <1>14

(* However many devices race to mint however many epochs, with answers     *)
(* lost and clients stopped in the middle: while no pool is started again, *)
(* no two devices ever hold different keys for one epoch (`mint_epoch`     *)
(* against `put_keys`). *)
THEOREM OneKeyPerEpochHolds ==
  ASSUME ~Restarts
  PROVE  Spec => []OneKeyPerEpoch
<1>1. Init => KeysInv
  <2> SUFFICES ASSUME Init PROVE KeysInv
    OBVIOUS
  <2>1. TypeOK
    BY KeysAssumption, RosterFacts DEF Init, TypeOK, Nothing
  <2>2. \A d \in Devices : ~Mints(d) /\ task[d] = None
    BY DEF Init, Mints
  <2>3. \A d \in Devices, e \in Epochs : envelope[d][e] = None /\ held[d][e] = None
    BY DEF Init, Nothing
  <2>4. WorkersReady /\ MinterSealed /\ OneKeySealed /\ HeldIsSealed
    BY <2>2, <2>3 DEF Init, WorkersReady, MinterSealed, OneKeySealed, HeldIsSealed
  <2> QED BY <2>1, <2>2, <2>4 DEF KeysInv, MintsForItself, NotBothSkip, WinnerNotSkipped
<1>2. KeysInv /\ [Next]_vars => KeysInv'
  <2> SUFFICES ASSUME KeysInv, UNCHANGED vars PROVE KeysInv'
    BY KeysInvStep
  <2> QED BY DEF vars, KeysInv, TypeOK, WorkersReady, MinterSealed, OneKeySealed, HeldIsSealed,
                 MintsForItself, NotBothSkip, WinnerNotSkipped, Mints, Skips
<1>3. KeysInv => OneKeyPerEpoch
  BY DEF KeysInv, HeldIsSealed, OneKeySealed, OneKeyPerEpoch
<1> QED BY <1>1, <1>2, <1>3, PTL DEF Spec

-----------------------------------------------------------------------------
(* Why a revoked device stays out, whatever the home carries late and      *)
(* however claims are recorded.                                            *)

Signatures == [account : Accts, delegate : Devs, issued : Nat, until : Nat]

(* A registration's credential and a revocation's record, where there is   *)
(* one: the times that are compared are numbers.                           *)
IsRow(r) == r # Nobody => r.account \in Accts /\ r.issued \in Nat /\ r.until \in Nat
IsRevocation(g) == g # Nobody => g.at \in Nat /\ g.until \in Nat

(* A table of rows, one for each device at each exchange.                  *)
IsTable(t) == t = [x \in Registries |-> t[x]] /\ \A x \in Registries : t[x] = [d \in Devs |-> t[x][d]]

IsMessage(w) == /\ w.to \in Registries
                /\ w.kind = "carried" => w.cred \in Signatures
                /\ w.kind = "revoke" => w.paper.device \in Devs
IsClaim(k) == k.at \in Registries /\ k.kept \subseteq Signatures

RegistryTypeOK ==
    /\ acClock \in Nat
    /\ creds \subseteq Signatures
    /\ \A w \in wire : IsMessage(w)
    /\ \A k \in claims : IsClaim(k)
    /\ IsTable(device) /\ IsTable(revoked) /\ IsTable(out)
    /\ \A x \in Registries, d \in Devs : IsRow(device[x][d]) /\ IsRevocation(out[x][d])

(* Whoever is out has its revocation on record, until the credential that  *)
(* was revoked has run out: expire drops no record before.                 *)
OnRecord(x, d) ==
    out[x][d] # Nobody => revoked[x][d] = out[x][d] \/ out[x][d].until < acClock

StaysOut(x, d) ==
    device[x][d] # Nobody /\ out[x][d] # Nobody /\ device[x][d].account = out[x][d].account =>
        device[x][d].issued > out[x][d].at \/ device[x][d].until > out[x][d].until

RegistryInv ==
    /\ RegistryTypeOK
    /\ \A x \in Registries, d \in Devs : OnRecord(x, d) /\ StaysOut(x, d)

(* What a step leaves of the rest, when the clock stands.                  *)
OthersTyped == /\ creds' \subseteq Signatures
               /\ \A w \in wire' : IsMessage(w)
               /\ \A k \in claims' : IsClaim(k)
               /\ acClock' = acClock

LEMMA ExpireRows ==
    ASSUME NEW rows
    PROVE  /\ expire(rows) = [d \in Devs |-> expire(rows)[d]]
           /\ \A d \in Devs : expire(rows)[d] = rows[d] \/ (expire(rows)[d] = Nobody /\ rows[d].until < acClock)
  BY DEF expire

(* What a step may make of one device's row at an exchange.                *)
RowFine(x, d) ==
    /\ IsRow(device'[x][d]) /\ IsRevocation(out'[x][d])
    /\ OnRecord(x, d)' /\ StaysOut(x, d)'

(* A step changes one exchange's rows, each of which stays, is forgotten,  *)
(* or changes together with what is on record of it.                       *)
LEMMA RowsChangeInv ==
    ASSUME RegistryInv, OthersTyped, NEW x \in Registries, NEW r, NEW g, NEW o,
           device' = [device EXCEPT ![x] = r], r = [d \in Devs |-> r[d]],
           revoked' = [revoked EXCEPT ![x] = g], g = [d \in Devs |-> g[d]],
           out' = [out EXCEPT ![x] = o], o = [d \in Devs |-> o[d]],
           \A d \in Devs : RowFine(x, d)
    PROVE  RegistryInv'
<1>1. RegistryTypeOK /\ acClock' = acClock
  BY DEF RegistryInv, OthersTyped
<1>2. /\ IsTable(device') /\ \A y \in Registries \ {x} : device'[y] = device[y]
      /\ IsTable(revoked') /\ \A y \in Registries \ {x} : revoked'[y] = revoked[y]
      /\ IsTable(out') /\ \A y \in Registries \ {x} : out'[y] = out[y]
  <2>0. IsTable(device) /\ IsTable(revoked) /\ IsTable(out)
    BY <1>1 DEF RegistryTypeOK
  <2>1. IsTable(device') /\ \A y \in Registries \ {x} : device'[y] = device[y]
    BY <2>0 DEF IsTable
  <2>2. IsTable(revoked') /\ \A y \in Registries \ {x} : revoked'[y] = revoked[y]
    BY <2>0 DEF IsTable
  <2>3. IsTable(out') /\ \A y \in Registries \ {x} : out'[y] = out[y]
    BY <2>0 DEF IsTable
  <2> QED
    BY <2>1, <2>2, <2>3
<1>3. \A y \in Registries, d \in Devs : IsRow(device'[y][d]) /\ IsRevocation(out'[y][d])
  BY <1>1, <1>2 DEF RegistryTypeOK, RowFine
<1>4. RegistryTypeOK'
  BY <1>1, <1>2, <1>3 DEF RegistryTypeOK, OthersTyped, IsTable, IsRow, IsRevocation
<1>5. \A y \in Registries, d \in Devs : OnRecord(y, d)' /\ StaysOut(y, d)'
  BY <1>1, <1>2 DEF RegistryInv, OnRecord, StaysOut, RowFine
<1> QED
  BY <1>4, <1>5 DEF RegistryInv

(* Rows that only expire are fine.                                         *)
LEMMA ExpiredIsFine ==
    ASSUME RegistryInv, acClock' = acClock, NEW x \in Registries, NEW d \in Devs,
           device'[x][d] = expire(device[x])[d], revoked'[x][d] = expire(revoked[x])[d],
           out'[x][d] = out[x][d]
    PROVE  RowFine(x, d)
<1>1. RegistryTypeOK /\ OnRecord(x, d) /\ StaysOut(x, d)
  BY DEF RegistryInv
<1>2. device'[x][d] = device[x][d] \/ device'[x][d] = Nobody
  BY ExpireRows
<1>3. revoked'[x][d] = revoked[x][d] \/ revoked[x][d].until < acClock
  BY ExpireRows
<1>4. IsRow(device'[x][d]) /\ IsRevocation(out'[x][d])
  BY <1>1, <1>2 DEF RegistryTypeOK, IsRow
<1> QED
  BY <1>1, <1>2, <1>3, <1>4 DEF RowFine, OnRecord, StaysOut

LEMMA RegisterInv ==
    ASSUME RegistryInv, OthersTyped, NEW x \in Registries, NEW caller, NEW c \in Signatures, register(x, caller, c)
    PROVE  RegistryInv'
<1> DEFINE d == c.delegate
           rows == expire(device[x])
           gone == expire(revoked[x])
           row == [DeviceRow(c) EXCEPT !.added = IF rows[d] = Nobody THEN acClock ELSE rows[d].added]
           r == [rows EXCEPT ![d] = row]
           g == [gone EXCEPT ![d] = Nobody]
           cleared == out[x][d] # Nobody /\ c.issued > out[x][d].at
           o == IF cleared THEN [out[x] EXCEPT ![d] = Nobody] ELSE out[x]
<1>1. RegistryTypeOK /\ d \in Devs /\ c.account \in Accts /\ c.issued \in Nat /\ c.until \in Nat /\ acClock \in Nat /\ acClock' = acClock
  BY DEF RegistryInv, RegistryTypeOK, Signatures, OthersTyped
<1>2. /\ row.account = c.account /\ row.issued = c.issued /\ row.until = c.until
  BY DEF DeviceRow
<1>3. acClock <= c.until /\ ~StillOut(gone[d], c)
  BY DEF register, Valid
<1>4. device' = [device EXCEPT ![x] = r] /\ revoked' = [revoked EXCEPT ![x] = g]
  BY DEF register
<1>5. out' = [out EXCEPT ![x] = o]
  <2>1. out = [y \in Registries |-> out[y]]
    BY <1>1 DEF RegistryTypeOK, IsTable
  <2>2. out' = IF cleared THEN [out EXCEPT ![x] = [out[x] EXCEPT ![d] = Nobody]] ELSE out
    BY DEF register
  <2> QED
    BY <2>1, <2>2
<1> HIDE DEF row, rows, gone
<1>6. /\ rows = [e \in Devs |-> rows[e]] /\ gone = [e \in Devs |-> gone[e]]
      /\ \A e \in Devs : gone[e] = revoked[x][e] \/ (gone[e] = Nobody /\ revoked[x][e].until < acClock)
  BY ExpireRows DEF rows, gone
<1>7. r = [e \in Devs |-> r[e]] /\ g = [e \in Devs |-> g[e]] /\ o = [e \in Devs |-> o[e]]
  BY <1>1, <1>6 DEF RegistryTypeOK, IsTable
<1>8. r[d] = row /\ g[d] = Nobody /\ o[d] = (IF cleared THEN Nobody ELSE out[x][d])
      /\ \A e \in Devs \ {d} : r[e] = rows[e] /\ g[e] = gone[e] /\ o[e] = out[x][e]
  <2>1. out[x] = [e \in Devs |-> out[x][e]]
    BY <1>1 DEF RegistryTypeOK, IsTable
  <2> QED
    BY <1>1, <1>6, <2>1
<1> HIDE DEF r, g, o, cleared
<1>9. device'[x] = r /\ revoked'[x] = g /\ out'[x] = o
  BY <1>1, <1>4, <1>5 DEF RegistryTypeOK, IsTable
<1>10. ASSUME NEW e \in Devs, e # d PROVE RowFine(x, e)
  BY <1>1, <1>8, <1>9, <1>10, ExpiredIsFine DEF rows, gone
<1>11. RowFine(x, d)
  <2>1. OnRecord(x, d) /\ IsRevocation(out[x][d])
    BY <1>1 DEF RegistryInv, RegistryTypeOK
  <2>2. IsRow(device'[x][d]) /\ IsRevocation(out'[x][d])
    BY <1>1, <1>2, <1>8, <1>9, <2>1 DEF IsRow, IsRevocation
  <2>3. ASSUME out'[x][d] # Nobody
        PROVE  out'[x][d] = out[x][d] /\ out[x][d].until < acClock
    <3>1. out'[x][d] = out[x][d] /\ out[x][d] # Nobody /\ ~(c.issued > out[x][d].at)
      BY <1>8, <1>9, <2>3 DEF cleared
    <3>2. out[x][d].at \in Nat
      BY <2>1, <3>1 DEF IsRevocation
    <3>3. gone[d] # out[x][d]
      BY <1>1, <1>3, <3>1, <3>2 DEF StillOut
    <3> QED
      BY <1>1, <1>6, <2>1, <3>1, <3>3 DEF OnRecord
  <2>4. OnRecord(x, d)'
    BY <1>1, <2>3 DEF OnRecord
  <2>5. StaysOut(x, d)'
    <3>1. device'[x][d].until = c.until
      BY <1>2, <1>8, <1>9
    <3>2. out'[x][d] # Nobody => out'[x][d].until \in Nat /\ out'[x][d].until < acClock
      BY <2>1, <2>3 DEF IsRevocation
    <3> QED
      BY <1>1, <1>3, <3>1, <3>2 DEF StaysOut
  <2> QED
    BY <2>2, <2>4, <2>5 DEF RowFine
<1> QED
  BY <1>4, <1>5, <1>7, <1>10, <1>11, RowsChangeInv

LEMMA RevokeInv ==
    ASSUME RegistryInv, OthersTyped, NEW x \in Registries, NEW caller, NEW d \in Devs, NEW paper,
           revoke(x, caller, d, paper)
    PROVE  RegistryInv'
<1> DEFINE rows == expire(device[x])
           gone == [at |-> acClock, until |-> rows[d].until, account |-> rows[d].account,
                    paper |-> IF paper = Nobody THEN Nobody ELSE paper.issued]
           r == [rows EXCEPT ![d] = Nobody]
           g == [expire(revoked[x]) EXCEPT ![d] = gone]
           o == [out[x] EXCEPT ![d] = gone]
<1>1. RegistryTypeOK /\ acClock \in Nat /\ acClock' = acClock
  BY DEF RegistryInv, RegistryTypeOK, OthersTyped
<1>2. rows[d] # Nobody /\ device' = [device EXCEPT ![x] = r] /\ revoked' = [revoked EXCEPT ![x] = g]
  BY DEF revoke
<1>3. out' = [out EXCEPT ![x] = o]
  BY DEF revoke
<1>4. IsRow(device[x][d])
  BY <1>1 DEF RegistryTypeOK
<1>5. IsRevocation(gone)
  <2>1. rows[d] = device[x][d]
    BY <1>2, ExpireRows
  <2>2. rows[d].until \in Nat
    BY <1>2, <1>4, <2>1 DEF IsRow
  <2>3. gone.at = acClock /\ gone.until = rows[d].until
    OBVIOUS
  <2> QED
    BY <1>1, <2>2, <2>3 DEF IsRevocation
<1> HIDE DEF gone
<1>6. /\ r = [e \in Devs |-> r[e]] /\ r[d] = Nobody /\ \A e \in Devs \ {d} : r[e] = expire(device[x])[e]
  BY ExpireRows
<1>7. /\ g = [e \in Devs |-> g[e]] /\ g[d] = gone /\ \A e \in Devs \ {d} : g[e] = expire(revoked[x])[e]
  BY ExpireRows
<1>8. /\ o = [e \in Devs |-> o[e]] /\ o[d] = gone /\ \A e \in Devs \ {d} : o[e] = out[x][e]
  <2>1. out[x] = [e \in Devs |-> out[x][e]]
    BY <1>1 DEF RegistryTypeOK, IsTable
  <2> QED
    BY <2>1
<1> HIDE DEF r, g, o, rows
<1>9. device'[x] = r /\ revoked'[x] = g /\ out'[x] = o
  BY <1>1, <1>2, <1>3 DEF RegistryTypeOK, IsTable
<1>10. ASSUME NEW e \in Devs, e # d PROVE RowFine(x, e)
  BY <1>1, <1>6, <1>7, <1>8, <1>9, <1>10, ExpiredIsFine
<1>11. RowFine(x, d)
  BY <1>5, <1>6, <1>7, <1>8, <1>9 DEF RowFine, OnRecord, StaysOut, IsRow
<1> QED
  BY <1>2, <1>3, <1>6, <1>7, <1>8, <1>10, <1>11, RowsChangeInv

LEMMA RecordInv ==
    ASSUME RegistryInv, OthersTyped, NEW k \in claims, Record(k)
    PROVE  RegistryInv'
<1> DEFINE x == k.at
           mine == {d \in Devs : device[x][d] # Nobody /\ device[x][d].account = k.of}
           back == {c.delegate : c \in k.kept}
           gone(d) == [at |-> acClock, until |-> device[x][d].until, account |-> k.of, paper |-> Nobody]
           Kept(d) == CHOOSE c \in k.kept : c.delegate = d
           row(d) == [DeviceRow(Kept(d)) EXCEPT !.added =
                        IF device[x][d] # Nobody /\ d \notin mine THEN device[x][d].added ELSE acClock]
           r == [d \in Devs |-> IF d \in back THEN row(d) ELSE IF d \in mine THEN Nobody ELSE device[x][d]]
           g == [d \in Devs |-> IF d \in back THEN Nobody ELSE IF d \in mine THEN gone(d) ELSE revoked[x][d]]
           o == [d \in Devs |-> IF d \in back THEN Nobody ELSE IF d \in mine THEN gone(d) ELSE out[x][d]]
<1>1. RegistryTypeOK /\ acClock \in Nat /\ acClock' = acClock
  BY DEF RegistryInv, RegistryTypeOK, OthersTyped
<1>2. x \in Registries /\ k.kept \subseteq Signatures
  BY <1>1 DEF RegistryTypeOK, IsClaim
<1>3. device' = [device EXCEPT ![x] = r]
  BY DEF Record
<1>4. revoked' = [revoked EXCEPT ![x] = g]
  BY DEF Record
<1>5. out' = [out EXCEPT ![x] = o]
  BY DEF Record
<1>6. ASSUME NEW d \in Devs, d \in back PROVE row(d).account \in Accts /\ row(d).issued \in Nat /\ row(d).until \in Nat
  <2>1. Kept(d) \in k.kept
    BY <1>6
  <2>2. Kept(d).account \in Accts /\ Kept(d).issued \in Nat /\ Kept(d).until \in Nat
    BY <1>2, <2>1 DEF Signatures
  <2>3. row(d).account = Kept(d).account /\ row(d).issued = Kept(d).issued /\ row(d).until = Kept(d).until
    BY DEF DeviceRow
  <2> QED
    BY <2>2, <2>3
<1>7. ASSUME NEW d \in mine PROVE gone(d).at = acClock /\ gone(d).until \in Nat
  BY <1>1, <1>2, <1>7 DEF RegistryTypeOK, IsRow
<1> HIDE DEF row, gone, back, mine, x
<1>8. device'[x] = r /\ revoked'[x] = g /\ out'[x] = o
  BY <1>1, <1>2, <1>3, <1>4, <1>5 DEF RegistryTypeOK, IsTable
<1>9. r = [e \in Devs |-> r[e]] /\ g = [e \in Devs |-> g[e]] /\ o = [e \in Devs |-> o[e]]
  OBVIOUS
<1>10. ASSUME NEW d \in Devs PROVE RowFine(x, d)
  <2>1. CASE d \in back
    <3>1. device'[x][d] = row(d) /\ out'[x][d] = Nobody
      BY <1>8, <2>1
    <3> QED
      BY <1>6, <2>1, <3>1 DEF RowFine, OnRecord, StaysOut, IsRow, IsRevocation
  <2>2. CASE d \notin back /\ d \in mine
    <3>1. device'[x][d] = Nobody /\ out'[x][d] = gone(d) /\ revoked'[x][d] = gone(d)
      BY <1>8, <2>2
    <3> QED
      BY <1>1, <1>7, <2>2, <3>1 DEF RowFine, OnRecord, StaysOut, IsRow, IsRevocation
  <2>3. CASE d \notin back /\ d \notin mine
    <3>1. device'[x][d] = device[x][d] /\ out'[x][d] = out[x][d] /\ revoked'[x][d] = revoked[x][d]
      BY <1>8, <2>3
    <3>2. IsRow(device[x][d]) /\ IsRevocation(out[x][d]) /\ OnRecord(x, d) /\ StaysOut(x, d)
      BY <1>1, <1>2 DEF RegistryInv, RegistryTypeOK
    <3> QED
      BY <1>1, <3>1, <3>2 DEF RowFine, OnRecord, StaysOut, IsRow, IsRevocation
  <2> QED
    BY <2>1, <2>2, <2>3
<1> HIDE DEF r, g, o
<1> QED
  BY <1>2, <1>3, <1>4, <1>5, <1>9, <1>10, RowsChangeInv

(* The tables stand; time may pass.                                        *)
LEMMA TablesStandInv ==
    ASSUME RegistryInv, UNCHANGED <<device, revoked, out>>, acClock' \in {acClock, acClock + 1},
           creds' \subseteq Signatures, \A w \in wire' : IsMessage(w), \A k \in claims' : IsClaim(k)
    PROVE  RegistryInv'
<1>1. RegistryTypeOK /\ acClock \in Nat
  BY DEF RegistryInv, RegistryTypeOK
<1>2. RegistryTypeOK'
  BY <1>1 DEF RegistryTypeOK, IsTable
<1>3. ASSUME NEW x \in Registries, NEW d \in Devs PROVE OnRecord(x, d)' /\ StaysOut(x, d)'
  <2>1. IsRevocation(out[x][d]) /\ OnRecord(x, d) /\ StaysOut(x, d)
    BY <1>1 DEF RegistryInv, RegistryTypeOK
  <2> QED
    BY <1>1, <2>1 DEF OnRecord, StaysOut, IsRevocation
<1> QED
  BY <1>2, <1>3 DEF RegistryInv

LEMMA RegistryInvInit == RegistryInit => RegistryInv
  BY RegistryAssumption DEF RegistryInit, NoRows, RegistryInv, RegistryTypeOK, IsTable, IsRow, IsRevocation, OnRecord,
     StaysOut

LEMMA RegistryInvNext == RegistryInv /\ [RegistryNext]_registryVars => RegistryInv'
<1> SUFFICES ASSUME RegistryInv, [RegistryNext]_registryVars PROVE RegistryInv'
  OBVIOUS
<1>0. /\ RegistryTypeOK /\ creds \subseteq Signatures /\ (\A w \in wire : IsMessage(w)) /\ (\A k \in claims : IsClaim(k))
      /\ acClock \in Nat
  BY DEF RegistryInv, RegistryTypeOK
<1>1. CASE AcTick
  BY <1>0, <1>1, TablesStandInv DEF AcTick
<1>2. ASSUME NEW a \in Accts, NEW d \in Devs, NEW life \in Lives, Sign(a, d, life) PROVE RegistryInv'
  <2>1. acClock + life \in Nat
    BY <1>0, RegistryAssumption
  <2>2. creds' \subseteq Signatures
    BY <1>0, <1>2, <2>1 DEF Sign, Signatures
  <2> QED
    BY <1>0, <1>2, <2>2, TablesStandInv DEF Sign
<1>3. ASSUME NEW x \in Registries, RegistryRestarts(x) PROVE RegistryInv'
  BY <1>0, <1>3, TablesStandInv DEF RegistryRestarts
<1>4. ASSUME NEW x \in Registries, NEW caller \in Devs, NEW c \in creds, Register(x, caller, c) PROVE RegistryInv'
  <2>1. OthersTyped
    BY <1>0, <1>4 DEF Register, OthersTyped
  <2> QED
    BY <1>0, <1>4, <2>1, RegisterInv DEF Register
<1>5. ASSUME NEW x \in Registries, NEW caller, NEW d \in Devs, SignOut(x, caller, d) PROVE RegistryInv'
  <2>1. OthersTyped
    BY <1>0, <1>5 DEF SignOut, OthersTyped
  <2> QED
    BY <1>5, <2>1, RevokeInv DEF SignOut
<1>6. ASSUME NEW x \in Registries, NEW caller, NEW d \in Devs, NEW a \in Accts, Withdraw(x, caller, a, d)
      PROVE  RegistryInv'
  <2> DEFINE paper == [account |-> a, device |-> d, issued |-> acClock]
  <2>1. \A w \in carry_revocation(x, caller, paper) : IsMessage(w)
    BY <1>0 DEF carry_revocation, IsMessage
  <2>2. OthersTyped
    BY <1>0, <1>6, <2>1 DEF Withdraw, OthersTyped
  <2> QED
    BY <1>6, <2>2, RevokeInv DEF Withdraw
<1>7. ASSUME NEW y \in Registries, NEW d \in Devs, CarryCredential(y, d) PROVE RegistryInv'
  <2> DEFINE r == device[HomeEx][d]
             c == [account |-> r.account, delegate |-> d, issued |-> r.issued, until |-> r.until]
             message == [kind |-> "carried", to |-> y, cred |-> c]
  <2>1. r # Nobody
    BY <1>7, ExpireRows DEF CarryCredential, Registered
  <2>2. IsRow(r)
    BY <1>0, RegistryAssumption DEF RegistryTypeOK
  <2>3. c \in Signatures
    BY <2>1, <2>2 DEF IsRow, Signatures
  <2>4. wire' = wire \cup {message}
    BY <1>7 DEF CarryCredential
  <2> HIDE DEF c
  <2>5. IsMessage(message)
    BY <2>3 DEF IsMessage
  <2>6. \A w \in wire' : IsMessage(w)
    BY <1>0, <2>4, <2>5
  <2> QED
    BY <1>0, <1>7, <2>6, TablesStandInv DEF CarryCredential
<1>8. ASSUME NEW w \in wire, TakeCarried(w) PROVE RegistryInv'
  <2>1. OthersTyped /\ w.to \in Registries /\ w.cred \in Signatures
    BY <1>0, <1>8 DEF TakeCarried, OthersTyped, IsMessage
  <2> QED
    BY <1>8, <2>1, RegisterInv DEF TakeCarried
<1>9. ASSUME NEW w \in wire, TakeRevocation(w) PROVE RegistryInv'
  <2>1. OthersTyped /\ w.to \in Registries /\ w.paper.device \in Devs
    BY <1>0, <1>9 DEF TakeRevocation, OthersTyped, IsMessage
  <2> QED
    BY <1>9, <2>1, RevokeInv DEF TakeRevocation
<1>10. ASSUME NEW w \in wire, WireDrops(w) PROVE RegistryInv'
  BY <1>0, <1>10, TablesStandInv DEF WireDrops
<1>11. ASSUME NEW x \in Registries, NEW a \in Accts, NEW s \in Accts, AskSucceed(x, a, s) PROVE RegistryInv'
  <2>1. \A k \in claims' : IsClaim(k)
    BY <1>0, <1>11 DEF AskSucceed, IsClaim
  <2> QED
    BY <1>0, <1>11, <2>1, TablesStandInv DEF AskSucceed
<1>12. ASSUME NEW x \in Registries, NEW a \in Accts, NEW s \in Accts, NEW keep \in SUBSET Devs, NEW life \in Lives,
              AskHandover(x, a, s, keep, life)
       PROVE  RegistryInv'
  <2> DEFINE kept == {[account |-> s, delegate |-> d, issued |-> acClock, until |-> acClock + life] : d \in keep}
  <2>1. acClock + life \in Nat
    BY <1>0, RegistryAssumption
  <2>2. kept \subseteq Signatures
    BY <1>0, <2>1 DEF Signatures
  <2> HIDE DEF kept
  <2>3. claims' = claims \cup {[at |-> x, of |-> a, to |-> s, done |-> FALSE, kept |-> kept]}
    BY <1>12 DEF AskHandover, kept
  <2>4. \A k \in claims' : IsClaim(k)
    BY <1>0, <2>2, <2>3 DEF IsClaim
  <2> QED
    BY <1>0, <1>12, <2>4, TablesStandInv DEF AskHandover
<1>13. ASSUME NEW k \in claims, Record(k) PROVE RegistryInv'
  <2> DEFINE k2 == [k EXCEPT !.done = TRUE]
  <2>1. claims' = (claims \ {k}) \cup {k2}
    BY <1>13 DEF Record
  <2>2. k2.at = k.at /\ k2.kept = k.kept
    OBVIOUS
  <2> HIDE DEF k2
  <2>3. OthersTyped
    BY <1>0, <1>13, <2>1, <2>2 DEF Record, OthersTyped, IsClaim
  <2> QED
    BY <1>13, <2>3, RecordInv
<1>14. ASSUME NEW k \in claims, Refuse(k) \/ Follow(k) PROVE RegistryInv'
  BY <1>0, <1>14, TablesStandInv DEF Refuse, Follow
<1>15. CASE UNCHANGED registryVars
  BY <1>0, <1>15, TablesStandInv DEF registryVars
<1> QED
  BY <1>1, <1>2, <1>3, <1>4, <1>5, <1>6, <1>7, <1>8, <1>9, <1>10, <1>11, <1>12, <1>13, <1>14, <1>15 DEF RegistryNext

(* A revoked device is not its account's device again on what was signed   *)
(* before (Registry::register, revoke, expire), for any exchanges and      *)
(* devices, however long what the home carries is under way.               *)
THEOREM RevokedStaysOutAlways == RegistrySpec => []RevokedStaysOut
<1>1. RegistryInv => RevokedStaysOut
  BY DEF RegistryInv, StaysOut, RevokedStaysOut
<1> QED
  BY <1>1, RegistryInvInit, RegistryInvNext, PTL DEF RegistrySpec

-----------------------------------------------------------------------------
(***************************************************************************)
(* What two devices hand each other.  A side says hello, what it keeps,    *)
(* what it wants, then serves, then says it is done: what is on its way    *)
(* stands in that order, whatever it answers.                              *)
(***************************************************************************)
Tells == {"hello", "earlier", "have", "wantEarlier", "want", "keys", "entries", "blobs", "done"}
Rank(m) ==
  CASE m.tells = "hello" -> 0 [] m.tells = "earlier" -> 1 [] m.tells = "have" -> 2
    [] m.tells = "wantEarlier" -> 3 [] m.tells = "want" -> 4
    [] m.tells \in {"keys", "entries", "blobs"} -> 5 [] OTHER -> 6

Row == [item : Items, life : Nat, first : 1..Top, last : 1..Top, epochs : Nat]
Frames ==
  [tells : {"hello", "done"}] \cup [tells : {"earlier", "have"}, rows : SUBSET Row]
  \cup [tells : {"wantEarlier", "want"}, rows : SUBSET (Items \X Nat)]
  \cup [tells : {"keys"}, item : Items, keys : {ks \in SUBSET Nat : IsFiniteSet(ks)}]
  \cup [tells : {"entries"}, item : Items, life : Nat, entries : SUBSET ((1..Top) \ Expired)]
  \cup [tells : {"blobs"}, ids : SUBSET (Items \X (1..Top))]

(* What a has said and b has yet to take.                                  *)
Way(a) == link[Other(a)] \o outbox[a]
On(w) == {w[n] : n \in 1..Len(w)}
Within(w, lo, hi) == \A n \in 1..Len(w) : lo <= Rank(w[n]) /\ Rank(w[n]) <= hi
Ordered(w) ==
  \A p, q \in 1..Len(w) : p < q =>
    Rank(w[p]) < Rank(w[q]) \/ (Rank(w[p]) = 5 /\ Rank(w[q]) = 5)

(* v is w without its first message m; v is w with ms after it.            *)
Took(m, w, v) ==
  /\ m \in Frames /\ w # <<>> /\ m = Head(w) /\ v = Tail(w) /\ Ordered(v) /\ On(w) = {m} \cup On(v)
  /\ \A lo, hi \in 0..6 : Within(w, lo, hi) => Within(v, lo, hi) /\ lo <= Rank(m) /\ Rank(m) <= hi
  /\ Rank(m) # 5 => Within(v, Rank(m) + 1, 6)
Added(ms, w, v, l, h) ==
  /\ v = w \o ms /\ Ordered(v) /\ On(v) = On(w) \cup On(ms)
  /\ \A lo, hi \in 0..6 : Within(w, lo, hi) /\ lo <= l /\ h <= hi => Within(v, lo, hi)

LEMMA RankIs ==
    ASSUME NEW m
    PROVE  /\ m.tells = "hello" <=> Rank(m) = 0
           /\ m.tells = "earlier" <=> Rank(m) = 1
           /\ m.tells = "have" <=> Rank(m) = 2
           /\ m.tells = "wantEarlier" <=> Rank(m) = 3
           /\ m.tells = "want" <=> Rank(m) = 4
           /\ m.tells \in {"keys", "entries", "blobs"} <=> Rank(m) = 5
           /\ m.tells = "done" => Rank(m) = 6
           /\ Rank(m) \in 0..6
  BY DEF Rank

LEMMA FrameFields ==
    ASSUME NEW m \in Frames
    PROVE  /\ m.tells \in Tells
           /\ m.tells \in {"wantEarlier", "want"} => m.rows \subseteq Items \X Nat
           /\ m.tells \in {"earlier", "have"} => m.rows \subseteq Row
           /\ m.tells = "keys" => m.item \in Items /\ m.keys \subseteq Nat /\ IsFiniteSet(m.keys)
           /\ m.tells = "entries" =>
                m.item \in Items /\ m.life \in Nat /\ m.entries \subseteq (1..Top) \ Expired
           /\ m.tells = "blobs" => m.ids \subseteq Items \X (1..Top)
  BY DEF Frames, Tells

(* The other side.                                                         *)
LEMMA TwoSides ==
    ASSUME NEW s \in Sides
    PROVE  /\ Other(s) \in Sides /\ Other(s) # s /\ Other(Other(s)) = s
           /\ \A t \in Sides : t = s \/ t = Other(s)
<1>1. IsFiniteSet(Sides) /\ Cardinality(Sides) = 2
  BY SyncAssumption
<1>2. IsFiniteSet(Sides \ {s}) /\ Cardinality(Sides \ {s}) = 1
  BY <1>1, FS_RemoveElement
<1>3. PICK o : Sides \ {s} = {o}
  BY <1>2, FS_Singleton
<1>4. Other(s) = o
  BY <1>3 DEF Other
<1>5. Other(o) = s
  BY <1>3 DEF Other
<1> QED
  BY <1>3, <1>4, <1>5

(* What is left when the first is taken.                                   *)
LEMMA TookHead ==
    ASSUME NEW w \in Seq(Frames), w # <<>>, Ordered(w)
    PROVE  Took(Head(w), w, Tail(w))
<1>1. /\ Len(w) \in Nat \ {0} /\ Len(Tail(w)) = Len(w) - 1 /\ Head(w) = w[1]
      /\ \A n \in 1..Len(Tail(w)) : Tail(w)[n] = w[n + 1] /\ n + 1 \in 1..Len(w)
      /\ \A n \in 1..Len(w) : w[n] \in Frames
      /\ Tail(w) \in Seq(Frames) /\ 1 \in 1..Len(w)
  OBVIOUS
<1>2. \A m : Rank(m) \in 0..6
  BY RankIs
<1>3. Ordered(Tail(w))
  BY <1>1, <1>2 DEF Ordered
<1>4. On(w) = {Head(w)} \cup On(Tail(w))
  <2>1. ASSUME NEW m, NEW n \in 1..Len(w), m = w[n], n # 1 PROVE m \in On(Tail(w))
    <3>1. n - 1 \in 1..Len(Tail(w)) /\ Tail(w)[n - 1] = w[n]
      BY <1>1, <2>1
    <3> QED
      BY <2>1, <3>1 DEF On
  <2> QED
    BY <1>1, <2>1 DEF On
<1>5. ASSUME NEW lo \in 0..6, NEW hi \in 0..6, Within(w, lo, hi)
      PROVE  Within(Tail(w), lo, hi) /\ lo <= Rank(Head(w)) /\ Rank(Head(w)) <= hi
  BY <1>1, <1>5 DEF Within
<1>6. Rank(Head(w)) # 5 => Within(Tail(w), Rank(Head(w)) + 1, 6)
  BY <1>1, <1>2 DEF Within, Ordered
<1> QED
  BY <1>1, <1>3, <1>4, <1>5, <1>6 DEF Took

(* What stands when more is said.                                          *)
LEMMA Queued ==
    ASSUME NEW w \in Seq(Frames), NEW ms \in Seq(Frames), Ordered(w), Ordered(ms),
           NEW k \in 0..6, NEW l \in 0..6, NEW h \in 0..6, Within(w, 0, k), Within(ms, l, h),
           w = <<>> \/ k < l \/ (k = 5 /\ l = 5 /\ h = 5)
    PROVE  Added(ms, w, w \o ms, l, h)
<1> DEFINE v == w \o ms
<1>1. /\ Len(v) = Len(w) + Len(ms) /\ v \in Seq(Frames) /\ Len(w) \in Nat /\ Len(ms) \in Nat
      /\ \A n \in 1..Len(w) : v[n] = w[n]
      /\ \A n \in 1..(Len(w) + Len(ms)) : n > Len(w) =>
            v[n] = ms[n - Len(w)] /\ n - Len(w) \in 1..Len(ms)
      /\ \A n \in 1..Len(ms) : v[n + Len(w)] = ms[n] /\ n + Len(w) \in 1..Len(v)
      /\ w = <<>> => Len(w) = 0
  OBVIOUS
<1> HIDE DEF v
<1>2. \A m : Rank(m) \in 0..6
  BY RankIs
<1>3. Ordered(v)
  <2> SUFFICES ASSUME NEW p \in 1..Len(v), NEW q \in 1..Len(v), p < q
               PROVE  Rank(v[p]) < Rank(v[q]) \/ (Rank(v[p]) = 5 /\ Rank(v[q]) = 5)
    BY DEF Ordered
  <2>1. CASE q <= Len(w)
    <3>1. p \in 1..Len(w) /\ q \in 1..Len(w) /\ v[p] = w[p] /\ v[q] = w[q]
      BY <1>1, <2>1
    <3> QED
      BY <3>1 DEF Ordered
  <2>2. CASE p > Len(w)
    <3>1. /\ p - Len(w) \in 1..Len(ms) /\ q - Len(w) \in 1..Len(ms) /\ p - Len(w) < q - Len(w)
          /\ v[p] = ms[p - Len(w)] /\ v[q] = ms[q - Len(w)]
      BY <1>1, <2>2
    <3> QED
      BY <3>1 DEF Ordered
  <2>3. CASE p <= Len(w) /\ Len(w) < q
    <3>1. /\ p \in 1..Len(w) /\ q - Len(w) \in 1..Len(ms) /\ w # <<>>
          /\ v[p] = w[p] /\ v[q] = ms[q - Len(w)]
      BY <1>1, <2>3
    <3>2. Rank(v[p]) <= k /\ l <= Rank(v[q]) /\ Rank(v[q]) <= h
      BY <3>1 DEF Within
    <3>3. Rank(v[p]) \in 0..6 /\ Rank(v[q]) \in 0..6
      BY <1>2
    <3> DEFINE x == Rank(v[p])
               y == Rank(v[q])
    <3>4. x \in 0..6 /\ y \in 0..6 /\ x <= k /\ l <= y /\ y <= h /\ (k < l \/ (k = 5 /\ l = 5 /\ h = 5))
      BY <3>1, <3>2, <3>3
    <3> HIDE DEF x, y
    <3>5. x < y \/ (x = 5 /\ y = 5)
      BY ONLY <3>4, k \in 0..6, l \in 0..6, h \in 0..6
    <3> QED
      BY <3>5 DEF x, y
  <2>4. q <= Len(w) \/ p > Len(w) \/ (p <= Len(w) /\ Len(w) < q)
    BY <1>1
  <2> QED
    BY <2>1, <2>2, <2>3, <2>4
<1>4. On(v) = On(w) \cup On(ms)
  <2>1. ASSUME NEW m, NEW n \in 1..Len(v), m = v[n] PROVE m \in On(w) \/ m \in On(ms)
    <3>1. n \in 1..Len(w) \/ (n > Len(w) /\ n \in 1..(Len(w) + Len(ms)))
      BY <1>1
    <3> QED
      BY <2>1, <3>1, <1>1 DEF On
  <2>2. ASSUME NEW m, m \in On(w) PROVE m \in On(v)
    BY <2>2, <1>1 DEF On
  <2>3. ASSUME NEW m, NEW n \in 1..Len(ms), m = ms[n] PROVE m \in On(v)
    <3>1. n + Len(w) \in 1..Len(v) /\ v[n + Len(w)] = ms[n]
      BY <1>1
    <3> QED
      BY <2>3, <3>1 DEF On
  <2> QED
    BY <2>1, <2>2, <2>3 DEF On
<1>5. ASSUME NEW lo \in 0..6, NEW hi \in 0..6, Within(w, lo, hi), lo <= l, h <= hi
      PROVE  Within(v, lo, hi)
  <2> SUFFICES ASSUME NEW n \in 1..Len(v) PROVE lo <= Rank(v[n]) /\ Rank(v[n]) <= hi
    BY DEF Within
  <2>1. CASE n <= Len(w)
    BY <2>1, <1>1, <1>5 DEF Within
  <2>2. CASE n > Len(w)
    <3>1. n - Len(w) \in 1..Len(ms) /\ v[n] = ms[n - Len(w)]
      BY <1>1, <2>2
    <3>2. l <= Rank(v[n]) /\ Rank(v[n]) <= h
      BY <3>1 DEF Within
    <3>3. Rank(v[n]) \in 0..6
      BY <1>2
    <3> DEFINE x == Rank(v[n])
    <3>4. x \in 0..6 /\ l <= x /\ x <= h
      BY <3>2, <3>3
    <3> HIDE DEF x
    <3>5. lo <= x /\ x <= hi
      BY ONLY <3>4, <1>5, lo \in 0..6, hi \in 0..6, l \in 0..6, h \in 0..6
    <3> QED
      BY <3>5 DEF x
  <2> QED
    BY <1>1, <2>1, <2>2
<1> QED
  BY <1>1, <1>3, <1>4, <1>5 DEF v, Added

LEMMA Wider ==
    ASSUME NEW w, NEW lo \in 0..6, NEW hi \in 0..6, Within(w, lo, hi)
    PROVE  \A l, h \in 0..6 : l <= lo /\ hi <= h => Within(w, l, h)
<1> SUFFICES ASSUME NEW l \in 0..6, NEW h \in 0..6, l <= lo, hi <= h, NEW n \in 1..Len(w)
             PROVE  l <= Rank(w[n]) /\ Rank(w[n]) <= h
  BY DEF Within
<1>1. Rank(w[n]) \in 0..6
  BY RankIs
<1>2. lo <= Rank(w[n]) /\ Rank(w[n]) <= hi
  BY DEF Within
<1> QED
  BY <1>1, <1>2

LEMMA OnWithin ==
    ASSUME NEW w, NEW lo \in 0..6, NEW hi \in 0..6, Within(w, lo, hi), NEW m, m \in On(w)
    PROVE  lo <= Rank(m) /\ Rank(m) <= hi
  BY DEF On, Within

-----------------------------------------------------------------------------
Phases == {"greeting", "listing", "trading", "finished", "failed"}
Steps ==
  [phase : Phases, gotHave : BOOLEAN, gotWant : BOOLEAN, gotDone : BOOLEAN, sentDone : BOOLEAN]
SyncTypes ==
  /\ open \in BOOLEAN
  /\ step \in [Sides -> Steps]
  /\ link \in [Sides -> Seq(Frames)] /\ outbox \in [Sides -> Seq(Frames)]
  /\ owed \in [Sides -> UNION {[d -> Nat] : d \in SUBSET Items}]
  /\ keyed \in [Sides -> SUBSET Items] /\ offered \in [Sides -> SUBSET Row]
  /\ asked \in [Sides -> SUBSET Items] /\ wanted \in [Sides -> SUBSET (Items \X (1..Top))]
  /\ stock \in [Sides -> Stock] /\ said \in [Sides -> Stock] /\ had \in [Sides -> Stock]
  /\ \A s \in Sides, i \in Items : IsFiniteSet(stock[s].keys[i])

(* A side that failed never finishes.                                      *)
Fine == \A s \in Sides : step[s].phase # "failed"

Quiet(st) == ~st.gotHave /\ ~st.gotWant /\ ~st.gotDone /\ ~st.sentDone
Spoken(t, w) == \E m \in On(w) : m.tells = t
Unmet(b) == step[b].phase = "greeting" \/ Spoken("hello", Way(b))

(* What each side's state says of what it has sent and of what has come.   *)
Turns(a, b) ==
  /\ Ordered(Way(a))
  /\ step[a].phase = "greeting" => Way(a) = <<>> /\ Quiet(step[a])
  /\ Unmet(b) => Within(Way(a), 0, 0) /\ ~step[b].gotHave /\ ~step[a].gotHave /\ offered[b] = {}
  /\ ~step[a].gotHave => Within(Way(a), 0, 2) /\ ~step[b].gotWant /\ DOMAIN owed[b] = {}
  /\ ~step[a].gotWant =>
        Within(Way(a), 0, 4) /\ keyed[a] = {} /\ DOMAIN owed[a] \subseteq Gens
  /\ ~step[a].sentDone => Within(Way(a), 0, 5) /\ ~step[b].gotDone
  /\ step[b].gotHave => Within(Way(a), 3, 6)
  /\ step[b].gotWant => Within(Way(a), 5, 6)
  /\ step[b].gotDone => Way(a) = <<>>
  /\ Spoken("wantEarlier", Way(b)) => DOMAIN owed[a] = {}
  /\ step[a].sentDone =>
        step[a].gotWant /\ DOMAIN owed[a] = {} /\ step[a].phase \in {"trading", "finished"}
  /\ step[a].phase = "trading" => step[a].gotHave /\ step[a].gotWant
  /\ step[a].phase = "finished" => step[a].gotHave /\ step[a].sentDone /\ step[a].gotDone

LEMMA WayTyped ==
    ASSUME SyncTypes, NEW a \in Sides
    PROVE  Way(a) \in Seq(Frames) /\ link[a] \in Seq(Frames) /\ outbox[a] \in Seq(Frames)
  BY TwoSides, ConcatProperties DEF SyncTypes, Way

LEMMA WaysTyped ==
    ASSUME SyncTypes', NEW a \in Sides
    PROVE  Way(a)' \in Seq(Frames)
<1>1. Other(a) \in Sides
  BY TwoSides
<1>2. link'[Other(a)] \in Seq(Frames) /\ outbox'[a] \in Seq(Frames)
  BY <1>1 DEF SyncTypes
<1> QED
  BY <1>2, ConcatProperties DEF Way

LEMMA Regrouped ==
    ASSUME NEW u \in Seq(Frames), NEW v \in Seq(Frames), NEW w \in Seq(Frames)
    PROVE  (u \o v) \o w = u \o (v \o w)
  BY ConcatAssociative

(* More is said, and nothing is taken.                                     *)
LEMMA SaysMore ==
    ASSUME SyncTypes, NEW s \in Sides, NEW ms \in Seq(Frames), Queues(s, ms), UNCHANGED link
    PROVE  Way(s)' = Way(s) \o ms /\ Way(Other(s))' = Way(Other(s)) /\ outbox' \in [Sides -> Seq(Frames)]
<1> DEFINE o == Other(s)
<1>1. o \in Sides /\ o # s /\ Other(o) = s
  BY TwoSides
<1>2. link[o] \in Seq(Frames) /\ outbox[s] \in Seq(Frames)
  BY <1>1, WayTyped
<1>3. outbox'[s] = outbox[s] \o ms /\ outbox'[o] = outbox[o]
  BY <1>1 DEF Queues, SyncTypes
<1>4. (link[o] \o outbox[s]) \o ms = link[o] \o (outbox[s] \o ms)
  BY <1>2, Regrouped
<1>5. outbox[s] \o ms \in Seq(Frames)
  BY <1>2, ConcatProperties
<1>6. outbox' \in [Sides -> Seq(Frames)]
  BY <1>5 DEF Queues, SyncTypes
<1> QED
  BY <1>1, <1>3, <1>4, <1>6 DEF Way

LEMMA TailOfConcat ==
    ASSUME NEW v \in Seq(Frames), NEW w \in Seq(Frames), v # <<>>
    PROVE  v \o w # <<>> /\ Head(v \o w) = Head(v) /\ Tail(v \o w) = Tail(v) \o w
<1> DEFINE u == v \o w
           x == Tail(v) \o w
<1>1. /\ u \in Seq(Frames) /\ Len(u) = Len(v) + Len(w)
      /\ \A i \in 1..Len(v) + Len(w) : u[i] = IF i <= Len(v) THEN v[i] ELSE w[i - Len(v)]
  BY ConcatProperties
<1>2. Tail(v) \in Seq(Frames) /\ Len(Tail(v)) = Len(v) - 1 /\ Len(v) \in Nat \ {0} /\ Len(w) \in Nat
      /\ \A i \in 1..Len(Tail(v)) : Tail(v)[i] = v[i + 1]
  OBVIOUS
<1>3. /\ x \in Seq(Frames) /\ Len(x) = Len(Tail(v)) + Len(w)
      /\ \A i \in 1..Len(Tail(v)) + Len(w) :
           x[i] = IF i <= Len(Tail(v)) THEN Tail(v)[i] ELSE w[i - Len(Tail(v))]
  BY <1>2, ConcatProperties
<1> HIDE DEF u, x
<1>4. u # <<>> /\ Head(u) = u[1] /\ u[1] = v[1] /\ Head(v) = v[1]
  BY <1>1, <1>2
<1>5. Tail(u) \in Seq(Frames) /\ Len(Tail(u)) = Len(u) - 1
      /\ \A i \in 1..Len(Tail(u)) : Tail(u)[i] = u[i + 1]
  BY <1>1, <1>4
<1>6. ASSUME NEW i \in 1..Len(x) PROVE Tail(u)[i] = x[i]
  <2>1. Tail(u)[i] = u[i + 1] /\ i + 1 \in 1..Len(v) + Len(w)
    BY <1>1, <1>2, <1>3, <1>5
  <2>2. CASE i <= Len(v) - 1
    BY <2>1, <2>2, <1>1, <1>2, <1>3
  <2>3. CASE i > Len(v) - 1
    BY <2>1, <2>3, <1>1, <1>2, <1>3
  <2>4. i <= Len(v) - 1 \/ i > Len(v) - 1
    BY <1>2, <1>3
  <2> QED
    BY <2>2, <2>3, <2>4
<1>7. Tail(u) = x
  <2>1. Len(Tail(u)) = Len(x)
    BY <1>1, <1>2, <1>3, <1>5
  <2> QED
    BY <2>1, <1>3, <1>5, <1>6, SeqEqual
<1> QED
  BY <1>4, <1>7 DEF u, x

(* One is taken, and more may be said.                                     *)
LEMMA TakesOne ==
    ASSUME SyncTypes, NEW s \in Sides, NEW what, Arrives(s, what), NEW ms \in Seq(Frames), Queues(s, ms)
    PROVE  /\ Way(Other(s)) # <<>> /\ Head(Way(Other(s))) = Head(link[s])
           /\ Head(link[s]) \in Frames /\ Head(link[s]).tells = what
           /\ Way(Other(s))' = Tail(Way(Other(s)))
           /\ Way(s)' = Way(s) \o ms /\ outbox' \in [Sides -> Seq(Frames)]
           /\ link' \in [Sides -> Seq(Frames)]
<1> DEFINE o == Other(s)
<1>1. o \in Sides /\ o # s /\ Other(o) = s
  BY TwoSides
<1>2. /\ link[o] \in Seq(Frames) /\ outbox[s] \in Seq(Frames)
      /\ link[s] \in Seq(Frames) /\ outbox[o] \in Seq(Frames)
  BY <1>1, WayTyped
<1>3. outbox'[s] = outbox[s] \o ms /\ outbox'[o] = outbox[o]
  BY <1>1 DEF Queues, SyncTypes
<1>4. link'[s] = Tail(link[s]) /\ link'[o] = link[o] /\ link[s] # <<>> /\ Head(link[s]).tells = what
  BY <1>1 DEF Arrives, SyncTypes
<1>5. (link[o] \o outbox[s]) \o ms = link[o] \o (outbox[s] \o ms)
  <2> DEFINE x == link[o]
             y == outbox[s]
  <2>1. x \in Seq(Frames) /\ y \in Seq(Frames)
    BY <1>2
  <2> HIDE DEF x, y
  <2>2. (x \o y) \o ms = x \o (y \o ms)
    BY ONLY <2>1, ms \in Seq(Frames), Regrouped
  <2> QED
    BY <2>2 DEF x, y
<1>6. outbox[s] \o ms \in Seq(Frames)
  BY <1>2, ConcatProperties
<1>7. outbox' \in [Sides -> Seq(Frames)]
  BY <1>6 DEF Queues, SyncTypes
<1>8. Tail(link[s]) \in Seq(Frames) /\ Head(link[s]) \in Frames
  BY <1>2, <1>4
<1>9. link' \in [Sides -> Seq(Frames)]
  BY <1>8 DEF Arrives, SyncTypes
<1>10. /\ link[s] \o outbox[o] # <<>> /\ Head(link[s] \o outbox[o]) = Head(link[s])
       /\ Tail(link[s] \o outbox[o]) = Tail(link[s]) \o outbox[o]
  BY <1>2, <1>4, TailOfConcat
<1> QED
  BY <1>1, <1>3, <1>4, <1>5, <1>7, <1>8, <1>9, <1>10 DEF Way

LEMMA SaysNothing ==
    ASSUME SyncTypes, NEW s \in Sides, UNCHANGED outbox
    PROVE  Queues(s, <<>>) /\ <<>> \in Seq(Frames) /\ \A w \in Seq(Frames) : w \o <<>> = w
<1>1. \A w \in Seq(Frames) : w \o <<>> = w
  BY ConcatEmptySeq
<1>2. outbox[s] \o <<>> = outbox[s]
  BY <1>1, WayTyped
<1>3. [outbox EXCEPT ![s] = outbox[s]] = outbox
  BY DEF SyncTypes
<1> QED
  BY <1>1, <1>2, <1>3 DEF Queues

-----------------------------------------------------------------------------
(* Every variable keeps its type.                                          *)
LEMMA MinMax ==
    ASSUME NEW es \in SUBSET (1..Top), es # {}
    PROVE  /\ Min(es) \in es /\ Max(es) \in es /\ Min(es) \in 1..Top /\ Max(es) \in 1..Top
           /\ \A e \in es : Min(es) <= e /\ e <= Max(es)
<1>1. es \subseteq Nat /\ Top \in Nat /\ \A x \in es : x <= Top
  BY SyncAssumption
<1>2. \E x \in es : \A y \in es : x <= y
  BY <1>1, LeastNumber
<1>3. \E x \in es : \A y \in es : y <= x
  BY <1>1, GreatestBelow
<1> QED
  BY <1>1, <1>2, <1>3 DEF Min, Max

LEMMA ReachedTyped ==
    ASSUME NEW es \in SUBSET (1..Top)
    PROVE  Reached(es) \in Nat
  BY MinMax DEF Reached

LEMMA HeldTyped ==
    ASSUME SyncTypes, NEW s \in Sides, NEW of \in SUBSET Items
    PROVE  Held(s, of) \subseteq Row
<1> SUFFICES ASSUME NEW i \in of, stock[s].entries[i] # {}
             PROVE  [item |-> i, life |-> stock[s].life[i], first |-> Min(stock[s].entries[i]),
                     last |-> Max(stock[s].entries[i]), epochs |-> Cardinality(stock[s].keys[i])] \in Row
  BY DEF Held
<1>1. /\ stock[s].entries[i] \in SUBSET (1..Top) /\ stock[s].life[i] \in Nat
      /\ IsFiniteSet(stock[s].keys[i]) /\ i \in Items
  BY DEF SyncTypes, Stock
<1>2. Cardinality(stock[s].keys[i]) \in Nat
  BY <1>1, FS_CardinalityType
<1> QED
  BY <1>1, <1>2, MinMax DEF Row

LEMMA SinceTyped ==
    ASSUME SyncTypes, NEW s \in Sides, NEW h \in Row
    PROVE  /\ Since(stock[s].entries[h.item], h) \in Nat
           /\ Reached(stock[s].entries[h.item]) \in Nat /\ h.item \in Items
<1>1. stock[s].entries[h.item] \in SUBSET (1..Top) /\ h.item \in Items /\ h.first \in 1..Top
  BY DEF SyncTypes, Stock, Row
<1> QED
  BY <1>1, MinMax DEF Since, Reached

LEMMA WantsTyped ==
    ASSUME SyncTypes, NEW s \in Sides, NEW rows \in SUBSET Row
    PROVE  WantsLive(s, rows) \subseteq Items \X Nat /\ WantsEarlier(s) \subseteq Items \X Nat
<1>1. WantsLive(s, rows) \subseteq Items \X Nat
  BY SinceTyped DEF WantsLive
<1>2. offered[s] \subseteq Row
  BY DEF SyncTypes
<1>3. WantsEarlier(s) \subseteq Items \X Nat
  BY <1>2, SinceTyped DEF WantsEarlier
<1> QED
  BY <1>1, <1>3

LEMMA IfsTyped ==
    ASSUME NEW c \in BOOLEAN, NEW m, c => m \in Frames
    PROVE  Ifs(c, m) \in Seq(Frames) /\ On(Ifs(c, m)) \subseteq {m} /\ Ordered(Ifs(c, m))
           /\ (c => On(Ifs(c, m)) = {m}) /\ (~c => Ifs(c, m) = <<>>)
           /\ \A n \in 1..Len(Ifs(c, m)) : Ifs(c, m)[n] = m /\ c
  BY DEF Ifs, On, Ordered

LEMMA QueuesTyped ==
    ASSUME SyncTypes, NEW s \in Sides, NEW ms \in Seq(Frames), Queues(s, ms)
    PROVE  outbox' \in [Sides -> Seq(Frames)]
<1>1. outbox[s] \o ms \in Seq(Frames)
  BY WayTyped, ConcatProperties
<1> QED
  BY <1>1 DEF Queues, SyncTypes

LEMMA ArrivesTyped ==
    ASSUME SyncTypes, NEW s \in Sides, NEW what, Arrives(s, what)
    PROVE  /\ link' \in [Sides -> Seq(Frames)] /\ open' = open
           /\ Head(link[s]) \in Frames /\ Head(link[s]).tells = what
<1>1. link[s] \in Seq(Frames) /\ link[s] # <<>>
  BY DEF SyncTypes, Arrives
<1>2. Tail(link[s]) \in Seq(Frames) /\ Head(link[s]) \in Frames
  BY <1>1
<1> QED
  BY <1>2 DEF Arrives, SyncTypes

LEMMA StepTyped ==
    ASSUME SyncTypes, NEW s \in Sides
    PROVE  /\ \A p \in Phases : [step EXCEPT ![s].phase = p] \in [Sides -> Steps]
           /\ [step EXCEPT ![s].gotDone = TRUE] \in [Sides -> Steps]
           /\ [step EXCEPT ![s].sentDone = TRUE] \in [Sides -> Steps]
           /\ [step EXCEPT ![s] = Trades([@ EXCEPT !.gotHave = TRUE])] \in [Sides -> Steps]
           /\ [step EXCEPT ![s] = Trades([@ EXCEPT !.gotWant = TRUE])] \in [Sides -> Steps]
<1>1. ASSUME NEW r \in Steps
      PROVE  /\ \A p \in Phases : [r EXCEPT !.phase = p] \in Steps
             /\ [r EXCEPT !.gotHave = TRUE] \in Steps /\ [r EXCEPT !.gotWant = TRUE] \in Steps
             /\ [r EXCEPT !.gotDone = TRUE] \in Steps /\ [r EXCEPT !.sentDone = TRUE] \in Steps
  BY DEF Steps
<1>2. ASSUME NEW r \in Steps PROVE Trades(r) \in Steps
  BY <1>1 DEF Trades, Phases
<1>3. step \in [Sides -> Steps] /\ step[s] \in Steps
  BY DEF SyncTypes
<1>4. \A r \in Steps : [step EXCEPT ![s] = r] \in [Sides -> Steps]
  BY <1>3
<1> QED
  BY <1>1, <1>2, <1>3, <1>4

(* What is said at each turn is a message.                                 *)
LEMMA HelloTyped ==
    <<[tells |-> "hello"]>> \in Seq(Frames) /\ <<[tells |-> "done"]>> \in Seq(Frames)
  BY DEF Frames

HaveSaid(s) ==
  Ifs(Held(s, Gens) # {}, [tells |-> "earlier", rows |-> Held(s, Gens)])
    \o <<[tells |-> "have", rows |-> Held(s, Live)]>>
LEMMA HaveTyped ==
    ASSUME SyncTypes, NEW s \in Sides
    PROVE  HaveSaid(s) \in Seq(Frames)
<1>1. [tells |-> "earlier", rows |-> Held(s, Gens)] \in Frames
  BY HeldTyped DEF Frames, Items
<1>2. [tells |-> "have", rows |-> Held(s, Live)] \in Frames
  BY HeldTyped DEF Frames, Items
<1>3. <<[tells |-> "have", rows |-> Held(s, Live)]>> \in Seq(Frames)
  BY <1>2
<1>4. Ifs(Held(s, Gens) # {}, [tells |-> "earlier", rows |-> Held(s, Gens)]) \in Seq(Frames)
  BY <1>1, IfsTyped
<1> QED
  BY <1>3, <1>4, ConcatProperties DEF HaveSaid

WantSaid(s, rows) ==
  Ifs(WantsEarlier(s) # {}, [tells |-> "wantEarlier", rows |-> WantsEarlier(s)])
    \o <<[tells |-> "want", rows |-> WantsLive(s, rows)]>>
LEMMA WantTyped ==
    ASSUME SyncTypes, NEW s \in Sides, NEW rows \in SUBSET Row
    PROVE  WantSaid(s, rows) \in Seq(Frames)
<1>1. [tells |-> "wantEarlier", rows |-> WantsEarlier(s)] \in Frames
  BY WantsTyped DEF Frames
<1>2. [tells |-> "want", rows |-> WantsLive(s, rows)] \in Frames
  BY WantsTyped DEF Frames
<1>3. <<[tells |-> "want", rows |-> WantsLive(s, rows)]>> \in Seq(Frames)
  BY <1>2
<1>4. Ifs(WantsEarlier(s) # {}, [tells |-> "wantEarlier", rows |-> WantsEarlier(s)]) \in Seq(Frames)
  BY <1>1, IfsTyped
<1> QED
  BY <1>3, <1>4, ConcatProperties DEF WantSaid

(* A page served: the keys, the entries, the blobs.                        *)
Page(s, i) == PageOf(stock[s].entries[i], owed[s][i])
BlobsOf(s, i) == Named(stock[s].keys[i], i, Page(s, i) \ Expired) \cap stock[s].blobs
KeysFrame(s, i) == [tells |-> "keys", item |-> i, keys |-> stock[s].keys[i]]
EntriesFrame(s, i) ==
  [tells |-> "entries", item |-> i, life |-> stock[s].life[i], entries |-> Page(s, i) \ Expired]
BlobsFrame(s, i) == [tells |-> "blobs", ids |-> BlobsOf(s, i)]
PageSaid(s, i) ==
  Ifs(i \notin keyed[s] /\ stock[s].keys[i] # {}, KeysFrame(s, i))
    \o Ifs(Page(s, i) \ Expired # {}, EntriesFrame(s, i))
    \o Ifs(BlobsOf(s, i) # {}, BlobsFrame(s, i))
LEMMA PageTyped ==
    ASSUME SyncTypes, NEW s \in Sides, NEW i \in Items
    PROVE  /\ KeysFrame(s, i) \in Frames /\ EntriesFrame(s, i) \in Frames /\ BlobsFrame(s, i) \in Frames
           /\ Page(s, i) \subseteq stock[s].entries[i] /\ stock[s].entries[i] \in SUBSET (1..Top)
           /\ PageSaid(s, i) \in Seq(Frames)
<1>1. /\ stock[s].entries[i] \in SUBSET (1..Top) /\ stock[s].life[i] \in Nat
      /\ stock[s].keys[i] \in SUBSET Nat /\ stock[s].blobs \subseteq Items \X (1..Top)
      /\ IsFiniteSet(stock[s].keys[i])
  BY DEF SyncTypes, Stock
<1>2. Page(s, i) \subseteq stock[s].entries[i]
  BY DEF Page, PageOf
<1>3. KeysFrame(s, i) \in Frames
  BY <1>1 DEF Frames, KeysFrame
<1>4. EntriesFrame(s, i) \in Frames
  BY <1>1, <1>2 DEF Frames, EntriesFrame
<1>5. BlobsFrame(s, i) \in Frames
  BY <1>1 DEF Frames, BlobsFrame, BlobsOf
<1>6. Ifs(i \notin keyed[s] /\ stock[s].keys[i] # {}, KeysFrame(s, i)) \in Seq(Frames)
  BY <1>3, IfsTyped
<1>7. Ifs(Page(s, i) \ Expired # {}, EntriesFrame(s, i)) \in Seq(Frames)
  BY <1>4, IfsTyped
<1>8. Ifs(BlobsOf(s, i) # {}, BlobsFrame(s, i)) \in Seq(Frames)
  BY <1>5, IfsTyped
<1>9. PageSaid(s, i) \in Seq(Frames)
  BY <1>6, <1>7, <1>8, ConcatProperties DEF PageSaid
<1> QED
  BY <1>1, <1>2, <1>3, <1>4, <1>5, <1>9

LEMMA OwesTyped ==
    ASSUME SyncTypes, NEW s \in Sides, NEW rows \in SUBSET (Items \X Nat), Owes(s, rows)
    PROVE  owed' \in [Sides -> UNION {[d -> Nat] : d \in SUBSET Items}]
<1> DEFINE d == DOMAIN owed[s] \cup {w[1] : w \in rows}
           f == [i \in d |-> IF i \in DOMAIN owed[s] THEN owed[s][i]
                             ELSE (CHOOSE w \in rows : w[1] = i)[2]]
<1>1. PICK e \in SUBSET Items : owed[s] \in [e -> Nat]
  BY DEF SyncTypes
<1>2. d \in SUBSET Items
  BY <1>1
<1>3. ASSUME NEW i \in d PROVE f[i] \in Nat
  <2>1. CASE i \in DOMAIN owed[s]
    BY <1>1, <2>1
  <2>2. CASE i \notin DOMAIN owed[s]
    <3>1. \E w \in rows : w[1] = i
      BY <2>2
    <3>2. (CHOOSE w \in rows : w[1] = i) \in rows
      BY <3>1
    <3>3. (CHOOSE w \in rows : w[1] = i)[2] \in Nat
      BY <3>2
    <3> QED
      BY <2>2, <3>3
  <2> QED
    BY <2>1, <2>2
<1>4. f \in [d -> Nat]
  BY <1>3
<1>5. owed' = [owed EXCEPT ![s] = f]
  BY DEF Owes
<1> HIDE DEF f, d
<1> QED
  BY <1>2, <1>4, <1>5 DEF SyncTypes

(* A stock that only grows.                                                *)
LEMMA StockFields ==
    ASSUME NEW r \in Stock
    PROVE  /\ \A k \in [Items -> SUBSET Nat] :
                LET q == [r EXCEPT !.keys = k] IN
                q \in Stock /\ q.keys = k /\ q.entries = r.entries /\ q.life = r.life /\ q.blobs = r.blobs
           /\ \A es \in [Items -> SUBSET (1..Top)] :
                LET q == [r EXCEPT !.entries = es] IN
                q \in Stock /\ q.entries = es /\ q.keys = r.keys /\ q.life = r.life /\ q.blobs = r.blobs
           /\ \A l \in [Items -> Nat] :
                LET q == [r EXCEPT !.life = l] IN
                q \in Stock /\ q.life = l /\ q.entries = r.entries /\ q.keys = r.keys /\ q.blobs = r.blobs
           /\ \A ids \in SUBSET (Items \X (1..Top)) :
                LET q == [r EXCEPT !.blobs = ids] IN
                q \in Stock /\ q.blobs = ids /\ q.entries = r.entries /\ q.keys = r.keys /\ q.life = r.life
  BY DEF Stock

LEMMA KeysGrow ==
    ASSUME SyncTypes, NEW s \in Sides, NEW i \in Items, NEW ks \in SUBSET Nat,
           stock' = [stock EXCEPT ![s].keys[i] = @ \cup ks]
    PROVE  /\ stock' \in [Sides -> Stock]
           /\ \A t \in Sides : t # s => stock'[t] = stock[t]
           /\ stock'[s].entries = stock[s].entries /\ stock'[s].life = stock[s].life
           /\ stock'[s].blobs = stock[s].blobs
           /\ \A j \in Items : j # i => stock'[s].keys[j] = stock[s].keys[j]
           /\ stock'[s].keys[i] = stock[s].keys[i] \cup ks
<1> DEFINE r == stock[s]
           k == [r.keys EXCEPT ![i] = r.keys[i] \cup ks]
           q == [r EXCEPT !.keys = k]
<1>1. stock \in [Sides -> Stock] /\ r \in Stock
  BY DEF SyncTypes
<1>2. r.keys \in [Items -> SUBSET Nat]
  BY <1>1 DEF Stock
<1>3. /\ k \in [Items -> SUBSET Nat] /\ k[i] = r.keys[i] \cup ks
      /\ \A j \in Items : j # i => k[j] = r.keys[j]
  BY <1>2
<1>4. stock' = [stock EXCEPT ![s] = q]
  OBVIOUS
<1> HIDE DEF k
<1>5. q \in Stock /\ q.keys = k /\ q.entries = r.entries /\ q.life = r.life /\ q.blobs = r.blobs
  BY <1>1, <1>3, StockFields
<1> HIDE DEF q
<1>6. stock'[s] = q /\ (\A t \in Sides : t # s => stock'[t] = stock[t]) /\ stock' \in [Sides -> Stock]
  BY <1>1, <1>4, <1>5
<1> QED
  BY <1>3, <1>5, <1>6

(* Entries come to an item of one side, and nothing else.                   *)
Entered(s, i, es) ==
  /\ stock' \in [Sides -> Stock]
  /\ \A t \in Sides : t # s => stock'[t] = stock[t]
  /\ stock'[s].keys = stock[s].keys /\ stock'[s].blobs = stock[s].blobs
  /\ \A j \in Items : j # i => stock'[s].entries[j] = stock[s].entries[j]
  /\ stock'[s].entries[i] = stock[s].entries[i] \cup es

LEMMA EntriesGrow ==
    ASSUME SyncTypes, NEW s \in Sides, NEW i \in Items, NEW es \in SUBSET (1..Top), NEW n \in Nat,
           stock' = [stock EXCEPT ![s].entries[i] = @ \cup es, ![s].life[i] = n]
    PROVE  Entered(s, i, es)
<1> DEFINE r == stock[s]
           k == [r.entries EXCEPT ![i] = r.entries[i] \cup es]
           q == [r EXCEPT !.entries = k]
           l == [q.life EXCEPT ![i] = n]
           p == [q EXCEPT !.life = l]
<1>1. stock \in [Sides -> Stock] /\ r \in Stock
  BY DEF SyncTypes
<1>2. r.entries \in [Items -> SUBSET (1..Top)]
  BY <1>1 DEF Stock
<1>3. /\ k \in [Items -> SUBSET (1..Top)] /\ k[i] = r.entries[i] \cup es
      /\ \A j \in Items : j # i => k[j] = r.entries[j]
  BY <1>2
<1>4. stock' = [stock EXCEPT ![s] = p]
  BY <1>1
<1> HIDE DEF k
<1>5. q \in Stock /\ q.entries = k /\ q.keys = r.keys /\ q.life = r.life /\ q.blobs = r.blobs
  BY <1>1, <1>3, StockFields
<1> HIDE DEF q
<1>6. l \in [Items -> Nat]
  BY <1>5 DEF Stock
<1> HIDE DEF l
<1>7. p \in Stock /\ p.entries = k /\ p.keys = r.keys /\ p.blobs = r.blobs
  BY <1>5, <1>6, StockFields
<1> HIDE DEF p
<1>8. stock'[s] = p /\ (\A t \in Sides : t # s => stock'[t] = stock[t]) /\ stock' \in [Sides -> Stock]
  BY <1>1, <1>4, <1>7
<1>9. stock'[s].entries[i] = r.entries[i] \cup es /\ \A j \in Items : j # i => stock'[s].entries[j] = r.entries[j]
  BY <1>3, <1>7, <1>8
<1> QED
  BY <1>7, <1>8, <1>9 DEF Entered

LEMMA BlobsGrow ==
    ASSUME SyncTypes, NEW s \in Sides, NEW ids \in SUBSET (Items \X (1..Top)),
           stock' = [stock EXCEPT ![s].blobs = @ \cup ids]
    PROVE  /\ stock' \in [Sides -> Stock]
           /\ \A t \in Sides : t # s => stock'[t] = stock[t]
           /\ stock'[s].keys = stock[s].keys /\ stock'[s].entries = stock[s].entries
           /\ stock'[s].blobs = stock[s].blobs \cup ids
<1> DEFINE r == stock[s]
           k == r.blobs \cup ids
           q == [r EXCEPT !.blobs = k]
<1>1. stock \in [Sides -> Stock] /\ r \in Stock
  BY DEF SyncTypes
<1>2. k \in SUBSET (Items \X (1..Top))
  BY <1>1 DEF Stock
<1>3. stock' = [stock EXCEPT ![s] = q]
  OBVIOUS
<1> HIDE DEF k
<1>4. q \in Stock /\ q.blobs = k /\ q.keys = r.keys /\ q.entries = r.entries
  BY <1>1, <1>2, StockFields
<1> HIDE DEF q
<1> QED
  BY <1>1, <1>3, <1>4 DEF k

LEMMA SyncTypesKept ==
    ASSUME SyncTypes, [SyncNext]_syncVars
    PROVE  SyncTypes'
<1>0. /\ open \in BOOLEAN /\ step \in [Sides -> Steps]
      /\ link \in [Sides -> Seq(Frames)] /\ outbox \in [Sides -> Seq(Frames)]
      /\ owed \in [Sides -> UNION {[d -> Nat] : d \in SUBSET Items}]
      /\ keyed \in [Sides -> SUBSET Items] /\ offered \in [Sides -> SUBSET Row]
      /\ asked \in [Sides -> SUBSET Items] /\ wanted \in [Sides -> SUBSET (Items \X (1..Top))]
      /\ stock \in [Sides -> Stock] /\ said \in [Sides -> Stock] /\ had \in [Sides -> Stock]
      /\ \A s \in Sides, i \in Items : IsFiniteSet(stock[s].keys[i])
  BY DEF SyncTypes
<1>1. CASE UNCHANGED syncVars
  BY <1>0, <1>1 DEF syncVars, SyncTypes
<1>2. CASE SessionGone
  <2>1. link' \in [Sides -> Seq(Frames)]
    BY <1>2 DEF SessionGone
  <2> QED
    BY <1>0, <1>2, <2>1 DEF SessionGone, SyncTypes
<1>3. CASE Over
  BY <1>0, <1>3 DEF Over, syncVars, SyncTypes
<1> SUFFICES ASSUME NEW s \in Sides, SyncOf(s) PROVE SyncTypes'
  BY <1>1, <1>2, <1>3 DEF SyncNext
<1> USE DEF SyncTypes
<1>4. CASE Greet(s)
  <2>1. outbox' \in [Sides -> Seq(Frames)]
    BY <1>4, HelloTyped, QueuesTyped DEF Greet
  <2>2. step' \in [Sides -> Steps]
    BY <1>4, StepTyped DEF Greet, Phases
  <2> QED
    BY <1>0, <1>4, <2>1, <2>2 DEF Greet
<1>5. CASE TakeHello(s)
  <2>1. outbox' \in [Sides -> Seq(Frames)]
    BY <1>5, HaveTyped, QueuesTyped DEF TakeHello, HaveSaid
  <2>2. link' \in [Sides -> Seq(Frames)] /\ open' = open
    BY <1>5, ArrivesTyped DEF TakeHello
  <2>3. said' \in [Sides -> Stock]
    BY <1>0, <1>5 DEF TakeHello
  <2> QED
    BY <1>0, <1>5, <2>1, <2>2, <2>3 DEF TakeHello
<1>6. ASSUME Fails(s) PROVE step' \in [Sides -> Steps] /\ outbox' \in [Sides -> Seq(Frames)]
  <2>1. step' \in [Sides -> Steps]
    BY <1>6, StepTyped DEF Fails, Phases
  <2> QED
    BY <1>0, <1>6, <2>1 DEF Fails
<1>7. CASE RefuseHello(s)
  <2>1. link' \in [Sides -> Seq(Frames)] /\ open' = open
    BY <1>7, ArrivesTyped DEF RefuseHello
  <2> QED
    BY <1>0, <1>6, <1>7, <2>1 DEF RefuseHello
<1>8. CASE TakeEarlier(s)
  <2>1. link' \in [Sides -> Seq(Frames)] /\ open' = open
        /\ Head(link[s]) \in Frames /\ Head(link[s]).tells = "earlier"
    BY <1>8, ArrivesTyped DEF TakeEarlier
  <2>2. Head(link[s]).rows \subseteq Row
    BY <2>1, FrameFields
  <2>3. offered' \in [Sides -> SUBSET Row]
    BY <1>0, <1>8, <2>2 DEF TakeEarlier
  <2> QED
    BY <1>0, <1>8, <2>1, <2>3 DEF TakeEarlier
<1>9. CASE TakeHave(s)
  <2>1. link' \in [Sides -> Seq(Frames)] /\ open' = open
        /\ Head(link[s]) \in Frames /\ Head(link[s]).tells = "have"
    BY <1>9, ArrivesTyped DEF TakeHave
  <2>2. Head(link[s]).rows \subseteq Row
    BY <2>1, FrameFields
  <2>3. outbox' \in [Sides -> Seq(Frames)]
    BY <1>9, <2>2, WantTyped, QueuesTyped DEF TakeHave, WantSaid
  <2>4. step' \in [Sides -> Steps]
    BY <1>9, StepTyped DEF TakeHave
  <2>5. {w[1] : w \in WantsEarlier(s)} \subseteq Items
    BY <2>2, WantsTyped
  <2>6. asked' \in [Sides -> SUBSET Items]
    BY <1>0, <1>9, <2>5 DEF TakeHave
  <2>7. had' \in [Sides -> Stock]
    BY <1>0, <1>9 DEF TakeHave
  <2> QED
    BY <1>0, <1>9, <2>1, <2>3, <2>4, <2>6, <2>7 DEF TakeHave
<1>10. CASE TakeWantEarlier(s)
  <2>1. link' \in [Sides -> Seq(Frames)] /\ open' = open
        /\ Head(link[s]) \in Frames /\ Head(link[s]).tells = "wantEarlier"
    BY <1>10, ArrivesTyped DEF TakeWantEarlier
  <2>2. Head(link[s]).rows \subseteq Items \X Nat
    BY <2>1, FrameFields
  <2>3. owed' \in [Sides -> UNION {[d -> Nat] : d \in SUBSET Items}]
    BY <1>10, <2>2, OwesTyped DEF TakeWantEarlier
  <2> QED
    BY <1>0, <1>10, <2>1, <2>3 DEF TakeWantEarlier
<1>11. CASE TakeWant(s)
  <2>1. link' \in [Sides -> Seq(Frames)] /\ open' = open
        /\ Head(link[s]) \in Frames /\ Head(link[s]).tells = "want"
    BY <1>11, ArrivesTyped DEF TakeWant
  <2>2. Head(link[s]).rows \subseteq Items \X Nat
    BY <2>1, FrameFields
  <2>3. owed' \in [Sides -> UNION {[d -> Nat] : d \in SUBSET Items}]
    BY <1>11, <2>2, OwesTyped DEF TakeWant
  <2>4. step' \in [Sides -> Steps]
    BY <1>11, StepTyped DEF TakeWant
  <2> QED
    BY <1>0, <1>11, <2>1, <2>3, <2>4 DEF TakeWant
<1>12. CASE TakeKeys(s)
  <2>1. link' \in [Sides -> Seq(Frames)] /\ open' = open
        /\ Head(link[s]) \in Frames /\ Head(link[s]).tells = "keys"
    BY <1>12, ArrivesTyped DEF TakeKeys
  <2> DEFINE k == Head(link[s])
  <2>2. k.item \in Items /\ k.keys \in SUBSET Nat /\ IsFiniteSet(k.keys)
    BY <2>1, FrameFields
  <2> HIDE DEF k
  <2>3. CASE k.item \in Live \cup asked[s]
    <3>1. stock' = [stock EXCEPT ![s].keys[k.item] = @ \cup k.keys]
      BY <1>12, <2>3 DEF TakeKeys, k
    <3> DEFINE it == k.item
               ks == k.keys
    <3>9. it \in Items /\ ks \in SUBSET Nat /\ stock' = [stock EXCEPT ![s].keys[it] = @ \cup ks]
      BY <2>2, <3>1
    <3> HIDE DEF it, ks
    <3>2. /\ stock' \in [Sides -> Stock]
          /\ \A t \in Sides : t # s => stock'[t] = stock[t]
          /\ \A j \in Items : j # it => stock'[s].keys[j] = stock[s].keys[j]
          /\ stock'[s].keys[it] = stock[s].keys[it] \cup ks
      <4> HIDE DEF SyncTypes
      <4> QED
        BY ONLY SyncTypes, s \in Sides, <3>9, KeysGrow, ZenonT(60)
    <3> USE DEF it, ks
    <3>3. IsFiniteSet(stock[s].keys[k.item] \cup k.keys)
      <4>1. IsFiniteSet(stock[s].keys[k.item])
        BY ONLY <1>0, <2>2, s \in Sides
      <4> QED
        BY <2>2, <4>1, FS_Union
    <3>4. \A t \in Sides, j \in Items : IsFiniteSet(stock'[t].keys[j])
      BY <1>0, <3>2, <3>3
    <3> QED
      BY <1>0, <1>12, <2>1, <3>2, <3>4 DEF TakeKeys
  <2>4. CASE k.item \notin Live \cup asked[s]
    BY <1>0, <1>12, <2>1, <2>4 DEF TakeKeys, k
  <2> QED
    BY <2>3, <2>4
<1>13. CASE TakeEntries(s)
  <2>1. link' \in [Sides -> Seq(Frames)] /\ open' = open
        /\ Head(link[s]) \in Frames /\ Head(link[s]).tells = "entries"
    BY <1>13, ArrivesTyped DEF TakeEntries
  <2> DEFINE m == Head(link[s])
  <2>2. m.item \in Items /\ m.entries \in SUBSET (1..Top) /\ m.life \in Nat
    BY <2>1, FrameFields
  <2>3. stock' = [stock EXCEPT ![s].entries[m.item] = @ \cup m.entries, ![s].life[m.item] = m.life]
    BY <1>13 DEF TakeEntries
  <2>4. Named(stock[s].keys[m.item], m.item, m.entries) \subseteq Items \X (1..Top)
    BY <2>2 DEF Named
  <2>5. wanted' \in [Sides -> SUBSET (Items \X (1..Top))]
    BY <1>0, <1>13, <2>4 DEF TakeEntries
  <2> HIDE DEF m
  <2>6. /\ stock' \in [Sides -> Stock] /\ stock'[s].keys = stock[s].keys
        /\ \A t \in Sides : t # s => stock'[t] = stock[t]
    <3>1. Entered(s, m.item, m.entries)
      BY <2>2, <2>3, EntriesGrow
    <3> QED
      BY <3>1 DEF Entered
  <2>7. \A t \in Sides, j \in Items : IsFiniteSet(stock'[t].keys[j])
    BY <1>0, <2>6
  <2> QED
    BY <1>0, <1>13, <2>1, <2>5, <2>6, <2>7 DEF TakeEntries
<1>14. CASE RefuseEntries(s)
  <2>1. link' \in [Sides -> Seq(Frames)] /\ open' = open
    BY <1>14, ArrivesTyped DEF RefuseEntries
  <2> QED
    BY <1>0, <1>6, <1>14, <2>1 DEF RefuseEntries
<1>15. CASE TakeBlobs(s)
  <2>1. link' \in [Sides -> Seq(Frames)] /\ open' = open
    BY <1>15, ArrivesTyped DEF TakeBlobs
  <2> DEFINE ids == Head(link[s]).ids \cap wanted[s]
  <2>2. ids \in SUBSET (Items \X (1..Top))
    BY <1>0
  <2>3. stock' = [stock EXCEPT ![s].blobs = @ \cup ids] /\ wanted' = [wanted EXCEPT ![s] = @ \ ids]
    BY <1>15 DEF TakeBlobs
  <2> HIDE DEF ids
  <2>4. /\ stock' \in [Sides -> Stock] /\ stock'[s].keys = stock[s].keys
        /\ \A t \in Sides : t # s => stock'[t] = stock[t]
    BY <2>2, <2>3, BlobsGrow
  <2>5. \A t \in Sides, j \in Items : IsFiniteSet(stock'[t].keys[j])
    BY <1>0, <2>4
  <2>6. wanted' \in [Sides -> SUBSET (Items \X (1..Top))]
    BY <1>0, <2>3
  <2> QED
    BY <1>0, <1>15, <2>1, <2>4, <2>5, <2>6 DEF TakeBlobs
<1>16. CASE TakeDone(s)
  <2>1. link' \in [Sides -> Seq(Frames)] /\ open' = open
    BY <1>16, ArrivesTyped DEF TakeDone
  <2>2. step' \in [Sides -> Steps]
    BY <1>16, StepTyped DEF TakeDone
  <2> QED
    BY <1>0, <1>16, <2>1, <2>2 DEF TakeDone
<1>17. CASE SayDone(s)
  <2>1. outbox' \in [Sides -> Seq(Frames)]
    BY <1>17, HelloTyped, QueuesTyped DEF SayDone
  <2>2. step' \in [Sides -> Steps]
    BY <1>17, StepTyped DEF SayDone
  <2> QED
    BY <1>0, <1>17, <2>1, <2>2 DEF SayDone
<1>18. CASE Send(s)
  <2>1. outbox[s] \in Seq(Frames) /\ outbox[s] # <<>> /\ Other(s) \in Sides
    <3>1. Other(s) \in Sides
      BY TwoSides
    <3> QED
      BY <1>0, <1>18, <3>1 DEF Send
  <2>2. Tail(outbox[s]) \in Seq(Frames) /\ Head(outbox[s]) \in Frames
    BY <2>1
  <2>3. link[Other(s)] \in Seq(Frames) /\ Append(link[Other(s)], Head(outbox[s])) \in Seq(Frames)
    BY <1>0, <2>1, <2>2
  <2>4. outbox' \in [Sides -> Seq(Frames)] /\ link' \in [Sides -> Seq(Frames)]
    BY <1>0, <1>18, <2>1, <2>2, <2>3 DEF Send
  <2> QED
    BY <1>0, <1>18, <2>4 DEF Send
<1>19. CASE Finish(s)
  <2>1. outbox' \in [Sides -> Seq(Frames)] /\ open' \in BOOLEAN
    <3>1. <<>> \in Seq(Frames)
      OBVIOUS
    <3> QED
      BY <1>0, <1>19, <3>1 DEF Finish
  <2>2. step' \in [Sides -> Steps]
    BY <1>19, StepTyped DEF Finish, Phases
  <2> QED
    BY <1>0, <1>19, <2>1, <2>2 DEF Finish
<1>20. CASE LinkLost(s)
  BY <1>0, <1>6, <1>20 DEF LinkLost
<1>21. CASE CloseFailed(s)
  BY <1>0, <1>21 DEF CloseFailed
<1>22. ASSUME NEW i \in Items, Serve(s, i) PROVE SyncTypes'
  <2>1. outbox' \in [Sides -> Seq(Frames)]
    <3>1. Queues(s, PageSaid(s, i))
      BY <1>22 DEF Serve, PageSaid, KeysFrame, EntriesFrame, BlobsFrame, BlobsOf, Page
    <3> QED
      BY <3>1, PageTyped, QueuesTyped
  <2>2. keyed' \in [Sides -> SUBSET Items]
    BY <1>0, <1>22 DEF Serve
  <2>3. owed' \in [Sides -> UNION {[d -> Nat] : d \in SUBSET Items}]
    <3> DEFINE f == [owed[s] EXCEPT ![i] = Max(Page(s, i))]
               g == [j \in DOMAIN owed[s] \ {i} |-> owed[s][j]]
    <3>1. PICK d \in SUBSET Items : owed[s] \in [d -> Nat]
      BY <1>0
    <3>2. g \in [d \ {i} -> Nat] /\ d \ {i} \in SUBSET Items
      BY <3>1
    <3>3. CASE MoreIsOwed(s, i, Page(s, i))
      <4>1. Page(s, i) # {} /\ Page(s, i) \in SUBSET (1..Top)
        BY <3>3, PageTyped DEF MoreIsOwed
      <4>2. Max(Page(s, i)) \in Nat
        <5>1. Max(Page(s, i)) \in 1..Top
          BY ONLY <4>1, MinMax
        <5> QED
          BY <5>1
      <4>3. f \in [d -> Nat]
        BY <3>1, <4>2
      <4>4. owed' = [owed EXCEPT ![s] = f]
        BY <1>22, <3>3 DEF Serve, Page
      <4> HIDE DEF f
      <4>5. f \in UNION {[e -> Nat] : e \in SUBSET Items}
        BY <3>1, <4>3
      <4> QED
        BY ONLY <1>0, <4>4, <4>5
    <3>4. CASE ~MoreIsOwed(s, i, Page(s, i))
      <4>1. owed' = [owed EXCEPT ![s] = g]
        BY <1>22, <3>4 DEF Serve, Page
      <4> HIDE DEF g
      <4>2. g \in UNION {[e -> Nat] : e \in SUBSET Items}
        BY <3>2
      <4> QED
        BY ONLY <1>0, <4>1, <4>2
    <3> QED
      BY <3>3, <3>4
  <2> QED
    BY <1>0, <1>22, <2>1, <2>2, <2>3 DEF Serve
<1>23. ASSUME NEW i \in Items, Fetches(s, i) PROVE SyncTypes'
  <2>1. stock[s].entries[i] \in SUBSET (1..Top)
    BY <1>0 DEF Stock
  <2>2. Reached(stock[s].entries[i]) < Top /\ Reached(stock[s].entries[i]) \in Nat
    <3>1. Reached(stock[s].entries[i]) \in Nat
      BY <2>1, ReachedTyped
    <3> QED
      BY <1>23, <3>1 DEF Fetches
  <2>3. {Top} \in SUBSET (1..Top) /\ Serves \in Nat
    BY <2>2, SyncAssumption DEF Serves
  <2>4. stock' = [stock EXCEPT ![s].entries[i] = @ \cup {Top}, ![s].life[i] = Serves]
    BY <1>23 DEF Fetches
  <2>5. /\ stock' \in [Sides -> Stock] /\ stock'[s].keys = stock[s].keys
        /\ \A t \in Sides : t # s => stock'[t] = stock[t]
    <3>1. Entered(s, i, {Top})
      BY <2>3, <2>4, EntriesGrow
    <3> QED
      BY <3>1 DEF Entered
  <2>6. \A t \in Sides, j \in Items : IsFiniteSet(stock'[t].keys[j])
    BY <1>0, <2>5
  <2> QED
    BY <1>0, <1>23, <2>5, <2>6 DEF Fetches
<1> QED
  BY <1>4, <1>5, <1>7, <1>8, <1>9, <1>10, <1>11, <1>12, <1>13, <1>14, <1>15, <1>16, <1>17, <1>18,
     <1>19, <1>20, <1>21, <1>22, <1>23 DEF SyncOf

-----------------------------------------------------------------------------
(* What is taken and said, of the two ways.                                *)
LEMMA TookOne ==
    ASSUME SyncTypes, NEW s \in Sides, NEW o \in Sides, o = Other(s), Ordered(Way(o)),
           NEW what, Arrives(s, what), NEW ms \in Seq(Frames), Queues(s, ms)
    PROVE  /\ Took(Head(link[s]), Way(o), Way(o)') /\ Head(link[s]).tells = what
           /\ Way(s)' = Way(s) \o ms
<1>1. /\ Way(o) # <<>> /\ Head(Way(o)) = Head(link[s]) /\ Head(link[s]).tells = what
      /\ Way(o)' = Tail(Way(o)) /\ Way(s)' = Way(s) \o ms
  BY TakesOne
<1>2. Way(o) \in Seq(Frames)
  BY WayTyped
<1>3. Took(Head(Way(o)), Way(o), Tail(Way(o)))
  BY <1>1, <1>2, TookHead
<1> QED
  BY <1>1, <1>3

LEMMA TookQuietly ==
    ASSUME SyncTypes, NEW s \in Sides, NEW o \in Sides, o = Other(s), Ordered(Way(o)),
           NEW what, Arrives(s, what), UNCHANGED outbox
    PROVE  /\ Took(Head(link[s]), Way(o), Way(o)') /\ Head(link[s]).tells = what
           /\ Way(s)' = Way(s)
<1>1. Queues(s, <<>>) /\ <<>> \in Seq(Frames) /\ \A w \in Seq(Frames) : w \o <<>> = w
  BY SaysNothing
<1>2. Way(s) \in Seq(Frames)
  BY WayTyped
<1>3. Took(Head(link[s]), Way(o), Way(o)') /\ Head(link[s]).tells = what /\ Way(s)' = Way(s) \o <<>>
  BY <1>1, TookOne
<1> QED
  BY <1>1, <1>2, <1>3

(* One message, or a first one that may be left out and a second.          *)
LEMMA OneMessage ==
    ASSUME NEW m \in Frames
    PROVE  <<m>> \in Seq(Frames) /\ On(<<m>>) = {m} /\ Ordered(<<m>>) /\ Within(<<m>>, Rank(m), Rank(m))
  BY RankIs DEF On, Ordered, Within

LEMMA IfMessage ==
    ASSUME NEW c \in BOOLEAN, NEW m \in Frames
    PROVE  /\ Ifs(c, m) \in Seq(Frames) /\ On(Ifs(c, m)) = {x \in {m} : c} /\ Ordered(Ifs(c, m))
           /\ Within(Ifs(c, m), Rank(m), Rank(m)) /\ Within(Ifs(c, m), 0, Rank(m))
<1>1. Rank(m) \in 0..6
  BY RankIs
<1>2. CASE c
  <2>1. Ifs(c, m) = <<m>>
    BY <1>2 DEF Ifs
  <2>2. Within(<<m>>, 0, Rank(m))
    BY <1>1 DEF Within
  <2> QED
    BY <1>2, <2>1, <2>2, OneMessage
<1>3. CASE ~c
  <2>1. Ifs(c, m) = <<>>
    BY <1>3 DEF Ifs
  <2>2. <<>> \in Seq(Frames) /\ On(<<>>) = {} /\ Ordered(<<>>) /\ \A x, y : Within(<<>>, x, y)
    BY DEF On, Ordered, Within
  <2> QED
    BY <1>3, <2>1, <2>2
<1> QED
  BY <1>2, <1>3

LEMMA TwoMessages ==
    ASSUME NEW c \in BOOLEAN, NEW m \in Frames, NEW n \in Frames, Rank(m) < Rank(n)
    PROVE  LET ms == Ifs(c, m) \o <<n>> IN
           /\ ms \in Seq(Frames) /\ Ordered(ms) /\ Within(ms, Rank(m), Rank(n))
           /\ On(ms) = {x \in {m} : c} \cup {n}
<1>1. Rank(m) \in 0..6 /\ Rank(n) \in 0..6
  BY RankIs
<1>2. <<n>> \in Seq(Frames) /\ On(<<n>>) = {n} /\ Ordered(<<n>>) /\ Within(<<n>>, Rank(n), Rank(n))
  BY OneMessage
<1> DEFINE u == Ifs(c, m)
<1>3. u \in Seq(Frames) /\ On(u) = {x \in {m} : c} /\ Ordered(u) /\ Within(u, Rank(m), Rank(m)) /\ Within(u, 0, Rank(m))
  BY IfMessage
<1> HIDE DEF u
<1>4. Added(<<n>>, u, u \o <<n>>, Rank(n), Rank(n))
  BY <1>1, <1>2, <1>3, Queued
<1>5. u \o <<n>> \in Seq(Frames)
  BY <1>2, <1>3, ConcatProperties
<1>6. Within(u, Rank(m), Rank(n))
  BY <1>1, <1>3, RankIs DEF Within
<1>7. Within(u \o <<n>>, Rank(m), Rank(n))
  BY <1>1, <1>4, <1>6 DEF Added
<1> QED
  BY <1>2, <1>3, <1>4, <1>5, <1>7 DEF Added, u

-----------------------------------------------------------------------------
(* The turns hold after each action.                                       *)
LEMMA TurnsGreet ==
    ASSUME SyncTypes, NEW s \in Sides, NEW o \in Sides, o = Other(s), Turns(s, o), Turns(o, s),
           Greet(s)
    PROVE  Turns(s, o)' /\ Turns(o, s)'
<1> DEFINE m == [tells |-> "hello"]
<1>1. m \in Frames /\ Rank(m) = 0 /\ s # o /\ m.tells = "hello"
  BY TwoSides, RankIs DEF Frames
<1>2. <<m>> \in Seq(Frames) /\ On(<<m>>) = {m} /\ Ordered(<<m>>) /\ Within(<<m>>, 0, 0)
  BY <1>1, OneMessage
<1> HIDE DEF m
<1>3. Way(s)' = Way(s) \o <<m>> /\ Way(o)' = Way(o)
  BY <1>2, SaysMore DEF Greet, m
<1>4. Way(s) = <<>> /\ Quiet(step[s]) /\ step[s].phase = "greeting"
  BY DEF Greet, Turns
<1>5. Way(s)' = <<m>>
  BY <1>2, <1>3, <1>4, ConcatEmptySeq
<1>6. step'[o] = step[o] /\ step'[s].phase = "listing" /\ Quiet(step'[s])
      /\ UNCHANGED <<owed, keyed, offered>>
  BY <1>1, <1>4 DEF Greet, SyncTypes, Quiet, Steps
<1>7. Ordered(Way(s)') /\ \A hi \in 0..6 : Within(Way(s)', 0, hi)
  BY <1>1, <1>2, <1>5, RankIs DEF Within
<1>8. On(Way(s)') = {m}
  BY <1>2, <1>5
<1>9. Unmet(s)
  BY <1>4 DEF Unmet
<1>10. ~step[o].gotHave /\ ~step[o].gotWant /\ ~step[o].gotDone /\ Within(Way(o), 0, 0) /\ offered[s] = {}
  BY <1>4, <1>9 DEF Turns, Quiet
<1>11. Turns(s, o)'
  BY <1>1, <1>3, <1>4, <1>6, <1>7, <1>10 DEF Turns, Unmet, Spoken, Quiet
<1>12. Turns(o, s)'
  BY <1>1, <1>3, <1>6, <1>8, <1>10 DEF Turns, Unmet, Spoken, Quiet
<1> QED
  BY <1>11, <1>12

LEMMA TurnsTakeHello ==
    ASSUME SyncTypes, NEW s \in Sides, NEW o \in Sides, o = Other(s), Turns(s, o), Turns(o, s),
           NEW m, Took(m, Way(o), Way(o)'), m.tells = "hello", Ongoing(s),
           NEW ms, Way(s)' = Way(s) \o ms, ms \in Seq(Frames), Ordered(ms), Within(ms, 1, 2),
           UNCHANGED <<step, owed, keyed, offered>>
    PROVE  Turns(s, o)' /\ Turns(o, s)'
<1>1. Rank(m) = 0 /\ s # o /\ m \in On(Way(o))
  BY TwoSides, RankIs DEF Took
<1>2. /\ Unmet(o) /\ Within(Way(s), 0, 0) /\ ~step[o].gotHave /\ ~step[s].gotHave
      /\ Ordered(Way(s)) /\ offered[o] = {}
  BY <1>1 DEF Unmet, Spoken, Turns
<1>3. Way(s) \in Seq(Frames)
  BY WayTyped
<1>4. Added(ms, Way(s), Way(s)', 1, 2)
  BY <1>2, <1>3, Queued
<1>5. \A x \in On(ms) : Rank(x) # 0
  BY OnWithin
<1>6. \A x \in On(Way(o)') : Rank(x) # 0
  BY <1>1, OnWithin DEF Took
<1>7. step[o].phase # "greeting" /\ step[s].phase # "greeting"
  BY <1>1 DEF Ongoing, Turns, Took
<1>8. ~Unmet(o)'
  BY <1>6, <1>7, RankIs DEF Unmet, Spoken
<1>9. ~step[s].gotWant /\ ~step[o].gotWant /\ ~step[s].sentDone /\ ~step[o].gotDone
      /\ ~step[o].sentDone
  BY <1>2 DEF Turns
<1>10. Within(Way(s)', 0, 2) /\ Within(Way(s)', 0, 4) /\ Within(Way(s)', 0, 5) /\ Ordered(Way(s)')
  <2>1. \A h \in 0..6 : Within(Way(s), 0, h)
    BY <1>2, Wider
  <2> QED
    BY <1>4, <2>1 DEF Added
<1>11. \A x \in On(Way(s)') : x.tells # "wantEarlier"
  BY <1>10, OnWithin, RankIs
<1>12. \A x \in On(Way(o)') : x \in On(Way(o))
  BY DEF Took
<1>13. Turns(s, o)'
  BY <1>2, <1>7, <1>8, <1>9, <1>10, <1>12 DEF Turns, Spoken
<1>14. Unmet(s)' => Unmet(s)
  BY <1>4, <1>5, RankIs DEF Unmet, Spoken, Added
<1>15. Turns(o, s)'
  BY <1>2, <1>7, <1>9, <1>11, <1>14 DEF Turns, Spoken, Took
<1> QED
  BY <1>13, <1>15

LEMMA TurnsTakeHave ==
    ASSUME SyncTypes, NEW s \in Sides, NEW o \in Sides, o = Other(s), Turns(s, o), Turns(o, s),
           NEW m, Took(m, Way(o), Way(o)'), m.tells = "have", Ongoing(s),
           NEW ms, Way(s)' = Way(s) \o ms, ms \in Seq(Frames), Ordered(ms), Within(ms, 3, 4),
           step' = [step EXCEPT ![s] = Trades([@ EXCEPT !.gotHave = TRUE])],
           UNCHANGED <<owed, keyed, offered>>
    PROVE  /\ Turns(s, o)' /\ Turns(o, s)'
           /\ ~step[s].gotHave /\ Added(ms, Way(s), Way(s)', 3, 4) /\ Within(Way(s), 0, 2)
           /\ ~step[o].gotWant /\ DOMAIN owed[o] = {} /\ step'[s].gotHave
           /\ step'[o] = step[o] /\ step'[s].gotDone = step[s].gotDone
<1>1. Rank(m) = 2 /\ s # o /\ m \in On(Way(o)) /\ Way(o) # <<>>
  BY TwoSides, RankIs DEF Took
<1>2. /\ step'[o] = step[o] /\ step'[s].gotHave /\ step'[s].gotWant = step[s].gotWant
      /\ step'[s].gotDone = step[s].gotDone /\ step'[s].sentDone = step[s].sentDone
      /\ step'[s].phase = (IF step[s].gotWant THEN "trading" ELSE step[s].phase)
  <2>1. step \in [Sides -> Steps]
    BY DEF SyncTypes
  <2> QED
    BY <1>1, <2>1 DEF Trades, Steps
<1>3. ~step[s].gotHave
  BY <1>1 DEF Turns, Took
<1>4. /\ ~step[o].gotWant /\ DOMAIN owed[o] = {} /\ Within(Way(s), 0, 2) /\ Ordered(Way(s))
      /\ step[o].phase # "greeting" /\ step[s].phase # "greeting" /\ step[s].phase # "finished"
      /\ ~step[o].sentDone /\ step[o].phase # "trading"
  BY <1>1, <1>3 DEF Turns, Ongoing
<1>5. Way(s) \in Seq(Frames)
  BY WayTyped
<1>6. Added(ms, Way(s), Way(s)', 3, 4)
  BY <1>4, <1>5, Queued
<1>7. Within(Way(o)', 3, 6)
  BY <1>1 DEF Took
<1>8. Within(Way(s)', 0, 4) /\ Within(Way(s)', 0, 5) /\ Ordered(Way(s)')
  <2>1. \A h \in 2..6 : Within(Way(s), 0, h)
    BY <1>4, Wider
  <2> QED
    BY <1>6, <2>1 DEF Added
<1>9. ~Unmet(s) /\ ~Unmet(o)
  <2>1. ~Unmet(s)
    BY <1>1 DEF Turns, Took
  <2>2. \A x \in On(Way(o)) : x = m \/ x \in On(Way(o)')
    BY DEF Took
  <2>3. \A x \in On(Way(o)') : Rank(x) >= 3
    BY <1>7, OnWithin
  <2>4. \A x \in On(Way(o)) : x.tells # "hello"
    BY <1>1, <2>2, <2>3, RankIs
  <2> QED
    BY <1>4, <2>1, <2>4 DEF Unmet, Spoken
<1>10. ~Unmet(o)'
  BY <1>2, <1>9 DEF Unmet, Spoken, Took
<1>11. ~Unmet(s)'
  <2>1. \A x \in On(ms) : x.tells # "hello"
    BY OnWithin, RankIs
  <2> QED
    BY <1>2, <1>4, <1>6, <1>9, <2>1 DEF Unmet, Spoken, Added
<1>12. Turns(s, o)'
  <2>1. \A x \in On(Way(o)') : x \in On(Way(o))
    BY DEF Took
  <2>2. ~step[o].gotHave \/ Within(Way(s)', 3, 6)
    <3>1. step[o].gotHave => Within(Way(s), 3, 6)
      BY DEF Turns
    <3> QED
      BY <1>6, <3>1 DEF Added
  <2>3. ~step[o].gotDone
    BY <1>4, <1>3 DEF Turns
  <2> QED
    BY <1>2, <1>4, <1>8, <1>10, <2>1, <2>2, <2>3 DEF Turns, Spoken
<1>13. Turns(o, s)'
  <2>1. ~step[s].gotDone
    BY <1>1 DEF Turns
  <2>2. step[s].gotWant => Within(Way(o)', 5, 6)
    BY DEF Turns, Took
  <2>3. Ordered(Way(o)') /\ (\A hi \in 0..6 : Within(Way(o), 0, hi) => Within(Way(o)', 0, hi))
    BY DEF Took
  <2> QED
    BY <1>2, <1>4, <1>7, <1>11, <2>1, <2>2, <2>3 DEF Turns, Quiet
<1> QED
  BY <1>2, <1>3, <1>4, <1>6, <1>12, <1>13

(* What takes and says nothing leaves the turns alone.                     *)
LEMMA TurnsQuiet ==
    ASSUME SyncTypes, NEW s \in Sides, NEW o \in Sides, o = Other(s), Turns(s, o), Turns(o, s),
           NEW m, Took(m, Way(o), Way(o)'), Ongoing(s), Way(s)' = Way(s),
           UNCHANGED <<step, owed, keyed>>,
           offered' = offered \/ (m.tells = "earlier" /\ \A t \in Sides : t # s => offered'[t] = offered[t])
    PROVE  Turns(s, o)' /\ Turns(o, s)'
<1>1. s # o /\ m \in On(Way(o)) /\ Way(o) # <<>>
  BY TwoSides DEF Took
<1>2. /\ Ordered(Way(o)') /\ (\A x \in On(Way(o)') : x \in On(Way(o)))
      /\ \A lo, hi \in 0..6 : Within(Way(o), lo, hi) => Within(Way(o)', lo, hi)
  BY DEF Took
<1>3. (Unmet(s)' => Unmet(s)) /\ (Unmet(o)' => Unmet(o))
  BY <1>2 DEF Unmet, Spoken
<1>4. m.tells = "earlier" => ~Unmet(s)
  <2>1. ASSUME m.tells = "earlier", Unmet(s) PROVE FALSE
    <3>1. Within(Way(o), 0, 0) /\ Rank(m) = 1
      BY <2>1, RankIs DEF Turns
    <3> QED
      BY <3>1 DEF Took
  <2> QED
    BY <2>1
<1>5. Turns(s, o)'
  BY <1>1, <1>2, <1>3 DEF Turns, Spoken
<1>6. Turns(o, s)'
  <2>1. Unmet(s)' => offered'[s] = {}
    BY <1>3, <1>4 DEF Turns
  <2>2. ~step[s].gotDone
    BY <1>1 DEF Turns
  <2>3. step[o].phase # "greeting"
    BY <1>1 DEF Turns
  <2> QED
    BY <1>2, <1>3, <2>1, <2>2, <2>3 DEF Turns, Spoken
<1> QED
  BY <1>5, <1>6

LEMMA TurnsTakeWantEarlier ==
    ASSUME SyncTypes, NEW s \in Sides, NEW o \in Sides, o = Other(s), Turns(s, o), Turns(o, s),
           NEW m, Took(m, Way(o), Way(o)'), m.tells = "wantEarlier", Ongoing(s), Way(s)' = Way(s),
           UNCHANGED <<step, offered, keyed>>, \A t \in Sides : t # s => owed'[t] = owed[t],
           DOMAIN owed'[s] \subseteq Gens
    PROVE  Turns(s, o)' /\ Turns(o, s)' /\ DOMAIN owed[s] = {} /\ ~step[s].gotWant /\ step[o].gotHave
<1>1. s # o /\ m \in On(Way(o)) /\ Way(o) # <<>> /\ Rank(m) = 3
  BY TwoSides, RankIs DEF Took
<1>2. /\ Ordered(Way(o)') /\ (\A x \in On(Way(o)') : x \in On(Way(o)))
      /\ \A lo, hi \in 0..6 : Within(Way(o), lo, hi) => Within(Way(o)', lo, hi)
      /\ Within(Way(o)', 4, 6)
  BY <1>1 DEF Took
<1>3. (Unmet(s)' => Unmet(s)) /\ (Unmet(o)' => Unmet(o))
  BY <1>2 DEF Unmet, Spoken
<1>4. DOMAIN owed[s] = {}
  BY <1>1 DEF Turns, Spoken
<1>5. ~step[s].gotWant
  BY <1>1 DEF Turns, Took
<1>6. step[o].gotHave
  BY <1>1 DEF Turns, Took
<1>7. \A x \in On(Way(o)') : x.tells # "wantEarlier"
  BY <1>2, OnWithin, RankIs
<1>8. ~step[s].sentDone
  BY <1>5 DEF Turns
<1>9. Turns(s, o)'
  BY <1>1, <1>3, <1>5, <1>7, <1>8 DEF Turns, Spoken
<1>10. Turns(o, s)'
  <2>1. ~step[s].gotDone /\ step[o].phase # "greeting"
    BY <1>1 DEF Turns
  <2> QED
    BY <1>1, <1>2, <1>3, <1>6, <2>1 DEF Turns, Spoken
<1> QED
  BY <1>4, <1>5, <1>6, <1>9, <1>10

LEMMA TurnsTakeWant ==
    ASSUME SyncTypes, NEW s \in Sides, NEW o \in Sides, o = Other(s), Turns(s, o), Turns(o, s),
           NEW m, Took(m, Way(o), Way(o)'), m.tells = "want", Ongoing(s), Way(s)' = Way(s),
           UNCHANGED <<offered, keyed>>, \A t \in Sides : t # s => owed'[t] = owed[t],
           step' = [step EXCEPT ![s] = Trades([@ EXCEPT !.gotWant = TRUE])]
    PROVE  /\ Turns(s, o)' /\ Turns(o, s)' /\ DOMAIN owed[s] \subseteq Gens /\ ~step[s].gotWant
           /\ step[o].gotHave /\ step'[o] = step[o] /\ step'[s].gotHave = step[s].gotHave
           /\ step'[s].gotDone = step[s].gotDone
<1>1. s # o /\ m \in On(Way(o)) /\ Way(o) # <<>> /\ Rank(m) = 4
  BY TwoSides, RankIs DEF Took
<1>2. /\ Ordered(Way(o)') /\ (\A x \in On(Way(o)') : x \in On(Way(o)))
      /\ \A lo, hi \in 0..6 : Within(Way(o), lo, hi) => Within(Way(o)', lo, hi)
      /\ Within(Way(o)', 5, 6)
  BY <1>1 DEF Took
<1>3. /\ step'[o] = step[o] /\ step'[s].gotWant /\ step'[s].gotHave = step[s].gotHave
      /\ step'[s].gotDone = step[s].gotDone /\ step'[s].sentDone = step[s].sentDone
      /\ step'[s].phase = (IF step[s].gotHave THEN "trading" ELSE step[s].phase)
  <2>1. step \in [Sides -> Steps]
    BY DEF SyncTypes
  <2> QED
    BY <1>1, <2>1 DEF Trades, Steps
<1>4. step[s].phase # "greeting" /\ step[s].phase # "finished" /\ step[o].phase # "greeting"
  BY <1>1 DEF Ongoing, Turns
<1>5. (Unmet(s)' => Unmet(s)) /\ (Unmet(o)' => Unmet(o))
  BY <1>2, <1>3, <1>4 DEF Unmet, Spoken
<1>6. ~step[s].gotWant
  BY <1>1 DEF Turns, Took
<1>7. step[o].gotHave
  BY <1>1 DEF Turns, Took
<1>8. DOMAIN owed[s] \subseteq Gens /\ ~step[s].sentDone
  BY <1>6 DEF Turns
<1>9. \A x \in On(Way(o)') : x.tells # "wantEarlier"
  BY <1>2, OnWithin, RankIs
<1>10. Turns(s, o)'
  BY <1>1, <1>3, <1>4, <1>5, <1>6, <1>8, <1>9 DEF Turns, Spoken
<1>11. Turns(o, s)'
  <2>1. ~step[s].gotDone
    BY <1>1 DEF Turns
  <2> QED
    BY <1>1, <1>2, <1>3, <1>4, <1>5, <1>7, <2>1 DEF Turns, Spoken
<1> QED
  BY <1>3, <1>6, <1>7, <1>8, <1>10, <1>11

LEMMA TurnsTakeDone ==
    ASSUME SyncTypes, NEW s \in Sides, NEW o \in Sides, o = Other(s), Turns(s, o), Turns(o, s),
           NEW m, Took(m, Way(o), Way(o)'), m.tells = "done", Ongoing(s), Way(s)' = Way(s),
           UNCHANGED <<offered, keyed, owed>>, step' = [step EXCEPT ![s].gotDone = TRUE]
    PROVE  /\ Turns(s, o)' /\ Turns(o, s)' /\ step'[o] = step[o]
           /\ step'[s].gotHave = step[s].gotHave
<1>1. s # o /\ m \in On(Way(o)) /\ Way(o) # <<>> /\ Rank(m) = 6
  BY TwoSides, RankIs DEF Took
<1>2. /\ Ordered(Way(o)') /\ (\A x \in On(Way(o)') : x \in On(Way(o)))
      /\ \A lo, hi \in 0..6 : Within(Way(o), lo, hi) => Within(Way(o)', lo, hi)
      /\ Within(Way(o)', 7, 6)
  BY <1>1 DEF Took
<1>3. Way(o)' = <<>>
  <2>1. Way(o) \in Seq(Frames) /\ Way(o)' = Tail(Way(o)) /\ Way(o) # <<>>
    BY WayTyped DEF Took
  <2>2. Way(o)' \in Seq(Frames)
    BY <2>1
  <2>3. ASSUME 1 \in 1..Len(Way(o)') PROVE FALSE
    <3>1. 7 <= Rank((Way(o)')[1]) /\ Rank((Way(o)')[1]) <= 6
      BY <1>2, <2>3 DEF Within
    <3>2. Rank((Way(o)')[1]) \in 0..6
      BY RankIs
    <3> QED
      BY <3>1, <3>2
  <2> QED
    BY <2>2, <2>3
<1>4. /\ step'[o] = step[o] /\ step'[s].gotWant = step[s].gotWant /\ step'[s].gotHave = step[s].gotHave
      /\ step'[s].gotDone /\ step'[s].sentDone = step[s].sentDone
      /\ step'[s].phase = step[s].phase
  BY <1>1 DEF SyncTypes, Steps
<1>5. step[s].phase # "greeting" /\ step[s].phase # "finished" /\ step[o].phase # "greeting"
  BY <1>1 DEF Ongoing, Turns
<1>6. (Unmet(s)' => Unmet(s)) /\ (Unmet(o)' => Unmet(o))
  BY <1>2, <1>4, <1>5 DEF Unmet, Spoken
<1>7. step[o].sentDone
  BY <1>1 DEF Turns, Took
<1>8. Turns(s, o)'
  BY <1>1, <1>2, <1>4, <1>5, <1>6 DEF Turns, Spoken
<1>9. Turns(o, s)'
  BY <1>1, <1>2, <1>3, <1>4, <1>5, <1>6, <1>7 DEF Turns, Spoken
<1> QED
  BY <1>4, <1>8, <1>9

LEMMA TurnsSays ==
    ASSUME SyncTypes, NEW s \in Sides, NEW o \in Sides, o = Other(s), Turns(s, o), Turns(o, s),
           NEW ms \in Seq(Frames), Way(s)' = Way(s) \o ms, Way(o)' = Way(o), Ordered(ms),
           step[s].phase = "trading", UNCHANGED <<offered, step>>, Within(ms, 5, 5),
           \A t \in Sides : t # s => keyed'[t] = keyed[t] /\ owed'[t] = owed[t],
           DOMAIN owed'[s] \subseteq DOMAIN owed[s], DOMAIN owed[s] # {}
    PROVE  Turns(s, o)' /\ Turns(o, s)' /\ Added(ms, Way(s), Way(s)', 5, 5) /\ step[o].gotHave
<1>1. s # o
  BY TwoSides
<1>2. step[s].gotHave /\ step[s].gotWant /\ ~step[s].sentDone
  BY DEF Turns
<1>3. Within(Way(s), 0, 5) /\ ~step[o].gotDone /\ Ordered(Way(s))
  BY <1>2 DEF Turns
<1>4. Way(s) \in Seq(Frames)
  BY WayTyped
<1>5. Added(ms, Way(s), Way(s)', 5, 5)
  BY <1>3, <1>4, Queued
<1>6. step[o].gotHave
  BY <1>2 DEF Turns
<1>7. ~Unmet(o) /\ ~Unmet(s)
  BY <1>2, <1>6 DEF Turns
<1>8. \A x \in On(ms) : x.tells # "hello" /\ x.tells # "wantEarlier"
  BY OnWithin, RankIs
<1>9. ~Unmet(s)' /\ ~Unmet(o)' /\ \A x \in On(Way(s)') : x.tells = "wantEarlier" => x \in On(Way(s))
  BY <1>5, <1>7, <1>8 DEF Unmet, Spoken, Added
<1>10. Ordered(Way(s)') /\ Within(Way(s)', 0, 5) /\ Within(Way(s)', 3, 6)
       /\ (step[o].gotWant => Within(Way(s)', 5, 6))
  BY <1>3, <1>5, <1>6 DEF Added, Turns
<1>11. Turns(s, o)'
  BY <1>1, <1>2, <1>3, <1>9, <1>10 DEF Turns, Spoken
<1>12. Turns(o, s)'
  BY <1>1, <1>2, <1>9 DEF Turns, Spoken
<1> QED
  BY <1>5, <1>6, <1>11, <1>12

LEMMA TurnsSayDone ==
    ASSUME SyncTypes, NEW s \in Sides, NEW o \in Sides, o = Other(s), Turns(s, o), Turns(o, s),
           SayDone(s)
    PROVE  /\ Turns(s, o)' /\ Turns(o, s)' /\ Added(<<[tells |-> "done"]>>, Way(s), Way(s)', 6, 6)
           /\ Way(o)' = Way(o) /\ step'[o] = step[o] /\ step'[s].gotHave = step[s].gotHave
           /\ step'[s].gotDone = step[s].gotDone
<1> DEFINE m == [tells |-> "done"]
<1>1. s # o /\ m \in Frames /\ Rank(m) = 6 /\ m.tells = "done"
  BY TwoSides DEF Frames, Rank
<1>2. <<m>> \in Seq(Frames) /\ On(<<m>>) = {m} /\ Ordered(<<m>>) /\ Within(<<m>>, 6, 6)
  BY <1>1, OneMessage
<1> HIDE DEF m
<1>3. Way(s)' = Way(s) \o <<m>> /\ Way(o)' = Way(o)
  BY <1>2, SaysMore DEF SayDone, m
<1>4. step[s].gotHave /\ step[s].gotWant /\ ~step[s].sentDone /\ DOMAIN owed[s] = {}
      /\ step[s].phase = "trading" /\ UNCHANGED <<owed, keyed, offered>>
  BY DEF Turns, SayDone
<1>5. Within(Way(s), 0, 5) /\ ~step[o].gotDone /\ Ordered(Way(s)) /\ step[o].gotHave
  BY <1>4 DEF Turns
<1>6. Way(s) \in Seq(Frames)
  BY WayTyped
<1>7. Added(<<m>>, Way(s), Way(s)', 6, 6)
  <2> DEFINE ms == <<m>>
  <2>1. ms \in Seq(Frames) /\ Ordered(ms) /\ Within(ms, 6, 6) /\ Way(s)' = Way(s) \o ms
    BY <1>2, <1>3
  <2> HIDE DEF ms
  <2>2. Added(ms, Way(s), Way(s) \o ms, 6, 6)
    BY <1>5, <1>6, <2>1, Queued
  <2> QED
    BY <2>1, <2>2 DEF ms
<1>8. /\ step'[o] = step[o] /\ step'[s].gotWant = step[s].gotWant /\ step'[s].gotHave = step[s].gotHave
      /\ step'[s].gotDone = step[s].gotDone /\ step'[s].sentDone
      /\ step'[s].phase = step[s].phase
  BY <1>1 DEF SayDone, SyncTypes, Steps
<1>9. ~Unmet(o) /\ ~Unmet(s)
  BY <1>4, <1>5 DEF Turns
<1>10. ~Unmet(s)' /\ ~Unmet(o)' /\ \A x \in On(Way(s)') : x.tells = "wantEarlier" => x \in On(Way(s))
  BY <1>1, <1>2, <1>3, <1>4, <1>7, <1>8, <1>9 DEF Unmet, Spoken, Added
<1>11. Ordered(Way(s)') /\ Within(Way(s)', 3, 6) /\ (step[o].gotWant => Within(Way(s)', 5, 6))
  BY <1>5, <1>7 DEF Added, Turns
<1>12. Turns(s, o)'
  BY <1>1, <1>3, <1>4, <1>5, <1>8, <1>10, <1>11 DEF Turns, Spoken
<1>13. Turns(o, s)'
  BY <1>1, <1>3, <1>4, <1>8, <1>10 DEF Turns, Spoken
<1> QED
  BY <1>3, <1>7, <1>8, <1>12, <1>13 DEF m

(* What the link takes stays on its way.                                   *)
LEMMA SendWays ==
    ASSUME SyncTypes, NEW s \in Sides, NEW o \in Sides, o = Other(s), Send(s)
    PROVE  Way(s)' = Way(s) /\ Way(o)' = Way(o)
<1>1. s # o /\ Other(o) = s
  BY TwoSides
<1> DEFINE x == outbox[s]
           l == link[o]
<1>2. x \in Seq(Frames) /\ l \in Seq(Frames) /\ x # <<>>
  BY WayTyped DEF Send
<1>3. link'[o] = Append(l, Head(x)) /\ outbox'[s] = Tail(x) /\ link'[s] = link[s] /\ outbox'[o] = outbox[o]
  BY <1>1 DEF Send, SyncTypes
<1> HIDE DEF x, l
<1>4. Head(x) \in Frames /\ Tail(x) \in Seq(Frames) /\ <<Head(x)>> \in Seq(Frames)
  BY <1>2
<1>5. <<Head(x)>> \o Tail(x) = x
  <2> DEFINE u == <<Head(x)>> \o Tail(x)
  <2>1. /\ u \in Seq(Frames) /\ Len(u) = Len(x)
        /\ \A i \in 1..Len(u) : u[i] = x[i]
    <3>1. /\ u \in Seq(Frames) /\ Len(u) = 1 + Len(Tail(x))
          /\ \A i \in 1..1 + Len(Tail(x)) : u[i] = IF i <= 1 THEN <<Head(x)>>[i] ELSE Tail(x)[i - 1]
      <4>1. Len(<<Head(x)>>) = 1
        OBVIOUS
      <4> QED
        BY <1>4, <4>1, ConcatProperties
    <3>2. /\ Len(Tail(x)) = Len(x) - 1 /\ Len(x) \in Nat \ {0} /\ Head(x) = x[1]
          /\ \A i \in 1..Len(x) - 1 : Tail(x)[i] = x[i + 1]
      BY <1>2
    <3> HIDE DEF u
    <3>3. ASSUME NEW i \in 1..Len(u) PROVE u[i] = x[i]
      <4>1. CASE i = 1
        BY <3>1, <3>2, <4>1
      <4>2. CASE i # 1
        BY <3>1, <3>2, <4>2
      <4> QED
        BY <4>1, <4>2
    <3>4. Len(u) = Len(x)
      BY <3>1, <3>2
    <3> QED
      BY <3>1, <3>3, <3>4
  <2> HIDE DEF u
  <2>2. u = x
    BY <1>2, <2>1, SeqEqual
  <2> QED
    BY <2>2 DEF u
<1>6. Append(l, Head(x)) = l \o <<Head(x)>>
  BY <1>2, <1>4, AppendIsConcat
<1>7. (l \o <<Head(x)>>) \o Tail(x) = l \o x
  BY <1>2, <1>4, <1>5, Regrouped
<1> QED
  BY <1>1, <1>3, <1>6, <1>7 DEF Way, x, l

LEMMA EndOfWay ==
    ASSUME NEW u \in Seq(Frames), NEW v \in Seq(Frames), Ordered(u \o v)
    PROVE  /\ Ordered(v) /\ On(v) \subseteq On(u \o v) /\ (u \o v = <<>> => v = <<>>)
           /\ \A lo, hi \in 0..6 : Within(u \o v, lo, hi) => Within(v, lo, hi)
<1> DEFINE w == u \o v
<1>1. /\ w \in Seq(Frames) /\ Len(w) = Len(u) + Len(v) /\ Len(u) \in Nat /\ Len(v) \in Nat
      /\ \A n \in 1..Len(v) : w[n + Len(u)] = v[n] /\ n + Len(u) \in 1..Len(w)
  BY ConcatProperties
<1> HIDE DEF w
<1>2. Ordered(w)
  BY DEF w
<1>3. Ordered(v)
  <2> SUFFICES ASSUME NEW p \in 1..Len(v), NEW q \in 1..Len(v), p < q
               PROVE  Rank(v[p]) < Rank(v[q]) \/ (Rank(v[p]) = 5 /\ Rank(v[q]) = 5)
    BY DEF Ordered
  <2>1. /\ p + Len(u) \in 1..Len(w) /\ q + Len(u) \in 1..Len(w) /\ p + Len(u) < q + Len(u)
        /\ w[p + Len(u)] = v[p] /\ w[q + Len(u)] = v[q]
    BY <1>1
  <2>2. Rank(w[p + Len(u)]) < Rank(w[q + Len(u)])
        \/ (Rank(w[p + Len(u)]) = 5 /\ Rank(w[q + Len(u)]) = 5)
    BY <1>2, <2>1 DEF Ordered
  <2> QED
    BY <2>1, <2>2
<1>4. On(v) \subseteq On(w)
  BY <1>1 DEF On
<1>5. w = <<>> => v = <<>>
  BY <1>1
<1>6. \A lo, hi \in 0..6 : Within(w, lo, hi) => Within(v, lo, hi)
  BY <1>1 DEF Within
<1> QED
  BY <1>3, <1>4, <1>5, <1>6 DEF w

LEMMA GoneWays ==
    ASSUME SyncTypes, NEW a \in Sides, Ordered(Way(a)), SessionGone
    PROVE  /\ Ordered(Way(a)') /\ On(Way(a)') \subseteq On(Way(a)) /\ (Way(a) = <<>> => Way(a)' = <<>>)
           /\ \A lo, hi \in 0..6 : Within(Way(a), lo, hi) => Within(Way(a)', lo, hi)
<1>1. Other(a) \in Sides
  BY TwoSides
<1>2. link[Other(a)] \in Seq(Frames) /\ outbox[a] \in Seq(Frames) /\ <<>> \in Seq(Frames)
  BY <1>1, WayTyped
<1>3. <<>> \o outbox[a] = outbox[a]
  BY <1>2, ConcatEmptySeq
<1>4. Way(a)' = outbox[a]
  BY <1>1, <1>3 DEF SessionGone, Way
<1> QED
  BY <1>2, <1>4, EndOfWay DEF Way

LEMMA TurnsShrink ==
    ASSUME NEW a \in Sides, NEW b \in Sides, Turns(a, b),
           UNCHANGED <<step, owed, keyed, offered>>,
           Ordered(Way(a)'), On(Way(b)') \subseteq On(Way(b)), Way(a) = <<>> => Way(a)' = <<>>,
           \A lo, hi \in 0..6 : Within(Way(a), lo, hi) => Within(Way(a)', lo, hi)
    PROVE  Turns(a, b)'
<1>1. Unmet(b)' => Unmet(b)
  BY DEF Unmet, Spoken
<1> QED
  BY <1>1 DEF Turns, Spoken

LEMMA TurnsFinish ==
    ASSUME SyncTypes, NEW s \in Sides, NEW o \in Sides, o = Other(s), Turns(s, o), Turns(o, s),
           Finish(s)
    PROVE  /\ Turns(s, o)' /\ Turns(o, s)' /\ Way(s)' = Way(s) /\ Way(o)' = Way(o)
           /\ step'[o] = step[o] /\ step'[s].gotHave = step[s].gotHave /\ step'[s].gotDone = step[s].gotDone
<1>1. s # o
  BY TwoSides
<1>2. step[s].sentDone /\ step[s].gotDone /\ outbox[s] = <<>> /\ step[s].phase # "greeting"
  BY DEF Finish, MayFinish, Ongoing
<1>3. outbox' = outbox /\ link' = link
  <2>1. outbox' = [outbox EXCEPT ![s] = outbox[s]]
    BY <1>2 DEF Finish
  <2> QED
    BY <2>1 DEF Finish, SyncTypes
<1>4. Way(s)' = Way(s) /\ Way(o)' = Way(o)
  BY <1>3 DEF Way
<1>5. /\ step'[o] = step[o] /\ step'[s].gotWant = step[s].gotWant /\ step'[s].gotHave = step[s].gotHave
      /\ step'[s].gotDone = step[s].gotDone /\ step'[s].sentDone = step[s].sentDone
      /\ step'[s].phase = "finished" /\ UNCHANGED <<owed, keyed, offered>>
  BY <1>1 DEF Finish, SyncTypes, Steps
<1>6. (Unmet(s)' => Unmet(s)) /\ (Unmet(o)' => Unmet(o))
  BY <1>4, <1>5 DEF Unmet, Spoken
<1>7. step[s].gotHave
  BY <1>2 DEF Finish, Turns
<1>8. Turns(s, o)'
  BY <1>1, <1>2, <1>4, <1>5, <1>6, <1>7 DEF Turns, Spoken
<1>9. Turns(o, s)'
  BY <1>1, <1>4, <1>5, <1>6 DEF Turns, Spoken
<1> QED
  BY <1>4, <1>5, <1>8, <1>9

-----------------------------------------------------------------------------
(* What the messages on their way say, against what their sender holds.    *)
HeldOf(k, of) ==
  {[item |-> i, life |-> k.life[i], first |-> Min(k.entries[i]), last |-> Max(k.entries[i]),
    epochs |-> Cardinality(k.keys[i])] : i \in {j \in of : k.entries[j] # {}}}
OnePerItem(rows) == \A r, t \in rows : r[1] = t[1] => r = t
Telling(m, a, b) ==
  /\ m.tells = "earlier" => m.rows = HeldOf(said[a], Gens)
  /\ m.tells = "have" => m.rows = HeldOf(said[a], Live)
  /\ m.tells = "wantEarlier" => OnePerItem(m.rows) /\ \A w \in m.rows : w[1] \in Gens \cap asked[a]
  /\ m.tells = "want" => OnePerItem(m.rows) /\ \A w \in m.rows : w[1] \in Live
  /\ m.tells = "keys" => m.keys # {} /\ m.item \in Live \cup asked[b]
Content(a, b) ==
  /\ \A m \in On(Way(a)) : Telling(m, a, b)
  /\ offered[b] \in {{}, HeldOf(said[a], Gens)}
  /\ \A i \in DOMAIN owed[a] : i \in Live \cup asked[b]

LEMMA HeldOnce ==
    ASSUME NEW k, NEW of, NEW h \in HeldOf(k, of)
    PROVE  /\ h.item \in of /\ k.entries[h.item] # {}
           /\ h = [item |-> h.item, life |-> k.life[h.item], first |-> Min(k.entries[h.item]),
                   last |-> Max(k.entries[h.item]), epochs |-> Cardinality(k.keys[h.item])]
  BY DEF HeldOf

LEMMA WantsOnce ==
    ASSUME SyncTypes, NEW s \in Sides, NEW k, NEW rows, rows = HeldOf(k, Live),
           offered[s] \in {{}, HeldOf(k, Gens)}
    PROVE  /\ OnePerItem(WantsLive(s, rows)) /\ \A w \in WantsLive(s, rows) : w[1] \in Live
           /\ OnePerItem(WantsEarlier(s)) /\ \A w \in WantsEarlier(s) : w[1] \in Gens
<1>1. \A g, h \in HeldOf(k, Live) : g.item = h.item => g = h
  BY HeldOnce
<1>2. \A g, h \in HeldOf(k, Gens) : g.item = h.item => g = h
  BY HeldOnce
<1>3. \A w \in WantsLive(s, rows) : \E h \in HeldOf(k, Live) :
        w = <<h.item, Since(stock[s].entries[h.item], h)>>
  BY DEF WantsLive
<1>4. \A w \in WantsEarlier(s) : \E h \in HeldOf(k, Gens) :
        w = <<h.item, Reached(stock[s].entries[h.item])>>
  BY DEF WantsEarlier
<1>5. OnePerItem(WantsLive(s, rows))
  BY <1>1, <1>3 DEF OnePerItem
<1>6. OnePerItem(WantsEarlier(s))
  BY <1>2, <1>4 DEF OnePerItem
<1>7. \A w \in WantsLive(s, rows) : w[1] \in Live
  BY <1>3, HeldOnce
<1>8. \A w \in WantsEarlier(s) : w[1] \in Gens
  BY <1>4, HeldOnce
<1> QED
  BY <1>5, <1>6, <1>7, <1>8

LEMMA ContentGrows ==
    ASSUME NEW a \in Sides, NEW b \in Sides, Content(a, b), NEW new,
           said'[a] = said[a], asked'[a] = asked[a], asked'[b] = asked[b], offered'[b] = offered[b],
           On(Way(a)') \subseteq On(Way(a)) \cup new, \A m \in new : Telling(m, a, b)',
           DOMAIN owed'[a] \subseteq DOMAIN owed[a]
    PROVE  Content(a, b)'
<1>1. \A m : Telling(m, a, b) => Telling(m, a, b)'
  BY DEF Telling
<1> QED
  BY <1>1 DEF Content

LEMMA ContentTakeHello ==
    ASSUME SyncTypes, NEW s \in Sides, NEW o \in Sides, o = Other(s), Content(s, o),
           Within(Way(s), 0, 0), offered[o] = {}, ~step[o].gotHave, DOMAIN owed[s] = {},
           NEW ms, Added(ms, Way(s), Way(s)', 1, 2),
           \A m \in On(ms) : m = [tells |-> "earlier", rows |-> Held(s, Gens)]
                             \/ m = [tells |-> "have", rows |-> Held(s, Live)],
           said' = [said EXCEPT ![s] = stock[s]], UNCHANGED <<asked, offered, owed>>
    PROVE  Content(s, o)'
<1>1. said'[s] = stock[s] /\ \A of : Held(s, of) = HeldOf(stock[s], of)
  BY DEF SyncTypes, Held, HeldOf
<1>2. \A m \in On(Way(s)) : m.tells = "hello"
  BY OnWithin, RankIs
<1>3. \A m \in On(ms) : Telling(m, s, o)'
  BY <1>1 DEF Telling
<1>4. \A m \in On(Way(s)) : Telling(m, s, o)'
  BY <1>2 DEF Telling
<1> QED
  BY <1>3, <1>4 DEF Content, Added

LEMMA ContentTakeEarlier ==
    ASSUME SyncTypes, NEW s \in Sides, NEW o \in Sides, o = Other(s), Content(o, s),
           NEW m, Took(m, Way(o), Way(o)'), m.tells = "earlier",
           offered' = [offered EXCEPT ![s] = m.rows], UNCHANGED <<said, asked, owed>>
    PROVE  Content(o, s)'
<1>1. m \in On(Way(o)) /\ \A x \in On(Way(o)') : x \in On(Way(o))
  BY DEF Took
<1>2. offered'[s] = HeldOf(said[o], Gens)
  BY <1>1 DEF Content, Telling, SyncTypes
<1> QED
  BY <1>1, <1>2 DEF Content, Telling

LEMMA ContentTakeHave ==
    ASSUME SyncTypes, NEW s \in Sides, NEW o \in Sides, o = Other(s), Content(s, o), Content(o, s),
           NEW m, Took(m, Way(o), Way(o)'), m.tells = "have",
           NEW ms, Added(ms, Way(s), Way(s)', 3, 4), Within(Way(s), 0, 2), Within(Way(o), 0, 4),
           DOMAIN owed[o] = {},
           \A x \in On(ms) : x = [tells |-> "wantEarlier", rows |-> WantsEarlier(s)]
                             \/ x = [tells |-> "want", rows |-> WantsLive(s, m.rows)],
           asked' = [asked EXCEPT ![s] = {w[1] : w \in WantsEarlier(s)}],
           UNCHANGED <<said, offered, owed>>
    PROVE  Content(s, o)' /\ Content(o, s)'
<1>1. s # o /\ m \in On(Way(o)) /\ \A x \in On(Way(o)') : x \in On(Way(o))
  BY TwoSides DEF Took
<1>2. m.rows = HeldOf(said[o], Live) /\ offered[s] \in {{}, HeldOf(said[o], Gens)}
  BY <1>1 DEF Content, Telling
<1>3. /\ OnePerItem(WantsLive(s, m.rows)) /\ \A w \in WantsLive(s, m.rows) : w[1] \in Live
      /\ OnePerItem(WantsEarlier(s)) /\ \A w \in WantsEarlier(s) : w[1] \in Gens
  BY <1>2, WantsOnce
<1>4. asked'[s] = {w[1] : w \in WantsEarlier(s)} /\ asked'[o] = asked[o]
  BY <1>1 DEF SyncTypes
<1>5. \A x \in On(ms) : Telling(x, s, o)'
  BY <1>3, <1>4 DEF Telling
<1>6. \A x \in On(Way(s)) : Telling(x, s, o)'
  <2>1. \A x \in On(Way(s)) : x.tells \in {"hello", "earlier", "have"}
    <3>1. \A x \in On(Way(s)) : Rank(x) <= 2
      BY OnWithin
    <3>2. \A x : Rank(x) \in 0..6
      BY RankIs
    <3> QED
      BY <3>1, <3>2, RankIs
  <2> QED
    BY <2>1 DEF Content, Telling
<1>7. Content(s, o)'
  BY <1>4, <1>5, <1>6 DEF Content, Added
<1>8. \A x \in On(Way(o)') : x.tells # "keys"
  BY <1>1, OnWithin, RankIs
<1>9. \A x \in On(Way(o)') : Telling(x, o, s)'
  BY <1>1, <1>4, <1>8 DEF Content, Telling
<1>10. Content(o, s)'
  BY <1>9 DEF Content
<1> QED
  BY <1>7, <1>10

LEMMA OwesWhat ==
    ASSUME SyncTypes, NEW s \in Sides, NEW rows \in SUBSET (Items \X Nat), Owes(s, rows)
    PROVE  /\ \A t \in Sides : t # s => owed'[t] = owed[t]
           /\ DOMAIN owed'[s] = DOMAIN owed[s] \cup {w[1] : w \in rows}
           /\ \A i \in DOMAIN owed[s] : owed'[s][i] = owed[s][i]
           /\ OnePerItem(rows) => \A w \in rows : w[1] \notin DOMAIN owed[s] => owed'[s][w[1]] = w[2]
<1> DEFINE d == DOMAIN owed[s] \cup {w[1] : w \in rows}
           f == [i \in d |-> IF i \in DOMAIN owed[s] THEN owed[s][i]
                             ELSE (CHOOSE w \in rows : w[1] = i)[2]]
<1>1. owed' = [owed EXCEPT ![s] = f]
  BY DEF Owes
<1>2. owed'[s] = f /\ \A t \in Sides : t # s => owed'[t] = owed[t]
  BY <1>1 DEF SyncTypes
<1>3. ASSUME OnePerItem(rows), NEW w \in rows, w[1] \notin DOMAIN owed[s] PROVE f[w[1]] = w[2]
  <2>1. (CHOOSE x \in rows : x[1] = w[1]) \in rows /\ (CHOOSE x \in rows : x[1] = w[1])[1] = w[1]
    OBVIOUS
  <2>2. (CHOOSE x \in rows : x[1] = w[1]) = w
    BY <1>3, <2>1 DEF OnePerItem
  <2>3. w[1] \in d
    OBVIOUS
  <2>4. f[w[1]] = (CHOOSE x \in rows : x[1] = w[1])[2]
    BY <1>3, <2>3
  <2> QED
    BY <2>2, <2>4
<1>4. DOMAIN f = d /\ \A i \in DOMAIN owed[s] : f[i] = owed[s][i]
  OBVIOUS
<1> HIDE DEF f
<1> QED
  BY <1>2, <1>3, <1>4 DEF d

LEMMA ContentTakeWants ==
    ASSUME SyncTypes, NEW s \in Sides, NEW o \in Sides, o = Other(s), Content(s, o), Content(o, s),
           NEW m, Took(m, Way(o), Way(o)'), m.tells \in {"want", "wantEarlier"}, Way(s)' = Way(s),
           \A t \in Sides : t # s => owed'[t] = owed[t],
           DOMAIN owed'[s] = DOMAIN owed[s] \cup {w[1] : w \in m.rows},
           UNCHANGED <<said, asked, offered>>
    PROVE  Content(s, o)' /\ Content(o, s)'
<1>1. s # o /\ m \in On(Way(o)) /\ \A x \in On(Way(o)') : x \in On(Way(o))
  BY TwoSides DEF Took
<1>2. \A w \in m.rows : w[1] \in Live \cup asked[o]
  BY <1>1 DEF Content, Telling
<1>3. Content(s, o)'
  BY <1>2 DEF Content, Telling
<1>4. Content(o, s)'
  BY <1>1 DEF Content, Telling
<1> QED
  BY <1>3, <1>4

-----------------------------------------------------------------------------
(* A page as it is queued.                                                 *)
LEMMA ConcatAt ==
    ASSUME NEW y \in Seq(Frames), NEW z \in Seq(Frames)
    PROVE  /\ y \o z \in Seq(Frames) /\ Len(y \o z) = Len(y) + Len(z) /\ Len(y) \in Nat /\ Len(z) \in Nat
           /\ \A n \in 1..Len(y) : n \in 1..Len(y \o z) /\ (y \o z)[n] = y[n]
           /\ \A n \in 1..Len(z) : n + Len(y) \in 1..Len(y \o z) /\ (y \o z)[n + Len(y)] = z[n]
           /\ On(y \o z) = On(y) \cup On(z)
<1> DEFINE yz == y \o z
<1>1. /\ yz \in Seq(Frames) /\ Len(yz) = Len(y) + Len(z) /\ Len(y) \in Nat /\ Len(z) \in Nat
      /\ \A n \in 1..Len(y) + Len(z) : yz[n] = IF n <= Len(y) THEN y[n] ELSE z[n - Len(y)]
  BY ConcatProperties
<1> HIDE DEF yz
<1>2. \A n \in 1..Len(y) : n \in 1..Len(yz) /\ yz[n] = y[n]
  BY <1>1
<1>3. ASSUME NEW n \in 1..Len(z) PROVE n + Len(y) \in 1..Len(yz) /\ yz[n + Len(y)] = z[n]
  <2>1. /\ n + Len(y) \in 1..Len(y) + Len(z)
        /\ ~ (n + Len(y) <= Len(y)) /\ (n + Len(y)) - Len(y) = n
    BY <1>1
  <2> DEFINE at == n + Len(y)
  <2>2. at \in 1..Len(y) + Len(z) /\ ~ (at <= Len(y)) /\ at - Len(y) = n
    BY <2>1
  <2> HIDE DEF at
  <2>3. at \in 1..Len(yz) /\ yz[at] = z[at - Len(y)]
    BY <1>1, <2>2
  <2>4. at \in 1..Len(yz) /\ yz[at] = z[n]
    BY <2>2, <2>3
  <2> QED
    BY <2>4 DEF at
<1>4. ASSUME NEW m \in On(yz) PROVE m \in On(y) \cup On(z)
  <2>1. PICK n \in 1..Len(yz) : m = yz[n]
    BY <1>4 DEF On
  <2>2. CASE n <= Len(y)
    <3>1. n \in 1..Len(y) /\ yz[n] = y[n]
      BY <1>1, <2>2
    <3> QED
      BY <2>1, <3>1 DEF On
  <2>3. CASE n > Len(y)
    <3>1. n - Len(y) \in 1..Len(z) /\ yz[n] = z[n - Len(y)]
      BY <1>1, <2>3
    <3> QED
      BY <2>1, <3>1 DEF On
  <2> QED
    BY <1>1, <2>2, <2>3
<1>5. ASSUME NEW m \in On(y) PROVE m \in On(yz)
  BY <1>2, <1>5 DEF On
<1>6. ASSUME NEW m \in On(z) PROVE m \in On(yz)
  BY <1>3, <1>6 DEF On
<1> QED
  BY <1>1, <1>2, <1>3, <1>4, <1>5, <1>6 DEF yz

LEMMA AllServing ==
    ASSUME NEW ms \in Seq(Frames), \A m \in On(ms) : Rank(m) = 5
    PROVE  Ordered(ms) /\ Within(ms, 5, 5)
<1>1. \A n \in 1..Len(ms) : Rank(ms[n]) = 5
  BY DEF On
<1> QED
  BY <1>1 DEF Ordered, Within

LEMMA PageOn ==
    ASSUME SyncTypes, NEW s \in Sides, NEW i \in Items
    PROVE  /\ PageSaid(s, i) \in Seq(Frames) /\ Ordered(PageSaid(s, i)) /\ Within(PageSaid(s, i), 5, 5)
           /\ On(PageSaid(s, i)) =
                {m \in {KeysFrame(s, i)} : i \notin keyed[s] /\ stock[s].keys[i] # {}}
                  \cup {m \in {EntriesFrame(s, i)} : Page(s, i) \ Expired # {}}
                  \cup {m \in {BlobsFrame(s, i)} : BlobsOf(s, i) # {}}
<1> DEFINE ka == i \notin keyed[s] /\ stock[s].keys[i] # {}
           ea == Page(s, i) \ Expired # {}
           ba == BlobsOf(s, i) # {}
           kf == KeysFrame(s, i)
           ef == EntriesFrame(s, i)
           bf == BlobsFrame(s, i)
<1>1. kf \in Frames /\ ef \in Frames /\ bf \in Frames /\ PageSaid(s, i) \in Seq(Frames)
      /\ kf.tells = "keys" /\ ef.tells = "entries" /\ bf.tells = "blobs"
  BY PageTyped DEF KeysFrame, EntriesFrame, BlobsFrame
<1>2. PageSaid(s, i) = Ifs(ka, kf) \o Ifs(ea, ef) \o Ifs(ba, bf) /\ ka \in BOOLEAN /\ ea \in BOOLEAN /\ ba \in BOOLEAN
  BY DEF PageSaid
<1> HIDE DEF ka, ea, ba, kf, ef, bf
<1> DEFINE u == Ifs(ka, kf)
           v == Ifs(ea, ef)
           x == Ifs(ba, bf)
<1>3. /\ u \in Seq(Frames) /\ On(u) = {m \in {kf} : ka}
      /\ v \in Seq(Frames) /\ On(v) = {m \in {ef} : ea}
      /\ x \in Seq(Frames) /\ On(x) = {m \in {bf} : ba}
  BY <1>1, <1>2, IfMessage
<1>4. PageSaid(s, i) = u \o v \o x
  BY <1>2
<1> HIDE DEF u, v, x
<1>5. u \o v \in Seq(Frames) /\ On(u \o v) = On(u) \cup On(v)
  BY <1>3, ConcatAt
<1> DEFINE uv == u \o v
<1>6. On(uv \o x) = On(uv) \cup On(x)
  <2>1. uv \in Seq(Frames)
    BY <1>5
  <2> HIDE DEF uv
  <2> QED
    BY <1>3, <2>1, ConcatAt
<1>7. On(PageSaid(s, i)) = {m \in {kf} : ka} \cup {m \in {ef} : ea} \cup {m \in {bf} : ba}
  BY <1>3, <1>4, <1>5, <1>6
<1>8. \A m \in On(PageSaid(s, i)) : Rank(m) = 5
  BY <1>1, <1>7, RankIs
<1>9. Ordered(PageSaid(s, i)) /\ Within(PageSaid(s, i), 5, 5)
  BY <1>1, <1>8, AllServing
<1> QED
  BY <1>1, <1>7, <1>9 DEF ka, ea, ba, kf, ef, bf

(* The keys come before the entries, and the entries before their blobs.   *)
LEMMA PageInOrder ==
    ASSUME NEW u \in Seq(Frames), NEW v \in Seq(Frames), NEW x \in Seq(Frames),
           Len(v) = 1, Len(x) = 1
    PROVE  LET ms == u \o v \o x IN
           \E p, q \in 1..Len(ms) :
             /\ p < q /\ ms[p] = v[1] /\ ms[q] = x[1]
             /\ \A n \in 1..Len(u) : n < p /\ n \in 1..Len(ms) /\ ms[n] = u[n]
<1> DEFINE uv == u \o v
           ms == u \o v \o x
<1>1. ms = uv \o x
  OBVIOUS
<1> HIDE DEF ms
<1>2. u \in Seq(Frames) /\ v \in Seq(Frames) /\ x \in Seq(Frames)
  OBVIOUS
<1>3. Len(v) = 1 /\ Len(x) = 1 /\ 1 \in 1..1
  OBVIOUS
<1>5. /\ uv \in Seq(Frames) /\ Len(uv) = Len(u) + 1 /\ Len(u) \in Nat
      /\ \A n \in 1..Len(u) : n \in 1..Len(uv) /\ uv[n] = u[n]
      /\ 1 + Len(u) \in 1..Len(uv) /\ uv[1 + Len(u)] = v[1]
  <2>1. /\ uv \in Seq(Frames) /\ Len(uv) = Len(u) + Len(v) /\ Len(u) \in Nat
        /\ \A n \in 1..Len(u) : n \in 1..Len(uv) /\ uv[n] = u[n]
        /\ \A n \in 1..Len(v) : n + Len(u) \in 1..Len(uv) /\ uv[n + Len(u)] = v[n]
    BY <1>2, ConcatAt
  <2> HIDE DEF uv
  <2>2. 1 \in 1..Len(v)
    BY <1>3
  <2>3. 1 + Len(u) \in 1..Len(uv) /\ uv[1 + Len(u)] = v[1]
    BY <2>1, <2>2
  <2> QED
    BY <1>3, <2>1, <2>3
<1> HIDE DEF uv
<1>6. /\ \A n \in 1..Len(uv) : n \in 1..Len(ms) /\ ms[n] = uv[n]
      /\ 1 + Len(uv) \in 1..Len(ms) /\ ms[1 + Len(uv)] = x[1]
  <2> DEFINE vx == uv \o x
  <2>1. /\ \A n \in 1..Len(uv) : n \in 1..Len(vx) /\ vx[n] = uv[n]
        /\ \A n \in 1..Len(x) : n + Len(uv) \in 1..Len(vx) /\ vx[n + Len(uv)] = x[n]
    BY <1>2, <1>5, ConcatAt
  <2>2. ms = vx
    BY <1>1
  <2> HIDE DEF vx
  <2>3. 1 \in 1..Len(x)
    BY <1>3
  <2>4. 1 + Len(uv) \in 1..Len(vx) /\ vx[1 + Len(uv)] = x[1]
    BY <2>1, <2>3
  <2> QED
    BY <1>3, <2>1, <2>2, <2>4
<1>7. 1 + Len(u) \in 1..Len(ms) /\ ms[1 + Len(u)] = v[1] /\ 1 + Len(u) < 1 + Len(uv)
  <2>1. 1 + Len(u) \in 1..Len(uv) /\ uv[1 + Len(u)] = v[1] /\ 1 + Len(u) < 1 + Len(uv)
    BY <1>5
  <2> QED
    BY <1>6, <2>1
<1>8. \A n \in 1..Len(u) : n < 1 + Len(u) /\ n \in 1..Len(ms) /\ ms[n] = u[n]
  <2> SUFFICES ASSUME NEW n \in 1..Len(u)
               PROVE  n < 1 + Len(u) /\ n \in 1..Len(ms) /\ ms[n] = u[n]
    OBVIOUS
  <2>1. n \in 1..Len(uv) /\ uv[n] = u[n] /\ n < 1 + Len(u)
    BY <1>5
  <2> QED
    BY <1>6, <2>1
<1>9. \E p, q \in 1..Len(ms) :
        /\ p < q /\ ms[p] = v[1] /\ ms[q] = x[1]
        /\ \A n \in 1..Len(u) : n < p /\ n \in 1..Len(ms) /\ ms[n] = u[n]
  BY <1>6, <1>7, <1>8
<1> QED
  BY <1>9 DEF ms

LEMMA ContentServe ==
    ASSUME SyncTypes, NEW s \in Sides, NEW o \in Sides, o = Other(s), Content(s, o), Content(o, s),
           NEW i \in Items, Serve(s, i), On(Way(s)') = On(Way(s)) \cup On(PageSaid(s, i)),
           Way(o)' = Way(o)
    PROVE  Content(s, o)' /\ Content(o, s)'
<1>1. s # o
  BY TwoSides
<1>2. /\ i \in DOMAIN owed[s] /\ DOMAIN owed'[s] \subseteq DOMAIN owed[s] /\ owed'[o] = owed[o]
      /\ said' = said /\ asked' = asked /\ offered' = offered
  BY <1>1 DEF Serve, SyncTypes
<1>3. i \in Live \cup asked[o]
  BY <1>2 DEF Content
<1>4. ASSUME NEW m \in On(PageSaid(s, i)) PROVE Telling(m, s, o)'
  <2>1. /\ KeysFrame(s, i).tells = "keys" /\ KeysFrame(s, i).keys = stock[s].keys[i] /\ KeysFrame(s, i).item = i
        /\ EntriesFrame(s, i).tells = "entries" /\ BlobsFrame(s, i).tells = "blobs"
    BY DEF KeysFrame, EntriesFrame, BlobsFrame
  <2>2. \/ m = KeysFrame(s, i) /\ stock[s].keys[i] # {}
        \/ m = EntriesFrame(s, i) \/ m = BlobsFrame(s, i)
    BY <1>4, PageOn
  <2>3. \/ m.tells = "keys" /\ m.keys # {} /\ m.item = i
        \/ m.tells = "entries" \/ m.tells = "blobs"
    BY <2>1, <2>2
  <2> QED
    BY <1>2, <1>3, <2>3 DEF Telling
<1> DEFINE new == On(PageSaid(s, i))
<1>5. Content(s, o)'
  <2>1. On(Way(s)') \subseteq On(Way(s)) \cup new /\ \A m \in new : Telling(m, s, o)'
    BY <1>4
  <2> HIDE DEF new
  <2> QED
    BY <1>2, <2>1, ContentGrows
<1>6. Content(o, s)'
  BY <1>1, <1>2 DEF Content, Telling
<1> QED
  BY <1>5, <1>6

-----------------------------------------------------------------------------
(* What a side holds covers what it said and what it had.                  *)
Keeps(k, t) ==
  /\ \A i \in Items : t.entries[i] \subseteq k.entries[i] /\ t.keys[i] \subseteq k.keys[i]
  /\ t.blobs \subseteq k.blobs
Store(a) ==
  /\ Keeps(stock[a], said[a]) /\ Keeps(stock[a], had[a])
  /\ \A i \in Items : stock[a].entries[i] \cap Expired \subseteq said[a].entries[i] \cup {Top}

LEMMA KeepsAll ==
    ASSUME NEW k, NEW t, NEW u, Keeps(k, t), Keeps(t, u)
    PROVE  Keeps(k, u) /\ Keeps(k, k)
  BY DEF Keeps

LEMMA StoreGrows ==
    ASSUME NEW a \in Sides, Store(a), Keeps(stock'[a], stock[a]),
           said'[a] \in {said[a], stock[a]}, had'[a] \in {had[a], stock[a]},
           \A i \in Items : stock'[a].entries[i] \cap Expired \subseteq stock[a].entries[i] \cup {Top}
    PROVE  Store(a)'
<1>1. Keeps(stock'[a], said[a]) /\ Keeps(stock'[a], had[a])
  BY KeepsAll DEF Store
<1>2. \A i \in Items : stock[a].entries[i] \cap Expired \subseteq said'[a].entries[i] \cup {Top}
  BY DEF Store
<1> QED
  BY <1>1, <1>2 DEF Store

(* From a position the next page serves what is above it, or stops below   *)
(* and more is owed.                                                       *)
LEMMA PageServes ==
    ASSUME NEW mine \in SUBSET (1..Top), NEW since \in Nat, NEW e \in mine, since < e, e \notin Expired,
           mine \cap Expired \subseteq {Top}, NEW page, page = PageOf(mine, since)
    PROVE  \/ e \in page \ Expired
           \/ page \ Expired # {} /\ Max(page) < e /\ Max(page) < Max(mine)
<1> SUFFICES ASSUME e \notin page
             PROVE  page \ Expired # {} /\ Max(page) < e /\ Max(page) < Max(mine)
  OBVIOUS
<1> DEFINE Below(f) == {g \in mine : since < g /\ g < f}
<1>1. page = {f \in mine : f > since /\ Cardinality(Below(f)) < PAGE}
  BY DEF PageOf
<1>2. Top \in Nat /\ PAGE \in Nat \ {0}
  BY SyncAssumption
<1>0. \A g \in mine : g \in Nat
  BY <1>2
<1>3. \A f : IsFiniteSet(Below(f)) /\ Cardinality(Below(f)) \in Nat
  <2>1. IsFiniteSet(1..Top)
    BY <1>2, FS_Interval
  <2>2. \A f : Below(f) \subseteq 1..Top
    OBVIOUS
  <2> QED
    BY <2>1, <2>2, FS_Subset, FS_CardinalityType
<1>4. ~(Cardinality(Below(e)) < PAGE)
  BY <1>1
<1>5. Below(e) # {}
  <2>1. Cardinality({}) = 0
    BY FS_EmptySet
  <2> QED
    BY <1>2, <1>4, <2>1
<1>6. PICK l \in Below(e) : \A g \in Below(e) : l <= g
  <2>1. Below(e) \subseteq Nat
    BY <1>0
  <2> HIDE DEF Below
  <2> QED
    BY <1>5, <2>1, LeastNumber
<1>7. Below(l) = {}
  <2> SUFFICES ASSUME NEW g \in Below(l) PROVE FALSE
    OBVIOUS
  <2>1. g \in Nat /\ l \in Nat /\ e \in Nat /\ g < l /\ l < e /\ g \in mine /\ since < g
    BY <1>0, <1>6
  <2>2. g \in Below(e)
    BY <2>1
  <2>3. l <= g
    BY <1>6, <2>2
  <2> QED
    BY <2>1, <2>3
<1>8. l \in page
  <2>1. Cardinality(Below(l)) = 0
    BY <1>7, FS_EmptySet
  <2>2. Cardinality(Below(l)) < PAGE
    BY <1>2, <2>1
  <2> QED
    BY <1>1, <1>6, <2>2
<1>9. l \notin Expired
  BY <1>2, <1>6
<1>10. ASSUME NEW f \in page PROVE f < e
  <2>1. f \in mine /\ Cardinality(Below(f)) < PAGE /\ f # e /\ f \in Nat /\ e \in Nat
    BY <1>1, <1>10, <1>2
  <2>2. ASSUME e < f PROVE FALSE
    <3>1. Below(e) \subseteq Below(f)
      <4> SUFFICES ASSUME NEW g \in Below(e) PROVE g \in Below(f)
        OBVIOUS
      <4>1. g \in Nat /\ g < e /\ g \in mine /\ since < g
        BY <1>0
      <4>2. g < f
        BY <2>1, <2>2, <4>1
      <4> QED
        BY <4>1, <4>2
    <3>2. Cardinality(Below(e)) <= Cardinality(Below(f))
      <4> HIDE DEF Below
      <4> QED
        BY <1>3, <3>1, FS_Subset
    <3> HIDE DEF Below
    <3> QED
      BY <1>2, <1>3, <1>4, <2>1, <3>2
  <2> QED
    BY <2>1, <2>2
<1>11. page # {} /\ page \in SUBSET (1..Top)
  BY <1>1, <1>8
<1>12. Max(page) \in page /\ Max(page) < e /\ Max(page) \in Nat
  BY <1>10, <1>11, MinMax
<1>13. e <= Max(mine) /\ Max(mine) \in Nat /\ e \in Nat
  BY MinMax
<1>14. Max(page) < Max(mine)
  BY <1>12, <1>13
<1> QED
  BY <1>8, <1>9, <1>12, <1>14

(* What a side was told of comes, as long as the session is good.          *)
Alive(a, b) == open \/ step[b].gotDone \/ \E m \in On(link[b]) : m.tells = "done"

Offers(a, b) ==
  Spoken("have", Way(a)) => offered[b] = HeldOf(said[a], Gens) \/ Spoken("earlier", Way(a))

RowOn(b, i, w) ==
  \E m \in On(Way(b)) : m.tells \in {"want", "wantEarlier"} /\ w \in m.rows /\ w[1] = i
Due(a, b, i, e) ==
  (\E w : RowOn(b, i, w) /\ w[2] < e) \/ (i \in DOMAIN owed[a] /\ owed[a][i] < e)
Asks(a, b, i) == (\E w : RowOn(b, i, w)) \/ (i \in DOMAIN owed[a] /\ i \notin keyed[a])
KeysOn(m, i) == m.tells = "keys" /\ m.item = i

(* A key more opens no less.                                               *)
LEMMA OpensMore ==
    ASSUME NEW h, NEW k, h \subseteq k, NEW i, NEW e, Opens(h, i, e)
    PROVE  Opens(k, i, e)
  BY DEF Opens

(* Entries on the way with their blob behind them, and its key before.     *)
Ahead(w, keys, i, e) ==
  \E p, q \in 1..Len(w) :
    /\ p < q /\ w[p].tells = "entries" /\ w[p].item = i /\ e \in w[p].entries
    /\ w[q].tells = "blobs" /\ <<i, e>> \in w[q].ids
    /\ Opens(keys, i, e) \/ \E k \in 1..Len(w) : k < p /\ KeysOn(w[k], i) /\ Opens(w[k].keys, i, e)

KeyedOnce(a, b, i) ==
  i \in keyed[a] =>
    \/ said[a].keys[i] \subseteq stock[b].keys[i]
    \/ \E m \in On(Way(a)) : KeysOn(m, i) /\ said[a].keys[i] \subseteq m.keys
KeysCome(a, b, i) ==
  \/ /\ said[a].entries[i] \subseteq had[b].entries[i]
     /\ ~(Cardinality(said[a].keys[i]) > Cardinality(had[b].keys[i]))
  \/ said[a].keys[i] \subseteq stock[b].keys[i]
  \/ Asks(a, b, i)
  \/ \E m \in On(Way(a)) : KeysOn(m, i) /\ said[a].keys[i] \subseteq m.keys
EntryComes(a, b, i, e) ==
  \/ e \in stock[b].entries[i]
  \/ Due(a, b, i, e)
  \/ \E m \in On(Way(a)) : m.tells = "entries" /\ m.item = i /\ e \in m.entries
BlobComes(a, b, i, e) ==
  \/ <<i, e>> \in stock[b].blobs
  \/ Due(a, b, i, e)
  \/ <<i, e>> \in wanted[b] /\ \E m \in On(Way(a)) : m.tells = "blobs" /\ <<i, e>> \in m.ids
  \/ Ahead(Way(a), stock[b].keys[i], i, e)

Unspoilt(a, b, i) ==
  said[a].entries[i] # {} /\ said[a].entries[i] \cap Expired = {} /\ Comparable(had[b], said[a], i)
HasBlob(a, i, e) == Opens(said[a].keys[i], i, e) /\ <<i, e>> \in Attached \cap said[a].blobs
Comes(a, b, i) ==
  /\ KeyedOnce(a, b, i)
  /\ Unspoilt(a, b, i) =>
      /\ KeysCome(a, b, i)
      /\ \A e \in said[a].entries[i] \ had[b].entries[i] :
            EntryComes(a, b, i, e) /\ (HasBlob(a, i, e) => BlobComes(a, b, i, e))
Flow(a, b) == step[b].gotHave => \A i \in Items : Comes(a, b, i)
Deal(a, b) == Alive(a, b) => Offers(a, b) /\ Flow(a, b)

(* m was taken by b, and what it held b holds.                             *)
Lands(m, b) ==
  /\ m.tells = "keys" => m.keys \subseteq stock'[b].keys[m.item]
  /\ m.tells = "entries" => m.entries \subseteq stock'[b].entries[m.item]
  /\ m.tells = "blobs" => m.ids \cap wanted[b] \subseteq stock'[b].blobs

LEMMA ComesKept ==
    ASSUME NEW a \in Sides, NEW b \in Sides, NEW i \in Items, Comes(a, b, i),
           said'[a] = said[a], had'[b] = had[b], Keeps(stock'[b], stock[b]),
           wanted[b] \subseteq wanted'[b] \cup stock'[b].blobs,
           \A e : Due(a, b, i, e) => Due(a, b, i, e)', Asks(a, b, i) => Asks(a, b, i)',
           i \in keyed'[a] => i \in keyed[a],
           \A m \in On(Way(a)) : m \in On(Way(a)') \/ Lands(m, b),
           \A e : <<i, e>> \in Attached /\ Ahead(Way(a), stock[b].keys[i], i, e) => BlobComes(a, b, i, e)'
    PROVE  Comes(a, b, i)'
<1>1. /\ stock[b].keys[i] \subseteq stock'[b].keys[i] /\ stock[b].entries[i] \subseteq stock'[b].entries[i]
      /\ stock[b].blobs \subseteq stock'[b].blobs
  BY DEF Keeps
<1>2. KeyedOnce(a, b, i)'
  BY <1>1 DEF Comes, KeyedOnce, KeysOn, Lands
<1>3. Unspoilt(a, b, i)' <=> Unspoilt(a, b, i)
  BY DEF Unspoilt
<1>4. KeysCome(a, b, i) => KeysCome(a, b, i)'
  BY <1>1 DEF KeysCome, KeysOn, Lands
<1>5. \A e : EntryComes(a, b, i, e) => EntryComes(a, b, i, e)'
  BY <1>1 DEF EntryComes, Lands
<1>6. ASSUME NEW e, BlobComes(a, b, i, e), HasBlob(a, i, e) PROVE BlobComes(a, b, i, e)'
  <2>1. CASE <<i, e>> \in stock[b].blobs \/ Due(a, b, i, e)
    BY <1>1, <2>1 DEF BlobComes
  <2>2. ASSUME NEW m \in On(Way(a)), m.tells = "blobs", <<i, e>> \in m.ids, <<i, e>> \in wanted[b]
        PROVE  BlobComes(a, b, i, e)'
    BY <2>2 DEF BlobComes, Lands
  <2>3. CASE Ahead(Way(a), stock[b].keys[i], i, e)
    BY <1>6, <2>3 DEF HasBlob
  <2> QED
    BY <1>6, <2>1, <2>2, <2>3 DEF BlobComes
<1>7. \A e : HasBlob(a, i, e)' <=> HasBlob(a, i, e)
  BY DEF HasBlob
<1> QED
  BY <1>2, <1>3, <1>4, <1>5, <1>6, <1>7 DEF Comes

LEMMA WayGrows ==
    ASSUME NEW w \in Seq(Frames), NEW ms \in Seq(Frames), NEW v, v = w \o ms
    PROVE  /\ On(v) = On(w) \cup On(ms)
           /\ \A i, e, k : Ahead(w, k, i, e) => Ahead(v, k, i, e)
<1>1. \A n \in 1..Len(w) : n \in 1..Len(v) /\ v[n] = w[n]
  BY ConcatAt
<1>2. ASSUME NEW i, NEW e, NEW k, Ahead(w, k, i, e) PROVE Ahead(v, k, i, e)
  <2>1. PICK p \in 1..Len(w), q \in 1..Len(w) :
          /\ p < q /\ w[p].tells = "entries" /\ w[p].item = i /\ e \in w[p].entries
          /\ w[q].tells = "blobs" /\ <<i, e>> \in w[q].ids
          /\ Opens(k, i, e) \/ \E n \in 1..Len(w) : n < p /\ KeysOn(w[n], i) /\ Opens(w[n].keys, i, e)
    BY <1>2 DEF Ahead
  <2>2. p \in 1..Len(v) /\ q \in 1..Len(v) /\ v[p] = w[p] /\ v[q] = w[q]
    BY <1>1
  <2>3. Opens(k, i, e) \/ \E n \in 1..Len(v) : n < p /\ KeysOn(v[n], i) /\ Opens(v[n].keys, i, e)
    BY <1>1, <2>1
  <2> QED
    BY <2>1, <2>2, <2>3 DEF Ahead
<1>3. On(v) = On(w) \cup On(ms)
  BY ConcatAt
<1> QED
  BY <1>2, <1>3

LEMMA AheadTook ==
    ASSUME NEW w \in Seq(Frames), NEW m, NEW v, Took(m, w, v),
           NEW i, NEW e, NEW h, NEW k, Ahead(w, h, i, e), h \subseteq k,
           KeysOn(m, i) => m.keys \subseteq k
    PROVE  \/ Ahead(v, k, i, e)
           \/ /\ m.tells = "entries" /\ m.item = i /\ e \in m.entries /\ Opens(h, i, e)
              /\ \E x \in On(v) : x.tells = "blobs" /\ <<i, e>> \in x.ids
<1>1. /\ Len(w) \in Nat \ {0} /\ Len(v) = Len(w) - 1 /\ m = w[1]
      /\ \A n \in 1..Len(v) : v[n] = w[n + 1]
  BY DEF Took
<1>2. \A n \in 1..Len(w) : n # 1 => n - 1 \in 1..Len(v) /\ v[n - 1] = w[n]
  BY <1>1
<1>3. PICK p \in 1..Len(w), q \in 1..Len(w) :
        /\ p < q /\ w[p].tells = "entries" /\ w[p].item = i /\ e \in w[p].entries
        /\ w[q].tells = "blobs" /\ <<i, e>> \in w[q].ids
        /\ Opens(h, i, e) \/ \E n \in 1..Len(w) : n < p /\ KeysOn(w[n], i) /\ Opens(w[n].keys, i, e)
  BY DEF Ahead
<1>4. q # 1 /\ q - 1 \in 1..Len(v) /\ v[q - 1] = w[q]
  BY <1>1, <1>2, <1>3
<1>5. CASE p = 1
  <2>1. Opens(h, i, e)
    BY <1>1, <1>3, <1>5
  <2>2. v[q - 1] \in On(v)
    BY <1>4 DEF On
  <2> QED
    BY <1>1, <1>3, <1>4, <1>5, <2>1, <2>2
<1>6. CASE p # 1
  <2>1. p - 1 \in 1..Len(v) /\ v[p - 1] = w[p] /\ p - 1 < q - 1
    BY <1>1, <1>2, <1>3, <1>6
  <2>2. Opens(k, i, e) \/ \E n \in 1..Len(v) : n < p - 1 /\ KeysOn(v[n], i) /\ Opens(v[n].keys, i, e)
    <3>1. CASE Opens(h, i, e)
      BY <3>1, OpensMore
    <3>2. ASSUME NEW n \in 1..Len(w), n < p, KeysOn(w[n], i), Opens(w[n].keys, i, e)
          PROVE  \/ Opens(k, i, e)
                 \/ \E x \in 1..Len(v) : x < p - 1 /\ KeysOn(v[x], i) /\ Opens(v[x].keys, i, e)
      <4>1. CASE n = 1
        <5>1. m.keys \subseteq k /\ Opens(m.keys, i, e)
          BY <1>1, <3>2, <4>1
        <5> QED
          BY <5>1, OpensMore
      <4>2. CASE n # 1
        <5>1. n - 1 \in 1..Len(v) /\ v[n - 1] = w[n] /\ n - 1 < p - 1
          BY <1>1, <1>2, <3>2, <4>2
        <5> QED
          BY <3>2, <5>1
      <4> QED
        BY <4>1, <4>2
    <3> QED
      BY <1>3, <3>1, <3>2
  <2>3. Ahead(v, k, i, e)
    BY <1>3, <1>4, <2>1, <2>2 DEF Ahead
  <2> QED
    BY <2>3
<1> QED
  BY <1>5, <1>6

LEMMA WayTaken ==
    ASSUME NEW w \in Seq(Frames), NEW m, NEW v, Took(m, w, v), m.tells \notin {"keys", "entries", "blobs"}
    PROVE  /\ On(v) \subseteq On(w) /\ \A x \in On(w) : x = m \/ x \in On(v)
           /\ \A i, e, k : Ahead(w, k, i, e) => Ahead(v, k, i, e)
<1>1. On(v) \subseteq On(w) /\ \A x \in On(w) : x = m \/ x \in On(v)
  BY DEF Took
<1>2. \A i, e, k : Ahead(w, k, i, e) => Ahead(v, k, i, e)
  BY AheadTook DEF KeysOn
<1> QED
  BY <1>1, <1>2

(* Only a session that is open carries more; what is taken was first.      *)
LEMMA LinkMoves ==
    ASSUME SyncNext
    PROVE  (open' => open) /\ (link' = link \/ open \/ \E s \in Sides, t \in Tells : Arrives(s, t))
<1>1. CASE SessionGone
  BY <1>1 DEF SessionGone
<1>2. CASE Over
  BY <1>2 DEF Over, syncVars
<1>3. ASSUME NEW s \in Sides, SyncOf(s)
      PROVE  (open' => open) /\ (link' = link \/ open \/ \E t \in Tells : Arrives(s, t))
  <2>1. CASE Greet(s)
    BY <2>1 DEF Greet
  <2>2. ASSUME NEW t \in Tells, Arrives(s, t)
        PROVE  (open' => open) /\ \E x \in Tells : Arrives(s, x)
    BY <2>2 DEF Arrives
  <2>3. CASE \/ TakeHello(s) \/ RefuseHello(s) \/ TakeEarlier(s) \/ TakeHave(s) \/ TakeWantEarlier(s)
             \/ TakeWant(s)
    <3>1. \E t \in Tells : Arrives(s, t)
      BY <2>3 DEF Tells, TakeHello, RefuseHello, TakeEarlier, TakeHave, TakeWantEarlier, TakeWant
    <3> QED
      BY <2>2, <3>1
  <2>4. CASE TakeKeys(s) \/ TakeEntries(s) \/ RefuseEntries(s) \/ TakeBlobs(s) \/ TakeDone(s)
    <3>1. \E t \in Tells : Arrives(s, t)
      BY <2>4 DEF Tells, TakeKeys, TakeEntries, RefuseEntries, TakeBlobs, TakeDone
    <3> QED
      BY <2>2, <3>1
  <2>5. CASE SayDone(s)
    BY <2>5 DEF SayDone
  <2>6. CASE Send(s)
    BY <2>6 DEF Send
  <2>7. CASE Finish(s) \/ LinkLost(s) \/ CloseFailed(s)
    BY <2>7 DEF Finish, LinkLost, CloseFailed
  <2>8. CASE \E i \in Items : Serve(s, i) \/ Fetches(s, i)
    BY <2>8 DEF Serve, Fetches
  <2> QED
    BY <1>3, <2>1, <2>3, <2>4, <2>5, <2>6, <2>7, <2>8 DEF SyncOf
<1> QED
  BY <1>1, <1>2, <1>3 DEF SyncNext

(* A session that is good was good before.                                 *)
LEMMA AliveBefore ==
    ASSUME SyncTypes, SyncNext, NEW a \in Sides, NEW b \in Sides, Alive(a, b)'
    PROVE  Alive(a, b)
<1>1. (open' => open) /\ (link' = link \/ open \/ \E s \in Sides, t \in Tells : Arrives(s, t))
  BY LinkMoves
<1> DEFINE Ended(l) == \E m \in On(l) : m.tells = "done"
<1>2. step'[b].gotDone => step[b].gotDone \/ Ended(link[b])
  <2> SUFFICES ASSUME step'[b].gotDone, ~step[b].gotDone PROVE Ended(link[b])
    OBVIOUS
  <2>1. step \in [Sides -> Steps]
    BY DEF SyncTypes
  <2>2. step' # step
    OBVIOUS
  <2>3. PICK s \in Sides : SyncOf(s)
    BY <2>2 DEF SyncNext, SessionGone, Over, syncVars
  <2>4. TakeDone(s)
    <3>1. \A p : step' # [step EXCEPT ![s].phase = p]
      BY <2>1 DEF Steps
    <3>2. step' # [step EXCEPT ![s].sentDone = TRUE]
      BY <2>1 DEF Steps
    <3>3. step' # [step EXCEPT ![s] = Trades([@ EXCEPT !.gotHave = TRUE])]
      BY <2>1 DEF Steps, Trades
    <3>4. step' # [step EXCEPT ![s] = Trades([@ EXCEPT !.gotWant = TRUE])]
      BY <2>1 DEF Steps, Trades
    <3> QED
      BY <2>2, <2>3, <3>1, <3>2, <3>3, <3>4
         DEF SyncOf, Greet, TakeHello, RefuseHello, TakeEarlier,
             TakeHave, TakeWantEarlier, TakeWant, TakeKeys, TakeEntries, RefuseEntries, TakeBlobs,
             SayDone, Send, Finish, LinkLost, CloseFailed, Serve, Fetches, Fails
  <2>5. s = b
    BY <2>1, <2>4 DEF TakeDone, Steps
  <2>6. link[b] \in Seq(Frames) /\ link[b] # <<>> /\ Head(link[b]).tells = "done"
    BY <2>4, <2>5 DEF TakeDone, Arrives, SyncTypes
  <2>7. Head(link[b]) = link[b][1] /\ 1 \in 1..Len(link[b])
    BY <2>6
  <2> QED
    BY <2>6, <2>7 DEF On
<1>3. Ended(link'[b]) => open \/ Ended(link[b])
  <2>1. link[b] \in Seq(Frames)
    BY DEF SyncTypes
  <2>2. link'[b] = link[b] \/ open \/ (link[b] # <<>> /\ link'[b] = Tail(link[b]))
    BY <1>1 DEF SyncTypes, Arrives
  <2>3. On(<<>>) = {}
    BY DEF On
  <2>4. link[b] # <<>> => On(Tail(link[b])) \subseteq On(link[b])
    <3> SUFFICES ASSUME link[b] # <<>>, NEW n \in 1..Len(Tail(link[b]))
                 PROVE  Tail(link[b])[n] \in On(link[b])
      BY DEF On
    <3>1. Tail(link[b])[n] = link[b][n + 1] /\ n + 1 \in 1..Len(link[b])
      BY <2>1
    <3> QED
      BY <3>1 DEF On
  <2> QED
    BY <2>2, <2>3, <2>4
<1> QED
  BY <1>1, <1>2, <1>3 DEF Alive

(* What is promised stays promised while nothing of it is taken.           *)
LEMMA DealKept ==
    ASSUME NEW a \in Sides, NEW b \in Sides, Deal(a, b), Alive(a, b)' => Alive(a, b),
           step'[b].gotHave = step[b].gotHave, said'[a] = said[a], had'[b] = had[b],
           offered'[b] = offered[b], Keeps(stock'[b], stock[b]), wanted'[b] = wanted[b],
           owed'[a] = owed[a], keyed'[a] = keyed[a],
           \A m \in On(Way(b)) : m \in On(Way(b)') \/ m.tells \notin {"want", "wantEarlier"},
           \A m \in On(Way(a)) : m \in On(Way(a)') \/ m.tells \notin {"earlier", "keys", "entries", "blobs"},
           \A m \in On(Way(a)') : m \in On(Way(a)) \/ m.tells # "have",
           \A i, e, k : Ahead(Way(a), k, i, e) => Ahead(Way(a)', k, i, e)
    PROVE  Deal(a, b)'
<1> SUFFICES ASSUME Alive(a, b)' PROVE Offers(a, b)' /\ Flow(a, b)'
  BY DEF Deal
<1>1. Offers(a, b) /\ Flow(a, b)
  BY DEF Deal
<1>2. Offers(a, b)'
  BY <1>1 DEF Offers, Spoken
<1>3. ASSUME NEW i \in Items, Comes(a, b, i) PROVE Comes(a, b, i)'
  <2>1. \A w : RowOn(b, i, w) => RowOn(b, i, w)'
    BY DEF RowOn
  <2>2. (\A e : Due(a, b, i, e) => Due(a, b, i, e)') /\ (Asks(a, b, i) => Asks(a, b, i)')
    BY <2>1 DEF Due, Asks
  <2>3. \A m \in On(Way(a)) : m \in On(Way(a)') \/ Lands(m, b)
    BY DEF Lands
  <2>4. stock[b].keys[i] \subseteq stock'[b].keys[i]
    BY DEF Keeps
  <2>5. \A e : Ahead(Way(a), stock[b].keys[i], i, e) => Ahead(Way(a)', stock'[b].keys[i], i, e)
    <3>1. ASSUME NEW w, NEW e, Ahead(w, stock[b].keys[i], i, e)
          PROVE  Ahead(w, stock'[b].keys[i], i, e)
      <4> DEFINE x == stock[b].keys[i]
                 y == stock'[b].keys[i]
      <4>1. x \subseteq y /\ Ahead(w, x, i, e)
        BY <2>4, <3>1
      <4> HIDE DEF x, y
      <4>2. Ahead(w, y, i, e)
        BY ONLY <4>1, OpensMore DEF Ahead
      <4> QED
        BY <4>2 DEF y
    <3> QED
      BY <3>1
  <2>6. \A e : <<i, e>> \in Attached /\ Ahead(Way(a), stock[b].keys[i], i, e) => BlobComes(a, b, i, e)'
    BY <2>5 DEF BlobComes
  <2> QED
    BY <1>3, <2>2, <2>3, <2>6, ComesKept
<1> QED
  BY <1>1, <1>2, <1>3 DEF Flow

LEMMA DealTakeHello ==
    ASSUME SyncTypes, NEW s \in Sides, NEW o \in Sides, o = Other(s), Turns(s, o),
           offered'[o] = {}, ~step'[o].gotHave, said'[s] = stock[s], Way(s)' = Way(s) \o HaveSaid(s)
    PROVE  Deal(s, o)'
<1> DEFINE g == [tells |-> "earlier", rows |-> Held(s, Gens)]
           h == [tells |-> "have", rows |-> Held(s, Live)]
<1>1. g \in Frames /\ h \in Frames /\ g.tells = "earlier" /\ h.tells = "have"
  BY HeldTyped DEF Frames, Items
<1>2. HaveSaid(s) = Ifs(Held(s, Gens) # {}, g) \o <<h>>
  BY DEF HaveSaid
<1> DEFINE c == Held(s, Gens) # {}
<1>8. c \in BOOLEAN
  OBVIOUS
<1> HIDE DEF g, h
<1>3. HaveSaid(s) \in Seq(Frames) /\ On(HaveSaid(s)) = {x \in {g} : Held(s, Gens) # {}} \cup {h}
  <2>1. Rank(g) < Rank(h)
    BY <1>1, RankIs
  <2> DEFINE ms == HaveSaid(s)
  <2>2. ms = Ifs(c, g) \o <<h>>
    BY <1>2
  <2> HIDE DEF c, ms
  <2>3. ms \in Seq(Frames) /\ On(ms) = {x \in {g} : c} \cup {h}
    <3> DEFINE u == Ifs(c, g)
               x == <<h>>
    <3>1. u \in Seq(Frames) /\ On(u) = {y \in {g} : c}
      BY <1>1, <1>8, IfMessage
    <3>2. x \in Seq(Frames) /\ On(x) = {h}
      BY <1>1, <1>8, OneMessage
    <3>3. ms = u \o x
      BY <2>2
    <3> HIDE DEF u, x
    <3> QED
      BY <3>1, <3>2, <3>3, ConcatAt
  <2> QED
    BY <2>3 DEF c, ms
<1>4. On(Way(s)') = On(Way(s)) \cup On(HaveSaid(s))
  BY <1>3, WayTyped, ConcatAt
<1>5. Held(s, Gens) = HeldOf(stock[s], Gens)
  BY DEF Held, HeldOf
<1>6. CASE Held(s, Gens) # {}
  BY <1>1, <1>3, <1>4, <1>6 DEF Deal, Offers, Flow, Spoken
<1>7. CASE Held(s, Gens) = {}
  BY <1>5, <1>7 DEF Deal, Offers, Flow
<1> QED
  BY <1>6, <1>7

LEMMA DealTakeEarlier ==
    ASSUME NEW s \in Sides, NEW o \in Sides, ~step'[s].gotHave, offered'[s] = HeldOf(said'[o], Gens)
    PROVE  Deal(o, s)'
  BY DEF Deal, Offers, Flow

(* From where it asks, a side lacks nothing of a copy it can compare.      *)
LEMMA LacksAbove ==
    ASSUME NEW mine \in SUBSET (1..Top), NEW theirs \in SUBSET (1..Top), theirs # {}, Gapless(mine),
           NEW e \in theirs \ mine, NEW h, h.first = Min(theirs)
    PROVE  /\ Since(mine, h) < e
           /\ (mine # {} => Min(mine) <= Min(theirs)) => Reached(mine) < e
<1>1. e \in 1..Top /\ Min(theirs) <= e /\ Min(theirs) \in 1..Top
  BY MinMax
<1>2. CASE mine = {}
  BY <1>1, <1>2 DEF Since, Reached
<1>3. ASSUME mine # {}, Min(mine) <= Min(theirs) PROVE Max(mine) < e
  <2>1. Min(mine) \in 1..Top /\ Max(mine) \in 1..Top /\ mine = Min(mine)..Max(mine)
    BY <1>3, MinMax DEF Gapless
  <2>2. e \notin Min(mine)..Max(mine)
    BY <2>1
  <2> QED
    BY <1>1, <1>3, <2>1, <2>2
<1>4. CASE mine # {}
  <2>1. Min(mine) \in 1..Top
    BY <1>4, MinMax
  <2> QED
    BY <1>1, <1>3, <1>4, <2>1 DEF Since, Reached
<1> QED
  BY <1>2, <1>4

LEMMA DealTakeHave ==
    ASSUME SyncTypes, NEW s \in Sides, NEW o \in Sides, o = Other(s),
           NEW m, Took(m, Way(o), Way(o)'), m.tells = "have", m.rows = HeldOf(said[o], Live),
           offered[s] = HeldOf(said[o], Gens), keyed'[o] = {}, said'[o] = said[o],
           had'[s] = stock[s], stock'[s] = stock[s], Way(s)' = Way(s) \o WantSaid(s, m.rows)
    PROVE  Deal(o, s)'
<1> DEFINE g == [tells |-> "wantEarlier", rows |-> WantsEarlier(s)]
           w == [tells |-> "want", rows |-> WantsLive(s, m.rows)]
<1>1. m.rows \subseteq Row
  BY FrameFields DEF Took
<1>2. g \in Frames /\ w \in Frames /\ g.tells = "wantEarlier" /\ w.tells = "want"
      /\ g.rows = WantsEarlier(s) /\ w.rows = WantsLive(s, m.rows)
  BY <1>1, WantsTyped DEF Frames
<1>3. WantSaid(s, m.rows) = Ifs(WantsEarlier(s) # {}, g) \o <<w>>
  BY DEF WantSaid
<1> DEFINE c == WantsEarlier(s) # {}
<1>10. c \in BOOLEAN
  OBVIOUS
<1> HIDE DEF g, w
<1>4. /\ WantSaid(s, m.rows) \in Seq(Frames)
      /\ On(WantSaid(s, m.rows)) = {x \in {g} : WantsEarlier(s) # {}} \cup {w}
  <2>1. Rank(g) < Rank(w)
    BY <1>2, RankIs
  <2> DEFINE ms == WantSaid(s, m.rows)
  <2>2. ms = Ifs(c, g) \o <<w>>
    BY <1>3
  <2> HIDE DEF c, ms
  <2>3. ms \in Seq(Frames) /\ On(ms) = {x \in {g} : c} \cup {w}
    <3> DEFINE u == Ifs(c, g)
               x == <<w>>
    <3>1. u \in Seq(Frames) /\ On(u) = {y \in {g} : c}
      BY <1>2, <1>10, IfMessage
    <3>2. x \in Seq(Frames) /\ On(x) = {w}
      BY <1>2, <1>10, OneMessage
    <3>3. ms = u \o x
      BY <2>2
    <3> HIDE DEF u, x
    <3> QED
      BY <3>1, <3>2, <3>3, ConcatAt
  <2> QED
    BY <2>3 DEF c, ms
<1>5. On(Way(s)') = On(Way(s)) \cup On(WantSaid(s, m.rows))
  BY <1>4, WayTyped, ConcatAt
<1>6. ~Spoken("have", Way(o)')
  <2>1. Within(Way(o)', 3, 6)
    BY RankIs DEF Took
  <2> QED
    BY <2>1, OnWithin, RankIs DEF Spoken
<1>7. ASSUME NEW x \in WantsLive(s, m.rows) \cup WantsEarlier(s) PROVE RowOn(s, x[1], x)'
  <2>1. \E y \in On(Way(s)') : y.tells \in {"want", "wantEarlier"} /\ x \in y.rows
    BY <1>2, <1>4, <1>5, <1>7
  <2> QED
    BY <2>1 DEF RowOn
<1>8. ASSUME NEW i \in Items, Unspoilt(o, s, i)'
      PROVE  /\ KeysCome(o, s, i)'
             /\ \A e \in said[o].entries[i] \ stock[s].entries[i] : Due(o, s, i, e)'
  <2> DEFINE theirs == said[o].entries[i]
             mine == stock[s].entries[i]
             n == Cardinality(said[o].keys[i])
             k == Cardinality(stock[s].keys[i])
             h == [item |-> i, life |-> said[o].life[i], first |-> Min(theirs), last |-> Max(theirs),
                   epochs |-> n]
  <2>1. /\ theirs # {} /\ Gapless(mine) /\ (i \in Live => stock[s].life[i] \in {0, said[o].life[i]})
        /\ (i \in Gens /\ mine # {} => Min(mine) <= Min(theirs))
    BY <1>8 DEF Unspoilt, Comparable
  <2>2. theirs \in SUBSET (1..Top) /\ mine \in SUBSET (1..Top)
    BY DEF SyncTypes, Stock
  <2>3. /\ (i \in Live => h \in HeldOf(said[o], Live)) /\ (i \in Gens => h \in HeldOf(said[o], Gens))
        /\ h.item = i /\ h.life = said[o].life[i] /\ h.first = Min(theirs) /\ h.last = Max(theirs)
        /\ h.epochs = n
    BY <2>1 DEF HeldOf
  <2>4. n \in Nat /\ k \in Nat
    <3>1. IsFiniteSet(stock[s].keys[i])
      BY DEF SyncTypes
    <3>2. h \in Row
      BY <1>1, <2>3 DEF Items, SyncTypes
    <3> QED
      BY <3>1, <3>2, FS_CardinalityType DEF Row
  <2> HIDE DEF h
  <2>5. ASSUME NEW since \in Nat, \A e \in theirs \ mine : since < e,
               h.last > since \/ h.epochs > k => RowOn(s, i, <<i, since>>)'
        PROVE  KeysCome(o, s, i)' /\ \A e \in theirs \ mine : Due(o, s, i, e)'
    <3>0. /\ \A e \in theirs : e <= Max(theirs) /\ e \in Nat
          /\ Max(theirs) \in Nat
      <4> HIDE DEF theirs
      <4> QED
        BY <2>1, <2>2, MinMax
    <3>1. CASE h.last > since \/ h.epochs > k
      <4>1. \A e \in theirs \ mine : Due(o, s, i, e)'
        BY <2>5, <3>1 DEF Due
      <4>2. Asks(o, s, i)'
        BY <2>5, <3>1 DEF Asks
      <4> QED
        BY <4>1, <4>2 DEF KeysCome
    <3>2. CASE ~(h.last > since \/ h.epochs > k)
      <4>1. n <= k /\ Max(theirs) <= since
        <5> QED
          BY <2>3, <2>4, <2>5, <3>0, <3>2
      <4>2. theirs \ mine = {}
        <5> SUFFICES ASSUME NEW e \in theirs \ mine PROVE FALSE
          OBVIOUS
        <5>1. since < e
          BY <2>5
        <5>2. e <= Max(theirs) /\ Max(theirs) \in Nat /\ e \in Nat
          BY <3>0
        <5> QED
          BY <2>5, <4>1, <5>1, <5>2
      <4>3. theirs \subseteq mine /\ ~(n > k)
        BY <2>4, <4>1, <4>2
      <4>4. said'[o].entries[i] \subseteq had'[s].entries[i]
            /\ ~(Cardinality(said'[o].keys[i]) > Cardinality(had'[s].keys[i]))
        BY <4>3
      <4>5. KeysCome(o, s, i)'
        BY <4>4 DEF KeysCome
      <4> QED
        BY <4>2, <4>5
    <3> QED
      BY <3>1, <3>2
  <2>6. CASE i \in Live
    <3>1. h \in m.rows /\ h \in Row /\ Since(mine, h) \in Nat
      BY <1>1, <2>3, <2>6, SinceTyped
    <3>2. \A e \in theirs \ mine : Since(mine, h) < e
      BY <2>1, <2>2, <2>3, LacksAbove
    <3>3. h.last > Since(mine, h) \/ h.epochs > k => <<i, Since(mine, h)>> \in WantsLive(s, m.rows)
      <4> SUFFICES ASSUME h.last > Since(mine, h) \/ h.epochs > k
                   PROVE  <<h.item, Since(stock[s].entries[h.item], h)>> \in WantsLive(s, m.rows)
        BY <2>3
      <4>1. /\ stock[s].life[h.item] \in {0, h.life}
            /\ \/ h.last > Since(stock[s].entries[h.item], h)
               \/ h.epochs > Cardinality(stock[s].keys[h.item])
        BY <2>1, <2>3, <2>6
      <4> QED
        BY <3>1, <4>1 DEF WantsLive
    <3> PICK since \in Nat : since = Since(mine, h)
      BY <3>1
    <3>4. h.last > since \/ h.epochs > k => <<i, since>> \in WantsLive(s, m.rows)
      BY <3>3
    <3>5. since \in Nat /\ \A e \in theirs \ mine : since < e
      BY <3>1, <3>2
    <3>6. <<i, since>>[1] = i
      OBVIOUS
    <3>7. h.last > since \/ h.epochs > k => RowOn(s, i, <<i, since>>)'
      BY <1>7, <3>4, <3>6
    <3> QED
      BY <2>5, <3>5, <3>7
  <2>7. CASE i \in Gens
    <3>1. h \in offered[s] /\ Reached(mine) \in Nat
      BY <2>2, <2>3, <2>7, ReachedTyped
    <3>2. \A e \in theirs \ mine : Reached(mine) < e
      BY <2>1, <2>2, <2>3, <2>7, LacksAbove
    <3>3. h.last > Reached(mine) \/ h.epochs > k => <<i, Reached(mine)>> \in WantsEarlier(s)
      BY <2>3, <3>1 DEF WantsEarlier
    <3>4. h.last > Reached(mine) \/ h.epochs > k => RowOn(s, i, <<i, Reached(mine)>>)'
      BY <1>7, <3>3
    <3> QED
      BY <2>5, <3>1, <3>2, <3>4
  <2> QED
    BY <2>6, <2>7 DEF Items
<1>9. ASSUME NEW i \in Items PROVE Comes(o, s, i)'
  <2>1. KeyedOnce(o, s, i)'
    BY DEF KeyedOnce
  <2>2. \A e : Due(o, s, i, e)' => EntryComes(o, s, i, e)' /\ BlobComes(o, s, i, e)'
    BY DEF EntryComes, BlobComes
  <2> QED
    BY <1>8, <2>1, <2>2 DEF Comes
<1> QED
  BY <1>6, <1>9 DEF Deal, Offers, Flow

LEMMA DealTakeWants ==
    ASSUME SyncTypes, NEW s \in Sides, NEW o \in Sides, Deal(s, o), Alive(s, o)' => Alive(s, o),
           NEW m, Took(m, Way(o), Way(o)'), m.tells \in {"want", "wantEarlier"}, Way(s)' = Way(s),
           \A i \in DOMAIN owed[s] : owed'[s][i] = owed[s][i],
           DOMAIN owed'[s] = DOMAIN owed[s] \cup {w[1] : w \in m.rows},
           \A w \in m.rows : owed'[s][w[1]] = w[2],
           keyed'[s] = keyed[s], keyed[s] = {},
           step'[o].gotHave = step[o].gotHave, UNCHANGED <<said, had, stock, wanted, offered>>
    PROVE  Deal(s, o)'
<1> SUFFICES ASSUME Alive(s, o)' PROVE Offers(s, o)' /\ Flow(s, o)'
  BY DEF Deal
<1>1. Offers(s, o) /\ Flow(s, o)
  BY DEF Deal
<1>2. Offers(s, o)'
  BY <1>1 DEF Offers, Spoken
<1>3. ASSUME NEW i \in Items, Comes(s, o, i) PROVE Comes(s, o, i)'
  <2>1. ASSUME NEW w, RowOn(o, i, w)
        PROVE  RowOn(o, i, w)' \/ (i \in DOMAIN owed'[s] /\ owed'[s][i] = w[2])
    <3>1. PICK x \in On(Way(o)) : x.tells \in {"want", "wantEarlier"} /\ w \in x.rows /\ w[1] = i
      BY <2>1 DEF RowOn
    <3>2. CASE x = m
      BY <3>1, <3>2
    <3>3. CASE x \in On(Way(o)')
      BY <3>1, <3>3 DEF RowOn
    <3> QED
      BY <3>1, <3>2, <3>3 DEF Took
  <2>2. \A e : Due(s, o, i, e) => Due(s, o, i, e)'
    BY <2>1 DEF Due
  <2>3. Asks(s, o, i) => Asks(s, o, i)'
    BY <2>1 DEF Asks
  <2>4. Keeps(stock'[o], stock[o])
    BY DEF Keeps
  <2>5. \A e : Ahead(Way(s), stock[o].keys[i], i, e) => BlobComes(s, o, i, e)'
    BY DEF BlobComes
  <2> QED
    BY <1>3, <2>2, <2>3, <2>4, <2>5, ComesKept
<1> QED
  BY <1>1, <1>2, <1>3 DEF Flow

(* Keys, entries or blobs taken are held, or their blob is awaited.        *)
LEMMA DealTakes ==
    ASSUME SyncTypes, NEW s \in Sides, NEW o \in Sides, o = Other(s),
           Deal(o, s), Alive(o, s)' => Alive(o, s),
           NEW m, Took(m, Way(o), Way(o)'), m.tells \in {"keys", "entries", "blobs"},
           Way(s)' = Way(s), Keeps(stock'[s], stock[s]), Lands(m, s),
           wanted[s] \subseteq wanted'[s] \cup stock'[s].blobs,
           m.tells = "entries" => \A e \in m.entries :
             <<m.item, e>> \in Attached /\ Opens(stock[s].keys[m.item], m.item, e) =>
               <<m.item, e>> \in wanted'[s] \cup stock'[s].blobs,
           UNCHANGED <<step, said, had, offered, owed, keyed>>
    PROVE  Deal(o, s)'
<1> SUFFICES ASSUME Alive(o, s)' PROVE Offers(o, s)' /\ Flow(o, s)'
  BY DEF Deal
<1>1. Offers(o, s) /\ Flow(o, s)
  BY DEF Deal
<1>2. /\ Way(o) \in Seq(Frames) /\ (\A x \in On(Way(o)) : x = m \/ x \in On(Way(o)'))
      /\ On(Way(o)') \subseteq On(Way(o))
  BY WayTyped DEF Took
<1>3. Offers(o, s)'
  BY <1>1, <1>2 DEF Offers, Spoken
<1>4. ASSUME NEW i \in Items, Comes(o, s, i) PROVE Comes(o, s, i)'
  <2>1. \A w : RowOn(s, i, w) => RowOn(s, i, w)'
    BY DEF RowOn
  <2>2. (\A e : Due(o, s, i, e) => Due(o, s, i, e)') /\ (Asks(o, s, i) => Asks(o, s, i)')
    BY <2>1 DEF Due, Asks
  <2>3. \A x \in On(Way(o)) : x \in On(Way(o)') \/ Lands(x, s)
    BY <1>2
  <2>4. stock[s].keys[i] \subseteq stock'[s].keys[i] /\ (KeysOn(m, i) => m.keys \subseteq stock'[s].keys[i])
    BY DEF Keeps, KeysOn, Lands
  <2>5. ASSUME NEW e, <<i, e>> \in Attached, Ahead(Way(o), stock[s].keys[i], i, e)
        PROVE  BlobComes(o, s, i, e)'
    <3>1. \/ Ahead(Way(o)', stock'[s].keys[i], i, e)
          \/ /\ m.tells = "entries" /\ m.item = i /\ e \in m.entries /\ Opens(stock[s].keys[i], i, e)
             /\ \E x \in On(Way(o)') : x.tells = "blobs" /\ <<i, e>> \in x.ids
      <4> DEFINE v == Way(o)'
                 k == stock'[s].keys[i]
      <4>1. Took(m, Way(o), v) /\ stock[s].keys[i] \subseteq k /\ (KeysOn(m, i) => m.keys \subseteq k)
        BY <2>4
      <4> HIDE DEF v, k
      <4>2. \/ Ahead(v, k, i, e)
            \/ /\ m.tells = "entries" /\ m.item = i /\ e \in m.entries /\ Opens(stock[s].keys[i], i, e)
               /\ \E x \in On(v) : x.tells = "blobs" /\ <<i, e>> \in x.ids
        BY <1>2, <2>5, <4>1, AheadTook
      <4> QED
        BY <4>2 DEF v, k
    <3> QED
      BY <2>5, <3>1 DEF BlobComes
  <2> QED
    BY <1>4, <2>2, <2>3, <2>5, ComesKept
<1> QED
  BY <1>1, <1>3, <1>4 DEF Flow

(* A page served hands on what was owed of it, and leaves the rest owed.   *)
LEMMA ComesServed ==
    ASSUME SyncTypes, NEW s \in Sides, NEW o \in Sides, Store(s), NEW i \in Items, Serve(s, i),
           Way(s)' = Way(s) \o PageSaid(s, i), Way(o)' = Way(o),
           Comes(s, o, i)
    PROVE  Comes(s, o, i)'
<1> DEFINE mine == stock[s].entries[i]
           since == owed[s][i]
           page == Page(s, i)
           ka == i \notin keyed[s] /\ stock[s].keys[i] # {}
           kf == KeysFrame(s, i)
           ef == EntriesFrame(s, i)
           bf == BlobsFrame(s, i)
<1>1. /\ i \in DOMAIN owed[s] /\ since \in Nat /\ mine \in SUBSET (1..Top)
      /\ UNCHANGED <<said, had, stock, wanted>> /\ keyed'[s] = keyed[s] \cup {i}
  BY DEF Serve, SyncTypes, Stock
<1>2. /\ kf.tells = "keys" /\ kf.item = i /\ kf.keys = stock[s].keys[i]
      /\ ef.tells = "entries" /\ ef.item = i /\ ef.entries = page \ Expired
      /\ bf.tells = "blobs" /\ bf.ids = BlobsOf(s, i)
      /\ kf \in Frames /\ ef \in Frames /\ bf \in Frames
  BY PageTyped DEF KeysFrame, EntriesFrame, BlobsFrame
<1>3. /\ page = PageOf(mine, since)
      /\ \A e \in page \ Expired :
           Opens(stock[s].keys[i], i, e) /\ <<i, e>> \in Attached \cap stock[s].blobs => <<i, e>> \in BlobsOf(s, i)
      /\ PageSaid(s, i) = Ifs(ka, kf) \o Ifs(page \ Expired # {}, ef) \o Ifs(BlobsOf(s, i) # {}, bf)
  BY DEF Page, PageSaid, BlobsOf, Named
<1>4. /\ PageSaid(s, i) \in Seq(Frames)
      /\ On(PageSaid(s, i)) = {m \in {kf} : ka} \cup {m \in {ef} : page \ Expired # {}}
                                \cup {m \in {bf} : BlobsOf(s, i) # {}}
  BY PageOn
<1>5. /\ page \ Expired # {} /\ Max(page) < Max(mine) =>
           i \in DOMAIN owed'[s] /\ owed'[s][i] = Max(page)
  BY <1>1 DEF Serve, MoreIsOwed, SyncTypes, Page
<1>6. /\ said[s].keys[i] \subseteq stock[s].keys[i] /\ said[s].entries[i] \subseteq mine
      /\ said[s].blobs \subseteq stock[s].blobs
      /\ mine \cap Expired \subseteq said[s].entries[i] \cup {Top}
  BY DEF Store, Keeps
<1> HIDE DEF mine, since, page, ka, kf, ef, bf
<1>7. /\ On(Way(s)') = On(Way(s)) \cup On(PageSaid(s, i))
      /\ \A e, k : Ahead(Way(s), k, i, e) => Ahead(Way(s)', k, i, e)
  <2> DEFINE v == Way(s)'
  <2>1. v = Way(s) \o PageSaid(s, i) /\ Way(s) \in Seq(Frames)
    BY WayTyped
  <2> HIDE DEF v
  <2>2. On(v) = On(Way(s)) \cup On(PageSaid(s, i)) /\ \A j, e, k : Ahead(Way(s), k, j, e) => Ahead(v, k, j, e)
    BY <1>4, <2>1, WayGrows
  <2> QED
    BY <2>2 DEF v
<1>8. \A w : RowOn(o, i, w) => RowOn(o, i, w)'
  BY DEF RowOn
<1>9. \/ said[s].keys[i] \subseteq stock[o].keys[i]
      \/ ka
      \/ \E m \in On(Way(s)) : KeysOn(m, i) /\ said[s].keys[i] \subseteq m.keys
  <2>1. ~ka /\ i \notin keyed[s] => said[s].keys[i] = {}
    BY <1>6 DEF ka
  <2> QED
    BY <2>1 DEF Comes, KeyedOnce
<1>10. KeyedOnce(s, o, i)'
  <2>1. CASE ka
    <3>1. kf \in On(Way(s)') /\ KeysOn(kf, i) /\ said[s].keys[i] \subseteq kf.keys
      BY <1>2, <1>4, <1>6, <1>7, <2>1 DEF KeysOn
    <3> QED
      BY <1>1, <3>1 DEF KeyedOnce
  <2>2. CASE ~ka
    BY <1>1, <1>7, <1>9, <2>2 DEF KeyedOnce
  <2> QED
    BY <2>1, <2>2
<1>11. KeysCome(s, o, i) => KeysCome(s, o, i)'
  <2>1. CASE \/ \E w : RowOn(o, i, w)
             \/ /\ said[s].entries[i] \subseteq had[o].entries[i]
                /\ ~(Cardinality(said[s].keys[i]) > Cardinality(had[o].keys[i]))
             \/ said[s].keys[i] \subseteq stock[o].keys[i]
    BY <1>1, <1>8, <2>1 DEF KeysCome, Asks
  <2>2. CASE i \notin keyed[s]
    <3>1. CASE stock[s].keys[i] = {}
      BY <1>1, <1>6, <3>1 DEF KeysCome
    <3>2. CASE stock[s].keys[i] # {}
      <4>1. kf \in On(Way(s)')
        BY <1>4, <1>7, <2>2, <3>2 DEF ka
      <4> QED
        BY <1>1, <1>2, <1>6, <4>1 DEF KeysCome, KeysOn
    <3> QED
      BY <3>1, <3>2
  <2>3. ASSUME NEW m \in On(Way(s)), KeysOn(m, i) /\ said[s].keys[i] \subseteq m.keys
        PROVE  KeysCome(s, o, i)'
    BY <1>1, <1>7, <2>3 DEF KeysCome
  <2> QED
    BY <2>1, <2>2, <2>3 DEF KeysCome, Asks
<1>12. ASSUME NEW e \in said[s].entries[i], said[s].entries[i] \cap Expired = {}, Due(s, o, i, e)
       PROVE  Due(s, o, i, e)' \/ e \in page \ Expired
  <2>1. CASE \E w : RowOn(o, i, w) /\ w[2] < e
    BY <1>8, <2>1 DEF Due
  <2>2. CASE since < e
    <3>1. e \in mine /\ e \notin Expired /\ mine \cap Expired \subseteq {Top}
      BY <1>6, <1>12
    <3>2. e \in page \ Expired \/ (page \ Expired # {} /\ Max(page) < e /\ Max(page) < Max(mine))
      BY <1>1, <1>3, <2>2, <3>1, PageServes
    <3> QED
      BY <1>5, <3>2 DEF Due
  <2> QED
    BY <1>12, <2>1, <2>2 DEF Due, since
<1>13. ASSUME NEW e \in said[s].entries[i], said[s].entries[i] \cap Expired = {}, EntryComes(s, o, i, e)
       PROVE  EntryComes(s, o, i, e)'
  <2>1. e \in page \ Expired => ef \in On(Way(s)') /\ e \in ef.entries
    BY <1>2, <1>4, <1>7
  <2>2. Due(s, o, i, e) => EntryComes(s, o, i, e)'
    BY <1>2, <1>12, <1>13, <2>1 DEF EntryComes
  <2> QED
    BY <1>1, <1>7, <1>13, <2>2 DEF EntryComes
<1>14. ASSUME NEW e \in said[s].entries[i], said[s].entries[i] \cap Expired = {}, BlobComes(s, o, i, e),
              HasBlob(s, i, e)
       PROVE  BlobComes(s, o, i, e)'
  <2>1. CASE e \in page \ Expired
    <3>1. <<i, e>> \in BlobsOf(s, i) /\ Opens(said[s].keys[i], i, e) /\ Opens(stock[s].keys[i], i, e)
      <4>1. Opens(said[s].keys[i], i, e) /\ <<i, e>> \in Attached \cap stock[s].blobs
        BY <1>6, <1>14 DEF HasBlob
      <4>2. Opens(stock[s].keys[i], i, e)
        BY <1>6, <4>1, OpensMore
      <4> QED
        BY <1>3, <2>1, <4>1, <4>2
    <3> DEFINE u == Ifs(ka, kf)
    <3>2. PageSaid(s, i) = u \o <<ef>> \o <<bf>> /\ u \in Seq(Frames) /\ (ka => u = <<kf>>)
      <4>1. ka \in BOOLEAN
        BY DEF ka
      <4>2. u \in Seq(Frames)
        BY <1>2, <4>1, IfMessage
      <4>3. Ifs(page \ Expired # {}, ef) = <<ef>> /\ Ifs(BlobsOf(s, i) # {}, bf) = <<bf>>
        BY <2>1, <3>1 DEF Ifs
      <4>4. ka => u = <<kf>>
        BY DEF Ifs
      <4>5. PageSaid(s, i) = u \o <<ef>> \o <<bf>>
        BY <1>3, <4>3
      <4> HIDE DEF u
      <4> QED
        BY <4>2, <4>4, <4>5
    <3>9. ka => Len(u) = 1 /\ u[1] = kf
      <4>1. Len(<<kf>>) = 1 /\ <<kf>>[1] = kf
        OBVIOUS
      <4> HIDE DEF u
      <4> QED
        BY <3>2, <4>1, ZenonT(60)
    <3> HIDE DEF u
    <3> DEFINE ms == PageSaid(s, i)
               w == Way(s)
               v == w \o ms
    <3>3. PICK p \in 1..Len(ms), q \in 1..Len(ms) :
            /\ p < q /\ ms[p] = ef /\ ms[q] = bf
            /\ \A n \in 1..Len(u) : n < p /\ n \in 1..Len(ms) /\ ms[n] = u[n]
      <4> DEFINE z == <<ef>>
                 x == <<bf>>
      <4>1. /\ z \in Seq(Frames) /\ Len(z) = 1 /\ z[1] = ef
            /\ x \in Seq(Frames) /\ Len(x) = 1 /\ x[1] = bf
        BY <1>2
      <4>2. ms = u \o z \o x /\ u \in Seq(Frames)
        BY <3>2
      <4> HIDE DEF ms, z, x
      <4>3. \E p, q \in 1..Len(u \o z \o x) :
              /\ p < q /\ (u \o z \o x)[p] = z[1] /\ (u \o z \o x)[q] = x[1]
              /\ \A n \in 1..Len(u) : n < p /\ n \in 1..Len(u \o z \o x) /\ (u \o z \o x)[n] = u[n]
        BY <4>1, <4>2, PageInOrder
      <4> QED
        BY <4>1, <4>2, <4>3
    <3>4. w \in Seq(Frames) /\ ms \in Seq(Frames) /\ Way(s)' = v
      BY <1>4, WayTyped
    <3> HIDE DEF ms, w
    <3>5. /\ Len(w) \in Nat /\ Len(ms) \in Nat
          /\ \A n \in 1..Len(w) : n \in 1..Len(v) /\ v[n] = w[n]
          /\ \A n \in 1..Len(ms) : n + Len(w) \in 1..Len(v) /\ v[n + Len(w)] = ms[n]
      BY <3>4, ConcatAt
    <3> HIDE DEF v
    <3>6. p + Len(w) < q + Len(w) /\ v[p + Len(w)] = ef /\ v[q + Len(w)] = bf
          /\ p + Len(w) \in 1..Len(v) /\ q + Len(w) \in 1..Len(v)
      BY <3>3, <3>5
    <3>7. \/ Opens(stock[o].keys[i], i, e)
          \/ \E n \in 1..Len(v) : n < p + Len(w) /\ KeysOn(v[n], i) /\ Opens(v[n].keys, i, e)
      <4>1. CASE ka
        <5>3. Len(u) = 1 /\ u[1] = kf
          BY <3>9, <4>1, ZenonT(60)
        <5>4. 1 \in 1..Len(u)
          BY <5>3
        <5>1. PICK n \in 1..Len(ms) : n < p /\ ms[n] = kf
          BY <3>3, <5>3, <5>4
        <5>2. n + Len(w) \in 1..Len(v) /\ v[n + Len(w)] = kf /\ n + Len(w) < p + Len(w)
          BY <3>5, <5>1
        <5> QED
          BY <1>2, <3>1, <5>2 DEF KeysOn
      <4>2. ASSUME NEW m \in On(w), KeysOn(m, i), said[s].keys[i] \subseteq m.keys
            PROVE  \E n \in 1..Len(v) : n < p + Len(w) /\ KeysOn(v[n], i) /\ Opens(v[n].keys, i, e)
        <5>1. PICK n \in 1..Len(w) : m = w[n]
          BY <4>2 DEF On
        <5>2. n \in 1..Len(v) /\ v[n] = m /\ n < p + Len(w)
          BY <3>5, <5>1
        <5>3. Opens(m.keys, i, e)
          BY <3>1, <4>2, OpensMore
        <5> QED
          BY <4>2, <5>2, <5>3
      <4>3. said[s].keys[i] \subseteq stock[o].keys[i] => Opens(stock[o].keys[i], i, e)
        BY <3>1, OpensMore
      <4> QED
        BY <1>9, <4>1, <4>2, <4>3 DEF w
    <3>8. Ahead(v, stock[o].keys[i], i, e)
      <4>1. e \in ef.entries /\ <<i, e>> \in bf.ids
        BY <1>2, <2>1, <3>1
      <4> QED
        BY <1>2, <3>6, <3>7, <4>1 DEF Ahead
    <3> QED
      BY <1>1, <3>4, <3>8 DEF BlobComes
  <2>2. CASE ~(e \in page \ Expired)
    BY <1>1, <1>7, <1>12, <1>14, <2>2 DEF BlobComes
  <2> QED
    BY <2>1, <2>2
<1>15. (Unspoilt(s, o, i)' <=> Unspoilt(s, o, i)) /\ \A e : HasBlob(s, i, e)' <=> HasBlob(s, i, e)
  BY <1>1 DEF Unspoilt, HasBlob
<1>16. Unspoilt(s, o, i) => said[s].entries[i] \cap Expired = {}
  BY DEF Unspoilt
<1> QED
  BY <1>1, <1>10, <1>11, <1>13, <1>14, <1>15, <1>16 DEF Comes

LEMMA DealServe ==
    ASSUME SyncTypes, NEW s \in Sides, NEW o \in Sides, Store(s), Deal(s, o), Alive(s, o)' => Alive(s, o),
           NEW i \in Items, Serve(s, i), Way(s)' = Way(s) \o PageSaid(s, i), Way(o)' = Way(o)
    PROVE  Deal(s, o)'
<1> SUFFICES ASSUME Alive(s, o)' PROVE Offers(s, o)' /\ Flow(s, o)'
  BY DEF Deal
<1>1. Offers(s, o) /\ Flow(s, o)
  BY DEF Deal
<1>2. /\ UNCHANGED <<said, had, stock, wanted, offered, step>> /\ keyed'[s] = keyed[s] \cup {i}
      /\ \A j \in DOMAIN owed[s] : j # i => j \in DOMAIN owed'[s] /\ owed'[s][j] = owed[s][j]
  BY DEF Serve, SyncTypes
<1> DEFINE v == Way(s)'
<1>3. v = Way(s) \o PageSaid(s, i) /\ Way(s) \in Seq(Frames) /\ PageSaid(s, i) \in Seq(Frames)
      /\ Within(PageSaid(s, i), 5, 5)
  BY WayTyped, PageOn
<1> HIDE DEF v
<1>4. On(v) = On(Way(s)) \cup On(PageSaid(s, i)) /\ \A j, e, k : Ahead(Way(s), k, j, e) => Ahead(v, k, j, e)
  BY <1>3, WayGrows
<1>5. \A m \in On(PageSaid(s, i)) : m.tells # "have"
  BY <1>3, OnWithin, RankIs
<1>6. Offers(s, o)'
  BY <1>1, <1>2, <1>4, <1>5 DEF Offers, Spoken, v
<1>7. ASSUME NEW j \in Items, j # i, Comes(s, o, j) PROVE Comes(s, o, j)'
  <2>1. \A w : RowOn(o, j, w) => RowOn(o, j, w)'
    BY DEF RowOn
  <2>2. (\A e : Due(s, o, j, e) => Due(s, o, j, e)') /\ (Asks(s, o, j) => Asks(s, o, j)')
    BY <1>2, <1>7, <2>1 DEF Due, Asks
  <2>3. \A m \in On(Way(s)) : m \in On(Way(s)') \/ Lands(m, o)
    BY <1>4 DEF v
  <2>4. Keeps(stock'[o], stock[o]) /\ said'[s] = said[s] /\ had'[o] = had[o]
        /\ wanted[o] \subseteq wanted'[o] \cup stock'[o].blobs /\ (j \in keyed'[s] => j \in keyed[s])
    BY <1>2, <1>7 DEF Keeps
  <2>5. \A e : Ahead(Way(s), stock[o].keys[j], j, e) => BlobComes(s, o, j, e)'
    BY <1>2, <1>4 DEF BlobComes, v
  <2> QED
    BY <1>7, <2>2, <2>3, <2>4, <2>5, ComesKept
<1>8. ASSUME Comes(s, o, i) PROVE Comes(s, o, i)'
  BY <1>8, ComesServed
<1> QED
  BY <1>1, <1>2, <1>6, <1>7, <1>8 DEF Flow

LEMMA DealGone ==
    ASSUME SyncTypes, NEW a \in Sides, NEW b \in Sides, Turns(a, b), Turns(b, a), Deal(a, b),
           SessionGone, Way(a) = <<>> => Way(a)' = <<>>
    PROVE  Deal(a, b)'
<1> SUFFICES ASSUME Alive(a, b)' PROVE Deal(a, b)'
  BY DEF Deal
<1>1. step' = step /\ link'[b] = <<>> /\ ~open'
  BY DEF SessionGone
<1>2. step[b].gotDone
  BY <1>1 DEF Alive, On
<1>3. Way(a) = <<>> /\ Way(a)' = <<>> /\ step[a].gotWant
  BY <1>2 DEF Turns
<1>4. \A m \in On(Way(b)) : m.tells \notin {"want", "wantEarlier"}
  <2>1. Within(Way(b), 5, 6)
    BY <1>3 DEF Turns
  <2> QED
    BY <2>1, OnWithin, RankIs
<1>5. On(Way(a)') = On(Way(a)) /\ \A i, e, k : Ahead(Way(a), k, i, e) => Ahead(Way(a)', k, i, e)
  BY <1>3
<1>6. Alive(a, b) /\ Keeps(stock'[b], stock[b])
  BY <1>2 DEF Alive, SessionGone, Keeps
<1> QED
  BY <1>1, <1>4, <1>5, <1>6, DealKept DEF SessionGone

LEMMA StoreSame ==
    ASSUME NEW a \in Sides, Store(a), stock'[a] = stock[a],
           said'[a] \in {said[a], stock[a]}, had'[a] \in {had[a], stock[a]}
    PROVE  Store(a)'
<1>1. Keeps(stock'[a], stock[a])
  BY DEF Keeps
<1> QED
  BY <1>1, StoreGrows

(* Nothing of what passes between the two is touched.                      *)
LEMMA Untouched ==
    ASSUME NEW a \in Sides, NEW b \in Sides, Content(a, b), Deal(a, b), Alive(a, b)' => Alive(a, b),
           step'[b].gotHave = step[b].gotHave, said'[a] = said[a], had'[b] = had[b],
           asked' = asked, offered' = offered, Keeps(stock'[b], stock[b]), wanted'[b] = wanted[b],
           owed' = owed, keyed' = keyed,
           \A m \in On(Way(a)) : m \in On(Way(a)') \/ m.tells \in {"hello", "done"},
           \A m \in On(Way(a)') : m \in On(Way(a)) \/ m.tells \in {"hello", "done"},
           \A m \in On(Way(b)) : m \in On(Way(b)') \/ m.tells \notin {"want", "wantEarlier"},
           \A i, e, k : Ahead(Way(a), k, i, e) => Ahead(Way(a)', k, i, e)
    PROVE  Content(a, b)' /\ Deal(a, b)'
<1>1. \A m : m.tells \in {"hello", "done"} => Telling(m, a, b)'
  BY DEF Telling
<1>2. \A m : Telling(m, a, b) => Telling(m, a, b)'
  BY DEF Telling
<1>3. Content(a, b)'
  BY <1>1, <1>2 DEF Content
<1>4. Deal(a, b)'
  BY DealKept
<1> QED
  BY <1>3, <1>4

-----------------------------------------------------------------------------
(* The invariant, action by action.                                        *)
Both(s, o) ==
  /\ Turns(s, o) /\ Content(s, o) /\ Deal(s, o) /\ Store(s)
  /\ Turns(o, s) /\ Content(o, s) /\ Deal(o, s) /\ Store(o)
Lasts(s, o) == (Alive(s, o)' => Alive(s, o)) /\ (Alive(o, s)' => Alive(o, s))

LEMMA BothGreet ==
    ASSUME SyncTypes, NEW s \in Sides, NEW o \in Sides, o = Other(s), Both(s, o), Lasts(s, o), Greet(s)
    PROVE  Both(s, o)'
<1> DEFINE ms == <<[tells |-> "hello"]>>
<1>1. ms \in Seq(Frames) /\ On(ms) = {[tells |-> "hello"]} /\ s # o
  BY HelloTyped, TwoSides DEF On
<1> HIDE DEF ms
<1>2. Way(s)' = Way(s) \o ms /\ Way(o)' = Way(o) /\ Way(s) \in Seq(Frames)
  BY <1>1, SaysMore, WayTyped DEF Greet, ms
<1> DEFINE v == Way(s)'
<1>3. v = Way(s) \o ms
  BY <1>2
<1> HIDE DEF v
<1>4. On(v) = On(Way(s)) \cup On(ms) /\ \A i, e, k : Ahead(Way(s), k, i, e) => Ahead(v, k, i, e)
  BY <1>1, <1>2, <1>3, WayGrows
<1>5. /\ \A m \in On(Way(s)) : m \in On(Way(s)')
      /\ \A m \in On(Way(s)') : m \in On(Way(s)) \/ m.tells \in {"hello", "done"}
      /\ \A i, e, k : Ahead(Way(s), k, i, e) => Ahead(Way(s)', k, i, e)
  BY <1>1, <1>4 DEF v
<1>6. Turns(s, o)' /\ Turns(o, s)'
  BY TurnsGreet DEF Both
<1>7. /\ step'[s].gotHave = step[s].gotHave /\ step'[o].gotHave = step[o].gotHave
      /\ UNCHANGED <<stock, owed, keyed, offered, asked, wanted, said, had>>
      /\ Keeps(stock'[s], stock[s]) /\ Keeps(stock'[o], stock[o])
  BY <1>1 DEF Greet, SyncTypes, Steps, Keeps
<1>8. Content(s, o)' /\ Deal(s, o)'
  BY <1>2, <1>5, <1>7, Untouched DEF Both, Lasts
<1>9. Content(o, s)' /\ Deal(o, s)'
  BY <1>2, <1>5, <1>7, Untouched DEF Both, Lasts
<1>10. Store(s)' /\ Store(o)'
  BY <1>7, StoreSame DEF Both
<1> QED
  BY <1>6, <1>8, <1>9, <1>10 DEF Both

LEMMA BothTakeHello ==
    ASSUME SyncTypes, NEW s \in Sides, NEW o \in Sides, o = Other(s), Both(s, o), Lasts(s, o), TakeHello(s)
    PROVE  Both(s, o)'
<1> DEFINE g == [tells |-> "earlier", rows |-> Held(s, Gens)]
           h == [tells |-> "have", rows |-> Held(s, Live)]
           ms == HaveSaid(s)
           m == Head(link[s])
<1>1. g \in Frames /\ h \in Frames /\ g.tells = "earlier" /\ h.tells = "have" /\ Rank(g) = 1 /\ Rank(h) = 2
  BY HeldTyped, RankIs DEF Frames, Items
<1>2. /\ ms \in Seq(Frames) /\ Ordered(ms) /\ Within(ms, 1, 2)
      /\ On(ms) = {x \in {g} : Held(s, Gens) # {}} \cup {h}
  <2> DEFINE c == Held(s, Gens) # {}
  <2>1. ms = Ifs(c, g) \o <<h>> /\ c \in BOOLEAN
    BY DEF HaveSaid
  <2> HIDE DEF g, h, c, ms
  <2>2. LET x == Ifs(c, g) \o <<h>> IN
        /\ x \in Seq(Frames) /\ Ordered(x) /\ Within(x, Rank(g), Rank(h))
        /\ On(x) = {y \in {g} : c} \cup {h}
    BY <1>1, <2>1, TwoMessages
  <2> QED
    BY <1>1, <2>1, <2>2 DEF c
<1>3. Arrives(s, "hello") /\ Queues(s, ms) /\ s # o
  BY TwoSides DEF TakeHello, HaveSaid
<1>4. /\ \A x \in On(ms) : x = g \/ x = h
      /\ said' = [said EXCEPT ![s] = stock[s]]
      /\ UNCHANGED <<stock, step, owed, keyed, offered, asked, wanted, had>>
  BY <1>2 DEF TakeHello
<1> HIDE DEF ms, m
<1>5. Took(m, Way(o), Way(o)') /\ m.tells = "hello" /\ Way(s)' = Way(s) \o ms
  BY <1>2, <1>3, TookOne DEF Both, Turns, m
<1>6. Turns(s, o)' /\ Turns(o, s)'
  BY <1>2, <1>3, <1>4, <1>5, TurnsTakeHello DEF Both, Arrives
<1>7. /\ Within(Way(s), 0, 0) /\ offered[o] = {} /\ ~step[o].gotHave /\ DOMAIN owed[s] = {} /\ Ordered(Way(s))
  <2>1. m \in On(Way(o))
    BY <1>5 DEF Took
  <2> QED
    BY <1>5, <2>1 DEF Both, Turns, Unmet, Spoken
<1>8. Added(ms, Way(s), Way(s)', 1, 2)
  BY <1>2, <1>5, <1>7, WayTyped, Queued
<1>9. Content(s, o)'
  BY <1>4, <1>7, <1>8, ContentTakeHello DEF Both, g, h
<1>10. On(Way(o)') \subseteq On(Way(o)) /\ (\A x \in On(Way(o)) : x = m \/ x \in On(Way(o)'))
       /\ \A i, e, k : Ahead(Way(o), k, i, e) => Ahead(Way(o)', k, i, e)
  BY <1>5, WayTyped, WayTaken
<1>11. said'[s] = stock[s] /\ said'[o] = said[o]
  BY <1>3, <1>4 DEF SyncTypes
<1>12. Keeps(stock'[s], stock[s]) /\ On(Way(s)) \subseteq On(Way(s)')
  BY <1>4, <1>8 DEF Keeps, Added
<1>13. Content(o, s)' /\ Deal(o, s)'
  BY <1>4, <1>5, <1>10, <1>11, <1>12, Untouched DEF Both, Lasts
<1>14. Deal(s, o)'
  BY <1>4, <1>5, <1>7, <1>11, DealTakeHello DEF Both, ms
<1>15. Store(s)' /\ Store(o)'
  BY <1>4, <1>11, StoreSame DEF Both
<1> QED
  BY <1>6, <1>9, <1>13, <1>14, <1>15 DEF Both

LEMMA BothTakeEarlier ==
    ASSUME SyncTypes, NEW s \in Sides, NEW o \in Sides, o = Other(s), Both(s, o), Lasts(s, o), TakeEarlier(s)
    PROVE  Both(s, o)'
<1> DEFINE m == Head(link[s])
<1>1. Took(m, Way(o), Way(o)') /\ m.tells = "earlier" /\ Way(s)' = Way(s) /\ Ongoing(s) /\ s # o
  BY TookQuietly, TwoSides DEF TakeEarlier, Arrives, Both, Turns
<1>2. /\ offered' = [offered EXCEPT ![s] = m.rows]
      /\ UNCHANGED <<stock, step, outbox, owed, keyed, asked, wanted, said, had>>
  BY DEF TakeEarlier
<1> HIDE DEF m
<1>3. Turns(s, o)' /\ Turns(o, s)'
  <2>1. \A t \in Sides : t # s => offered'[t] = offered[t]
    BY <1>2 DEF SyncTypes
  <2> QED
    BY <1>1, <1>2, <2>1, TurnsQuiet DEF Both
<1>4. On(Way(o)') \subseteq On(Way(o)) /\ (\A x \in On(Way(o)) : x = m \/ x \in On(Way(o)'))
  BY <1>1 DEF Took
<1>5. offered'[o] = offered[o] /\ Keeps(stock'[o], stock[o])
  BY <1>1, <1>2 DEF SyncTypes, Keeps
<1>6. Content(o, s)'
  BY <1>1, <1>2, ContentTakeEarlier DEF Both
<1>7. offered'[s] = HeldOf(said'[o], Gens) /\ ~step'[s].gotHave
  <2>1. m \in On(Way(o)) /\ Rank(m) = 1
    BY <1>1, RankIs DEF Took
  <2>2. m.rows = HeldOf(said[o], Gens)
    BY <1>1, <2>1 DEF Both, Content, Telling
  <2>3. ~step[s].gotHave
    BY <2>1, OnWithin DEF Both, Turns
  <2> QED
    BY <1>2, <2>2, <2>3 DEF SyncTypes
<1>8. Content(s, o)'
  <2> DEFINE new == {}
  <2>1. On(Way(s)') \subseteq On(Way(s)) \cup new /\ \A x \in new : Telling(x, s, o)'
    BY <1>1
  <2> HIDE DEF new
  <2> QED
    BY <1>2, <1>5, <2>1, ContentGrows DEF Both
<1>9. Deal(o, s)'
  BY <1>7, DealTakeEarlier
<1>10. Deal(s, o)'
  BY <1>1, <1>2, <1>4, <1>5, DealKept DEF Both, Lasts
<1>11. Store(s)' /\ Store(o)'
  BY <1>2, StoreSame DEF Both
<1> QED
  BY <1>3, <1>6, <1>8, <1>9, <1>10, <1>11 DEF Both

LEMMA BothTakeHave ==
    ASSUME SyncTypes, NEW s \in Sides, NEW o \in Sides, o = Other(s), Both(s, o), Lasts(s, o), TakeHave(s)
    PROVE  Both(s, o)'
<1> DEFINE m == Head(link[s])
           g == [tells |-> "wantEarlier", rows |-> WantsEarlier(s)]
           w == [tells |-> "want", rows |-> WantsLive(s, m.rows)]
           ms == WantSaid(s, m.rows)
<1>1. Arrives(s, "have") /\ Queues(s, ms) /\ s # o /\ m \in Frames /\ m.tells = "have"
  BY TwoSides, ArrivesTyped DEF TakeHave, WantSaid
<1>2. m.rows \in SUBSET Row
  BY <1>1, FrameFields
<1>3. /\ g \in Frames /\ w \in Frames /\ g.tells = "wantEarlier" /\ w.tells = "want"
      /\ Rank(g) = 3 /\ Rank(w) = 4
  BY <1>2, WantsTyped, RankIs DEF Frames
<1>4. /\ ms \in Seq(Frames) /\ Ordered(ms) /\ Within(ms, 3, 4)
      /\ On(ms) = {x \in {g} : WantsEarlier(s) # {}} \cup {w}
  <2> DEFINE c == WantsEarlier(s) # {}
  <2>1. ms = Ifs(c, g) \o <<w>> /\ c \in BOOLEAN
    <3>1. ms = Ifs(WantsEarlier(s) # {}, g) \o <<w>>
      BY DEF WantSaid, g, w
    <3>2. c \in BOOLEAN
      OBVIOUS
    <3> QED
      BY ONLY <3>1, <3>2 DEF c
  <2> HIDE DEF g, w, c, ms
  <2>2. LET x == Ifs(c, g) \o <<w>> IN
        /\ x \in Seq(Frames) /\ Ordered(x) /\ Within(x, Rank(g), Rank(w))
        /\ On(x) = {y \in {g} : c} \cup {w}
    <3>1. g \in Frames /\ w \in Frames /\ Rank(g) < Rank(w) /\ c \in BOOLEAN
      BY <1>3, <2>1
    <3> QED
      BY ONLY <3>1, TwoMessages
  <2> QED
    BY <1>3, <2>1, <2>2 DEF c
<1>5. /\ \A x \in On(ms) : x = g \/ x = w
      /\ asked' = [asked EXCEPT ![s] = {x[1] : x \in WantsEarlier(s)}]
      /\ step' = [step EXCEPT ![s] = Trades([@ EXCEPT !.gotHave = TRUE])]
      /\ had' = [had EXCEPT ![s] = stock[s]]
      /\ UNCHANGED <<stock, owed, keyed, offered, wanted, said>>
  BY <1>4 DEF TakeHave
<1>6. /\ Took(m, Way(o), Way(o)') /\ Way(s)' = Way(s) \o ms
  <2> HIDE DEF ms
  <2> QED
    BY <1>1, <1>4, TookOne DEF Both, Turns
<1>7. Queues(s, ms) /\ Ongoing(s)
  BY <1>1 DEF Arrives
<1> HIDE DEF m, ms, g, w
<1>8. /\ Turns(s, o)' /\ Turns(o, s)'
      /\ ~step[s].gotHave /\ Added(ms, Way(s), Way(s)', 3, 4) /\ Within(Way(s), 0, 2)
      /\ ~step[o].gotWant /\ DOMAIN owed[o] = {} /\ step'[s].gotHave
      /\ step'[o] = step[o] /\ step'[s].gotDone = step[s].gotDone
  BY <1>1, <1>4, <1>5, <1>6, <1>7, TurnsTakeHave DEF Both
<1>9. Within(Way(o), 0, 4) /\ keyed[o] = {}
  BY <1>8 DEF Both, Turns
<1>10. Content(s, o)' /\ Content(o, s)'
  <2>1. \A x \in On(ms) : x = [tells |-> "wantEarlier", rows |-> WantsEarlier(s)]
                          \/ x = [tells |-> "want", rows |-> WantsLive(s, m.rows)]
    BY <1>5 DEF g, w
  <2> QED
    BY <1>1, <1>5, <1>6, <1>8, <1>9, <2>1, ContentTakeHave DEF Both
<1>11. /\ On(Way(o)') \subseteq On(Way(o)) /\ (\A x \in On(Way(o)) : x = m \/ x \in On(Way(o)'))
       /\ m \in On(Way(o)) /\ \A x \in On(Way(o)') : x.tells # "earlier"
  <2>1. Within(Way(o)', 3, 6)
    BY <1>1, <1>6, RankIs DEF Took
  <2>2. \A x \in On(Way(o)') : x.tells # "earlier"
    BY <2>1, OnWithin, RankIs
  <2> QED
    BY <1>6, <2>2 DEF Took
<1>12. had'[s] = stock[s] /\ had'[o] = had[o] /\ stock'[s] = stock[s] /\ Keeps(stock'[o], stock[o])
  BY <1>1, <1>5 DEF SyncTypes, Keeps
<1>13. Deal(o, s)'
  <2> SUFFICES ASSUME Alive(o, s)' PROVE Deal(o, s)'
    BY DEF Deal
  <2>1. Offers(o, s)
    BY DEF Both, Lasts, Deal
  <2>2. offered[s] = HeldOf(said[o], Gens)
    BY <1>1, <1>11, <2>1 DEF Offers, Spoken
  <2>3. m.rows = HeldOf(said[o], Live)
    BY <1>1, <1>11 DEF Both, Content, Telling
  <2> QED
    BY <1>1, <1>5, <1>6, <1>9, <1>12, <2>2, <2>3, DealTakeHave DEF ms
<1>14. Deal(s, o)'
  <2> DEFINE v == Way(s)'
  <2>1. v = Way(s) \o ms /\ Way(s) \in Seq(Frames)
    BY <1>6, WayTyped
  <2> HIDE DEF v
  <2>2. On(v) = On(Way(s)) \cup On(ms) /\ \A i, e, k : Ahead(Way(s), k, i, e) => Ahead(v, k, i, e)
    BY <1>4, <2>1, WayGrows
  <2>3. /\ \A x \in On(Way(s)) : x \in On(Way(s)')
        /\ \A x \in On(Way(s)') : x \in On(Way(s)) \/ x.tells # "have"
        /\ \A i, e, k : Ahead(Way(s), k, i, e) => Ahead(Way(s)', k, i, e)
    BY <1>3, <1>5, <2>2 DEF v
  <2>4. \A x \in On(Way(o)) : x \in On(Way(o)') \/ x.tells \notin {"want", "wantEarlier"}
    BY <1>1, <1>11
  <2> QED
    BY <1>5, <1>8, <1>12, <2>3, <2>4, DealKept DEF Both, Lasts
<1>15. Store(s)' /\ Store(o)'
  BY <1>5, <1>12, StoreSame DEF Both
<1> QED
  BY <1>8, <1>10, <1>13, <1>14, <1>15 DEF Both

LEMMA BothTakeWants ==
    ASSUME SyncTypes, NEW s \in Sides, NEW o \in Sides, o = Other(s), Both(s, o), Lasts(s, o),
           TakeWantEarlier(s) \/ TakeWant(s)
    PROVE  Both(s, o)'
<1> DEFINE m == Head(link[s])
<1>1. /\ Took(m, Way(o), Way(o)') /\ m.tells \in {"want", "wantEarlier"} /\ Way(s)' = Way(s) /\ s # o
      /\ Ongoing(s) /\ (m.tells = "want" <=> TakeWant(s)) /\ Owes(s, m.rows)
      /\ UNCHANGED <<stock, outbox, keyed, offered, asked, wanted, said, had>>
  BY TookQuietly, TwoSides DEF TakeWantEarlier, TakeWant, Arrives, Both, Turns
<1> HIDE DEF m
<1>2. m \in Frames /\ m \in On(Way(o))
  BY <1>1 DEF Took
<1>3. m.rows \in SUBSET (Items \X Nat)
  BY <1>1, <1>2, FrameFields
<1>4. Telling(m, o, s)
  BY <1>2 DEF Both, Content
<1>5. /\ \A t \in Sides : t # s => owed'[t] = owed[t]
      /\ DOMAIN owed'[s] = DOMAIN owed[s] \cup {w[1] : w \in m.rows}
      /\ \A i \in DOMAIN owed[s] : owed'[s][i] = owed[s][i]
      /\ \A w \in m.rows : w[1] \notin DOMAIN owed[s] => owed'[s][w[1]] = w[2]
  BY <1>1, <1>3, <1>4, OwesWhat DEF Telling
<1>6. /\ Turns(s, o)' /\ Turns(o, s)' /\ step'[o].gotHave = step[o].gotHave
      /\ step'[s].gotHave = step[s].gotHave /\ keyed[s] = {}
      /\ \A w \in m.rows : w[1] \notin DOMAIN owed[s]
  <2>1. CASE TakeWant(s)
    <3>1. step' = [step EXCEPT ![s] = Trades([@ EXCEPT !.gotWant = TRUE])] /\ m.tells = "want"
      BY <1>1, <2>1 DEF TakeWant
    <3>2. /\ Turns(s, o)' /\ Turns(o, s)' /\ DOMAIN owed[s] \subseteq Gens /\ ~step[s].gotWant
          /\ step'[o] = step[o] /\ step'[s].gotHave = step[s].gotHave
      BY <1>1, <1>5, <3>1, TurnsTakeWant DEF Both
    <3>3. \A w \in m.rows : w[1] \in Live
      BY <1>4, <3>1 DEF Telling
    <3>4. Live \cap Gens = {}
      BY SyncAssumption
    <3>5. keyed[s] = {}
      BY <3>2 DEF Both, Turns
    <3> QED
      BY <3>2, <3>3, <3>4, <3>5
  <2>2. CASE TakeWantEarlier(s)
    <3>1. m.tells = "wantEarlier" /\ step' = step
      <4>1. m.tells = "wantEarlier"
        BY <2>2 DEF TakeWantEarlier, Arrives, m
      <4> QED
        BY <2>2, <4>1 DEF TakeWantEarlier
    <3>2. \A w \in m.rows : w[1] \in Gens
      BY <1>4, <3>1 DEF Telling
    <3>3. DOMAIN owed[s] = {}
      BY <1>2, <3>1 DEF Both, Turns, Spoken
    <3>4. DOMAIN owed'[s] \subseteq Gens
      BY <1>5, <3>2, <3>3
    <3>5. Turns(s, o)' /\ Turns(o, s)' /\ ~step[s].gotWant
      BY <1>1, <1>5, <3>1, <3>4, TurnsTakeWantEarlier DEF Both
    <3>6. keyed[s] = {}
      BY <3>5 DEF Both, Turns
    <3> QED
      BY <3>1, <3>3, <3>5, <3>6
  <2>3. TakeWant(s) \/ TakeWantEarlier(s)
    OBVIOUS
  <2> QED
    BY <2>1, <2>2, <2>3
<1>7. Content(s, o)' /\ Content(o, s)'
  BY <1>1, <1>5, ContentTakeWants DEF Both
<1>8. Deal(s, o)'
  BY <1>1, <1>5, <1>6, DealTakeWants DEF Both, Lasts
<1>9. /\ On(Way(o)') \subseteq On(Way(o)) /\ (\A x \in On(Way(o)) : x = m \/ x \in On(Way(o)'))
      /\ \A i, e, k : Ahead(Way(o), k, i, e) => Ahead(Way(o)', k, i, e)
  BY <1>1, WayTyped, WayTaken
<1>10. Keeps(stock'[s], stock[s]) /\ owed'[o] = owed[o]
  BY <1>1, <1>5 DEF Keeps
<1>11. Deal(o, s)'
  <2>1. /\ \A x \in On(Way(o)) : x \in On(Way(o)') \/ x.tells \notin {"earlier", "keys", "entries", "blobs"}
        /\ \A x \in On(Way(o)') : x \in On(Way(o)) \/ x.tells # "have"
        /\ \A x \in On(Way(s)) : x \in On(Way(s)') \/ x.tells \notin {"want", "wantEarlier"}
    BY <1>1, <1>9
  <2> QED
    BY <1>1, <1>6, <1>9, <1>10, <2>1, DealKept DEF Both, Lasts
<1>12. Store(s)' /\ Store(o)'
  BY <1>1, StoreSame DEF Both
<1> QED
  BY <1>6, <1>7, <1>8, <1>11, <1>12 DEF Both

LEMMA BothTakeDone ==
    ASSUME SyncTypes, NEW s \in Sides, NEW o \in Sides, o = Other(s), Both(s, o), Lasts(s, o), TakeDone(s)
    PROVE  Both(s, o)'
<1> DEFINE m == Head(link[s])
<1>1. /\ Took(m, Way(o), Way(o)') /\ m.tells = "done" /\ Way(s)' = Way(s) /\ Ongoing(s) /\ s # o
      /\ step' = [step EXCEPT ![s].gotDone = TRUE]
      /\ UNCHANGED <<stock, outbox, owed, keyed, offered, asked, wanted, said, had>>
  BY TookQuietly, TwoSides DEF TakeDone, Arrives, Both, Turns
<1> HIDE DEF m
<1>2. /\ Turns(s, o)' /\ Turns(o, s)' /\ step'[o] = step[o] /\ step'[s].gotHave = step[s].gotHave
  BY <1>1, TurnsTakeDone DEF Both
<1>3. /\ On(Way(o)') \subseteq On(Way(o)) /\ (\A x \in On(Way(o)) : x = m \/ x \in On(Way(o)'))
      /\ \A i, e, k : Ahead(Way(o), k, i, e) => Ahead(Way(o)', k, i, e)
  BY <1>1, WayTyped, WayTaken
<1>4. Keeps(stock'[s], stock[s]) /\ Keeps(stock'[o], stock[o])
  BY <1>1 DEF Keeps
<1>5. Content(s, o)' /\ Deal(s, o)'
  BY <1>1, <1>2, <1>3, <1>4, Untouched DEF Both, Lasts
<1>6. Content(o, s)' /\ Deal(o, s)'
  BY <1>1, <1>2, <1>3, <1>4, Untouched DEF Both, Lasts
<1>7. Store(s)' /\ Store(o)'
  BY <1>1, StoreSame DEF Both
<1> QED
  BY <1>2, <1>5, <1>6, <1>7 DEF Both

LEMMA BothSayDone ==
    ASSUME SyncTypes, NEW s \in Sides, NEW o \in Sides, o = Other(s), Both(s, o), Lasts(s, o), SayDone(s)
    PROVE  Both(s, o)'
<1> DEFINE ms == <<[tells |-> "done"]>>
           v == Way(s)'
<1>1. ms \in Seq(Frames) /\ On(ms) = {[tells |-> "done"]} /\ Way(s) \in Seq(Frames)
  BY HelloTyped, WayTyped DEF On
<1>2. /\ Turns(s, o)' /\ Turns(o, s)' /\ Added(ms, Way(s), Way(s)', 6, 6)
      /\ Way(o)' = Way(o) /\ step'[o] = step[o] /\ step'[s].gotHave = step[s].gotHave
  BY TurnsSayDone DEF Both
<1> HIDE DEF ms
<1>3. v = Way(s) \o ms
  BY <1>2 DEF Added
<1> HIDE DEF v
<1>4. On(v) = On(Way(s)) \cup On(ms) /\ \A i, e, k : Ahead(Way(s), k, i, e) => Ahead(v, k, i, e)
  BY <1>1, <1>3, WayGrows
<1>5. /\ \A m \in On(Way(s)) : m \in On(Way(s)')
      /\ \A m \in On(Way(s)') : m \in On(Way(s)) \/ m.tells \in {"hello", "done"}
      /\ \A i, e, k : Ahead(Way(s), k, i, e) => Ahead(Way(s)', k, i, e)
  BY <1>1, <1>4 DEF v
<1>6. /\ UNCHANGED <<stock, owed, keyed, offered, asked, wanted, said, had>>
      /\ Keeps(stock'[s], stock[s]) /\ Keeps(stock'[o], stock[o])
  BY DEF SayDone, Keeps
<1>7. Content(s, o)' /\ Deal(s, o)'
  BY <1>2, <1>5, <1>6, Untouched DEF Both, Lasts
<1>8. Content(o, s)' /\ Deal(o, s)'
  BY <1>2, <1>5, <1>6, Untouched DEF Both, Lasts
<1>9. Store(s)' /\ Store(o)'
  BY <1>6, StoreSame DEF Both
<1> QED
  BY <1>2, <1>7, <1>8, <1>9 DEF Both

(* Keys, entries or blobs taken.                                           *)
LEMMA BothTakes ==
    ASSUME SyncTypes, NEW s \in Sides, NEW o \in Sides, o = Other(s), Both(s, o), Lasts(s, o),
           NEW what \in {"keys", "entries", "blobs"}, Arrives(s, what), NEW m, m = Head(link[s]),
           Keeps(stock'[s], stock[s]), stock'[o] = stock[o], Lands(m, s),
           \A i \in Items : stock'[s].entries[i] \cap Expired \subseteq stock[s].entries[i],
           wanted[s] \subseteq wanted'[s] \cup stock'[s].blobs, wanted'[o] = wanted[o],
           what = "entries" => \A e \in m.entries :
             <<m.item, e>> \in Attached /\ Opens(stock[s].keys[m.item], m.item, e) =>
               <<m.item, e>> \in wanted'[s] \cup stock'[s].blobs,
           UNCHANGED <<step, outbox, owed, keyed, offered, asked, said, had>>
    PROVE  Both(s, o)'
<1>1. /\ Took(m, Way(o), Way(o)') /\ m.tells = what /\ Way(s)' = Way(s) /\ Ongoing(s) /\ s # o
  BY TookQuietly, TwoSides DEF Arrives, Both, Turns
<1>2. Turns(s, o)' /\ Turns(o, s)'
  BY <1>1, TurnsQuiet DEF Both
<1>3. On(Way(o)') \subseteq On(Way(o)) /\ (\A x \in On(Way(o)) : x = m \/ x \in On(Way(o)'))
  BY <1>1 DEF Took
<1>4. Content(s, o)' /\ Content(o, s)'
  <2>1. \A x : (Telling(x, s, o) => Telling(x, s, o)') /\ (Telling(x, o, s) => Telling(x, o, s)')
    BY DEF Telling
  <2> QED
    BY <1>1, <1>3, <2>1 DEF Content, Both
<1>5. Deal(o, s)'
  BY <1>1, DealTakes DEF Both, Lasts
<1>6. Deal(s, o)'
  <2>1. \A x \in On(Way(o)) : x \in On(Way(o)') \/ x.tells \notin {"want", "wantEarlier"}
    BY <1>1, <1>3
  <2>2. Keeps(stock'[o], stock[o])
    BY DEF Keeps
  <2> QED
    BY <1>1, <2>1, <2>2, DealKept DEF Both, Lasts
<1>7. Store(s)'
  BY StoreGrows DEF Both
<1>8. Store(o)'
  BY StoreSame DEF Both
<1> QED
  BY <1>2, <1>4, <1>5, <1>6, <1>7, <1>8 DEF Both

LEMMA BothTakeKeys ==
    ASSUME SyncTypes, NEW s \in Sides, NEW o \in Sides, o = Other(s), Both(s, o), Lasts(s, o), TakeKeys(s)
    PROVE  Both(s, o)'
<1> DEFINE m == Head(link[s])
<1>1. /\ Arrives(s, "keys") /\ s # o /\ m \in Frames /\ m.tells = "keys"
      /\ UNCHANGED <<step, outbox, owed, keyed, offered, asked, wanted, said, had>>
  BY TwoSides, ArrivesTyped DEF TakeKeys
<1>2. m.item \in Items /\ m.keys \in SUBSET Nat
  BY <1>1, FrameFields
<1>3. m \in On(Way(o))
  <2>1. Took(m, Way(o), Way(o)')
    BY <1>1, TookQuietly DEF Both, Turns
  <2> QED
    BY <2>1 DEF Took
<1>4. m.keys # {} /\ m.item \in Live \cup asked[s]
  BY <1>1, <1>3 DEF Both, Content, Telling
<1> DEFINE it == m.item
           ks == m.keys
<1>5. stock' = [stock EXCEPT ![s].keys[it] = @ \cup ks]
  BY <1>4 DEF TakeKeys
<1>6. it \in Items /\ ks \in SUBSET Nat
  BY <1>2
<1> HIDE DEF it, ks
<1>7. /\ \A t \in Sides : t # s => stock'[t] = stock[t]
      /\ stock'[s].entries = stock[s].entries /\ stock'[s].blobs = stock[s].blobs
      /\ \A j \in Items : j # it => stock'[s].keys[j] = stock[s].keys[j]
      /\ stock'[s].keys[it] = stock[s].keys[it] \cup ks
  BY ONLY SyncTypes, s \in Sides, <1>5, <1>6, KeysGrow, ZenonT(60)
<1>8. Keeps(stock'[s], stock[s]) /\ stock'[o] = stock[o]
      /\ \A i \in Items : stock'[s].entries[i] \cap Expired \subseteq stock[s].entries[i]
  BY <1>1, <1>7 DEF Keeps
<1>9. Lands(m, s)
  BY <1>1, <1>4, <1>7 DEF Lands, it, ks
<1> HIDE DEF m
<1> QED
  BY <1>1, <1>8, <1>9, BothTakes DEF m

LEMMA BothTakeEntries ==
    ASSUME SyncTypes, NEW s \in Sides, NEW o \in Sides, o = Other(s), Both(s, o), Lasts(s, o), TakeEntries(s)
    PROVE  Both(s, o)'
<1> DEFINE m == Head(link[s])
           it == m.item
           es == m.entries
           n == m.life
<1>1. /\ Arrives(s, "entries") /\ s # o /\ m \in Frames /\ m.tells = "entries"
      /\ UNCHANGED <<step, outbox, owed, keyed, offered, asked, said, had>>
      /\ stock' = [stock EXCEPT ![s].entries[it] = @ \cup es, ![s].life[it] = n]
      /\ wanted' = [wanted EXCEPT ![s] = @ \cup (Named(stock[s].keys[it], it, es) \ stock[s].blobs)]
  BY TwoSides, ArrivesTyped DEF TakeEntries
<1>2. it \in Items /\ es \in SUBSET (1..Top) /\ n \in Nat /\ es \cap Expired = {}
  BY <1>1, FrameFields
<1> HIDE DEF it, es, n
<1>3. /\ \A t \in Sides : t # s => stock'[t] = stock[t]
      /\ stock'[s].keys = stock[s].keys /\ stock'[s].blobs = stock[s].blobs
      /\ \A j \in Items : j # it => stock'[s].entries[j] = stock[s].entries[j]
      /\ stock'[s].entries[it] = stock[s].entries[it] \cup es
  <2>1. stock' = [stock EXCEPT ![s].entries[it] = @ \cup es, ![s].life[it] = n]
    BY <1>1
  <2>2. Entered(s, it, es)
    BY <1>2, <2>1, EntriesGrow
  <2> QED
    BY <2>2 DEF Entered
<1>4. Keeps(stock'[s], stock[s]) /\ stock'[o] = stock[o]
      /\ \A i \in Items : stock'[s].entries[i] \cap Expired \subseteq stock[s].entries[i]
  BY <1>1, <1>2, <1>3 DEF Keeps
<1>5. Lands(m, s)
  BY <1>1, <1>3 DEF Lands, it, es
<1>6. wanted'[s] = wanted[s] \cup (Named(stock[s].keys[it], it, es) \ stock[s].blobs) /\ wanted'[o] = wanted[o]
  BY <1>1 DEF SyncTypes
<1>7. \A e \in es : <<it, e>> \in Attached /\ Opens(stock[s].keys[it], it, e) =>
        <<it, e>> \in wanted'[s] \cup stock'[s].blobs
  BY <1>2, <1>3, <1>6 DEF Named
<1>8. \A e \in m.entries : <<m.item, e>> \in Attached /\ Opens(stock[s].keys[m.item], m.item, e) =>
        <<m.item, e>> \in wanted'[s] \cup stock'[s].blobs
  BY <1>7 DEF it, es
<1>9. wanted[s] \subseteq wanted'[s] \cup stock'[s].blobs
  BY <1>6
<1> HIDE DEF m
<1>10. UNCHANGED <<step, outbox, owed, keyed, offered, asked, said, had>> /\ Arrives(s, "entries")
  BY <1>1
<1> QED
  BY <1>4, <1>5, <1>6, <1>8, <1>9, <1>10, BothTakes DEF m

LEMMA BothTakeBlobs ==
    ASSUME SyncTypes, NEW s \in Sides, NEW o \in Sides, o = Other(s), Both(s, o), Lasts(s, o), TakeBlobs(s)
    PROVE  Both(s, o)'
<1> DEFINE m == Head(link[s])
           ids == m.ids \cap wanted[s]
<1>1. /\ Arrives(s, "blobs") /\ s # o /\ m \in Frames /\ m.tells = "blobs"
      /\ UNCHANGED <<step, outbox, owed, keyed, offered, asked, said, had>>
      /\ stock' = [stock EXCEPT ![s].blobs = @ \cup ids]
      /\ wanted' = [wanted EXCEPT ![s] = @ \ ids]
  BY TwoSides, ArrivesTyped DEF TakeBlobs
<1>2. ids \in SUBSET (Items \X (1..Top))
  BY DEF SyncTypes
<1> HIDE DEF ids
<1>3. /\ \A t \in Sides : t # s => stock'[t] = stock[t]
      /\ stock'[s].keys = stock[s].keys /\ stock'[s].entries = stock[s].entries
      /\ stock'[s].blobs = stock[s].blobs \cup ids
  <2>1. stock' = [stock EXCEPT ![s].blobs = @ \cup ids]
    BY <1>1
  <2> QED
    BY ONLY SyncTypes, s \in Sides, <1>2, <2>1, BlobsGrow, ZenonT(60)
<1>4. Keeps(stock'[s], stock[s]) /\ stock'[o] = stock[o]
      /\ \A i \in Items : stock'[s].entries[i] \cap Expired \subseteq stock[s].entries[i]
  BY <1>1, <1>3 DEF Keeps
<1>5. Lands(m, s)
  BY <1>1, <1>3 DEF Lands, ids
<1>6. wanted'[s] = wanted[s] \ ids /\ wanted'[o] = wanted[o]
  BY <1>1 DEF SyncTypes
<1>7. wanted[s] \subseteq wanted'[s] \cup stock'[s].blobs
  BY <1>3, <1>6
<1> HIDE DEF m
<1>8. UNCHANGED <<step, outbox, owed, keyed, offered, asked, said, had>> /\ Arrives(s, "blobs")
  BY <1>1
<1> QED
  BY <1>4, <1>5, <1>6, <1>7, <1>8, BothTakes DEF m

LEMMA BothServe ==
    ASSUME SyncTypes, NEW s \in Sides, NEW o \in Sides, o = Other(s), Both(s, o), Lasts(s, o),
           NEW i \in Items, Serve(s, i)
    PROVE  Both(s, o)'
<1> DEFINE ms == PageSaid(s, i)
<1>1. /\ Queues(s, ms) /\ step[s].phase = "trading" /\ i \in DOMAIN owed[s]
      /\ UNCHANGED <<stock, step, link, open, offered, asked, wanted, said, had>>
  BY DEF Serve, PageSaid, KeysFrame, EntriesFrame, BlobsFrame, BlobsOf, Page
<1>2. ms \in Seq(Frames) /\ Ordered(ms) /\ Within(ms, 5, 5) /\ s # o
  BY PageOn, TwoSides
<1>3. /\ \A t \in Sides : t # s => keyed'[t] = keyed[t] /\ owed'[t] = owed[t]
      /\ DOMAIN owed'[s] \subseteq DOMAIN owed[s]
  BY DEF Serve, SyncTypes
<1> HIDE DEF ms
<1>4. Way(s)' = Way(s) \o ms /\ Way(o)' = Way(o)
  BY <1>1, <1>2, SaysMore
<1>5. Turns(s, o)' /\ Turns(o, s)' /\ Added(ms, Way(s), Way(s)', 5, 5)
  <2>1. DOMAIN owed[s] # {}
    BY <1>1
  <2> QED
    BY <1>1, <1>2, <1>3, <1>4, <2>1, TurnsSays DEF Both
<1>6. On(Way(s)') = On(Way(s)) \cup On(ms)
  BY <1>5 DEF Added
<1>7. Content(s, o)' /\ Content(o, s)'
  BY <1>4, <1>6, ContentServe DEF Both, ms
<1>8. Deal(s, o)'
  BY <1>4, DealServe DEF Both, Lasts, ms
<1>9. Keeps(stock'[s], stock[s]) /\ owed'[o] = owed[o] /\ keyed'[o] = keyed[o]
  BY <1>1, <1>2, <1>3 DEF Keeps
<1>10. Deal(o, s)'
  BY <1>1, <1>4, <1>6, <1>9, DealKept DEF Both, Lasts
<1>11. Store(s)' /\ Store(o)'
  BY <1>1, StoreSame DEF Both
<1> QED
  BY <1>5, <1>7, <1>8, <1>10, <1>11 DEF Both

(* What is sent, finished or fetched passes nothing over.                  *)
LEMMA BothStill ==
    ASSUME SyncTypes, NEW s \in Sides, NEW o \in Sides, o = Other(s), Both(s, o), Lasts(s, o),
           Way(s)' = Way(s), Way(o)' = Way(o), Turns(s, o)', Turns(o, s)',
           step'[s].gotHave = step[s].gotHave, step'[o].gotHave = step[o].gotHave,
           Keeps(stock'[s], stock[s]), Keeps(stock'[o], stock[o]),
           \A a \in {s, o}, i \in Items : stock'[a].entries[i] \cap Expired \subseteq stock[a].entries[i] \cup {Top},
           UNCHANGED <<owed, keyed, offered, asked, wanted, said, had>>
    PROVE  Both(s, o)'
<1>1. Content(s, o)' /\ Deal(s, o)'
  BY Untouched DEF Both, Lasts
<1>2. Content(o, s)' /\ Deal(o, s)'
  BY Untouched DEF Both, Lasts
<1>3. Store(s)'
  BY StoreGrows DEF Both
<1>4. Store(o)'
  BY StoreGrows DEF Both
<1> QED
  BY <1>1, <1>2, <1>3, <1>4 DEF Both

LEMMA BothSend ==
    ASSUME SyncTypes, NEW s \in Sides, NEW o \in Sides, o = Other(s), Both(s, o), Lasts(s, o), Send(s)
    PROVE  Both(s, o)'
<1>1. Way(s)' = Way(s) /\ Way(o)' = Way(o)
  BY SendWays
<1>2. UNCHANGED <<stock, step, owed, keyed, offered, asked, wanted, said, had>>
      /\ Keeps(stock'[s], stock[s]) /\ Keeps(stock'[o], stock[o])
  BY DEF Send, Keeps
<1>3. Turns(s, o)'
  BY <1>1, <1>2 DEF Both, Turns, Unmet, Spoken
<1>4. Turns(o, s)'
  BY <1>1, <1>2 DEF Both, Turns, Unmet, Spoken
<1> QED
  BY <1>1, <1>2, <1>3, <1>4, BothStill

LEMMA BothFinish ==
    ASSUME SyncTypes, NEW s \in Sides, NEW o \in Sides, o = Other(s), Both(s, o), Lasts(s, o), Finish(s)
    PROVE  Both(s, o)'
<1>1. /\ Turns(s, o)' /\ Turns(o, s)' /\ Way(s)' = Way(s) /\ Way(o)' = Way(o)
      /\ step'[o] = step[o] /\ step'[s].gotHave = step[s].gotHave
  BY TurnsFinish DEF Both
<1>2. UNCHANGED <<stock, owed, keyed, offered, asked, wanted, said, had>>
      /\ Keeps(stock'[s], stock[s]) /\ Keeps(stock'[o], stock[o])
  BY DEF Finish, Keeps
<1> QED
  BY <1>1, <1>2, BothStill

LEMMA BothFetches ==
    ASSUME SyncTypes, NEW s \in Sides, NEW o \in Sides, o = Other(s), Both(s, o), Lasts(s, o),
           NEW i \in Items, Fetches(s, i)
    PROVE  Both(s, o)'
<1>1. stock[s].entries[i] \in SUBSET (1..Top) /\ Reached(stock[s].entries[i]) < Top
  BY DEF SyncTypes, Stock, Fetches
<1>2. {Top} \in SUBSET (1..Top) /\ Serves \in Nat /\ s # o
  <2>1. Reached(stock[s].entries[i]) \in Nat
    BY <1>1, ReachedTyped
  <2> QED
    BY <1>1, <2>1, SyncAssumption, TwoSides DEF Serves
<1> DEFINE es == {Top}
           n == Serves
<1>3. stock' = [stock EXCEPT ![s].entries[i] = @ \cup es, ![s].life[i] = n]
  BY DEF Fetches
<1>4. es \in SUBSET (1..Top) /\ n \in Nat
  BY <1>2
<1> HIDE DEF es, n
<1>5. /\ \A t \in Sides : t # s => stock'[t] = stock[t]
      /\ stock'[s].keys = stock[s].keys /\ stock'[s].blobs = stock[s].blobs
      /\ \A j \in Items : j # i => stock'[s].entries[j] = stock[s].entries[j]
      /\ stock'[s].entries[i] = stock[s].entries[i] \cup es
  <2>2. Entered(s, i, es)
    BY <1>3, <1>4, EntriesGrow
  <2> QED
    BY <2>2 DEF Entered
<1>6. /\ Keeps(stock'[s], stock[s]) /\ Keeps(stock'[o], stock[o]) /\ stock'[o] = stock[o]
      /\ \A j \in Items : stock'[s].entries[j] \subseteq stock[s].entries[j] \cup {Top}
  BY <1>2, <1>5 DEF Keeps, es
<1>7. /\ Way(s)' = Way(s) /\ Way(o)' = Way(o)
      /\ UNCHANGED <<step, owed, keyed, offered, asked, wanted, said, had>>
  BY DEF Fetches, Way
<1>8. Turns(s, o)'
  BY <1>7 DEF Both, Turns, Unmet, Spoken
<1>9. Turns(o, s)'
  BY <1>7 DEF Both, Turns, Unmet, Spoken
<1>10. \A a \in {s, o}, j \in Items : stock'[a].entries[j] \cap Expired \subseteq stock[a].entries[j] \cup {Top}
  BY <1>6
<1> QED
  BY <1>6, <1>7, <1>8, <1>9, <1>10, BothStill

LEMMA BothGone ==
    ASSUME SyncTypes, NEW s \in Sides, NEW o \in Sides, o = Other(s), Both(s, o), SessionGone
    PROVE  Both(s, o)'
<1>1. /\ Ordered(Way(s)') /\ On(Way(s)') \subseteq On(Way(s)) /\ (Way(s) = <<>> => Way(s)' = <<>>)
      /\ \A lo, hi \in 0..6 : Within(Way(s), lo, hi) => Within(Way(s)', lo, hi)
  BY GoneWays DEF Both, Turns
<1>2. /\ Ordered(Way(o)') /\ On(Way(o)') \subseteq On(Way(o)) /\ (Way(o) = <<>> => Way(o)' = <<>>)
      /\ \A lo, hi \in 0..6 : Within(Way(o), lo, hi) => Within(Way(o)', lo, hi)
  BY GoneWays DEF Both, Turns
<1>3. UNCHANGED <<stock, step, outbox, owed, keyed, offered, asked, wanted, said, had>>
  BY DEF SessionGone
<1>4. Turns(s, o)' /\ Turns(o, s)'
  BY <1>1, <1>2, <1>3, TurnsShrink DEF Both
<1>5. \A x : (Telling(x, s, o) => Telling(x, s, o)') /\ (Telling(x, o, s) => Telling(x, o, s)')
  BY <1>3 DEF Telling
<1>6. Content(s, o)' /\ Content(o, s)'
  BY <1>1, <1>2, <1>3, <1>5 DEF Both, Content
<1>7. Deal(s, o)'
  BY <1>1, DealGone DEF Both
<1>8. Deal(o, s)'
  BY <1>2, DealGone DEF Both
<1>9. Store(s)' /\ Store(o)'
  BY <1>3, StoreSame DEF Both
<1> QED
  BY <1>4, <1>6, <1>7, <1>8, <1>9 DEF Both

-----------------------------------------------------------------------------
(* The invariant.  While neither failed, what was said is on its way in    *)
(* its turn, and what a side was told of it holds, or is to come.          *)
SyncInv ==
  SyncTypes /\ (Fine => \A s \in Sides : Both(s, Other(s)))

LEMMA FineBefore ==
    ASSUME SyncTypes, SyncNext, Fine'
    PROVE  Fine
<1> SUFFICES ASSUME NEW t \in Sides, step[t].phase = "failed" PROVE step'[t].phase = "failed"
  BY DEF Fine
<1>1. step \in [Sides -> Steps]
  BY DEF SyncTypes
<1>2. CASE UNCHANGED step
  BY <1>2
<1>3. ASSUME NEW s \in Sides, SyncOf(s), step' # step PROVE step'[t].phase = "failed"
  <2>1. CASE Fails(s)
    BY <1>1, <2>1 DEF Fails, Steps
  <2>2. CASE ~Fails(s)
    <3>1. step[s].phase # "failed"
      BY <1>3, <2>2
         DEF SyncOf, Greet, TakeHello, RefuseHello, TakeEarlier,
             TakeHave, TakeWantEarlier, TakeWant, TakeKeys, TakeEntries, RefuseEntries, TakeBlobs, TakeDone,
             SayDone, Send, Finish, LinkLost, CloseFailed, Serve, Fetches, Arrives, Ongoing
    <3>2. \A r \in Sides : r # s => step'[r] = step[r]
      BY <1>1, <1>3
         DEF SyncOf, Greet, TakeHello, RefuseHello, TakeEarlier,
             TakeHave, TakeWantEarlier, TakeWant, TakeKeys, TakeEntries, RefuseEntries, TakeBlobs, TakeDone,
             SayDone, Send, Finish, LinkLost, CloseFailed, Serve, Fetches, Fails
    <3> QED
      BY <3>1, <3>2
  <2> QED
    BY <2>1, <2>2
<1> QED
  BY <1>2, <1>3 DEF SyncNext, SessionGone, Over, syncVars

LEMMA BothFails ==
    ASSUME SyncTypes, NEW s \in Sides,
           RefuseHello(s) \/ RefuseEntries(s) \/ LinkLost(s) \/ CloseFailed(s)
    PROVE  ~Fine'
<1>1. CASE Fails(s)
  BY <1>1 DEF Fails, Fine, SyncTypes, Steps
<1>2. CASE CloseFailed(s)
  BY <1>2 DEF CloseFailed, Fine
<1> QED
  BY <1>1, <1>2 DEF RefuseHello, RefuseEntries, LinkLost

LEMMA SyncInvInit == SyncInit => SyncInv
<1> SUFFICES ASSUME SyncInit PROVE SyncInv
  OBVIOUS
<1>1. stock \in Stocks /\ said = stock /\ had = stock
  BY DEF SyncInit
<1>2. /\ stock \in [Sides -> Stock] /\ \A s \in Sides, i \in Items : IsFiniteSet(stock[s].keys[i])
  <2>1. /\ stock = [s \in Sides |-> stock[s]] /\ \A s \in Sides : stock[s] \in Stock
        /\ \A s \in Sides, i \in Items : IsFiniteSet(stock[s].keys[i])
    BY <1>1, SyncAssumption
  <2> QED
    BY <2>1
<1>3. SyncTypes
  <2>1. step \in [Sides -> Steps]
    BY DEF SyncInit, Steps, Phases
  <2>2. link \in [Sides -> Seq(Frames)] /\ outbox \in [Sides -> Seq(Frames)]
    BY DEF SyncInit
  <2>3. owed \in [Sides -> UNION {[d -> Nat] : d \in SUBSET Items}]
    <3>1. <<>> \in [{} -> Nat] /\ {} \in SUBSET Items
      OBVIOUS
    <3> QED
      BY <3>1 DEF SyncInit
  <2> QED
    BY <1>1, <1>2, <2>1, <2>2, <2>3 DEF SyncInit, SyncTypes
<1>4. ASSUME NEW a \in Sides, NEW b \in Sides, b = Other(a)
      PROVE  Turns(a, b) /\ Content(a, b) /\ Deal(a, b) /\ Store(a)
  <2>1. Other(a) \in Sides /\ Other(b) \in Sides
    BY TwoSides
  <2>2. Way(a) = <<>> /\ Way(b) = <<>>
    <3>1. <<>> \o <<>> = <<>>
      OBVIOUS
    <3> QED
      BY <2>1, <3>1 DEF Way, SyncInit
  <2>3. On(<<>>) = {} /\ Ordered(<<>>) /\ \A lo, hi : Within(<<>>, lo, hi)
    BY DEF On, Ordered, Within
  <2>4. \A s \in {a, b} : /\ step[s].phase = "greeting" /\ Quiet(step[s])
                          /\ owed[s] = <<>> /\ keyed[s] = {} /\ offered[s] = {}
    BY DEF SyncInit, Quiet
  <2>5. DOMAIN owed[a] = {} /\ DOMAIN owed[b] = {}
    BY <2>4
  <2>6. Turns(a, b)
    BY <2>2, <2>3, <2>4, <2>5 DEF Turns, Spoken, Quiet
  <2>7. Content(a, b)
    BY <2>2, <2>3, <2>4, <2>5 DEF Content
  <2>8. Deal(a, b)
    BY <2>2, <2>3, <2>4 DEF Deal, Offers, Flow, Spoken, Quiet
  <2>9. Store(a)
    BY <1>1 DEF Store, Keeps
  <2> QED
    BY <2>6, <2>7, <2>8, <2>9
<1>5. \A s \in Sides : Both(s, Other(s))
  <2> SUFFICES ASSUME NEW s \in Sides PROVE Both(s, Other(s))
    OBVIOUS
  <2>1. Other(s) \in Sides /\ Other(Other(s)) = s
    BY TwoSides
  <2> QED
    BY <1>4, <2>1 DEF Both
<1> QED
  BY <1>3, <1>5 DEF SyncInv

LEMMA SyncInvNext ==
    ASSUME SyncInv, [SyncNext]_syncVars
    PROVE  SyncInv'
<1>1. SyncTypes /\ SyncTypes'
  BY SyncTypesKept DEF SyncInv
<1>2. CASE UNCHANGED syncVars
  <2>1. Fine' <=> Fine
    BY <1>2 DEF Fine, syncVars
  <2>2. ASSUME NEW s \in Sides, NEW o \in Sides, Both(s, o) PROVE Both(s, o)'
    <3>1. Way(s)' = Way(s) /\ Way(o)' = Way(o)
      BY <1>2 DEF Way, syncVars
    <3>2. (Turns(s, o) => Turns(s, o)') /\ (Turns(o, s) => Turns(o, s)')
      BY <1>2, <3>1 DEF Turns, Unmet, Spoken, syncVars
    <3>3. /\ \A x : (Telling(x, s, o) => Telling(x, s, o)') /\ (Telling(x, o, s) => Telling(x, o, s)')
          /\ Keeps(stock'[s], stock[s]) /\ Keeps(stock'[o], stock[o])
      BY <1>2 DEF Telling, syncVars, Keeps
    <3>4. (Content(s, o) => Content(s, o)') /\ (Content(o, s) => Content(o, s)')
      BY <1>2, <3>1, <3>3 DEF Content, syncVars
    <3>5. Alive(s, o)' = Alive(s, o) /\ Alive(o, s)' = Alive(o, s)
      BY <1>2 DEF Alive, syncVars
    <3>6. Deal(s, o) => Deal(s, o)'
      BY <1>2, <3>1, <3>3, <3>5, DealKept DEF syncVars
    <3>7. Deal(o, s) => Deal(o, s)'
      BY <1>2, <3>1, <3>3, <3>5, DealKept DEF syncVars
    <3>8. (Store(s) => Store(s)') /\ (Store(o) => Store(o)')
      BY <1>2, StoreSame DEF syncVars
    <3> QED
      BY <2>2, <3>2, <3>4, <3>6, <3>7, <3>8 DEF Both
  <2>3. \A s \in Sides : Both(s, Other(s)) => Both(s, Other(s))'
    BY <2>2, TwoSides
  <2> QED
    BY <1>1, <2>1, <2>3 DEF SyncInv
<1>3. CASE Over
  BY <1>2, <1>3 DEF Over
<1>4. CASE (SessionGone \/ \E s \in Sides : SyncOf(s)) /\ Fine'
  <2>1. Fine /\ SyncNext
    BY <1>1, <1>4, FineBefore DEF SyncNext
  <2>2. \A s, o \in Sides : Lasts(s, o)
    BY <1>1, <2>1, AliveBefore DEF Lasts
  <2>3. ASSUME NEW s \in Sides, SessionGone \/ SyncOf(s) PROVE Both(s, Other(s))'
    <3> DEFINE o == Other(s)
    <3>1. o \in Sides /\ Both(s, o) /\ Lasts(s, o) /\ o = Other(s)
      BY <2>1, <2>2, TwoSides DEF SyncInv
    <3> HIDE DEF o
    <3>2. CASE SessionGone
      BY <1>1, <3>1, <3>2, BothGone
    <3>3. CASE Greet(s)
      BY <1>1, <3>1, <3>3, BothGreet
    <3>4. CASE TakeHello(s)
      BY <1>1, <3>1, <3>4, BothTakeHello
    <3>5. CASE TakeEarlier(s)
      BY <1>1, <3>1, <3>5, BothTakeEarlier
    <3>6. CASE TakeHave(s)
      BY <1>1, <3>1, <3>6, BothTakeHave
    <3>7. CASE TakeWantEarlier(s) \/ TakeWant(s)
      BY <1>1, <3>1, <3>7, BothTakeWants
    <3>8. CASE TakeKeys(s)
      BY <1>1, <3>1, <3>8, BothTakeKeys
    <3>9. CASE TakeEntries(s)
      BY <1>1, <3>1, <3>9, BothTakeEntries
    <3>10. CASE TakeBlobs(s)
      BY <1>1, <3>1, <3>10, BothTakeBlobs
    <3>11. CASE TakeDone(s)
      BY <1>1, <3>1, <3>11, BothTakeDone
    <3>12. CASE SayDone(s)
      BY <1>1, <3>1, <3>12, BothSayDone
    <3>13. CASE Send(s)
      BY <1>1, <3>1, <3>13, BothSend
    <3>14. CASE Finish(s)
      BY <1>1, <3>1, <3>14, BothFinish
    <3>15. ASSUME NEW i \in Items, Serve(s, i) PROVE Both(s, Other(s))'
      BY <1>1, <3>1, <3>15, BothServe
    <3>16. ASSUME NEW i \in Items, Fetches(s, i) PROVE Both(s, Other(s))'
      BY <1>1, <3>1, <3>16, BothFetches
    <3>17. ~(RefuseHello(s) \/ RefuseEntries(s) \/ LinkLost(s) \/ CloseFailed(s))
      BY <1>1, <1>4, BothFails
    <3>19. CASE \E i \in Items : Serve(s, i) \/ Fetches(s, i)
      BY <3>15, <3>16, <3>19
    <3>20. CASE SyncOf(s)
      BY <3>3, <3>4, <3>5, <3>6, <3>7, <3>8, <3>9, <3>10, <3>11, <3>12, <3>13, <3>14,
         <3>17, <3>19, <3>20 DEF SyncOf
    <3>18. Both(s, Other(s))'
      BY <2>3, <3>2, <3>20
    <3> QED
      BY <3>18
  <2>4. PICK s \in Sides : SessionGone \/ SyncOf(s)
    <3>1. Sides # {}
      BY SyncAssumption, FS_EmptySet
    <3> QED
      BY <1>4, <3>1
  <2>5. Both(s, Other(s))' /\ Both(Other(s), s)'
    BY <2>3, <2>4 DEF Both
  <2>6. \A t \in Sides : Both(t, Other(t))'
    BY <2>5, TwoSides
  <2> QED
    BY <1>1, <2>6 DEF SyncInv
<1>5. CASE ~Fine'
  BY <1>1, <1>5 DEF SyncInv
<1> QED
  BY <1>2, <1>3, <1>4, <1>5 DEF SyncNext

(* Two that finished have nothing on its way and nothing owed.             *)
LEMMA HandedWhenOver == SyncInv => SyncHandsOver
<1> SUFFICES ASSUME SyncInv, \A s \in Sides : step[s].phase = "finished", NEW s \in Sides, NEW i \in Items,
                    said[Other(s)].entries[i] # {}, said[Other(s)].entries[i] \cap Expired = {},
                    Comparable(had[s], said[Other(s)], i)
             PROVE  /\ said[Other(s)].entries[i] \subseteq stock[s].entries[i]
                    /\ \/ said[Other(s)].entries[i] \ had[s].entries[i] # {}
                       \/ Cardinality(said[Other(s)].keys[i]) > Cardinality(had[s].keys[i])
                       => said[Other(s)].keys[i] \subseteq stock[s].keys[i]
                    /\ Named(said[Other(s)].keys[i], i, said[Other(s)].entries[i] \ had[s].entries[i])
                         \cap said[Other(s)].blobs \subseteq stock[s].blobs
  BY DEF SyncHandsOver
<1> DEFINE a == Other(s)
<1>1. a \in Sides /\ Other(a) = s
  BY TwoSides
<1>2. Both(s, a) /\ SyncTypes
  BY <1>1 DEF SyncInv, Fine
<1> HIDE DEF a
<1>3. /\ step[s].gotDone /\ step[s].gotHave /\ step[a].gotDone /\ step[a].sentDone
  BY <1>1, <1>2 DEF Both, Turns
<1>4. Way(a) = <<>> /\ Way(s) = <<>> /\ DOMAIN owed[a] = {}
  BY <1>2, <1>3 DEF Both, Turns
<1>5. On(Way(a)) = {} /\ On(Way(s)) = {} /\ Len(Way(a)) = 0
  BY <1>4 DEF On
<1>6. Comes(a, s, i)
  BY <1>2, <1>3 DEF Both, Deal, Alive, Flow
<1>7. Unspoilt(a, s, i)
  BY DEF Unspoilt, a
<1>8. (\A e : ~Due(a, s, i, e)) /\ ~Asks(a, s, i) /\ \A k, e : ~Ahead(Way(a), k, i, e)
  BY <1>4, <1>5 DEF Due, Asks, RowOn, Ahead
<1>9. Keeps(stock[s], had[s])
  BY <1>2 DEF Both, Store
<1>10. said[a].entries[i] \subseteq stock[s].entries[i]
  <2> SUFFICES ASSUME NEW e \in said[a].entries[i] PROVE e \in stock[s].entries[i]
    OBVIOUS
  <2>1. CASE e \in had[s].entries[i]
    BY <1>9, <2>1 DEF Keeps
  <2>2. CASE e \notin had[s].entries[i]
    BY <1>5, <1>6, <1>7, <1>8, <2>2 DEF Comes, EntryComes
  <2> QED
    BY <2>1, <2>2
<1>11. ASSUME \/ said[a].entries[i] \ had[s].entries[i] # {}
              \/ Cardinality(said[a].keys[i]) > Cardinality(had[s].keys[i])
       PROVE  said[a].keys[i] \subseteq stock[s].keys[i]
  <2>1. ~(/\ said[a].entries[i] \subseteq had[s].entries[i]
          /\ ~(Cardinality(said[a].keys[i]) > Cardinality(had[s].keys[i])))
    BY <1>11
  <2> QED
    BY <1>5, <1>6, <1>7, <1>8, <2>1 DEF Comes, KeysCome
<1>12. ASSUME NEW e \in said[a].entries[i] \ had[s].entries[i], Opens(said[a].keys[i], i, e),
              <<i, e>> \in Attached, <<i, e>> \in said[a].blobs
       PROVE  <<i, e>> \in stock[s].blobs
  BY <1>5, <1>6, <1>7, <1>8, <1>12 DEF Comes, HasBlob, BlobComes
<1>13. Named(said[a].keys[i], i, said[a].entries[i] \ had[s].entries[i]) \cap said[a].blobs
         \subseteq stock[s].blobs
  BY <1>12 DEF Named
<1> QED
  BY <1>10, <1>11, <1>13 DEF a

(* When both sides have finished, each holds every entry the other had     *)
(* told it of, where it lacked one or held fewer keys every key, and the   *)
(* blobs of the entries it lacked (Since, serve and take in sync.rs;       *)
(* import in client.rs), for any stocks the two start with, any size of    *)
(* page, and any number of messages a direction of the session holds.      *)
THEOREM SyncHandsOverAlways == SyncSpec => []SyncHandsOver
<1>1. SyncInv /\ [SyncNext]_syncVars => SyncInv'
  BY SyncInvNext
<1> QED
  BY <1>1, SyncInvInit, HandedWhenOver, PTL DEF SyncSpec
=============================================================================
