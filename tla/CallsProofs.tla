----------------------------- MODULE CallsProofs -----------------------------
(***************************************************************************)
(* Voice between exchanges: the roster of a room that three exchanges      *)
(* share, for any members, ages and limits; the keys of a bridged call,    *)
(* for any number of devices, bridges and ephemerals; and what the two     *)
(* exchanges of a bridged call know of it, whatever order their messages   *)
(* cross in.                                                               *)
(***************************************************************************)
EXTENDS Relay, Rooms, FiniteSetTheorems, SequenceTheorems, TLAPS

----------------------------------------------------------------------------
(* A room between three exchanges.                                         *)

RoomAges == 0..RoomTTL
Hearing == [who : SUBSET RMembers, age : RoomAges]

RoomTypeOK ==
  /\ present \in [RMembers -> RoomAges]
  /\ sharers \in [Exchanges -> SUBSET Exchanges]
  /\ remote \in [Exchanges -> [Exchanges -> Hearing]]
  /\ owing \in [Exchanges -> SUBSET Exchanges]
  /\ goneFor \in [RMembers -> Nat]

(* Nobody shares with itself. *)
WithOthers == \A e \in Exchanges : sharers[e] \subseteq Peers(e) /\ owing[e] \subseteq Peers(e)

(* Whoever is in the room has not been gone. *)
HereIsNotGone == \A m \in RMembers : present[m] < RoomTTL => goneFor[m] = 0

(* What a member's home said of it is as old as its absence, or older; and *)
(* who else says it had it from there while it was young enough.           *)
HeardInTime ==
  \A e, p \in Exchanges : \A m \in remote[e][p].who :
    /\ HomeOf[m] = p => goneFor[m] <= remote[e][p].age
    /\ goneFor[m] < RoomTTL + remote[e][p].age

RoomInv == RoomTypeOK /\ WithOthers /\ HereIsNotGone /\ OwnNotEchoed /\ HeardInTime

(* What an exchange tells p of a member that is not at home at either is   *)
(* what that member's home told it: there is no other exchange.            *)
Trio == \E x, y, z \in Exchanges :
          x # y /\ y # z /\ x # z /\ Exchanges = {x, y, z}

LEMMA TrioAges ==
  ASSUME Trio PROVE Longest = RoomTTL + RoomTTL
<1>1. PICK x, y, z \in Exchanges : x # y /\ y # z /\ x # z /\ Exchanges = {x, y, z}
  BY DEF Trio
<1>2. IsFiniteSet({}) /\ Cardinality({}) = 0
  BY FS_EmptySet
<1>3. IsFiniteSet({x}) /\ Cardinality({x}) = 1
  BY FS_Singleton
<1>4. {x} \cup {y} = {x, y} /\ {x, y} \cup {z} = {x, y, z} /\ y \notin {x} /\ z \notin {x, y}
  BY <1>1
<1>5. IsFiniteSet({x, y}) /\ Cardinality({x, y}) = 2
  BY <1>3, <1>4, FS_AddElement
<1>6. Cardinality({x, y} \cup {z}) = Cardinality({x, y}) + 1
  BY <1>4, <1>5, FS_AddElement
<1>7. Cardinality(Exchanges) = 3
  BY <1>1, <1>4, <1>5, <1>6
<1> QED
  BY <1>7, RoomsAssumption DEF Longest

LEMMA RoomInitOK == RoomInit => RoomInv
<1> SUFFICES ASSUME RoomInit PROVE RoomInv
  OBVIOUS
<1> USE RoomsAssumption
<1>1. RoomTypeOK
  BY DEF RoomInit, RoomTypeOK, RoomAges, Hearing, Nothing
<1>2. \A e, p \in Exchanges : remote[e][p].who = {}
  BY DEF RoomInit, Nothing
<1> QED
  BY <1>1, <1>2 DEF RoomInit, RoomInv, WithOthers, HereIsNotGone, OwnNotEchoed, HeardInTime

(* Whoever is in a view was here, or was heard of from its home.           *)
LEMMA ViewIsFresh ==
  ASSUME RoomInv, Trio, NEW e \in Exchanges, NEW p \in Peers(e), NEW m \in ViewFor(e, p)
  PROVE  /\ m \in RMembers /\ HomeOf[m] # p
         /\ HomeOf[m] = e => goneFor[m] = 0
         /\ goneFor[m] < RoomTTL
<1> USE RoomsAssumption
<1>1. \/ m \in Here(e)
      \/ HomeOf[m] # p /\ \E q \in sharers[e] \ {p} : m \in Heard(e, q)
  BY DEF ViewFor, Lowest
<1>2. CASE m \in Here(e)
  BY <1>2 DEF Here, RoomInv, HereIsNotGone, Peers
<1>3. CASE HomeOf[m] # p /\ \E q \in sharers[e] \ {p} : m \in Heard(e, q)
  <2>1. PICK q \in sharers[e] \ {p} : m \in Heard(e, q)
    BY <1>3
  <2>2. q \in Exchanges /\ q # e /\ q # p /\ p # e
    BY <2>1 DEF RoomInv, WithOthers, Peers
  <2>3. m \in remote[e][q].who /\ remote[e][q].age < RoomTTL
    BY <2>1 DEF Heard
  <2>4. m \in RMembers /\ HomeOf[m] # e /\ HomeOf[m] \in Exchanges
    BY <2>2, <2>3 DEF RoomInv, RoomTypeOK, Hearing, OwnNotEchoed
  <2>5. HomeOf[m] = q
    <3>1. PICK x, y, z \in Exchanges : x # y /\ y # z /\ x # z /\ Exchanges = {x, y, z}
      BY DEF Trio
    <3>2. p \in Exchanges /\ HomeOf[m] # p
      BY <1>3 DEF Peers
    <3> QED
      BY <2>2, <2>4, <3>1, <3>2
  <2>6. goneFor[m] <= remote[e][q].age
    BY <2>2, <2>3, <2>5 DEF RoomInv, HeardInTime
  <2>7. remote[e][q].age \in Nat /\ goneFor[m] \in Nat /\ RoomTTL \in Nat
    BY <2>2, <2>4 DEF RoomInv, RoomTypeOK, RoomAges, Hearing
  <2> QED
    BY <1>3, <2>3, <2>4, <2>6, <2>7
<1> QED
  BY <1>1, <1>2, <1>3

(* What is heard later is the same, or nothing any more.                   *)
LEMMA LessHeard ==
  ASSUME RoomInv, RoomTypeOK', WithOthers', HereIsNotGone',
         \A m \in RMembers : goneFor'[m] <= goneFor[m],
         \A e, p \in Exchanges : remote'[e][p] \in {remote[e][p], Nothing}
  PROVE  RoomInv'
<1>1. \A e, p \in Exchanges : \A m \in remote'[e][p].who :
        m \in RMembers /\ m \in remote[e][p].who /\ remote'[e][p] = remote[e][p]
  BY DEF Nothing, RoomInv, RoomTypeOK, Hearing
<1>2. OwnNotEchoed'
  BY <1>1 DEF RoomInv, OwnNotEchoed
<1>3. HeardInTime'
  <2> SUFFICES ASSUME NEW e \in Exchanges, NEW p \in Exchanges, NEW m \in remote'[e][p].who
               PROVE  /\ HomeOf[m] = p => goneFor'[m] <= remote'[e][p].age
                      /\ goneFor'[m] < RoomTTL + remote'[e][p].age
    BY DEF HeardInTime
  <2>1. /\ HomeOf[m] = p => goneFor[m] <= remote[e][p].age
        /\ goneFor[m] < RoomTTL + remote[e][p].age
    BY <1>1 DEF RoomInv, HeardInTime
  <2>2. m \in RMembers /\ remote'[e][p].age = remote[e][p].age /\ goneFor'[m] <= goneFor[m]
    BY <1>1
  <2>3. goneFor[m] \in Nat /\ goneFor'[m] \in Nat /\ remote[e][p].age \in Nat /\ RoomTTL \in Nat
    BY <2>2, RoomsAssumption DEF RoomInv, RoomTypeOK, RoomAges, Hearing
  <2> QED
    BY <2>1, <2>2, <2>3
<1> QED
  BY <1>2, <1>3 DEF RoomInv

LEMMA RoomHeartbeat ==
  ASSUME RoomInv, NEW m \in RMembers, Heartbeat(m) PROVE RoomInv'
<1> USE RoomsAssumption
<1>0. HomeOf[m] \in Exchanges /\ Peers(HomeOf[m]) \subseteq Exchanges
  BY DEF Peers
<1>1. RoomTypeOK'
  <2>1. present' \in [RMembers -> RoomAges] /\ goneFor' \in [RMembers -> Nat]
    BY DEF RoomInv, RoomTypeOK, Heartbeat, RoomAges
  <2>2. sharers' \in [Exchanges -> SUBSET Exchanges]
    BY <1>0 DEF RoomInv, RoomTypeOK, Heartbeat
  <2>3. owing' \in [Exchanges -> SUBSET Exchanges]
    BY <1>0 DEF RoomInv, RoomTypeOK, Heartbeat
  <2> QED
    BY <2>1, <2>2, <2>3 DEF RoomInv, RoomTypeOK, Heartbeat
<1>2. WithOthers'
  BY DEF RoomInv, RoomTypeOK, WithOthers, Heartbeat, Peers
<1>3. HereIsNotGone'
  BY DEF RoomInv, RoomTypeOK, HereIsNotGone, Heartbeat
<1>4. \A n \in RMembers : goneFor'[n] <= goneFor[n]
  BY DEF RoomInv, RoomTypeOK, Heartbeat
<1> QED
  BY <1>1, <1>2, <1>3, <1>4, LessHeard DEF Heartbeat

LEMMA RoomLeave ==
  ASSUME RoomInv, NEW m \in RMembers, Leave(m) PROVE RoomInv'
<1> USE RoomsAssumption
<1>0. HomeOf[m] \in Exchanges /\ Peers(HomeOf[m]) \subseteq Exchanges
  BY DEF Peers
<1>1. RoomTypeOK'
  <2>1. present' \in [RMembers -> RoomAges] /\ goneFor' \in [RMembers -> Nat]
    BY DEF RoomInv, RoomTypeOK, Leave, RoomAges
  <2>2. sharers' \in [Exchanges -> SUBSET Exchanges]
    BY <1>0 DEF RoomInv, RoomTypeOK, Leave
  <2>3. owing' \in [Exchanges -> SUBSET Exchanges]
    BY <1>0 DEF RoomInv, RoomTypeOK, Leave
  <2> QED
    BY <2>1, <2>2, <2>3 DEF RoomInv, RoomTypeOK, Leave
<1>2. WithOthers'
  BY DEF RoomInv, RoomTypeOK, WithOthers, Leave
<1>3. HereIsNotGone'
  BY DEF RoomInv, RoomTypeOK, HereIsNotGone, Leave, RoomAges
<1>4. \A n \in RMembers : goneFor'[n] <= goneFor[n]
  BY DEF RoomInv, RoomTypeOK, Leave
<1> QED
  BY <1>1, <1>2, <1>3, <1>4, LessHeard DEF Leave

LEMMA RoomShare ==
  ASSUME RoomInv, Trio, NEW e \in Exchanges, NEW p \in Exchanges, Share(e, p) PROVE RoomInv'
<1> USE RoomsAssumption
<1>1. p \in Peers(e)
  BY DEF RoomInv, WithOthers, Share
<1>2. ViewFor(e, p) \subseteq RMembers
  BY <1>1, ViewIsFresh
<1> DEFINE said == [who |-> ViewFor(e, p), age |-> 0]
<1>3. said \in Hearing /\ said.who = ViewFor(e, p) /\ said.age = 0
  BY <1>2 DEF Hearing, RoomAges
<1> HIDE DEF said
<1>4. remote' = [remote EXCEPT ![p][e] = said]
  BY DEF Share, said
<1>5. RoomTypeOK'
  <2>1. remote' \in [Exchanges -> [Exchanges -> Hearing]]
    BY <1>3, <1>4 DEF RoomInv, RoomTypeOK
  <2>2. sharers' \in [Exchanges -> SUBSET Exchanges]
    BY DEF RoomInv, RoomTypeOK, Share
  <2>3. owing' \in [Exchanges -> SUBSET Exchanges]
    BY DEF RoomInv, RoomTypeOK, Share
  <2>4. present' \in [RMembers -> RoomAges] /\ goneFor' \in [RMembers -> Nat]
    BY DEF RoomInv, RoomTypeOK, Share
  <2> QED
    BY <2>1, <2>2, <2>3, <2>4 DEF RoomTypeOK
<1>6. WithOthers'
  BY <1>1 DEF RoomInv, RoomTypeOK, WithOthers, Share, Peers
<1>7. HereIsNotGone'
  BY DEF RoomInv, HereIsNotGone, Share
<1>8. remote'[p][e] = said /\ \A x, y \in Exchanges : x # p \/ y # e => remote'[x][y] = remote[x][y]
  BY <1>4 DEF RoomInv, RoomTypeOK
<1>9. OwnNotEchoed'
  BY <1>1, <1>3, <1>8, ViewIsFresh DEF RoomInv, OwnNotEchoed
<1>10. goneFor' = goneFor
  BY DEF Share
<1>11. HeardInTime'
  <2> SUFFICES ASSUME NEW x \in Exchanges, NEW y \in Exchanges, NEW m \in remote'[x][y].who
               PROVE  /\ HomeOf[m] = y => goneFor[m] <= remote'[x][y].age
                      /\ goneFor[m] < RoomTTL + remote'[x][y].age
    BY <1>10 DEF HeardInTime
  <2>1. CASE x = p /\ y = e
    <3>1. m \in ViewFor(e, p) /\ remote'[x][y].age = 0
      BY <1>3, <1>8, <2>1
    <3> QED
      BY <1>1, <2>1, <3>1, ViewIsFresh
  <2>2. CASE x # p \/ y # e
    BY <1>8, <2>2 DEF RoomInv, HeardInTime
  <2> QED
    BY <2>1, <2>2
<1> QED
  BY <1>5, <1>6, <1>7, <1>9, <1>11 DEF RoomInv

LEMMA RoomFewer ==
  ASSUME RoomInv, NEW e \in Exchanges, NEW p \in Exchanges,
         NotShared(e, p) \/ LinkGoes(e, p) \/ ExpireRoom(e)
  PROVE  RoomInv'
<1> USE RoomsAssumption
<1>0. Nothing \in Hearing
  BY DEF Nothing, Hearing, RoomAges
<1>1. \A x, y \in Exchanges : remote'[x][y] \in {remote[x][y], Nothing}
  BY DEF RoomInv, RoomTypeOK, NotShared, LinkGoes, ExpireRoom
<1>2. RoomTypeOK'
  <2>1. CASE NotShared(e, p)
    BY <2>1 DEF RoomInv, RoomTypeOK, NotShared
  <2>2. CASE LinkGoes(e, p)
    BY <1>0, <2>2 DEF RoomInv, RoomTypeOK, LinkGoes
  <2>3. CASE ExpireRoom(e)
    BY <1>0, <2>3 DEF RoomInv, RoomTypeOK, ExpireRoom
  <2> QED
    BY <2>1, <2>2, <2>3
<1>3. WithOthers'
  BY DEF RoomInv, RoomTypeOK, WithOthers, NotShared, LinkGoes, ExpireRoom
<1>4. HereIsNotGone' /\ goneFor' = goneFor
  BY DEF RoomInv, HereIsNotGone, NotShared, LinkGoes, ExpireRoom
<1>5. \A n \in RMembers : goneFor'[n] <= goneFor[n]
  BY <1>4 DEF RoomInv, RoomTypeOK
<1> QED
  BY <1>1, <1>2, <1>3, <1>4, <1>5, LessHeard

LEMMA RoomTicks ==
  ASSUME RoomInv, Trio, RoomTick PROVE RoomInv'
<1> USE RoomsAssumption
<1>0. Longest \in Nat
  BY TrioAges
<1>1. \A a \in RoomAges : Aged(a) \in RoomAges /\ a <= Aged(a) /\ (Aged(a) # RoomTTL => Aged(a) = a + 1)
  BY DEF RoomAges, Aged
<1>2. \A x, y \in Exchanges :
        remote'[x][y] = IF Aged(remote[x][y].age) = RoomTTL THEN Nothing
                        ELSE [remote[x][y] EXCEPT !.age = Aged(remote[x][y].age)]
  BY DEF RoomTick
<1>3. Nothing \in Hearing /\ Nothing.who = {}
  BY DEF Nothing, Hearing, RoomAges
<1>4. \A x, y \in Exchanges :
        /\ remote'[x][y] \in Hearing
        /\ \A m \in remote'[x][y].who : /\ m \in remote[x][y].who
                                        /\ remote'[x][y].age = remote[x][y].age + 1
  <2> SUFFICES ASSUME NEW x \in Exchanges, NEW y \in Exchanges
               PROVE  /\ remote'[x][y] \in Hearing
                      /\ \A m \in remote'[x][y].who : /\ m \in remote[x][y].who
                                                      /\ remote'[x][y].age = remote[x][y].age + 1
    OBVIOUS
  <2>1. remote[x][y] \in Hearing /\ remote[x][y].age \in RoomAges
    BY DEF RoomInv, RoomTypeOK, Hearing
  <2>2. CASE Aged(remote[x][y].age) = RoomTTL
    BY <1>2, <1>3, <2>2
  <2>3. CASE Aged(remote[x][y].age) # RoomTTL
    <3>1. remote'[x][y] = [remote[x][y] EXCEPT !.age = Aged(remote[x][y].age)]
      BY <1>2, <2>3
    <3>2. Aged(remote[x][y].age) \in RoomAges /\ Aged(remote[x][y].age) = remote[x][y].age + 1
      BY <1>1, <2>1, <2>3
    <3> QED
      BY <2>1, <3>1, <3>2 DEF Hearing
  <2> QED
    BY <2>2, <2>3
<1>5. remote' = [x \in Exchanges |-> remote'[x]] /\ \A x \in Exchanges : remote'[x] = [y \in Exchanges |-> remote'[x][y]]
  BY DEF RoomTick
<1>6. remote' \in [Exchanges -> [Exchanges -> Hearing]]
  BY <1>4, <1>5
<1>7. /\ goneFor' \in [RMembers -> Nat]
      /\ \A m \in RMembers : goneFor'[m] \in {goneFor[m], goneFor[m] + 1}
      /\ \A m \in RMembers : present[m] < RoomTTL => goneFor'[m] = goneFor[m]
  BY <1>0 DEF RoomInv, RoomTypeOK, RoomTick
<1>8. /\ present' \in [RMembers -> RoomAges]
      /\ \A m \in RMembers : present'[m] < RoomTTL => present[m] < RoomTTL
  BY <1>1 DEF RoomInv, RoomTypeOK, RoomTick, RoomAges
<1>9. RoomTypeOK' /\ WithOthers'
  BY <1>6, <1>7, <1>8 DEF RoomInv, RoomTypeOK, WithOthers, RoomTick
<1>10. HereIsNotGone'
  BY <1>7, <1>8 DEF RoomInv, HereIsNotGone
<1>11. OwnNotEchoed'
  BY <1>4 DEF RoomInv, OwnNotEchoed
<1>12. HeardInTime'
  <2> SUFFICES ASSUME NEW e \in Exchanges, NEW p \in Exchanges, NEW m \in remote'[e][p].who
               PROVE  /\ HomeOf[m] = p => goneFor'[m] <= remote'[e][p].age
                      /\ goneFor'[m] < RoomTTL + remote'[e][p].age
    BY DEF HeardInTime
  <2>1. m \in remote[e][p].who /\ remote'[e][p].age = remote[e][p].age + 1
    BY <1>4
  <2>2. /\ HomeOf[m] = p => goneFor[m] <= remote[e][p].age
        /\ goneFor[m] < RoomTTL + remote[e][p].age
    BY <2>1 DEF RoomInv, HeardInTime
  <2>3. m \in RMembers /\ remote[e][p].age \in Nat /\ goneFor[m] \in Nat /\ RoomTTL \in Nat
    <3>1. remote[e][p] \in Hearing
      BY DEF RoomInv, RoomTypeOK
    <3>2. m \in RMembers /\ remote[e][p].age \in Nat
      BY <2>1, <3>1 DEF RoomAges, Hearing
    <3> QED
      BY <3>2 DEF RoomInv, RoomTypeOK
  <2>4. goneFor'[m] \in {goneFor[m], goneFor[m] + 1}
    BY <1>7, <2>3
  <2> QED
    BY <2>1, <2>2, <2>3, <2>4
<1> QED
  BY <1>9, <1>10, <1>11, <1>12 DEF RoomInv

LEMMA RoomNextOK == Trio /\ RoomInv /\ [RoomNext]_roomVars => RoomInv'
<1> SUFFICES ASSUME Trio, RoomInv, [RoomNext]_roomVars PROVE RoomInv'
  OBVIOUS
<1>1. ASSUME NEW m \in RMembers, Heartbeat(m) PROVE RoomInv'
  BY <1>1, RoomHeartbeat
<1>2. ASSUME NEW m \in Leavers, Leave(m) PROVE RoomInv'
  BY <1>2, RoomLeave, RoomsAssumption
<1>3. ASSUME NEW e \in Exchanges, NEW p \in Exchanges, Share(e, p) PROVE RoomInv'
  BY <1>3, RoomShare
<1>4. ASSUME NEW e \in Exchanges, NEW p \in Exchanges,
             NotShared(e, p) \/ LinkGoes(e, p) \/ ExpireRoom(e) PROVE RoomInv'
  BY <1>4, RoomFewer
<1>5. CASE RoomTick
  BY <1>5, RoomTicks
<1>6. CASE UNCHANGED roomVars
  BY <1>6 DEF roomVars, RoomInv, RoomTypeOK, WithOthers, HereIsNotGone, OwnNotEchoed, HeardInTime
<1> QED
  BY <1>1, <1>2, <1>3, <1>4, <1>5, <1>6 DEF RoomNext, RoomSteps, RoomFaults

LEMMA RoomInvImplies == Trio /\ RoomInv => RosterIsCurrent
<1> SUFFICES ASSUME Trio, RoomInv, NEW m \in RMembers, goneFor[m] >= Longest, NEW e \in Exchanges
             PROVE  m \notin RosterAt(e)
  BY DEF RosterIsCurrent, GoneIsGone, RoomInv
<1> USE RoomsAssumption
<1>1. RoomTTL \in Nat \ {0} /\ goneFor[m] \in Nat /\ goneFor[m] >= RoomTTL + RoomTTL
  BY TrioAges DEF RoomInv, RoomTypeOK
<1>2. m \notin Here(e)
  BY <1>1 DEF RoomInv, HereIsNotGone, Here
<1>3. ASSUME NEW p \in sharers[e], m \in Heard(e, p) PROVE FALSE
  <2>1. p \in Exchanges
    BY <1>3 DEF RoomInv, RoomTypeOK
  <2>2. m \in remote[e][p].who /\ remote[e][p].age < RoomTTL
    BY <1>3 DEF Heard
  <2>3. goneFor[m] < RoomTTL + remote[e][p].age /\ remote[e][p].age \in Nat
    BY <2>1, <2>2 DEF RoomInv, HeardInTime, RoomTypeOK, Hearing, RoomAges
  <2> QED
    BY <1>1, <2>2, <2>3
<1> QED
  BY <1>2, <1>3 DEF RosterAt

(* What three exchanges tell each other of a room never keeps anyone in    *)
(* it, for any members, limits and links that go (share_room, take_share   *)
(* and view_for, room.rs).  With a fourth it may.                          *)
THEOREM RosterIsCurrentForThree ==
  ASSUME Trio PROVE RoomSpec => []RosterIsCurrent
<1>1. RoomInv /\ [RoomNext]_roomVars => RoomInv'
  BY RoomNextOK
<1>2. RoomInv => RosterIsCurrent
  BY RoomInvImplies
<1> QED
  BY <1>1, <1>2, RoomInitOK, PTL DEF RoomSpec

----------------------------------------------------------------------------
(* The keys of a call to an account.                                       *)

Notes == {"ended", "signed", "plain", "refused", "unreachable", "declined", "answered"}
Message == [kind : {"invite", "accept", "reject", "close"}, bridge : Bridges, eph : Nat,
            dev : Devs \cup {NoDev}, note : Notes]
CallOf == [bridge : Bridges \cup {0}, peer : Devs \cup {NoDev}, theirs : Nat]
XRecord == [eph : Nat, outcome : {"none", "ringing", "established", "rejected"},
            callee : Devs \cup {NoDev}, calleeEph : Nat, age : Nat, signed : BOOLEAN]
YRecord == [eph : Nat, callee : Devs \cup {NoDev}, calleeEph : Nat, age : Nat]

CallerRecord == [state : {"idle", "waiting", "asking", "in"}, eph : Nat, call : CallOf]
DevRecord == [state : {"idle", "opening", "in"}, eph : Nat, call : CallOf]

RelayTypeOK ==
  /\ addressed \in Devs \cup {NoDev} /\ lists \in [{"x", "y"} -> BOOLEAN]
  /\ xb \in [Bridges -> XRecord] /\ xIndex \in Bridges \cup {0}
  /\ yb \in [Bridges -> YRecord] /\ yIndex \in Bridges \cup {0}
  /\ made \in 0..MaxBridges /\ placing \subseteq Nat
  /\ linked \in BOOLEAN /\ lossy \in BOOLEAN
  /\ toX \in Seq(Message) /\ toY \in Seq(Message)
  /\ caller \in CallerRecord /\ (caller.state = "in" => caller.call.bridge \in Bridges)
  /\ dev \in [Devs -> DevRecord]
  /\ \A d \in Devs : dev[d].state = "in" => dev[d].call.bridge \in Bridges
  /\ rung \in [Devs -> SUBSET Bridges] /\ pending \in [Devs -> Nat]

(* The messages an account's keys depend on, of bridge b.                  *)
Invites(b) == {m \in Message : m.kind = "invite" /\ m.bridge = b}
Refusals(b) == {m \in Message : m.kind = "reject" /\ m.note = "refused" /\ m.bridge = b}
Accepts(b) == {m \in Message : m.kind = "accept" /\ m.bridge = b}
About(b) == Invites(b) \cup Refusals(b) \cup Accepts(b)

NoneIn(chan, Q) == \A i \in 1..Len(chan) : chan[i] \notin Q
OneIn(chan, Q) == \A i, j \in 1..Len(chan) : chan[i] \in Q /\ chan[j] \in Q => i = j

(* Device d is in the call of bridge b; so is the caller.                  *)
In(d, b) == dev[d].state = "in" /\ dev[d].call.bridge = b
CallerIn(b) == caller.state = "in" /\ caller.call.bridge = b

(* Nobody has answered bridge b, as far as anything can tell.              *)
NoAnswer(b) ==
  /\ NoneIn(toX, Accepts(b)) /\ xb[b].outcome # "established" /\ ~CallerIn(b)
  /\ \A d \in Devs : ~In(d, b)

(* Only d may be in it, and with that ephemeral. *)
Only(b, d, e) == \A g \in Devs : In(g, b) => g = d /\ dev[g].eph = e

(* What Y knows of the caller's ephemeral, or will. *)
Offered(b, e) ==
  /\ NoneIn(toY, {m \in Invites(b) : m.eph # e})
  /\ yb[b] # NoY => yb[b].eph = e
  /\ \A d \in Devs : In(d, b) => dev[d].call.theirs = e

(* An invite goes out once more, and only after it was refused: while one, *)
(* or its refusal, is on its way, Y has no record and nobody answered.     *)
Invited(b) ==
  /\ OneIn(toY, Invites(b)) /\ OneIn(toX, Refusals(b))
  /\ NoneIn(toY, Invites(b)) \/ NoneIn(toX, Refusals(b))
  /\ ~NoneIn(toY, Invites(b)) \/ ~NoneIn(toX, Refusals(b)) => yb[b] = NoY /\ NoAnswer(b)

(* The device Y has on record is in the call, and nobody while it rings.   *)
Recorded(b) ==
  yb[b] # NoY => IF yb[b].callee = NoDev THEN NoAnswer(b) ELSE In(yb[b].callee, b)

(* Whatever X hears, or has heard, of an answer is of the one device that  *)
(* is in the call, if it still is.                                         *)
AnswerMatches(b) ==
  /\ NoneIn(toX, {m \in Accepts(b) : ~Only(b, m.dev, m.eph)})
  /\ xb[b].outcome = "established" => Only(b, xb[b].callee, xb[b].calleeEph)
  /\ CallerIn(b) => Only(b, caller.call.peer, caller.call.theirs)

(* Y has, and will have, the caller's ephemeral that X placed the call for. *)
OfferMatches(b) ==
  /\ xb[b] # NoX => Offered(b, xb[b].eph)
  /\ CallerIn(b) => Offered(b, caller.eph)

(* A bridge not yet made is nowhere. *)
Nowhere(b) ==
  /\ xb[b] = NoX /\ yb[b] = NoY /\ NoAnswer(b)
  /\ NoneIn(toY, About(b)) /\ NoneIn(toX, About(b))

BridgeOK(b) ==
  /\ Invited(b) /\ Recorded(b) /\ AnswerMatches(b) /\ OfferMatches(b)
  /\ b > made => Nowhere(b)

AccountInv == addressed = NoDev /\ RelayTypeOK /\ \A b \in Bridges : BridgeOK(b)

(* Sequences of messages: what is in them once more is sent, or received.  *)
LEMMA HeadGone ==
  ASSUME NEW c \in Seq(Message), c # <<>>, NEW Q
  PROVE  /\ Tail(c) \in Seq(Message) /\ Head(c) \in Message
         /\ NoneIn(c, Q) => NoneIn(Tail(c), Q) /\ Head(c) \notin Q
         /\ OneIn(c, Q) => OneIn(Tail(c), Q)
         /\ OneIn(c, Q) /\ Head(c) \in Q => NoneIn(Tail(c), Q)
<1>1. /\ Tail(c) \in Seq(Message) /\ Head(c) \in Message /\ Head(c) = c[1]
      /\ Len(c) \in Nat \ {0} /\ Len(Tail(c)) = Len(c) - 1
      /\ \A i \in 1..Len(Tail(c)) : Tail(c)[i] = c[i + 1]
  BY HeadTailProperties, LenProperties, EmptySeq
<1>2. \A i \in 1..Len(Tail(c)) : i + 1 \in 1..Len(c) /\ i + 1 # 1
  BY <1>1
<1>3. 1 \in 1..Len(c)
  BY <1>1
<1> HIDE DEF Message
<1>4. NoneIn(c, Q) => NoneIn(Tail(c), Q) /\ Head(c) \notin Q
  BY <1>1, <1>2, <1>3 DEF NoneIn
<1>5. OneIn(c, Q) => OneIn(Tail(c), Q)
  <2> SUFFICES ASSUME OneIn(c, Q), NEW i \in 1..Len(Tail(c)), NEW j \in 1..Len(Tail(c)),
                      Tail(c)[i] \in Q, Tail(c)[j] \in Q
               PROVE  i = j
    BY DEF OneIn
  <2>1. i + 1 = j + 1
    BY <1>1, <1>2 DEF OneIn
  <2> QED
    BY <2>1
<1>6. OneIn(c, Q) /\ Head(c) \in Q => NoneIn(Tail(c), Q)
  BY <1>1, <1>2, <1>3 DEF OneIn, NoneIn
<1> QED
  BY <1>1, <1>4, <1>5, <1>6

LEMMA OneMoreSent ==
  ASSUME NEW c \in Seq(Message), NEW m \in Message, NEW Q
  PROVE  /\ c \o <<m>> \in Seq(Message)
         /\ NoneIn(c, Q) => OneIn(c \o <<m>>, Q)
         /\ NoneIn(c, Q) /\ m \notin Q => NoneIn(c \o <<m>>, Q)
         /\ OneIn(c, Q) /\ m \notin Q => OneIn(c \o <<m>>, Q)
<1> DEFINE d == c \o <<m>>
<1>1. /\ d \in Seq(Message) /\ Len(c) \in Nat /\ Len(d) = Len(c) + 1
      /\ \A i \in 1..Len(c) : d[i] = c[i]
      /\ d[Len(c) + 1] = m
  BY ConcatProperties, LenProperties
<1> HIDE DEF d, Message
<1>2. \A i \in 1..Len(d) : i \in 1..Len(c) \/ i = Len(c) + 1
  BY <1>1
<1>3. NoneIn(c, Q) => OneIn(d, Q)
  BY <1>1, <1>2 DEF NoneIn, OneIn
<1>4. NoneIn(c, Q) /\ m \notin Q => NoneIn(d, Q)
  BY <1>1, <1>2 DEF NoneIn
<1>5. OneIn(c, Q) /\ m \notin Q => OneIn(d, Q)
  BY <1>1, <1>2 DEF OneIn
<1> QED
  BY <1>1, <1>3, <1>4, <1>5 DEF d

LEMMA NothingSent ==
  /\ <<>> \in Seq(Message)
  /\ \A Q : NoneIn(<<>>, Q) /\ OneIn(<<>>, Q)
  BY EmptySeq DEF NoneIn, OneIn

LEMMA NoneIsOne == ASSUME NEW c, NEW Q, NoneIn(c, Q) PROVE OneIn(c, Q)
  BY DEF NoneIn, OneIn

(* The channel c became d, and no message that matters to bridge b came.   *)
Quieter(b, c, d) ==
  \A Q \in SUBSET About(b) : (NoneIn(c, Q) => NoneIn(d, Q)) /\ (OneIn(c, Q) => OneIn(d, Q))

LEMMA QuieterSame == \A b, c : Quieter(b, c, c)
  BY DEF Quieter
LEMMA QuieterTail ==
  ASSUME NEW c \in Seq(Message), c # <<>> PROVE \A b : Quieter(b, c, Tail(c))
  BY HeadGone DEF Quieter
LEMMA QuieterNone == \A b, c : Quieter(b, c, <<>>)
  BY NothingSent DEF Quieter
LEMMA QuieterSent ==
  ASSUME NEW c \in Seq(Message), NEW m \in Message, NEW b, m \notin About(b)
  PROVE  c \o <<m>> \in Seq(Message) /\ Quieter(b, c, c \o <<m>>)
  BY OneMoreSent DEF Quieter

LEMMA KindsApart ==
  ASSUME NEW b \in Bridges
  PROVE  /\ Close(b) \in Message /\ \A c : Close(b) \notin About(c)
         /\ \A r \in {"unreachable", "declined"} :
              Reject(b, r) \in Message /\ \A c : Reject(b, r) \notin About(c)
         /\ Reject(b, "refused") \in Refusals(b) /\ Reject(b, "refused") \in Message
         /\ \A e \in Nat, w \in BOOLEAN : Invite(b, e, w) \in Invites(b) /\ Invite(b, e, w).eph = e
         /\ \A e \in Nat, d \in Devs : /\ Accept(b, e, d) \in Accepts(b)
                                       /\ Accept(b, e, d).eph = e /\ Accept(b, e, d).dev = d
  BY DEF Close, Reject, Invite, Accept, Msg, Message, About, Invites, Refusals, Accepts, Notes

LEMMA SetsApart ==
  ASSUME NEW b
  PROVE  /\ Invites(b) \subseteq About(b) /\ Refusals(b) \subseteq About(b)
         /\ Accepts(b) \subseteq About(b) /\ About(b) \subseteq Message
         /\ \A m \in Invites(b) : \A c : m \notin Accepts(c) /\ m \notin Refusals(c)
         /\ \A m \in Refusals(b) : \A c : m \notin Accepts(c) /\ m \notin Invites(c)
         /\ \A m \in Accepts(b) : \A c : m \notin Refusals(c) /\ m \notin Invites(c)
         /\ \A m \in About(b) : \A c : m \in About(c) => b = c
  BY DEF About, Invites, Refusals, Accepts

LEMMA CloseAllTyped ==
  ASSUME NEW S \in SUBSET Bridges
  PROVE  \/ S = {} /\ CloseAll(S) = <<>>
         \/ \E b \in S : CloseAll(S) = <<Close(b)>>
  BY DEF CloseAll

LEMMA SendTyped ==
  ASSUME RelayTypeOK, NEW s \in Seq(Message)
  PROVE  /\ \A up \in BOOLEAN : SendToY(up, s) => toY' \in Seq(Message)
         /\ SendToX(s) => toX' \in Seq(Message)
<1>1. /\ toX \in Seq(Message) /\ toX \o s \in Seq(Message)
      /\ toY \in Seq(Message) /\ toY \o s \in Seq(Message)
  BY ConcatProperties DEF RelayTypeOK
<1> HIDE DEF Message
<1> QED
  BY <1>1 DEF SendToX, SendToY

LEMMA MessageTyped ==
  ASSUME NEW m \in Message PROVE <<m>> \in Seq(Message) /\ <<>> \in Seq(Message)
  BY EmptySeq

LEMMA ReplacedTyped ==
  ASSUME NEW e PROVE Replaced(e) \subseteq Bridges /\ CloseAll(Replaced(e)) \in Seq(Message)
<1>1. Replaced(e) \in SUBSET Bridges
  BY DEF Replaced
<1>2. CASE Replaced(e) = {}
  BY <1>1, <1>2, EmptySeq DEF CloseAll
<1>3. CASE Replaced(e) # {}
  <2>1. PICK b \in Replaced(e) : CloseAll(Replaced(e)) = <<Close(b)>>
    BY <1>3 DEF CloseAll
  <2> QED
    BY <1>1, <2>1, KindsApart, MessageTyped
<1> QED
  BY <1>2, <1>3

LEMMA MessagesTyped ==
  ASSUME NEW b \in Bridges, NEW e \in Nat, NEW w \in BOOLEAN
  PROVE  Messages(e, b, w) \in Seq(Message)
<1>1. <<Invite(b, e, w)>> \in Seq(Message)
  BY KindsApart, MessageTyped DEF Invites
<1> QED
  BY <1>1, ReplacedTyped, ConcatProperties DEF Messages

LEMMA NoRecords ==
  NoX \in XRecord /\ NoY \in YRecord /\ NoCall \in CallOf
  BY DEF NoX, NoY, NoCall, XRecord, YRecord, CallOf

LEMMA AnsweredTyped ==
  ASSUME RelayTypeOK, NEW b \in Bridges, Answered(xb[b], b)
  PROVE  caller' \in CallerRecord /\ (caller'.state = "in" => caller'.call.bridge \in Bridges)
<1>1. xb[b] \in XRecord /\ caller \in CallerRecord
  BY DEF RelayTypeOK
<1>2. CASE xb[b].outcome = "established"
  <2> DEFINE k == [bridge |-> b, peer |-> xb[b].callee, theirs |-> xb[b].calleeEph]
  <2>1. k \in CallOf /\ k.bridge = b
    BY <1>1 DEF CallOf, XRecord
  <2> HIDE DEF k
  <2>2. caller' = [caller EXCEPT !.state = "in", !.call = k]
    BY <1>2 DEF Answered, k
  <2> QED
    BY <1>1, <2>1, <2>2 DEF CallerRecord
<1>3. CASE xb[b].outcome = "rejected"
  BY <1>1, <1>3 DEF Answered, CallerRecord
<1>4. CASE xb[b].outcome \notin {"established", "rejected"}
  BY <1>1, <1>4 DEF Answered, CallerRecord
<1> QED
  BY <1>2, <1>3, <1>4

(* Dropping a bridge, and telling the far side.                            *)
LEMMA DropTyped ==
  ASSUME RelayTypeOK, NEW b \in Bridges
  PROVE  /\ DropX(xb, b) \in [Bridges -> XRecord] /\ DropX(xb, b)[b] = NoX
         /\ \A c \in Bridges : c # b => DropX(xb, b)[c] = xb[c]
         /\ DropY(yb, b) \in [Bridges -> YRecord] /\ DropY(yb, b)[b] = NoY
         /\ \A c \in Bridges : c # b => DropY(yb, b)[c] = yb[c]
         /\ SendToY(linked, <<Close(b)>>) => toY' \in Seq(Message)
         /\ SendToX(<<Close(b)>>) => toX' \in Seq(Message)
         /\ \A r \in {"refused", "unreachable", "declined"} :
              SendToX(<<Reject(b, r)>>) => toX' \in Seq(Message)
<1>1. /\ Close(b) \in Message
      /\ \A r \in {"refused", "unreachable", "declined"} : Reject(b, r) \in Message
  BY KindsApart DEF Refusals
<1>2. linked \in BOOLEAN
  BY DEF RelayTypeOK
<1>3. /\ DropX(xb, b) \in [Bridges -> XRecord] /\ DropX(xb, b)[b] = NoX
      /\ \A c \in Bridges : c # b => DropX(xb, b)[c] = xb[c]
      /\ DropY(yb, b) \in [Bridges -> YRecord] /\ DropY(yb, b)[b] = NoY
      /\ \A c \in Bridges : c # b => DropY(yb, b)[c] = yb[c]
  BY NoRecords DEF RelayTypeOK, DropX, DropY
<1> QED
  BY <1>1, <1>2, <1>3, SendTyped, MessageTyped

(* The caller keeps its types. *)
LEMMA TypeCaller ==
  ASSUME RelayTypeOK,
         Dial \/ GiveUp \/ PollReports \/ PollPlaces \/ CallerHangsUp \/ CallerRebuilds
  PROVE  RelayTypeOK'
<1> USE NoRecords, RelayAssumption
<1> DEFINE goodCaller == caller' \in CallerRecord /\ (caller'.state = "in" => caller'.call.bridge \in Bridges)
<1>0. caller \in CallerRecord
  BY DEF RelayTypeOK
<1>1. CASE Dial
  <2>1. goodCaller
    BY <1>0, <1>1 DEF Dial, CallerRecord
  <2> QED
    BY <1>1, <2>1 DEF Dial, RelayTypeOK, xVars, yVars, netVars
<1>2. CASE GiveUp
  <2>1. goodCaller
    BY <1>0, <1>2 DEF GiveUp, CallerRecord
  <2> QED
    BY <1>2, <2>1 DEF GiveUp, RelayTypeOK, xVars, yVars, netVars
<1>3. CASE PollReports
  <2>1. xIndex \in Bridges
    BY <1>3 DEF PollReports, SameCall, RelayTypeOK
  <2>2. goodCaller
    BY <1>3, <2>1, AnsweredTyped DEF PollReports
  <2>3. xb' \in [Bridges -> XRecord] /\ xIndex' \in Bridges \cup {0}
    BY <1>3, <2>1, DropTyped DEF PollReports, RelayTypeOK
  <2> QED
    BY <1>3, <2>2, <2>3 DEF PollReports, RelayTypeOK, yVars, netVars
<1>4. CASE PollPlaces
  <2>2. CloseAll(Replaced(caller.eph)) \in Seq(Message)
    BY ReplacedTyped
  <2>3. toY' \in Seq(Message) /\ lossy' \in BOOLEAN
    BY <1>4, <2>2, SendTyped DEF PollPlaces, RelayTypeOK, SendToY
  <2>4. goodCaller
    BY <1>0, <1>4 DEF PollPlaces, CallerRecord
  <2>5. /\ xb' \in [Bridges -> XRecord] /\ xIndex' \in Bridges \cup {0}
        /\ placing' \subseteq Nat
    BY <1>0, <1>4 DEF PollPlaces, RelayTypeOK, CallerRecord
  <2> QED
    BY <1>4, <2>3, <2>4, <2>5 DEF PollPlaces, RelayTypeOK, yVars
<1>5. CASE CallerHangsUp
  <2>1. caller.call.bridge \in Bridges
    BY <1>5 DEF CallerHangsUp, RelayTypeOK
  <2>2. /\ toY' \in Seq(Message) /\ xb' \in [Bridges -> XRecord]
        /\ xIndex' \in Bridges \cup {0} /\ lossy' \in BOOLEAN
    BY <1>5, <2>1, DropTyped DEF CallerHangsUp, RelayTypeOK, SendToY
  <2>3. goodCaller
    BY <1>0, <1>5 DEF CallerHangsUp, CallerRecord
  <2> QED
    BY <1>5, <2>2, <2>3 DEF CallerHangsUp, RelayTypeOK, yVars
<1>6. CASE CallerRebuilds
  <2>1. goodCaller
    BY <1>0, <1>6 DEF CallerRebuilds, CallerRecord
  <2> QED
    BY <1>6, <2>1 DEF CallerRebuilds, RelayTypeOK, xVars, yVars, netVars
<1> QED
  BY <1>1, <1>2, <1>3, <1>4, <1>5, <1>6

(* The new record of a bridge that is placed. *)
Rings(e, w) == [NoX EXCEPT !.eph = e, !.outcome = "ringing", !.signed = w]

LEMMA RingsTyped ==
  ASSUME NEW e \in Nat, NEW w \in BOOLEAN
  PROVE  /\ Rings(e, w) \in XRecord /\ Rings(e, w).eph = e /\ Rings(e, w).outcome = "ringing"
         /\ Rings(e, w) # NoX /\ Rings(e, w).signed = w
  BY DEF Rings, NoX, XRecord

LEMMA TypePlacing ==
  ASSUME RelayTypeOK, NEW e \in placing, PlaceFails(e) \/ PlaceLost(e) \/ PlaceInsert(e)
  PROVE  RelayTypeOK'
<1> USE NoRecords, RelayAssumption
<1> DEFINE goodCaller == caller' \in CallerRecord /\ (caller'.state = "in" => caller'.call.bridge \in Bridges)
<1>0. /\ caller \in CallerRecord /\ (caller.state = "in" => caller.call.bridge \in Bridges)
      /\ e \in Nat
  BY DEF RelayTypeOK
<1>1. CASE PlaceFails(e)
  <2>1. goodCaller
    BY <1>0, <1>1 DEF PlaceFails, CallerRecord
  <2> QED
    BY <1>1, <2>1 DEF PlaceFails, RelayTypeOK, yVars, netVars
<1>2. CASE PlaceLost(e)
  <2>1. xIndex \in Bridges
    BY <1>2 DEF PlaceLost, SameCall, RelayTypeOK
  <2>2. goodCaller
    BY <1>0, <1>2, <2>1, AnsweredTyped DEF PlaceLost
  <2> QED
    BY <1>2, <2>2 DEF PlaceLost, RelayTypeOK, yVars
<1>3. CASE PlaceInsert(e)
  <2> DEFINE b == made + 1  w == (addressed = NoDev /\ ~lists["x"])
  <2>1. b \in Bridges /\ b \in 0..MaxBridges /\ w \in BOOLEAN
    BY <1>3 DEF PlaceInsert, RelayTypeOK, Bridges
  <2>2. Rings(e, w) \in XRecord
    BY <1>0, <2>1, RingsTyped
  <2> DEFINE rest == [c \in Bridges |-> IF c \in Replaced(e) THEN NoX ELSE xb[c]]
  <2>3. rest \in [Bridges -> XRecord]
    BY DEF RelayTypeOK
  <2>4. xb' = [rest EXCEPT ![b] = Rings(e, w)]
    BY <1>3 DEF PlaceInsert, Rings
  <2> HIDE DEF rest
  <2>5. xb' \in [Bridges -> XRecord]
    BY <2>2, <2>3, <2>4
  <2>6. Messages(e, b, w) \in Seq(Message)
    BY <1>0, <2>1, MessagesTyped
  <2>7. SendToY(TRUE, Messages(e, b, w)) /\ made' = b /\ xIndex' = b
    BY <1>3 DEF PlaceInsert
  <2> HIDE DEF b, w
  <2>8. toY' \in Seq(Message) /\ lossy' \in BOOLEAN
    BY <2>6, <2>7, SendTyped DEF SendToY, RelayTypeOK
  <2>9. goodCaller
    BY <1>0, <1>3 DEF PlaceInsert, CallerRecord
  <2> QED
    BY <1>3, <2>1, <2>5, <2>7, <2>8, <2>9 DEF PlaceInsert, RelayTypeOK, yVars
<1> QED
  BY <1>1, <1>2, <1>3

(* What arrived was sent. *)
LEMMA ArrivedTyped ==
  ASSUME RelayTypeOK, NEW kind
  PROVE  /\ Arrives(kind, toX) => /\ Head(toX) \in Message /\ Head(toX).kind = kind
                                  /\ Tail(toX) \in Seq(Message) /\ toX # <<>>
         /\ Arrives(kind, toY) => /\ Head(toY) \in Message /\ Head(toY).kind = kind
                                  /\ Tail(toY) \in Seq(Message) /\ toY # <<>>
<1>1. toX \in Seq(Message) /\ toY \in Seq(Message)
  BY DEF RelayTypeOK
<1> HIDE DEF Message
<1> QED
  BY <1>1, HeadTailProperties DEF Arrives

(* The record a taken invite makes. *)
Taken(e, waiting) ==
  [NoY EXCEPT !.eph = e, !.calleeEph = waiting, !.callee = IF waiting # 0 THEN addressed ELSE NoDev]

LEMMA TakenTyped ==
  ASSUME RelayTypeOK, NEW e \in Nat, NEW w \in Nat
  PROVE  /\ Taken(e, w) \in YRecord /\ Taken(e, w).eph = e
         /\ Taken(e, w).callee = IF w # 0 THEN addressed ELSE NoDev
         /\ Taken(e, w).calleeEph = w
  BY DEF Taken, NoY, YRecord, RelayTypeOK

LEMMA TypeInvite ==
  ASSUME RelayTypeOK, InviteRefused \/ InviteTaken PROVE RelayTypeOK'
<1> USE NoRecords, RelayAssumption
<1>0. /\ Arrives("invite", toY) /\ Head(toY) \in Message /\ Tail(toY) \in Seq(Message)
  BY ArrivedTyped DEF InviteRefused, InviteTaken
<1>1. CASE InviteRefused
  <2>1. Head(toY).bridge \in Bridges
    BY <1>0 DEF Message
  <2>2. toX' \in Seq(Message)
    BY <1>1, <2>1, DropTyped DEF InviteRefused
  <2>3. lossy' \in BOOLEAN
    BY <1>1 DEF InviteRefused, SendToX, RelayTypeOK
  <2> QED
    BY <1>0, <1>1, <2>2, <2>3 DEF InviteRefused, RelayTypeOK, xVars, yVars
<1>2. CASE InviteTaken
  <2> DEFINE b == Head(toY).bridge  e == Head(toY).eph
             waiting == IF addressed = NoDev THEN 0 ELSE pending[addressed]
  <2>1. b \in Bridges /\ e \in Nat
    BY <1>0 DEF Message
  <2>2. waiting \in Nat
    BY DEF RelayTypeOK
  <2>3. yb' = [yb EXCEPT ![b] = Taken(e, waiting)] /\ yIndex' = b
    BY <1>2 DEF InviteTaken, Taken
  <2>4. yb' \in [Bridges -> YRecord]
    BY <2>1, <2>2, <2>3, TakenTyped DEF RelayTypeOK
  <2>5. rung' \in [Devs -> SUBSET Bridges]
    BY <1>2, <2>1 DEF InviteTaken, RelayTypeOK
  <2>6. toX' \in Seq(Message)
    <3>1. CASE waiting = 0
      BY <1>2, <3>1, SendTyped, NothingSent DEF InviteTaken
    <3>2. CASE waiting # 0
      <4>1. addressed \in Devs
        BY <3>2 DEF RelayTypeOK
      <4>2. Accept(b, waiting, addressed) \in Message
        BY <2>1, <2>2, <4>1, KindsApart DEF Accepts
      <4>3. SendToX(<<Accept(b, waiting, addressed)>>)
        BY <1>2, <3>2 DEF InviteTaken
      <4> QED
        BY <4>2, <4>3, SendTyped, MessageTyped
    <3> QED
      BY <3>1, <3>2
  <2>7. lossy' \in BOOLEAN
    BY <1>2 DEF InviteTaken, SendToX, RelayTypeOK
  <2> QED
    BY <1>0, <1>2, <2>1, <2>3, <2>4, <2>5, <2>6, <2>7 DEF InviteTaken, RelayTypeOK, xVars
<1> QED
  BY <1>1, <1>2

(* A device falls idle. *)
LEMMA IdleTyped ==
  ASSUME NEW r \in DevRecord
  PROVE  /\ [r EXCEPT !.state = "idle", !.call = NoCall] \in DevRecord
         /\ [r EXCEPT !.state = "idle", !.call = NoCall].state = "idle"
  BY NoRecords DEF DevRecord

LEMMA TypeCloses ==
  ASSUME RelayTypeOK, CloseAtY \/ CloseAtX PROVE RelayTypeOK'
<1> USE NoRecords, RelayAssumption
<1>1. CASE CloseAtY
  <2>1. Head(toY) \in Message /\ Tail(toY) \in Seq(Message)
    BY <1>1, ArrivedTyped DEF CloseAtY
  <2>2. Head(toY).bridge \in Bridges
    BY <2>1 DEF Message
  <2>3. yb' \in [Bridges -> YRecord] /\ yIndex' \in Bridges \cup {0}
    BY <1>1, <2>2, DropTyped DEF CloseAtY, RelayTypeOK
  <2>4. /\ dev' \in [Devs -> DevRecord]
        /\ \A d \in Devs : dev'[d].state = "in" => dev'[d].call.bridge \in Bridges
    <3>1. \A d \in Devs : dev[d] \in DevRecord
      BY DEF RelayTypeOK
    <3>2. CASE dev' = dev
      BY <3>2 DEF RelayTypeOK
    <3>3. CASE dev' # dev
      <4> DEFINE hit(d) == yb[Head(toY).bridge] # NoY /\ yb[Head(toY).bridge].callee = d
                           /\ dev[d].call.bridge = Head(toY).bridge
      <4>1. dev' = [d \in Devs |-> IF hit(d) THEN [dev[d] EXCEPT !.state = "idle", !.call = NoCall]
                                   ELSE dev[d]]
        BY <1>1, <3>3 DEF CloseAtY
      <4> HIDE DEF hit
      <4> QED
        BY <3>1, <4>1, IdleTyped DEF RelayTypeOK
    <3> QED
      BY <3>2, <3>3
  <2> QED
    BY <1>1, <2>1, <2>3, <2>4 DEF CloseAtY, RelayTypeOK, xVars
<1>2. CASE CloseAtX
  <2>1. Head(toX) \in Message /\ Tail(toX) \in Seq(Message)
    BY <1>2, ArrivedTyped DEF CloseAtX
  <2>2. Head(toX).bridge \in Bridges
    BY <2>1 DEF Message
  <2>3. xb' \in [Bridges -> XRecord] /\ xIndex' \in Bridges \cup {0}
    BY <1>2, <2>2, DropTyped DEF CloseAtX, RelayTypeOK
  <2>4. caller' \in CallerRecord /\ (caller'.state = "in" => caller'.call.bridge \in Bridges)
    <3>1. \/ caller' = caller
          \/ caller' = [caller EXCEPT !.state = "idle", !.call = NoCall]
      BY <1>2 DEF CloseAtX
    <3>2. caller \in CallerRecord
      BY DEF RelayTypeOK
    <3>3. CASE caller' = caller
      BY <3>3 DEF RelayTypeOK
    <3>4. CASE caller' = [caller EXCEPT !.state = "idle", !.call = NoCall]
      BY <3>2, <3>4 DEF CallerRecord
    <3> QED
      BY <3>1, <3>3, <3>4
  <2> QED
    BY <1>2, <2>1, <2>3, <2>4 DEF CloseAtX, RelayTypeOK, yVars
<1> QED
  BY <1>1, <1>2

(* A record X changes on an answer. *)
LEMMA XWith ==
  ASSUME NEW r \in XRecord, NEW d \in Devs \cup {NoDev}, NEW e \in Nat
  PROVE  /\ [r EXCEPT !.outcome = "established", !.callee = d, !.calleeEph = e] \in XRecord
         /\ [r EXCEPT !.outcome = "rejected"] \in XRecord
         /\ [r EXCEPT !.signed = TRUE] \in XRecord
  BY DEF XRecord

LEMMA TypeAnswers ==
  ASSUME RelayTypeOK, AcceptAtX \/ RejectAtX PROVE RelayTypeOK'
<1> USE NoRecords, RelayAssumption
<1> DEFINE msg == Head(toX)  b == Head(toX).bridge
<1>0. /\ msg \in Message /\ Tail(toX) \in Seq(Message) /\ toX' = Tail(toX)
  BY ArrivedTyped DEF AcceptAtX, RejectAtX
<1>1. b \in Bridges /\ msg.dev \in Devs \cup {NoDev} /\ msg.eph \in Nat
  BY <1>0 DEF Message
<1>2. xb[b] \in XRecord /\ xb[b].eph \in Nat
  BY <1>1 DEF RelayTypeOK, XRecord
<1>5. \A r \in XRecord : [xb EXCEPT ![b] = r] \in [Bridges -> XRecord]
  BY <1>1 DEF RelayTypeOK
<1>6. xb \in [Bridges -> XRecord]
  BY DEF RelayTypeOK
<1>7. /\ [xb[b] EXCEPT !.outcome = "established", !.callee = msg.dev, !.calleeEph = msg.eph] \in XRecord
      /\ [xb[b] EXCEPT !.outcome = "rejected"] \in XRecord
      /\ [xb[b] EXCEPT !.signed = TRUE] \in XRecord
  BY <1>1, <1>2, XWith
<1> HIDE DEF msg, b
<1>3. CASE AcceptAtX
  <2>1. xb' \in {xb, [xb EXCEPT ![b] = [xb[b] EXCEPT !.outcome = "established", !.callee = msg.dev,
                                                     !.calleeEph = msg.eph]]}
    BY <1>1, <1>3 DEF AcceptAtX, RelayTypeOK, msg, b
  <2>2. xb' \in [Bridges -> XRecord]
    BY <1>5, <1>6, <1>7, <2>1
  <2> QED
    BY <1>0, <1>3, <2>2 DEF AcceptAtX, RelayTypeOK, yVars
<1>4. CASE RejectAtX
  <2>1. xb' \in {xb, [xb EXCEPT ![b] = [xb[b] EXCEPT !.outcome = "rejected"]],
                     [xb EXCEPT ![b] = [xb[b] EXCEPT !.signed = TRUE]]}
    BY <1>1, <1>4 DEF RejectAtX, RelayTypeOK, msg, b
  <2>2. xb' \in [Bridges -> XRecord]
    BY <1>5, <1>6, <1>7, <2>1
  <2>3. toY' \in Seq(Message) /\ lossy' \in BOOLEAN
    <3>1. CASE Resends(msg)
      <4>1. SendToY(linked, <<Invite(b, xb[b].eph, TRUE)>>)
        BY <1>4, <3>1 DEF RejectAtX, msg, b
      <4>2. Invite(b, xb[b].eph, TRUE) \in Message
        BY <1>1, <1>2, KindsApart DEF Invites
      <4>3. linked \in BOOLEAN /\ lossy' \in BOOLEAN
        BY <4>1 DEF RelayTypeOK, SendToY
      <4> QED
        BY <4>1, <4>2, <4>3, SendTyped, MessageTyped
    <3>2. CASE ~Resends(msg)
      BY <1>4, <3>2 DEF RejectAtX, RelayTypeOK, msg
    <3> QED
      BY <3>1, <3>2
  <2> QED
    BY <1>0, <1>4, <2>2, <2>3 DEF RejectAtX, RelayTypeOK, yVars
<1> QED
  BY <1>3, <1>4

LEMMA InCallTyped ==
  ASSUME RelayTypeOK, NEW d \in Devs, NEW b \in Bridges, dev' = InCall(d, b)
  PROVE  /\ dev' \in [Devs -> DevRecord]
         /\ dev'[d].state = "in" /\ dev'[d].call.bridge = b /\ dev'[d].eph = dev[d].eph
         /\ dev'[d].call.theirs = yb[b].eph
         /\ \A g \in Devs : g # d => dev'[g] = dev[g]
<1> DEFINE k == [bridge |-> b, peer |-> d, theirs |-> yb[b].eph]
<1>1. k \in CallOf /\ k.bridge = b /\ k.theirs = yb[b].eph
  BY DEF CallOf, RelayTypeOK, YRecord
<1> HIDE DEF k
<1>2. dev' = [dev EXCEPT ![d] = [dev[d] EXCEPT !.state = "in", !.call = k]]
  BY DEF InCall, RelayTypeOK, k
<1>3. dev \in [Devs -> DevRecord] /\ dev[d] \in DevRecord
  BY DEF RelayTypeOK
<1>4. /\ [dev[d] EXCEPT !.state = "in", !.call = k] \in DevRecord
      /\ [dev[d] EXCEPT !.state = "in", !.call = k].state = "in"
      /\ [dev[d] EXCEPT !.state = "in", !.call = k].call = k
      /\ [dev[d] EXCEPT !.state = "in", !.call = k].eph = dev[d].eph
  BY <1>1, <1>3 DEF DevRecord
<1> QED
  BY <1>1, <1>2, <1>3, <1>4

LEMMA DevIdle ==
  ASSUME RelayTypeOK, NEW d \in Devs,
         dev' = [dev EXCEPT ![d].state = "idle", ![d].call = NoCall]
  PROVE  /\ dev' \in [Devs -> DevRecord] /\ dev'[d].state = "idle"
         /\ \A g \in Devs : g # d => dev'[g] = dev[g]
<1>1. dev' = [dev EXCEPT ![d] = [dev[d] EXCEPT !.state = "idle", !.call = NoCall]]
  BY DEF RelayTypeOK
<1>2. dev \in [Devs -> DevRecord] /\ dev[d] \in DevRecord
  BY DEF RelayTypeOK
<1>3. /\ [dev[d] EXCEPT !.state = "idle", !.call = NoCall] \in DevRecord
      /\ [dev[d] EXCEPT !.state = "idle", !.call = NoCall].state = "idle"
  BY <1>2, IdleTyped
<1> QED
  BY <1>1, <1>2, <1>3

LEMMA TypeDevice ==
  ASSUME RelayTypeOK, NEW d \in Devs,
         DevOpens(d) \/ DevAnswers(d) \/ DevAnswersAgain(d) \/ DevWaits(d) \/ DevGivesUp(d)
           \/ DevHangsUp(d) \/ \E b \in rung[d] : Decline(d, b)
  PROVE  RelayTypeOK'
<1> USE NoRecords, RelayAssumption
<1>0. dev[d] \in DevRecord /\ dev[d].eph \in Nat
  BY DEF RelayTypeOK, DevRecord
<1>1. CASE DevOpens(d)
  <2> DEFINE r == [state |-> "opening", eph |-> dev[d].eph + 1, call |-> NoCall]
  <2>1. r \in DevRecord /\ r.state = "opening"
    BY <1>0 DEF DevRecord
  <2>2. dev' = [dev EXCEPT ![d] = r]
    BY <1>1 DEF DevOpens
  <2> HIDE DEF r
  <2>3. /\ dev' \in [Devs -> DevRecord]
        /\ \A g \in Devs : dev'[g].state = "in" => dev'[g].call.bridge \in Bridges
    BY <2>1, <2>2 DEF RelayTypeOK
  <2>4. rung' \in [Devs -> SUBSET Bridges]
    BY <1>1 DEF DevOpens, RelayTypeOK
  <2> QED
    BY <1>1, <2>3, <2>4 DEF DevOpens, RelayTypeOK, xVars, netVars
<1>2. CASE DevAnswers(d)
  <2>0. PICK b \in Bridges : b = yIndex
    BY <1>2 DEF DevAnswers, Mine, RelayTypeOK
  <2>1. b \in Bridges /\ dev[d].eph \in Nat
    BY <1>0
  <2>2. dev' = InCall(d, b) /\ SendToX(<<Accept(b, dev[d].eph, d)>>)
    BY <1>2, <2>0 DEF DevAnswers
  <2>3. /\ dev' \in [Devs -> DevRecord]
        /\ \A g \in Devs : dev'[g].state = "in" => dev'[g].call.bridge \in Bridges
    <3>1. /\ dev' \in [Devs -> DevRecord] /\ dev'[d].call.bridge = b
          /\ \A g \in Devs : g # d => dev'[g] = dev[g]
      BY <2>1, <2>2, InCallTyped
    <3> QED
      BY <2>1, <3>1 DEF RelayTypeOK
  <2>4. Accept(b, dev[d].eph, d) \in Message
    BY <2>1, KindsApart DEF Accepts
  <2>5. toX' \in Seq(Message)
    BY <2>2, <2>4, SendTyped, MessageTyped
  <2>6. lossy' \in BOOLEAN
    BY <2>2 DEF SendToX, RelayTypeOK
  <2>7. [yb[b] EXCEPT !.callee = d, !.calleeEph = dev[d].eph] \in YRecord
    BY <2>1 DEF RelayTypeOK, YRecord
  <2>8. yb' = [yb EXCEPT ![b] = [yb[b] EXCEPT !.callee = d, !.calleeEph = dev[d].eph]]
    BY <1>2, <2>0, <2>1 DEF DevAnswers, RelayTypeOK
  <2>9. yb' \in [Bridges -> YRecord]
    BY <2>1, <2>7, <2>8 DEF RelayTypeOK
  <2> QED
    BY <1>2, <2>3, <2>5, <2>6, <2>9 DEF DevAnswers, RelayTypeOK, xVars
<1>3. CASE DevAnswersAgain(d)
  <2>1. PICK b \in Bridges : b = yIndex
    BY <1>3 DEF DevAnswersAgain, Mine, RelayTypeOK
  <2>2. dev' = InCall(d, b)
    BY <1>3, <2>1 DEF DevAnswersAgain
  <2>3. /\ dev' \in [Devs -> DevRecord]
        /\ \A g \in Devs : dev'[g].state = "in" => dev'[g].call.bridge \in Bridges
    <3>1. /\ dev' \in [Devs -> DevRecord] /\ dev'[d].call.bridge = b
          /\ \A g \in Devs : g # d => dev'[g] = dev[g]
      BY <2>2, InCallTyped
    <3> QED
      BY <3>1 DEF RelayTypeOK
  <2> QED
    BY <1>3, <2>3 DEF DevAnswersAgain, RelayTypeOK, xVars, yVars, netVars
<1>4. CASE DevWaits(d)
  <2>1. pending' \in [Devs -> Nat]
    BY <1>0, <1>4 DEF DevWaits, RelayTypeOK
  <2> QED
    BY <1>4, <2>1 DEF DevWaits, RelayTypeOK, xVars, netVars
<1>5. CASE DevGivesUp(d)
  <2>1. /\ dev' \in [Devs -> DevRecord]
        /\ \A g \in Devs : dev'[g].state = "in" => dev'[g].call.bridge \in Bridges
    BY <1>5, DevIdle DEF DevGivesUp, RelayTypeOK
  <2> QED
    BY <1>5, <2>1 DEF DevGivesUp, RelayTypeOK, xVars, yVars, netVars
<1>6. CASE DevHangsUp(d)
  <2>1. /\ dev' \in [Devs -> DevRecord]
        /\ \A g \in Devs : dev'[g].state = "in" => dev'[g].call.bridge \in Bridges
    BY <1>6, DevIdle DEF DevHangsUp, RelayTypeOK
  <2>2. dev[d].call.bridge \in Bridges
    BY <1>6 DEF DevHangsUp, RelayTypeOK
  <2>3. /\ toX' \in Seq(Message) /\ yb' \in [Bridges -> YRecord]
        /\ yIndex' \in Bridges \cup {0} /\ lossy' \in BOOLEAN
    <3>1. PICK b \in Bridges : b = dev[d].call.bridge
      BY <2>2
    <3>2. CASE yb[b] # NoY /\ yb[b].callee = d
      <4>1. SendToX(<<Close(b)>>) /\ yb' = DropY(yb, b) /\ yIndex' = 0
        BY <1>6, <3>1, <3>2 DEF DevHangsUp
      <4> QED
        BY <4>1, DropTyped DEF RelayTypeOK, SendToX
    <3>3. CASE ~(yb[b] # NoY /\ yb[b].callee = d)
      BY <1>6, <3>1, <3>3 DEF DevHangsUp, RelayTypeOK
    <3> QED
      BY <3>2, <3>3
  <2> QED
    BY <1>6, <2>1, <2>3 DEF DevHangsUp, RelayTypeOK, xVars
<1>7. ASSUME NEW b \in rung[d], Decline(d, b) PROVE RelayTypeOK'
  <2>1. b \in Bridges
    BY DEF RelayTypeOK
  <2>2. /\ toX' \in Seq(Message) /\ yb' \in [Bridges -> YRecord]
        /\ yIndex' \in Bridges \cup {0} /\ lossy' \in BOOLEAN
    <3>1. CASE yb[b] # NoY
      <4>1. SendToX(<<Reject(b, "declined")>>) /\ yb' = DropY(yb, b) /\ yIndex' = 0
        BY <1>7, <3>1 DEF Decline
      <4> QED
        BY <2>1, <4>1, DropTyped DEF RelayTypeOK, SendToX
    <3>2. CASE yb[b] = NoY
      BY <1>7, <3>2 DEF Decline, RelayTypeOK
    <3> QED
      BY <3>1, <3>2
  <2>3. rung' \in [Devs -> SUBSET Bridges]
    BY <1>7 DEF Decline, RelayTypeOK
  <2> QED
    BY <1>7, <2>2, <2>3 DEF Decline, RelayTypeOK, xVars
<1> QED
  BY <1>1, <1>2, <1>3, <1>4, <1>5, <1>6, <1>7

LEMMA OlderTyped ==
  /\ \A r \in XRecord : /\ Older(r) \in XRecord /\ Older(r).eph = r.eph
                        /\ Older(r).outcome = r.outcome /\ Older(r).callee = r.callee
                        /\ Older(r).calleeEph = r.calleeEph /\ Older(r) # NoX
  /\ \A r \in YRecord : /\ Older(r) \in YRecord /\ Older(r).eph = r.eph
                        /\ Older(r).callee = r.callee /\ Older(r).calleeEph = r.calleeEph
                        /\ Older(r) # NoY
<1>1. ASSUME NEW r \in XRecord
      PROVE  /\ Older(r) \in XRecord /\ Older(r).eph = r.eph
             /\ Older(r).outcome = r.outcome /\ Older(r).callee = r.callee
             /\ Older(r).calleeEph = r.calleeEph /\ Older(r).age # 0
  BY RelayAssumption DEF Older, XRecord
<1>2. ASSUME NEW r \in YRecord
      PROVE  /\ Older(r) \in YRecord /\ Older(r).eph = r.eph
             /\ Older(r).callee = r.callee /\ Older(r).calleeEph = r.calleeEph
             /\ Older(r).age # 0
  BY RelayAssumption DEF Older, YRecord
<1>3. NoX.age = 0 /\ NoY.age = 0
  BY DEF NoX, NoY
<1> QED
  BY <1>1, <1>2, <1>3

LEMMA TypeTime ==
  ASSUME RelayTypeOK, Sweep \/ RelayTick \/ LinkDies \/ UNCHANGED relayVars
  PROVE  RelayTypeOK'
<1> USE NoRecords, RelayAssumption
<1>1. ASSUME NEW b \in Bridges, SweepX(b) PROVE RelayTypeOK'
  <2>1. /\ toY' \in Seq(Message) /\ xb' \in [Bridges -> XRecord]
        /\ xIndex' \in Bridges \cup {0} /\ lossy' \in BOOLEAN
    BY <1>1, DropTyped DEF SweepX, RelayTypeOK, SendToY
  <2> QED
    BY <1>1, <2>1 DEF SweepX, RelayTypeOK, yVars
<1>2. ASSUME NEW b \in Bridges, SweepY(b) PROVE RelayTypeOK'
  <2>1. /\ toX' \in Seq(Message) /\ yb' \in [Bridges -> YRecord]
        /\ yIndex' \in Bridges \cup {0} /\ lossy' \in BOOLEAN
    BY <1>2, DropTyped DEF SweepY, RelayTypeOK, SendToX
  <2> QED
    BY <1>2, <2>1 DEF SweepY, RelayTypeOK, xVars
<1>3. CASE RelayTick
  <2>1. xb' \in [Bridges -> XRecord] /\ yb' \in [Bridges -> YRecord]
    BY <1>3, OlderTyped DEF RelayTick, RelayTypeOK
  <2> QED
    BY <1>3, <2>1 DEF RelayTick, RelayTypeOK, netVars
<1>4. CASE LinkDies
  <2>1. toX' \in Seq(Message) /\ toY' \in Seq(Message) /\ lossy' \in BOOLEAN /\ linked' \in BOOLEAN
    BY <1>4, NothingSent DEF LinkDies, RelayTypeOK
  <2> QED
    BY <1>4, <2>1 DEF LinkDies, RelayTypeOK, xVars, yVars
<1>5. CASE UNCHANGED relayVars
  BY <1>5 DEF relayVars, xVars, yVars, netVars, RelayTypeOK
<1> QED
  BY <1>1, <1>2, <1>3, <1>4, <1>5 DEF Sweep

LEMMA RelayTypeNext == RelayTypeOK /\ [RelayNext]_relayVars => RelayTypeOK'
<1> SUFFICES ASSUME RelayTypeOK, [RelayNext]_relayVars PROVE RelayTypeOK'
  OBVIOUS
<1>1. CASE Dial \/ GiveUp \/ PollReports \/ PollPlaces \/ CallerHangsUp \/ CallerRebuilds
  BY <1>1, TypeCaller
<1>2. ASSUME NEW e \in placing, PlaceFails(e) \/ PlaceLost(e) \/ PlaceInsert(e) PROVE RelayTypeOK'
  BY <1>2, TypePlacing
<1>3. CASE Deliver
  BY <1>3, TypeInvite, TypeCloses, TypeAnswers DEF Deliver
<1>4. ASSUME NEW d \in Devs,
             DevOpens(d) \/ DevAnswers(d) \/ DevAnswersAgain(d) \/ DevWaits(d) \/ DevGivesUp(d)
               \/ DevHangsUp(d) \/ \E b \in rung[d] : Decline(d, b)
      PROVE  RelayTypeOK'
  BY <1>4, TypeDevice
<1>5. CASE Sweep \/ RelayTick \/ LinkDies \/ UNCHANGED relayVars
  BY <1>5, TypeTime
<1> QED
  BY <1>1, <1>2, <1>3, <1>4, <1>5 DEF RelayNext

LEMMA RelayTypeInit == RelayInit => RelayTypeOK
<1> SUFFICES ASSUME RelayInit PROVE RelayTypeOK
  OBVIOUS
<1>1. addressed \in Devs \cup {NoDev} /\ lists \in [{"x", "y"} -> BOOLEAN]
  BY RelayAssumption DEF RelayInit
<1>2. caller \in CallerRecord /\ caller.state = "idle"
  BY NoRecords DEF RelayInit, CallerRecord
<1>3. [state |-> "idle", eph |-> 0, call |-> NoCall] \in DevRecord
  BY NoRecords DEF DevRecord
<1>4. dev \in [Devs -> DevRecord] /\ \A d \in Devs : dev[d].state = "idle"
  BY <1>3 DEF RelayInit
<1>5. xb \in [Bridges -> XRecord] /\ yb \in [Bridges -> YRecord]
  BY NoRecords DEF RelayInit
<1>6. made \in 0..MaxBridges
  BY RelayAssumption DEF RelayInit
<1>7. toX \in Seq(Message) /\ toY \in Seq(Message)
  BY NothingSent DEF RelayInit
<1> QED
  BY <1>1, <1>2, <1>4, <1>5, <1>6, <1>7 DEF RelayInit, RelayTypeOK

LEMMA FewerIn ==
  ASSUME NEW c, NEW Q, NEW R, R \subseteq Q, NoneIn(c, Q) PROVE NoneIn(c, R)
  BY DEF NoneIn

(* What a step must not do for everything an account's call rests on to    *)
(* stand: make, invite, answer, connect, or take an answer back while Y    *)
(* holds its record.                                                       *)
XIdle(b) ==
  /\ xb'[b] # NoX => xb[b] # NoX /\ xb'[b].eph = xb[b].eph
  /\ xb'[b].outcome = "established" =>
       /\ xb[b].outcome = "established"
       /\ xb'[b].callee = xb[b].callee /\ xb'[b].calleeEph = xb[b].calleeEph
YIdle(b) ==
  /\ yb'[b] # NoY => yb[b] # NoY /\ yb'[b].eph = yb[b].eph /\ yb'[b].callee = yb[b].callee
  /\ yb'[b] # NoY /\ yb'[b].callee # NoDev => In(yb[b].callee, b)'
CallerIdle(b) ==
  CallerIn(b)' => CallerIn(b) /\ caller'.call = caller.call /\ caller'.eph = caller.eph
DevsIdle(b) ==
  \A d \in Devs : In(d, b)' =>
    In(d, b) /\ dev'[d].eph = dev[d].eph /\ dev'[d].call.theirs = dev[d].call.theirs
Idle(b) == XIdle(b) /\ YIdle(b) /\ CallerIdle(b) /\ DevsIdle(b)

LEMMA IdleKeeps ==
  ASSUME NEW b \in Bridges, Idle(b), Quieter(b, toX, toX'), Quieter(b, toY, toY')
  PROVE  /\ NoAnswer(b) => NoAnswer(b)'
         /\ \A d, e : Only(b, d, e) => Only(b, d, e)'
         /\ \A e : Offered(b, e) => Offered(b, e)'
<1>1. NoneIn(toX, Accepts(b)) => NoneIn(toX', Accepts(b))
  BY SetsApart DEF Quieter
<1>2. NoAnswer(b) => NoAnswer(b)'
  BY <1>1 DEF NoAnswer, Idle, XIdle, CallerIdle, DevsIdle
<1>3. \A d, e : Only(b, d, e) => Only(b, d, e)'
  BY DEF Only, Idle, DevsIdle
<1>4. ASSUME NEW e, Offered(b, e) PROVE Offered(b, e)'
  <2>1. {m \in Invites(b) : m.eph # e} \in SUBSET About(b)
    BY SetsApart
  <2>2. NoneIn(toY', {m \in Invites(b) : m.eph # e})
    BY <1>4, <2>1 DEF Offered, Quieter
  <2>3. /\ yb'[b] # NoY => yb'[b].eph = e
        /\ \A d \in Devs : In(d, b)' => dev'[d].call.theirs = e
    BY <1>4 DEF Offered, Idle, YIdle, DevsIdle
  <2> QED
    BY <2>2, <2>3 DEF Offered
<1> QED
  BY <1>2, <1>3, <1>4

(* A bridge a step leaves idle stands as it did.                           *)
LEMMA IdleStands ==
  ASSUME NEW b \in Bridges, BridgeOK(b), Idle(b), Quieter(b, toX, toX'), Quieter(b, toY, toY'),
         made' \in {made, made + 1}, made \in Nat
  PROVE  BridgeOK(b)'
<1>1. /\ NoAnswer(b) => NoAnswer(b)'
      /\ \A d, e : Only(b, d, e) => Only(b, d, e)'
      /\ \A e : Offered(b, e) => Offered(b, e)'
  BY IdleKeeps
<1>2. Invited(b)'
  <2>1. \A Q \in {Invites(b), Refusals(b)} :
          /\ NoneIn(toY, Q) => NoneIn(toY', Q)
          /\ NoneIn(toX, Q) => NoneIn(toX', Q)
          /\ OneIn(toY, Q) => OneIn(toY', Q)
          /\ OneIn(toX, Q) => OneIn(toX', Q)
    BY SetsApart DEF Quieter
  <2>2. yb[b] = NoY => yb'[b] = NoY
    BY DEF Idle, YIdle
  <2> QED
    BY <1>1, <2>1, <2>2 DEF Invited, BridgeOK
<1>3. Recorded(b)'
  <2>1. CASE yb'[b] # NoY /\ yb'[b].callee = NoDev
    <3>1. yb[b] # NoY /\ yb[b].callee = NoDev
      BY <2>1 DEF Idle, YIdle
    <3>2. NoAnswer(b)'
      BY <1>1, <3>1 DEF Recorded, BridgeOK
    <3> QED
      BY <2>1, <3>2 DEF Recorded
  <2>2. CASE yb'[b] # NoY /\ yb'[b].callee # NoDev
    BY <2>2 DEF Recorded, Idle, YIdle
  <2>3. CASE yb'[b] = NoY
    BY <2>3 DEF Recorded
  <2> QED
    BY <2>1, <2>2, <2>3
<1>4. AnswerMatches(b)'
  <2>1. NoneIn(toX', {m \in Accepts(b) : ~Only(b, m.dev, m.eph)'})
    <3>1. {m \in Accepts(b) : ~Only(b, m.dev, m.eph)} \in SUBSET About(b)
      BY SetsApart
    <3>2. NoneIn(toX', {m \in Accepts(b) : ~Only(b, m.dev, m.eph)})
      BY <3>1 DEF BridgeOK, AnswerMatches, Quieter
    <3>3. {m \in Accepts(b) : ~Only(b, m.dev, m.eph)'} \subseteq {m \in Accepts(b) : ~Only(b, m.dev, m.eph)}
      BY <1>1
    <3> QED
      BY <3>2, <3>3, FewerIn
  <2> QED
    BY <1>1, <2>1 DEF AnswerMatches, BridgeOK, Idle, XIdle, CallerIdle
<1>5. OfferMatches(b)'
  BY <1>1 DEF OfferMatches, BridgeOK, Idle, XIdle, CallerIdle
<1>6. b > made' => Nowhere(b)'
  <2>1. b > made' => b > made
    BY DEF Bridges
  <2>2. NoneIn(toY, About(b)) => NoneIn(toY', About(b))
    BY SetsApart DEF Quieter
  <2>3. NoneIn(toX, About(b)) => NoneIn(toX', About(b))
    BY SetsApart DEF Quieter
  <2> QED
    BY <1>1, <2>1, <2>2, <2>3 DEF Nowhere, BridgeOK, Idle, XIdle, YIdle
<1> QED
  BY <1>2, <1>3, <1>4, <1>5, <1>6 DEF BridgeOK

(* A step that leaves every bridge idle. *)
LEMMA Calm ==
  ASSUME AccountInv, RelayTypeOK', UNCHANGED <<addressed, made>>,
         \A b \in Bridges : Idle(b) /\ Quieter(b, toX, toX') /\ Quieter(b, toY, toY')
  PROVE  AccountInv'
<1>1. made \in Nat
  BY RelayAssumption DEF AccountInv, RelayTypeOK
<1>2. ASSUME NEW b \in Bridges PROVE BridgeOK(b)'
  BY <1>1, IdleStands DEF AccountInv
<1> QED
  BY <1>2 DEF AccountInv

LEMMA XSame == ASSUME xb' = xb PROVE \A b : XIdle(b)
  BY DEF XIdle
LEMMA XFewer ==
  ASSUME \A b \in Bridges : xb'[b] \in {xb[b], NoX} PROVE \A b \in Bridges : XIdle(b)
<1>1. NoX.outcome # "established"
  BY DEF NoX
<1> QED
  BY <1>1 DEF XIdle
LEMMA YFewer ==
  ASSUME AccountInv, dev' = dev, \A b \in Bridges : yb'[b] \in {yb[b], NoY}
  PROVE  \A b \in Bridges : YIdle(b)
<1> SUFFICES ASSUME NEW b \in Bridges PROVE YIdle(b)
  OBVIOUS
<1>1. CASE yb'[b] = NoY
  BY <1>1 DEF YIdle
<1>2. CASE yb'[b] = yb[b] /\ yb[b] # NoY
  <2>1. yb[b].callee # NoDev => In(yb[b].callee, b)
    BY <1>2 DEF AccountInv, BridgeOK, Recorded
  <2>2. yb[b].callee # NoDev => In(yb[b].callee, b)'
    BY <1>2, <2>1 DEF In
  <2> QED
    BY <1>2, <2>2 DEF YIdle
<1> QED
  BY <1>1, <1>2
LEMMA CallerSame ==
  ASSUME caller' = caller \/ caller'.state # "in" PROVE \A b : CallerIdle(b)
  BY DEF CallerIdle, CallerIn
LEMMA DevsSame == ASSUME dev' = dev PROVE \A b : DevsIdle(b)
  BY DEF DevsIdle, In

(* Only the caller moves, and not into a call. *)
LEMMA CallerMoves ==
  ASSUME AccountInv, RelayTypeOK', UNCHANGED <<addressed, made, toX, toY, yb, dev>>,
         \A b \in Bridges : xb'[b] \in {xb[b], NoX},
         caller' = caller \/ caller'.state # "in"
  PROVE  AccountInv'
  BY Calm, XFewer, YFewer, CallerSame, DevsSame, QuieterSame DEF Idle

(* The caller learns that bridge b was answered. *)
LEMMA Connects ==
  ASSUME AccountInv, RelayTypeOK', UNCHANGED <<addressed, made, toX, toY, xb, yb, dev>>,
         NEW b \in Bridges, xb[b].outcome = "established", xb[b].eph = caller.eph,
         caller'.state = "in", caller'.eph = caller.eph,
         caller'.call = [bridge |-> b, peer |-> xb[b].callee, theirs |-> xb[b].calleeEph]
  PROVE  AccountInv'
<1>0. made \in Nat
  BY RelayAssumption DEF AccountInv, RelayTypeOK
<1>1. ASSUME NEW c \in Bridges, c # b PROVE BridgeOK(c)'
  <2>1. CallerIdle(c)
    BY <1>1 DEF CallerIdle, CallerIn
  <2>2. Idle(c)
    BY <2>1, XSame, YFewer, DevsSame DEF Idle
  <2> QED
    BY <1>0, <2>2, IdleStands, QuieterSame DEF AccountInv
<1>2. BridgeOK(b)'
  <2>1. BridgeOK(b) /\ ~NoAnswer(b) /\ ~NoAnswer(b)' /\ xb[b] # NoX
    BY DEF AccountInv, NoAnswer, NoX
  <2>2. Invited(b)' /\ Recorded(b)'
    <3>1. (\A d : In(d, b)' <=> In(d, b))
      BY DEF In
    <3> QED
      BY <2>1, <3>1 DEF Invited, Recorded, BridgeOK
  <2>3. /\ Only(b, xb[b].callee, xb[b].calleeEph)
        /\ \A d, e : Only(b, d, e)' <=> Only(b, d, e)
    BY <2>1 DEF BridgeOK, AnswerMatches, Only, In
  <2>4. AnswerMatches(b)'
    BY <2>1, <2>3 DEF AnswerMatches, BridgeOK
  <2>5. OfferMatches(b)'
    <3>1. Offered(b, xb[b].eph) /\ \A e : Offered(b, e)' <=> Offered(b, e)
      BY <2>1 DEF BridgeOK, OfferMatches, Offered, In
    <3> QED
      BY <3>1 DEF OfferMatches
  <2>6. ~(b > made)
    BY <2>1 DEF BridgeOK, Nowhere
  <2> QED
    BY <2>2, <2>4, <2>5, <2>6 DEF BridgeOK
<1> QED
  BY <1>1, <1>2 DEF AccountInv

(* What the caller is answered. *)
LEMMA AnsweredAs ==
  ASSUME RelayTypeOK, NEW b \in Bridges, Answered(xb[b], b)
  PROVE  \/ caller' = caller \/ caller'.state # "in"
         \/ /\ xb[b].outcome = "established" /\ caller'.state = "in" /\ caller'.eph = caller.eph
            /\ caller'.call = [bridge |-> b, peer |-> xb[b].callee, theirs |-> xb[b].calleeEph]
<1>0. caller \in CallerRecord
  BY DEF RelayTypeOK
<1>1. CASE xb[b].outcome = "established"
  <2> DEFINE k == [bridge |-> b, peer |-> xb[b].callee, theirs |-> xb[b].calleeEph]
  <2>1. caller' = [caller EXCEPT !.state = "in", !.call = k]
    BY <1>1 DEF Answered
  <2> HIDE DEF k
  <2>2. caller'.state = "in" /\ caller'.eph = caller.eph /\ caller'.call = k
    BY <1>0, <2>1 DEF CallerRecord
  <2> QED
    BY <1>1, <2>2 DEF k
<1>2. CASE xb[b].outcome # "established"
  BY <1>0, <1>2 DEF Answered, CallerRecord
<1> QED
  BY <1>1, <1>2

LEMMA AccountCaller ==
  ASSUME AccountInv, RelayTypeOK',
         Dial \/ GiveUp \/ PollReports \/ CallerRebuilds
  PROVE  AccountInv'
<1>0. RelayTypeOK /\ caller \in CallerRecord
  BY DEF AccountInv, RelayTypeOK
<1>1. CASE Dial
  BY <1>1, CallerMoves DEF Dial, xVars, yVars, netVars
<1>2. CASE GiveUp
  <2>1. caller'.state # "in"
    BY <1>0, <1>2 DEF GiveUp, CallerRecord
  <2> QED
    BY <1>2, <2>1, CallerMoves DEF GiveUp, xVars, yVars, netVars
<1>3. CASE PollReports
  <2>1. PICK b \in Bridges : b = xIndex
    BY <1>0, <1>3 DEF PollReports, SameCall, RelayTypeOK
  <2>2. Answered(xb[b], b) /\ xb[b].eph = caller.eph
    BY <1>3, <2>1 DEF PollReports, SameCall
  <2>3. UNCHANGED <<addressed, made, toX, toY, yb, dev>>
    BY <1>3 DEF PollReports, yVars, netVars
  <2>4. \A c \in Bridges : xb'[c] \in {xb[c], NoX}
    BY <1>0, <1>3, <2>1, DropTyped DEF PollReports
  <2>5. xb[b].outcome = "established" => xb' = xb
    BY <1>3, <2>1 DEF PollReports
  <2> QED
    BY <1>0, <2>2, <2>3, <2>4, <2>5, AnsweredAs, CallerMoves, Connects
<1>4. CASE CallerRebuilds
  BY <1>4 DEF CallerRebuilds, AccountInv
<1> QED
  BY <1>1, <1>2, <1>3, <1>4

(* Closing a call is nothing to any call that stands. *)
LEMMA QuietCloses ==
  ASSUME RelayTypeOK, NEW e, NEW up \in BOOLEAN
  PROVE  /\ toY \o CloseAll(Replaced(e)) \in Seq(Message)
         /\ \A b \in Bridges : Quieter(b, toY, toY \o CloseAll(Replaced(e)))
         /\ SendToY(up, CloseAll(Replaced(e))) => \A b \in Bridges : Quieter(b, toY, toY')
<1>1. toY \in Seq(Message)
  BY DEF RelayTypeOK
<1>2. CASE Replaced(e) = {}
  <2>1. toY \o CloseAll(Replaced(e)) = toY
    BY <1>1, <1>2, ConcatEmptySeq DEF CloseAll
  <2> QED
    BY <1>1, <2>1, QuieterSame DEF SendToY
<1>3. CASE Replaced(e) # {}
  <2>1. PICK c \in Bridges : CloseAll(Replaced(e)) = <<Close(c)>>
    BY <1>3 DEF CloseAll, Replaced
  <2>2. Close(c) \in Message /\ \A b : Close(c) \notin About(b)
    BY KindsApart
  <2>3. toY \o <<Close(c)>> \in Seq(Message) /\ \A b : Quieter(b, toY, toY \o <<Close(c)>>)
    BY <1>1, <2>2, QuieterSent
  <2> QED
    BY <2>1, <2>3, QuieterSame DEF SendToY
<1> QED
  BY <1>2, <1>3

LEMMA QuietSends ==
  ASSUME RelayTypeOK, NEW m \in Message
  PROVE  /\ \A up : SendToY(up, <<m>>) =>
                \A b \in Bridges : m \notin About(b) => Quieter(b, toY, toY')
         /\ SendToX(<<m>>) => \A b \in Bridges : m \notin About(b) => Quieter(b, toX, toX')
<1>1. toX \in Seq(Message) /\ toY \in Seq(Message)
  BY DEF RelayTypeOK
<1> HIDE DEF Message
<1>2. ASSUME NEW b \in Bridges, m \notin About(b)
      PROVE  Quieter(b, toY, toY \o <<m>>) /\ Quieter(b, toX, toX \o <<m>>)
  BY <1>1, <1>2, QuieterSent
<1> QED
  BY <1>2, QuieterSame DEF SendToY, SendToX

LEMMA QuietDrops ==
  ASSUME RelayTypeOK, NEW b \in Bridges
  PROVE  /\ \A up : SendToY(up, <<Close(b)>>) => \A c \in Bridges : Quieter(c, toY, toY')
         /\ SendToX(<<Close(b)>>) => \A c \in Bridges : Quieter(c, toX, toX')
         /\ \A r \in {"unreachable", "declined"} :
              SendToX(<<Reject(b, r)>>) => \A c \in Bridges : Quieter(c, toX, toX')
  BY KindsApart, QuietSends

LEMMA AccountPlaces ==
  ASSUME AccountInv, RelayTypeOK', PollPlaces \/ CallerHangsUp
  PROVE  AccountInv'
<1>0. RelayTypeOK /\ caller \in CallerRecord
  BY DEF AccountInv, RelayTypeOK
<1>1. CASE PollPlaces
  <2>1. \A b \in Bridges : Quieter(b, toY, toY')
    BY <1>0, <1>1, QuietCloses DEF PollPlaces, RelayTypeOK
  <2>2. caller'.state # "in"
    BY <1>0, <1>1 DEF PollPlaces, CallerRecord
  <2>3. \A b \in Bridges : xb'[b] \in {xb[b], NoX}
    BY <1>1 DEF PollPlaces
  <2>4. UNCHANGED <<addressed, made, toX, yb, dev>>
    BY <1>1 DEF PollPlaces, yVars
  <2> QED
    BY <2>1, <2>2, <2>3, <2>4, Calm, XFewer, YFewer, CallerSame, DevsSame, QuieterSame DEF Idle
<1>2. CASE CallerHangsUp
  <2>1. PICK b \in Bridges : b = caller.call.bridge
    BY <1>0, <1>2 DEF CallerHangsUp, RelayTypeOK
  <2>2. /\ \A c \in Bridges : Quieter(c, toY, toY')
        /\ \A c \in Bridges : xb'[c] \in {xb[c], NoX}
    <3>1. CASE xb[b] # NoX /\ xb[b].calleeEph # 0
      <4>1. SendToY(linked, <<Close(b)>>) /\ xb' = DropX(xb, b)
        BY <1>2, <2>1, <3>1 DEF CallerHangsUp
      <4> QED
        BY <1>0, <4>1, QuietDrops, DropTyped
    <3>2. CASE ~(xb[b] # NoX /\ xb[b].calleeEph # 0)
      BY <1>2, <2>1, <3>2, QuieterSame DEF CallerHangsUp
    <3> QED
      BY <3>1, <3>2
  <2>3. caller'.state # "in"
    BY <1>0, <1>2 DEF CallerHangsUp, CallerRecord
  <2>4. UNCHANGED <<addressed, made, toX, yb, dev>>
    BY <1>2 DEF CallerHangsUp, yVars
  <2> QED
    BY <2>2, <2>3, <2>4, Calm, XFewer, YFewer, CallerSame, DevsSame, QuieterSame DEF Idle
<1> QED
  BY <1>1, <1>2

(* A bridge is made, and an invite goes out behind the close of the last.  *)
LEMMA AccountInsert ==
  ASSUME AccountInv, RelayTypeOK', NEW e \in placing, PlaceInsert(e)
  PROVE  AccountInv'
<1> DEFINE w == (addressed = NoDev /\ ~lists["x"])
           mid == toY \o CloseAll(Replaced(e))
<1>0. RelayTypeOK /\ caller \in CallerRecord /\ e \in Nat /\ made \in Nat /\ toX' = toX
  BY RelayAssumption DEF AccountInv, RelayTypeOK, PlaceInsert
<1>1. PICK b \in Bridges : b = made + 1
  BY <1>0, RelayAssumption DEF PlaceInsert, Bridges
<1>2. w \in BOOLEAN
  BY <1>0 DEF RelayTypeOK
<1>3. /\ mid \in Seq(Message)
      /\ \A c \in Bridges : Quieter(c, toY, mid)
  BY <1>0, QuietCloses
<1> HIDE DEF mid, w
<1>4. PICK m \in Invites(b) : m = Invite(b, e, w) /\ m.eph = e /\ m \in Message
  <2>1. Invite(b, e, w) \in Invites(b) /\ Invite(b, e, w).eph = e
    BY <1>0, <1>2, KindsApart
  <2>2. Invites(b) \subseteq Message
    BY DEF Invites
  <2> QED
    BY <2>1, <2>2
<1>5. toY' = mid \o <<m>>
  <2>1. toY' = toY \o (CloseAll(Replaced(e)) \o <<m>>)
    BY <1>1, <1>4 DEF PlaceInsert, SendToY, Messages, w
  <2>2. toY \in Seq(Message) /\ CloseAll(Replaced(e)) \in Seq(Message) /\ <<m>> \in Seq(Message)
    BY <1>0, <1>4, ReplacedTyped DEF RelayTypeOK
  <2> QED
    BY <2>1, <2>2, ConcatAssociative DEF mid
<1>6. /\ xb'[b].eph = e /\ xb'[b].outcome = "ringing" /\ xb'[b] # NoX
      /\ \A c \in Bridges : c # b => xb'[c] \in {xb[c], NoX}
  <2>1. \E v \in BOOLEAN :
          xb' = [[c \in Bridges |-> IF c \in Replaced(e) THEN NoX ELSE xb[c]]
                   EXCEPT ![b] = Rings(e, v)]
    BY <1>1, <1>2 DEF PlaceInsert, Rings, w
  <2> QED
    BY <1>0, <2>1, RingsTyped
<1>7. UNCHANGED <<addressed, yb, dev>> /\ made' = made + 1
  BY <1>1 DEF PlaceInsert, yVars
<1>8. caller' = caller \/ caller'.state # "in"
  BY <1>0 DEF PlaceInsert, CallerRecord
<1>9. ASSUME NEW c \in Bridges, c # b PROVE BridgeOK(c)'
  <2>1. m \notin About(c)
    BY <1>9, SetsApart
  <2>2. Quieter(c, toY, toY')
    BY <1>3, <1>4, <1>5, <2>1, QuieterSent DEF Quieter
  <2>3. XIdle(c)
    <3>1. NoX.outcome # "established"
      BY DEF NoX
    <3> QED
      BY <1>6, <1>9, <3>1 DEF XIdle
  <2>4. YIdle(c)
    BY <1>7, YFewer
  <2>5. Idle(c)
    BY <1>7, <1>8, <2>3, <2>4, CallerSame, DevsSame DEF Idle
  <2> QED
    BY <1>0, <1>7, <2>2, <2>5, IdleStands, QuieterSame DEF AccountInv
<1>10. BridgeOK(b)'
  <2>1. Nowhere(b)
    BY <1>0, <1>1 DEF AccountInv, BridgeOK
  <2>2. /\ yb'[b] = NoY /\ \A d \in Devs : ~In(d, b)'
        /\ ~CallerIn(b)'
    BY <1>7, <1>8, <2>1 DEF Nowhere, NoAnswer, In, CallerIn
  <2>3. /\ NoneIn(mid, About(b)) /\ NoneIn(toX', About(b))
    BY <1>0, <1>3, <2>1 DEF Nowhere, Quieter
  <2>4. /\ NoneIn(mid, Invites(b)) /\ NoneIn(toX', Refusals(b)) /\ NoneIn(toX', Accepts(b))
    BY <2>3, FewerIn, SetsApart
  <2>5. OneIn(toY', Invites(b)) /\ OneIn(toX', Refusals(b))
    BY <1>3, <1>4, <1>5, <2>4, OneMoreSent, NoneIsOne
  <2>6. NoAnswer(b)'
    BY <1>6, <2>2, <2>4 DEF NoAnswer
  <2>7. Invited(b)' /\ Recorded(b)'
    BY <2>2, <2>4, <2>5, <2>6 DEF Invited, Recorded
  <2>8. AnswerMatches(b)'
    BY <1>6, <2>2, <2>4, FewerIn DEF AnswerMatches
  <2>9. NoneIn(toY', {n \in Invites(b) : n.eph # e})
    <3>1. NoneIn(mid, {n \in Invites(b) : n.eph # e}) /\ m \notin {n \in Invites(b) : n.eph # e}
      BY <1>4, <2>4, FewerIn
    <3> QED
      BY <1>3, <1>4, <1>5, <3>1, OneMoreSent
  <2>10. OfferMatches(b)'
    BY <1>6, <2>2, <2>9 DEF OfferMatches, Offered
  <2> QED
    BY <1>0, <1>1, <1>7, <2>7, <2>8, <2>10 DEF BridgeOK
<1> QED
  BY <1>7, <1>9, <1>10 DEF AccountInv

LEMMA AccountPlacing ==
  ASSUME AccountInv, RelayTypeOK', NEW e \in placing, PlaceFails(e) \/ PlaceLost(e)
  PROVE  AccountInv'
<1>0. RelayTypeOK /\ caller \in CallerRecord
  BY DEF AccountInv, RelayTypeOK
<1>1. CASE PlaceFails(e)
  <2>1. caller' = caller \/ caller'.state # "in"
    BY <1>0, <1>1 DEF PlaceFails, CallerRecord
  <2> QED
    BY <1>1, <2>1, CallerMoves DEF PlaceFails, yVars, netVars
<1>2. CASE PlaceLost(e)
  <2>1. PICK b \in Bridges : b = xIndex
    BY <1>0, <1>2 DEF PlaceLost, SameCall, RelayTypeOK
  <2>2. UNCHANGED <<addressed, made, toX, toY, xb, yb, dev>>
    BY <1>2 DEF PlaceLost, yVars
  <2>3. \/ caller' = caller
        \/ Answered(xb[b], b) /\ xb[b].eph = caller.eph
    BY <1>2, <2>1 DEF PlaceLost, SameCall
  <2> QED
    BY <1>0, <2>2, <2>3, AnsweredAs, CallerMoves, Connects
<1> QED
  BY <1>1, <1>2

LEMMA YStands ==
  ASSUME AccountInv, NEW b \in Bridges,
         yb'[b] # NoY => yb[b] # NoY /\ yb'[b].eph = yb[b].eph /\ yb'[b].callee = yb[b].callee,
         \A d \in Devs : In(d, b) /\ yb[b].callee = d /\ yb'[b] # NoY => In(d, b)'
  PROVE  YIdle(b)
<1>1. CASE yb'[b] # NoY /\ yb'[b].callee # NoDev
  <2>1. yb[b] # NoY /\ yb[b].callee # NoDev
    BY <1>1
  <2>2. PICK d \in Devs : d = yb[b].callee
    BY <2>1 DEF AccountInv, RelayTypeOK, YRecord
  <2>3. In(d, b)
    BY <2>1, <2>2 DEF AccountInv, BridgeOK, Recorded
  <2>4. In(d, b)' /\ yb'[b].callee = d
    BY <1>1, <2>2, <2>3
  <2> QED
    BY <1>1, <2>4 DEF YIdle, In
<1>2. CASE yb'[b] = NoY \/ yb'[b].callee = NoDev
  BY <1>2 DEF YIdle
<1> QED
  BY <1>1, <1>2

(* An invite at Y. *)
LEMMA InviteArrives ==
  ASSUME AccountInv, Arrives("invite", toY)
  PROVE  \E b \in Bridges : \E m \in Invites(b) :
           /\ m = Head(toY) /\ b = Head(toY).bridge /\ m \in Message
           /\ yb[b] = NoY /\ NoAnswer(b) /\ NoneIn(toX, Refusals(b)) /\ ~(b > made)
           /\ NoneIn(Tail(toY), Invites(b))
           /\ \A c \in Bridges : Quieter(c, toY, Tail(toY))
           /\ xb[b] # NoX => m.eph = xb[b].eph
<1>1. /\ toY \in Seq(Message) /\ toY # <<>>
      /\ Head(toY) \in Message /\ Head(toY).kind = "invite"
  BY ArrivedTyped DEF AccountInv, RelayTypeOK
<1>2. PICK b \in Bridges : b = Head(toY).bridge
  BY <1>1 DEF Message
<1>3. PICK m \in Invites(b) : m = Head(toY) /\ m \in Message
  BY <1>1, <1>2 DEF Invites
<1>4. BridgeOK(b)
  BY DEF AccountInv
<1>5. ~NoneIn(toY, Invites(b)) /\ ~NoneIn(toY, About(b))
  BY <1>1, <1>3, HeadGone, SetsApart
<1>6. yb[b] = NoY /\ NoAnswer(b) /\ NoneIn(toX, Refusals(b)) /\ ~(b > made)
  BY <1>4, <1>5 DEF BridgeOK, Invited, Nowhere
<1>7. NoneIn(Tail(toY), Invites(b))
  BY <1>1, <1>3, <1>4, HeadGone DEF BridgeOK, Invited
<1>8. \A c \in Bridges : Quieter(c, toY, Tail(toY))
  BY <1>1, QuieterTail
<1>9. ASSUME xb[b] # NoX PROVE m.eph = xb[b].eph
  <2>1. NoneIn(toY, {n \in Invites(b) : n.eph # xb[b].eph})
    BY <1>4, <1>9 DEF BridgeOK, OfferMatches, Offered
  <2>2. m \notin {n \in Invites(b) : n.eph # xb[b].eph}
    BY <1>1, <1>3, <2>1, HeadGone
  <2> QED
    BY <2>2
<1> QED
  BY <1>2, <1>3, <1>6, <1>7, <1>8, <1>9

LEMMA AccountRefused ==
  ASSUME AccountInv, RelayTypeOK', InviteRefused
  PROVE  AccountInv'
<1>0. RelayTypeOK /\ made \in Nat
  BY RelayAssumption DEF AccountInv, RelayTypeOK
<1>1. PICK b \in Bridges : \E m \in Invites(b) :
           /\ m = Head(toY) /\ b = Head(toY).bridge /\ m \in Message
           /\ yb[b] = NoY /\ NoAnswer(b) /\ NoneIn(toX, Refusals(b)) /\ ~(b > made)
           /\ NoneIn(Tail(toY), Invites(b))
           /\ \A c \in Bridges : Quieter(c, toY, Tail(toY))
           /\ xb[b] # NoX => m.eph = xb[b].eph
  BY InviteArrives DEF InviteRefused
<1>2. UNCHANGED <<addressed, made, xb, yb, caller, dev>> /\ toY' = Tail(toY)
  BY DEF InviteRefused, xVars, yVars
<1>3. \A c \in Bridges : Idle(c)
  BY <1>2, XSame, YFewer, CallerSame, DevsSame DEF Idle
<1>4. CASE SendToX(<<Reject(b, "unreachable")>>)
  BY <1>0, <1>1, <1>2, <1>3, <1>4, QuietDrops, Calm
<1>5. CASE SendToX(<<Reject(b, "refused")>>)
  <2>1. PICK r \in Refusals(b) : r = Reject(b, "refused") /\ r \in Message
    BY KindsApart
  <2>2. toX \in Seq(Message) /\ toX' \in {toX, toX \o <<r>>}
    BY <1>0, <1>5, <2>1 DEF SendToX, RelayTypeOK
  <2>3. ASSUME NEW c \in Bridges, c # b PROVE BridgeOK(c)'
    <3>1. r \notin About(c)
      BY <2>1, <2>3, SetsApart
    <3>2. Quieter(c, toX, toX')
      BY <2>1, <2>2, <3>1, QuieterSent, QuieterSame
    <3> QED
      BY <1>0, <1>1, <1>2, <1>3, <3>2, IdleStands DEF AccountInv
  <2>4. BridgeOK(b)'
    <3>1. BridgeOK(b)
      BY DEF AccountInv
    <3>2. \A Q : NoneIn(toX, Q) /\ r \notin Q => NoneIn(toX', Q)
      BY <2>1, <2>2, OneMoreSent
    <3>3. NoneIn(toX, Accepts(b)) /\ r \notin Accepts(b)
      BY <1>1, <2>1, SetsApart DEF NoAnswer
    <3>4. NoneIn(toX', Accepts(b))
      BY <3>2, <3>3
    <3>5. OneIn(toX', Refusals(b))
      BY <1>1, <2>1, <2>2, OneMoreSent, NoneIsOne
    <3>6. NoneIn(toY', Invites(b)) /\ OneIn(toY', Invites(b))
      BY <1>1, <1>2, NoneIsOne
    <3>7. NoAnswer(b)'
      BY <1>1, <1>2, <3>4 DEF NoAnswer, CallerIn, In
    <3>8. Invited(b)' /\ Recorded(b)'
      BY <1>1, <1>2, <3>5, <3>6, <3>7 DEF Invited, Recorded
    <3>9. AnswerMatches(b)'
      BY <3>4, <3>7, FewerIn DEF AnswerMatches, NoAnswer
    <3>10. OfferMatches(b)'
      <4>1. \A e : NoneIn(toY', {n \in Invites(b) : n.eph # e})
        BY <3>6, FewerIn
      <4> QED
        BY <1>2, <3>1, <4>1 DEF OfferMatches, BridgeOK, Offered, CallerIn, In
    <3> QED
      BY <1>1, <1>2, <3>8, <3>9, <3>10 DEF BridgeOK
  <2> QED
    BY <1>2, <2>3, <2>4 DEF AccountInv
<1> QED
  BY <1>1, <1>4, <1>5 DEF InviteRefused

LEMMA AccountTaken ==
  ASSUME AccountInv, RelayTypeOK', InviteTaken
  PROVE  AccountInv'
<1>0. RelayTypeOK /\ made \in Nat /\ addressed = NoDev
  BY RelayAssumption DEF AccountInv, RelayTypeOK
<1>1. PICK b \in Bridges : \E m \in Invites(b) :
           /\ m = Head(toY) /\ b = Head(toY).bridge /\ m \in Message
           /\ yb[b] = NoY /\ NoAnswer(b) /\ NoneIn(toX, Refusals(b)) /\ ~(b > made)
           /\ NoneIn(Tail(toY), Invites(b))
           /\ \A c \in Bridges : Quieter(c, toY, Tail(toY))
           /\ xb[b] # NoX => m.eph = xb[b].eph
  BY InviteArrives DEF InviteTaken
<1>2. PICK m \in Invites(b) : m = Head(toY) /\ m \in Message /\ (xb[b] # NoX => m.eph = xb[b].eph)
  BY <1>1
<1>3. UNCHANGED <<addressed, made, xb, caller, dev>> /\ toY' = Tail(toY)
  BY DEF InviteTaken, xVars
<1>4. toX' = toX
  <2>1. toX \in Seq(Message) /\ SendToX(<<>>)
    BY <1>0 DEF InviteTaken, RelayTypeOK
  <2> QED
    BY <2>1, ConcatEmptySeq DEF SendToX
<1>5. yb' = [yb EXCEPT ![b] = Taken(m.eph, 0)]
  BY <1>0, <1>1, <1>2 DEF InviteTaken, Taken
<1>6. m.eph \in Nat
  BY <1>2 DEF Message
<1>7. /\ yb'[b].eph = m.eph /\ yb'[b].callee = NoDev
      /\ \A c \in Bridges : c # b => yb'[c] = yb[c]
  BY <1>0, <1>5, <1>6, TakenTyped DEF RelayTypeOK
<1>8. ASSUME NEW c \in Bridges, c # b PROVE BridgeOK(c)'
  <2>1. YIdle(c)
    BY <1>3, <1>7, <1>8, YStands DEF In
  <2>2. Idle(c)
    BY <1>3, <2>1, XSame, CallerSame, DevsSame DEF Idle
  <2> QED
    BY <1>0, <1>1, <1>3, <1>4, <2>2, IdleStands, QuieterSame DEF AccountInv
<1>9. BridgeOK(b)'
  <2>1. BridgeOK(b)
    BY DEF AccountInv
  <2>2. NoAnswer(b)'
    BY <1>1, <1>3, <1>4 DEF NoAnswer, CallerIn, In
  <2>3. NoneIn(toY', Invites(b)) /\ OneIn(toY', Invites(b)) /\ NoneIn(toX', Refusals(b))
    BY <1>1, <1>3, <1>4, NoneIsOne
  <2>4. Invited(b)' /\ Recorded(b)'
    BY <1>7, <2>2, <2>3, NoneIsOne DEF Invited, Recorded
  <2>5. AnswerMatches(b)'
    BY <2>2, FewerIn DEF AnswerMatches, NoAnswer
  <2>6. \A e : NoneIn(toY', {n \in Invites(b) : n.eph # e})
    BY <2>3, FewerIn
  <2>7. OfferMatches(b)'
    BY <1>2, <1>3, <1>7, <2>2, <2>6 DEF OfferMatches, Offered, NoAnswer
  <2> QED
    BY <1>1, <1>3, <2>4, <2>5, <2>7 DEF BridgeOK
<1> QED
  BY <1>3, <1>8, <1>9 DEF AccountInv

LEMMA AccountCloses ==
  ASSUME AccountInv, RelayTypeOK', CloseAtY \/ CloseAtX
  PROVE  AccountInv'
<1>0. RelayTypeOK /\ toX \in Seq(Message) /\ toY \in Seq(Message) /\ addressed = NoDev
  BY DEF AccountInv, RelayTypeOK
<1>1. CASE CloseAtY
  <2>1. PICK b \in Bridges : b = Head(toY).bridge
    BY <1>0, <1>1, ArrivedTyped DEF CloseAtY, Message
  <2>2. UNCHANGED <<addressed, made, xb, caller, toX>> /\ toY' = Tail(toY) /\ toY # <<>>
    BY <1>0, <1>1, ArrivedTyped DEF CloseAtY, xVars
  <2>3. \A c \in Bridges : Quieter(c, toY, toY')
    BY <1>0, <2>2, QuieterTail
  <2>4. yb'[b] = NoY /\ \A c \in Bridges : c # b => yb'[c] = yb[c]
    BY <1>0, <1>1, <2>1, DropTyped DEF CloseAtY
  <2>5. \A d \in Devs : \/ dev'[d] = dev[d]
                        \/ dev'[d].state = "idle" /\ dev[d].call.bridge = b
    <3>1. \A d \in Devs : dev'[d] \in {dev[d], [dev[d] EXCEPT !.state = "idle", !.call = NoCall]}
                          /\ (dev'[d] # dev[d] => dev[d].call.bridge = b)
      BY <1>1, <2>1 DEF CloseAtY
    <3>2. \A d \in Devs : dev[d] \in DevRecord
      BY <1>0 DEF RelayTypeOK
    <3> QED
      BY <3>1, <3>2, IdleTyped
  <2>6. ASSUME NEW c \in Bridges PROVE Idle(c)
    <3>1. DevsIdle(c)
      BY <2>5 DEF DevsIdle, In
    <3>2. yb'[c] # NoY => yb[c] # NoY /\ yb'[c].eph = yb[c].eph /\ yb'[c].callee = yb[c].callee
      BY <2>4
    <3>3. \A d \in Devs : In(d, c) /\ yb[c].callee = d /\ yb'[c] # NoY => In(d, c)'
      BY <2>4, <2>5 DEF In
    <3> QED
      BY <2>2, <3>1, <3>2, <3>3, XSame, CallerSame, YStands DEF Idle
  <2> QED
    BY <2>2, <2>3, <2>6, Calm, QuieterSame
<1>2. CASE CloseAtX
  <2>1. PICK b \in Bridges : b = Head(toX).bridge
    BY <1>0, <1>2, ArrivedTyped DEF CloseAtX, Message
  <2>2. UNCHANGED <<addressed, made, yb, dev, toY>> /\ toX' = Tail(toX) /\ toX # <<>>
    BY <1>0, <1>2, ArrivedTyped DEF CloseAtX, yVars
  <2>3. \A c \in Bridges : Quieter(c, toX, toX')
    BY <1>0, <2>2, QuieterTail
  <2>4. \A c \in Bridges : xb'[c] \in {xb[c], NoX}
    BY <1>0, <1>2, <2>1, DropTyped DEF CloseAtX
  <2>5. caller' = caller \/ caller'.state # "in"
    BY <1>0, <1>2 DEF CloseAtX, RelayTypeOK, CallerRecord
  <2> QED
    BY <2>2, <2>3, <2>4, <2>5, Calm, XFewer, YFewer, CallerSame, DevsSame, QuieterSame DEF Idle
<1> QED
  BY <1>1, <1>2

LEMMA AccountAccept ==
  ASSUME AccountInv, RelayTypeOK', AcceptAtX
  PROVE  AccountInv'
<1>0. RelayTypeOK /\ toX \in Seq(Message) /\ made \in Nat
  BY RelayAssumption DEF AccountInv, RelayTypeOK
<1>1. PICK m \in Message : m = Head(toX) /\ m.kind = "accept"
  BY <1>0, ArrivedTyped DEF AcceptAtX
<1>2. PICK b \in Bridges : b = m.bridge
  BY <1>1 DEF Message
<1>3. m \in Accepts(b) /\ m.dev \in Devs \cup {NoDev} /\ m.eph \in Nat
  BY <1>1, <1>2 DEF Accepts, Message
<1>4. UNCHANGED <<addressed, made, yb, caller, dev, toY>> /\ toX' = Tail(toX) /\ toX # <<>>
  BY <1>0, ArrivedTyped DEF AcceptAtX, yVars
<1>5. \A c \in Bridges : Quieter(c, toX, toX')
  BY <1>0, <1>4, QuieterTail
<1>6. CASE xb[b] = NoX
  <2>1. xb' = xb
    BY <1>1, <1>2, <1>6 DEF AcceptAtX
  <2> QED
    BY <1>4, <1>5, <2>1, Calm, XSame, YFewer, CallerSame, DevsSame, QuieterSame DEF Idle
<1>7. CASE xb[b] # NoX
  <2>1. xb' = [xb EXCEPT ![b] = [xb[b] EXCEPT !.outcome = "established", !.callee = m.dev,
                                              !.calleeEph = m.eph]]
    BY <1>0, <1>1, <1>2, <1>7 DEF AcceptAtX, RelayTypeOK
  <2>2. xb \in [Bridges -> XRecord] /\ xb[b] \in XRecord
    BY <1>0 DEF RelayTypeOK
  <2>3. /\ xb'[b].eph = xb[b].eph /\ xb'[b].callee = m.dev /\ xb'[b].calleeEph = m.eph
        /\ \A c \in Bridges : c # b => xb'[c] = xb[c]
    BY <2>1, <2>2 DEF XRecord
  <2>4. ASSUME NEW c \in Bridges, c # b PROVE BridgeOK(c)'
    <3>1. Idle(c)
      BY <1>4, <2>3, <2>4, YFewer, CallerSame, DevsSame DEF Idle, XIdle
    <3> QED
      BY <1>0, <1>4, <1>5, <3>1, IdleStands, QuieterSame DEF AccountInv
  <2>5. BridgeOK(b)'
    <3>1. BridgeOK(b) /\ ~NoneIn(toX, Accepts(b))
      BY <1>0, <1>1, <1>3, <1>4, HeadGone DEF AccountInv
    <3>2. ~NoAnswer(b)
      BY <3>1 DEF NoAnswer
    <3>3. /\ NoneIn(toY, Invites(b)) /\ NoneIn(toX, Refusals(b))
          /\ yb[b] # NoY => yb[b].callee # NoDev
      BY <3>1, <3>2 DEF BridgeOK, Invited, Recorded
    <3>4. /\ NoneIn(toY', Invites(b)) /\ NoneIn(toX', Refusals(b))
          /\ OneIn(toY', Invites(b)) /\ OneIn(toX', Refusals(b))
      BY <1>0, <1>4, <3>3, HeadGone, NoneIsOne
    <3>5. Invited(b)'
      BY <3>4 DEF Invited
    <3>6. Recorded(b)'
      BY <1>4, <3>1, <3>3 DEF BridgeOK, Recorded, In
    <3>7. \A d, e : Only(b, d, e)' <=> Only(b, d, e)
      BY <1>4 DEF Only, In
    <3>8. /\ NoneIn(toX', {n \in Accepts(b) : ~Only(b, n.dev, n.eph)})
          /\ m \notin {n \in Accepts(b) : ~Only(b, n.dev, n.eph)}
      BY <1>0, <1>1, <1>4, <3>1, HeadGone DEF BridgeOK, AnswerMatches
    <3>9. NoneIn(toX', {n \in Accepts(b) : ~Only(b, n.dev, n.eph)'})
      <4>1. {n \in Accepts(b) : ~Only(b, n.dev, n.eph)'} \subseteq {n \in Accepts(b) : ~Only(b, n.dev, n.eph)}
        BY <3>7
      <4> QED
        BY <3>8, <4>1, FewerIn
    <3>10. AnswerMatches(b)'
      <4>1. Only(b, m.dev, m.eph)
        BY <1>3, <3>8
      <4>2. CallerIn(b)' => CallerIn(b) /\ caller' = caller
        BY <1>4 DEF CallerIn
      <4> QED
        BY <1>4, <2>3, <3>1, <3>7, <3>9, <4>1, <4>2 DEF AnswerMatches, BridgeOK
    <3>11. OfferMatches(b)'
      BY <1>4, <1>7, <2>3, <3>1 DEF BridgeOK, OfferMatches, Offered, CallerIn, In
    <3>12. ~(b > made')
      BY <1>4, <1>7, <3>1 DEF BridgeOK, Nowhere
    <3> QED
      BY <3>5, <3>6, <3>10, <3>11, <3>12 DEF BridgeOK
  <2> QED
    BY <1>4, <2>4, <2>5 DEF AccountInv
<1> QED
  BY <1>6, <1>7

LEMMA AccountReject ==
  ASSUME AccountInv, RelayTypeOK', RejectAtX
  PROVE  AccountInv'
<1>0. RelayTypeOK /\ toX \in Seq(Message) /\ toY \in Seq(Message) /\ made \in Nat
  <2>1. RelayTypeOK
    BY DEF AccountInv
  <2>2. toX \in Seq(Message) /\ toY \in Seq(Message)
    BY <2>1 DEF RelayTypeOK
  <2>3. made \in Nat
    BY <2>1, RelayAssumption DEF RelayTypeOK
  <2> QED
    BY <2>1, <2>2, <2>3
<1>1. PICK m \in Message : m = Head(toX) /\ m.kind = "reject"
  BY <1>0, ArrivedTyped DEF RejectAtX
<1>2. PICK b \in Bridges : b = m.bridge
  BY <1>1 DEF Message
<1>4. UNCHANGED <<addressed, made, yb, caller, dev>> /\ toX' = Tail(toX) /\ toX # <<>>
  BY <1>0, ArrivedTyped DEF RejectAtX, yVars
<1>5. \A c \in Bridges : Quieter(c, toX, toX')
  BY <1>0, <1>4, QuieterTail
<1>6. xb \in [Bridges -> XRecord] /\ xb[b] \in XRecord
  BY <1>0 DEF RelayTypeOK
<1>7. CASE ~Resends(m)
  <2>1. xb' \in {xb, [xb EXCEPT ![b] = [xb[b] EXCEPT !.outcome = "rejected"]]} /\ toY' = toY
        /\ (xb[b] = NoX => xb' = xb)
    BY <1>1, <1>2, <1>6, <1>7 DEF RejectAtX
  <2>2. /\ [xb[b] EXCEPT !.outcome = "rejected"].eph = xb[b].eph
        /\ [xb[b] EXCEPT !.outcome = "rejected"].outcome = "rejected"
    BY <1>6 DEF XRecord
  <2>3. \A c \in Bridges : XIdle(c)
    BY <1>6, <2>1, <2>2 DEF XIdle
  <2> QED
    BY <1>4, <1>5, <2>1, <2>3, Calm, YFewer, CallerSame, DevsSame, QuieterSame DEF Idle
<1>8. CASE Resends(m)
  <2>0. m \in Refusals(b) /\ xb[b] # NoX
    BY <1>1, <1>2, <1>8 DEF Resends, Refusals
  <2>1. BridgeOK(b) /\ ~NoneIn(toX, Refusals(b))
    BY <1>0, <1>1, <1>4, <2>0, HeadGone DEF AccountInv
  <2>2. /\ NoneIn(toY, Invites(b)) /\ yb[b] = NoY /\ NoAnswer(b) /\ ~(b > made)
    BY <2>0, <2>1 DEF BridgeOK, Invited, Nowhere
  <2>3. NoneIn(toX', Refusals(b))
    BY <1>0, <1>1, <1>4, <2>0, <2>1, HeadGone DEF BridgeOK, Invited
  <2>4. PICK e \in Nat : e = xb[b].eph
    BY <1>6 DEF XRecord
  <2>5. PICK i \in Invites(b) : i = Invite(b, e, TRUE) /\ i.eph = e /\ i \in Message
    BY <2>4, KindsApart DEF Invites
  <2>6. toY' \in {toY, toY \o <<i>>} /\ xb' = [xb EXCEPT ![b] = [xb[b] EXCEPT !.signed = TRUE]]
    BY <1>1, <1>2, <1>6, <1>8, <2>4, <2>5 DEF RejectAtX, SendToY
  <2>7. /\ xb'[b].eph = e /\ xb'[b].outcome = xb[b].outcome
        /\ \A c \in Bridges : c # b => xb'[c] = xb[c]
    BY <1>6, <2>4, <2>6 DEF XRecord
  <2>8. ASSUME NEW c \in Bridges, c # b PROVE BridgeOK(c)'
    <3>1. Idle(c)
      BY <1>4, <2>7, <2>8, YFewer, CallerSame, DevsSame DEF Idle, XIdle
    <3>2. i \notin About(c)
      BY <2>8, SetsApart
    <3>3. Quieter(c, toY, toY')
      BY <1>0, <2>5, <2>6, <3>2, QuieterSent, QuieterSame
    <3> QED
      BY <1>0, <1>4, <1>5, <3>1, <3>3, IdleStands DEF AccountInv
  <2>9. BridgeOK(b)'
    <3>1. OneIn(toY', Invites(b)) /\ OneIn(toX', Refusals(b))
      BY <1>0, <2>2, <2>3, <2>5, <2>6, OneMoreSent, NoneIsOne
    <3>2. NoneIn(toX', Accepts(b))
      BY <1>0, <1>4, <2>2, HeadGone DEF NoAnswer
    <3>3. NoAnswer(b)'
      BY <1>4, <2>2, <2>7, <3>2 DEF NoAnswer, CallerIn, In
    <3>4. Invited(b)' /\ Recorded(b)'
      BY <1>4, <2>2, <2>3, <3>1, <3>3 DEF Invited, Recorded
    <3>5. AnswerMatches(b)'
      BY <3>2, <3>3, FewerIn DEF AnswerMatches, NoAnswer
    <3>6. NoneIn(toY', {n \in Invites(b) : n.eph # e})
      <4>1. NoneIn(toY, {n \in Invites(b) : n.eph # e}) /\ i \notin {n \in Invites(b) : n.eph # e}
        BY <2>2, <2>5, FewerIn
      <4> QED
        BY <1>0, <2>5, <2>6, <4>1, OneMoreSent
    <3>7. OfferMatches(b)'
      BY <1>4, <2>2, <2>7, <3>3, <3>6 DEF OfferMatches, Offered, NoAnswer
    <3> QED
      BY <1>4, <2>2, <3>4, <3>5, <3>7 DEF BridgeOK
  <2> QED
    BY <1>4, <2>8, <2>9 DEF AccountInv
<1> QED
  BY <1>7, <1>8

(* Devices open, give up and decline.                                      *)
LEMMA DevsMove ==
  ASSUME AccountInv, RelayTypeOK', UNCHANGED <<addressed, made, toY, xb, caller>>,
         \A b \in Bridges : Quieter(b, toX, toX'),
         \A b \in Bridges : yb'[b] \in {yb[b], NoY},
         \A d \in Devs : \/ dev'[d] = dev[d]
                         \/ /\ dev'[d].state # "in"
                            /\ \A b \in Bridges : In(d, b) /\ yb[b].callee = d => yb'[b] = NoY
  PROVE  AccountInv'
<1>1. ASSUME NEW b \in Bridges PROVE Idle(b)
  <2>1. DevsIdle(b)
    BY DEF DevsIdle, In
  <2>2. \A d \in Devs : In(d, b) /\ yb[b].callee = d /\ yb'[b] # NoY => In(d, b)'
    BY DEF In
  <2>3. yb'[b] # NoY => yb[b] # NoY /\ yb'[b].eph = yb[b].eph /\ yb'[b].callee = yb[b].callee
    OBVIOUS
  <2> QED
    BY <2>1, <2>2, <2>3, XSame, CallerSame, YStands DEF Idle
<1> QED
  BY <1>1, Calm, QuieterSame

LEMMA AccountDevice ==
  ASSUME AccountInv, RelayTypeOK', NEW d \in Devs,
         DevOpens(d) \/ DevWaits(d) \/ DevGivesUp(d) \/ DevHangsUp(d)
           \/ \E b \in rung[d] : Decline(d, b)
  PROVE  AccountInv'
<1>0. RelayTypeOK /\ addressed = NoDev /\ dev \in [Devs -> DevRecord] /\ toX \in Seq(Message)
  BY DEF AccountInv, RelayTypeOK
<1>1. CASE DevOpens(d)
  <2>1. /\ dev'[d].state = "opening" /\ dev[d].state = "idle"
        /\ \A g \in Devs : g # d => dev'[g] = dev[g]
    BY <1>0, <1>1 DEF DevOpens
  <2>2. UNCHANGED <<addressed, made, toX, toY, xb, yb, caller>>
    BY <1>1 DEF DevOpens, xVars, netVars
  <2> QED
    BY <2>1, <2>2, DevsMove, QuieterSame DEF In
<1>2. CASE DevWaits(d)
  BY <1>0, <1>2, RelayAssumption DEF DevWaits
<1>3. CASE DevGivesUp(d)
  <2>1. /\ dev'[d].state = "idle" /\ dev[d].state = "opening"
        /\ \A g \in Devs : g # d => dev'[g] = dev[g]
    BY <1>0, <1>3, RelayAssumption DEF DevGivesUp, DevRecord
  <2>2. UNCHANGED <<addressed, made, toX, toY, xb, yb, caller>>
    BY <1>3 DEF DevGivesUp, xVars, yVars, netVars
  <2> QED
    BY <2>1, <2>2, DevsMove, QuieterSame DEF In
<1>4. CASE DevHangsUp(d)
  <2>1. PICK b \in Bridges : b = dev[d].call.bridge
    BY <1>0, <1>4 DEF DevHangsUp, RelayTypeOK
  <2>2. dev'[d].state = "idle" /\ \A g \in Devs : g # d => dev'[g] = dev[g]
    BY <1>0, <1>4, DevIdle DEF DevHangsUp
  <2>3. UNCHANGED <<addressed, made, toY, xb, caller>>
    BY <1>4 DEF DevHangsUp, xVars
  <2>4. CASE yb[b] # NoY /\ yb[b].callee = d
    <3>1. SendToX(<<Close(b)>>) /\ yb' = DropY(yb, b)
      BY <1>4, <2>1, <2>4 DEF DevHangsUp
    <3>2. yb'[b] = NoY /\ \A c \in Bridges : yb'[c] \in {yb[c], NoY}
      BY <1>0, <3>1, DropTyped
    <3>3. \A c \in Bridges : Quieter(c, toX, toX')
      BY <1>0, <3>1, QuietDrops
    <3>4. \A c \in Bridges : In(d, c) => yb'[c] = NoY
      BY <2>1, <3>2 DEF In
    <3> QED
      BY <2>2, <2>3, <3>2, <3>3, <3>4, DevsMove
  <2>5. CASE ~(yb[b] # NoY /\ yb[b].callee = d)
    <3>1. UNCHANGED <<yb, toX>>
      BY <1>4, <2>1, <2>5 DEF DevHangsUp
    <3>2. \A c \in Bridges : In(d, c) /\ yb[c].callee = d => yb'[c] = NoY
      BY <2>1, <2>5, <3>1 DEF In
    <3> QED
      BY <2>2, <2>3, <3>1, <3>2, DevsMove, QuieterSame
  <2> QED
    BY <2>4, <2>5
<1>5. ASSUME NEW b \in rung[d], Decline(d, b) PROVE AccountInv'
  <2>1. b \in Bridges
    BY <1>0 DEF RelayTypeOK
  <2>2. UNCHANGED <<addressed, made, toY, xb, caller, dev>>
    BY <1>5 DEF Decline, xVars
  <2>3. CASE yb[b] # NoY
    <3>1. SendToX(<<Reject(b, "declined")>>) /\ yb' = DropY(yb, b)
      BY <1>5, <2>3 DEF Decline
    <3>2. \A c \in Bridges : yb'[c] \in {yb[c], NoY} /\ Quieter(c, toX, toX')
      BY <1>0, <2>1, <3>1, DropTyped, QuietDrops
    <3> QED
      BY <2>2, <3>2, DevsMove
  <2>4. CASE yb[b] = NoY
    BY <1>5, <2>2, <2>4, DevsMove, QuieterSame DEF Decline
  <2> QED
    BY <2>3, <2>4
<1> QED
  BY <1>1, <1>2, <1>3, <1>4, <1>5

(* The first device has the call, and X is told which, and with what.      *)
LEMMA AccountAnswers ==
  ASSUME AccountInv, RelayTypeOK', NEW d \in Devs, DevAnswers(d)
  PROVE  AccountInv'
<1>0. /\ RelayTypeOK /\ toX \in Seq(Message) /\ made \in Nat
      /\ dev \in [Devs -> DevRecord] /\ dev[d].state = "opening"
  BY RelayAssumption DEF AccountInv, RelayTypeOK, DevAnswers
<1>1. PICK b \in Bridges : b = yIndex
  BY <1>0 DEF DevAnswers, Mine, RelayTypeOK
<1>2. PICK e \in Nat : e = dev[d].eph
  BY <1>0 DEF DevRecord
<1>3. PICK m \in Accepts(b) : m = Accept(b, e, d) /\ m.eph = e /\ m.dev = d /\ m \in Message
  BY <1>1, <1>2, KindsApart DEF Accepts
<1>4. UNCHANGED <<addressed, made, xb, caller, toY>> /\ toX' \in {toX, toX \o <<m>>}
  BY <1>1, <1>2, <1>3 DEF DevAnswers, SendToX, xVars
<1>5. /\ dev'[d].state = "in" /\ dev'[d].call.bridge = b /\ dev'[d].eph = e
      /\ dev'[d].call.theirs = yb[b].eph
      /\ \A g \in Devs : g # d => dev'[g] = dev[g]
  <2>1. dev' = InCall(d, b)
    BY <1>1 DEF DevAnswers
  <2> QED
    BY <1>0, <1>2, <2>1, InCallTyped
<1>6. /\ yb[b] # NoY /\ yb[b].callee = NoDev
      /\ yb'[b].callee = d /\ yb'[b].eph = yb[b].eph
      /\ \A c \in Bridges : c # b => yb'[c] = yb[c]
  <2>1. yb \in [Bridges -> YRecord] /\ yb[b] \in YRecord
    BY <1>0 DEF RelayTypeOK
  <2> QED
    BY <1>1, <2>1 DEF DevAnswers, Mine, Unanswered, YRecord
<1>7. ASSUME NEW c \in Bridges, c # b PROVE BridgeOK(c)'
  <2>1. DevsIdle(c)
    BY <1>5, <1>7 DEF DevsIdle, In
  <2>2. \A g \in Devs : In(g, c) => In(g, c)'
    BY <1>0, <1>5 DEF In
  <2>3. Idle(c)
    BY <1>4, <1>6, <1>7, <2>1, <2>2, XSame, CallerSame, YStands DEF Idle
  <2>4. m \notin About(c)
    BY <1>3, <1>7, SetsApart
  <2>5. Quieter(c, toX, toX')
    BY <1>0, <1>3, <1>4, <2>4, QuieterSent, QuieterSame
  <2> QED
    BY <1>0, <1>4, <2>3, <2>5, IdleStands, QuieterSame DEF AccountInv
<1>8. BridgeOK(b)'
  <2>1. BridgeOK(b) /\ NoAnswer(b)
    BY <1>6 DEF AccountInv, BridgeOK, Recorded
  <2>2. /\ NoneIn(toY, Invites(b)) /\ NoneIn(toX, Refusals(b)) /\ ~(b > made)
        /\ NoneIn(toX, Accepts(b)) /\ xb[b].outcome # "established" /\ ~CallerIn(b)
        /\ \A g \in Devs : ~In(g, b)
    BY <1>6, <2>1 DEF BridgeOK, Invited, Nowhere, NoAnswer
  <2>3. \A g \in Devs : In(g, b)' => g = d
    BY <1>5, <2>2 DEF In
  <2>4. Only(b, d, e)'
    BY <1>5, <2>3 DEF Only
  <2>5. NoneIn(toY', Invites(b)) /\ NoneIn(toX', Refusals(b))
    <3>1. m \notin Refusals(b)
      BY <1>3, SetsApart
    <3> QED
      BY <1>0, <1>3, <1>4, <2>2, <3>1, OneMoreSent
  <2>6. Invited(b)'
    BY <2>5, NoneIsOne DEF Invited
  <2>7. Recorded(b)'
    <3>1. d # NoDev /\ In(d, b)'
      BY <1>5, RelayAssumption DEF In
    <3> QED
      BY <1>6, <3>1 DEF Recorded, In
  <2>8. AnswerMatches(b)'
    <3>1. NoneIn(toX, {n \in Accepts(b) : ~Only(b, n.dev, n.eph)'})
      BY <2>2, FewerIn
    <3>2. m \notin {n \in Accepts(b) : ~Only(b, n.dev, n.eph)'}
      BY <1>3, <2>4
    <3>3. NoneIn(toX', {n \in Accepts(b) : ~Only(b, n.dev, n.eph)'})
      BY <1>0, <1>3, <1>4, <3>1, <3>2, OneMoreSent
    <3> QED
      BY <1>4, <2>2, <3>3 DEF AnswerMatches, CallerIn
  <2>9. OfferMatches(b)'
    <3>1. ASSUME NEW f, Offered(b, f) PROVE Offered(b, f)'
      <4>1. \A g \in Devs : In(g, b)' => dev'[g].call.theirs = f
        BY <1>5, <1>6, <2>3, <3>1 DEF Offered
      <4> QED
        BY <1>4, <1>6, <3>1, <4>1 DEF Offered
    <3> QED
      BY <1>4, <2>1, <2>2, <3>1 DEF BridgeOK, OfferMatches, CallerIn
  <2> QED
    BY <1>4, <2>2, <2>6, <2>7, <2>8, <2>9 DEF BridgeOK
<1> QED
  BY <1>4, <1>7, <1>8 DEF AccountInv

LEMMA AccountTime ==
  ASSUME AccountInv, RelayTypeOK',
         Sweep \/ RelayTick \/ LinkDies \/ UNCHANGED relayVars
  PROVE  AccountInv'
<1>0. RelayTypeOK /\ toX \in Seq(Message) /\ toY \in Seq(Message)
  BY DEF AccountInv, RelayTypeOK
<1>1. ASSUME NEW b \in Bridges, SweepX(b) PROVE AccountInv'
  <2>1. UNCHANGED <<addressed, made, toX, yb, caller, dev>>
    BY <1>1 DEF SweepX, yVars
  <2>2. /\ \A c \in Bridges : Quieter(c, toY, toY')
        /\ \A c \in Bridges : xb'[c] \in {xb[c], NoX}
    BY <1>0, <1>1, QuietDrops, DropTyped DEF SweepX
  <2> QED
    BY <2>1, <2>2, Calm, XFewer, YFewer, CallerSame, DevsSame, QuieterSame DEF Idle
<1>2. ASSUME NEW b \in Bridges, SweepY(b) PROVE AccountInv'
  <2>1. UNCHANGED <<addressed, made, toY, xb, caller, dev>>
    BY <1>2 DEF SweepY, xVars
  <2>2. /\ \A c \in Bridges : Quieter(c, toX, toX')
        /\ \A c \in Bridges : yb'[c] \in {yb[c], NoY}
    BY <1>0, <1>2, QuietDrops, DropTyped DEF SweepY
  <2> QED
    BY <2>1, <2>2, DevsMove
<1>3. CASE RelayTick
  <2>1. UNCHANGED <<addressed, made, toX, toY, caller, dev>>
    BY <1>3 DEF RelayTick, netVars
  <2>2. ASSUME NEW b \in Bridges PROVE Idle(b)
    <3>1. /\ xb[b] \in XRecord /\ yb[b] \in YRecord
          /\ xb'[b] = IF xb[b] = NoX THEN NoX ELSE Older(xb[b])
          /\ yb'[b] = IF yb[b] = NoY THEN NoY ELSE Older(yb[b])
      BY <1>0, <1>3 DEF RelayTick, RelayTypeOK
    <3>2. XIdle(b)
      BY <3>1, OlderTyped DEF XIdle
    <3>3. yb'[b] # NoY => yb[b] # NoY /\ yb'[b].eph = yb[b].eph /\ yb'[b].callee = yb[b].callee
      BY <3>1, OlderTyped
    <3>4. YIdle(b)
      BY <2>1, <3>3, YStands DEF In
    <3> QED
      BY <2>1, <3>2, <3>4, CallerSame, DevsSame DEF Idle
  <2> QED
    BY <2>1, <2>2, Calm, QuieterSame
<1>4. CASE LinkDies
  <2>1. UNCHANGED <<addressed, made, xb, yb, caller, dev>> /\ toX' = <<>> /\ toY' = <<>>
    BY <1>4 DEF LinkDies, xVars, yVars
  <2>2. \A b : Quieter(b, toX, toX') /\ Quieter(b, toY, toY')
    BY <2>1, QuieterNone
  <2> QED
    BY <2>1, <2>2, Calm, XSame, YFewer, CallerSame, DevsSame DEF Idle
<1>5. CASE UNCHANGED relayVars
  <2>1. UNCHANGED <<addressed, made, toX, toY, xb, yb, caller, dev>>
    BY <1>5 DEF relayVars, xVars, yVars, netVars
  <2> QED
    BY <2>1, CallerMoves
<1> QED
  BY <1>1, <1>2, <1>3, <1>4, <1>5 DEF Sweep

LEMMA AccountNext == AccountInv /\ [RelayNext]_relayVars => AccountInv'
<1> SUFFICES ASSUME AccountInv, [RelayNext]_relayVars PROVE AccountInv'
  OBVIOUS
<1>0. RelayTypeOK'
  BY RelayTypeNext DEF AccountInv
<1>1. CASE Dial \/ GiveUp \/ PollReports \/ PollPlaces \/ CallerHangsUp \/ CallerRebuilds
  BY <1>0, <1>1, AccountCaller, AccountPlaces
<1>2. ASSUME NEW e \in placing, PlaceFails(e) \/ PlaceLost(e) \/ PlaceInsert(e) PROVE AccountInv'
  BY <1>0, <1>2, AccountPlacing, AccountInsert
<1>3. CASE Deliver
  BY <1>0, <1>3, AccountRefused, AccountTaken, AccountCloses, AccountAccept, AccountReject DEF Deliver
<1>4. ASSUME NEW d \in Devs,
             DevOpens(d) \/ DevWaits(d) \/ DevGivesUp(d) \/ DevHangsUp(d)
               \/ \E b \in rung[d] : Decline(d, b)
      PROVE  AccountInv'
  BY <1>0, <1>4, AccountDevice
<1>5. ASSUME NEW d \in Devs, DevAnswers(d) PROVE AccountInv'
  BY <1>0, <1>5, AccountAnswers
<1>6. ASSUME NEW d \in Devs, DevAnswersAgain(d) PROVE FALSE
  <2>1. yIndex \in Bridges /\ yb[yIndex] # NoY /\ yb[yIndex].callee = d /\ dev[d].state = "opening"
    BY <1>6 DEF DevAnswersAgain, Mine, AccountInv, RelayTypeOK
  <2>2. In(d, yIndex)
    BY <2>1, RelayAssumption DEF AccountInv, BridgeOK, Recorded
  <2> QED
    BY <2>1, <2>2 DEF In
<1>7. CASE Sweep \/ RelayTick \/ LinkDies \/ UNCHANGED relayVars
  BY <1>0, <1>7, AccountTime
<1> QED
  BY <1>1, <1>2, <1>3, <1>4, <1>5, <1>6, <1>7 DEF RelayNext

LEMMA AccountInit == RelayInit /\ addressed = NoDev => AccountInv
<1> SUFFICES ASSUME RelayInit, addressed = NoDev PROVE AccountInv
  OBVIOUS
<1>1. RelayTypeOK
  BY RelayTypeInit
<1>2. ASSUME NEW b \in Bridges PROVE BridgeOK(b)
  <2>1. /\ xb[b] = NoX /\ yb[b] = NoY /\ toX = <<>> /\ toY = <<>>
        /\ ~CallerIn(b) /\ \A d \in Devs : ~In(d, b)
    BY <1>2 DEF RelayInit, CallerIn, In
  <2>2. \A Q : NoneIn(toX, Q) /\ NoneIn(toY, Q) /\ OneIn(toX, Q) /\ OneIn(toY, Q)
    BY <2>1, NothingSent
  <2>3. NoAnswer(b)
    BY <2>1, <2>2 DEF NoAnswer, NoX
  <2> QED
    BY <2>1, <2>2, <2>3 DEF BridgeOK, Invited, Recorded, AnswerMatches, OfferMatches, Nowhere, NoAnswer
<1> QED
  BY <1>1, <1>2 DEF AccountInv

LEMMA AccountImplies == AccountInv => KeysAgree
<1> SUFFICES ASSUME AccountInv, NEW d \in Devs, caller.state = "in", dev[d].state = "in",
                    caller.call.bridge = dev[d].call.bridge
             PROVE  /\ caller.call.peer = d /\ caller.call.theirs = dev[d].eph
                    /\ dev[d].call.theirs = caller.eph
  BY DEF KeysAgree
<1>1. PICK b \in Bridges : CallerIn(b) /\ In(d, b)
  BY DEF AccountInv, RelayTypeOK, CallerIn, In
<1> QED
  BY <1>1 DEF AccountInv, BridgeOK, AnswerMatches, OfferMatches, Only, Offered

(* Caller and device of an answered call hold each other's ephemeral, for  *)
(* any number of devices, calls abandoned and dialled again, links that    *)
(* die and messages that cross (place_call, try_answer, on_control).       *)
THEOREM AccountCallKeysAlways == RelaySpec => []AccountCallKeys
<1> DEFINE Held == addressed = NoDev => AccountInv
<1>1. RelayInit => Held
  BY AccountInit
<1>2. Held /\ [RelayNext]_relayVars => Held'
  <2>1. [RelayNext]_relayVars => addressed' = addressed
    BY DEF RelayNext, relayVars, Dial, GiveUp, PollReports, PollPlaces, CallerHangsUp,
       CallerRebuilds, PlaceFails, PlaceLost, PlaceInsert, Deliver, InviteRefused, InviteTaken,
       CloseAtY, AcceptAtX, RejectAtX, CloseAtX, DevOpens, DevAnswers, DevAnswersAgain, DevWaits,
       DevGivesUp, DevHangsUp, Decline, Sweep, SweepX, SweepY, RelayTick, LinkDies
  <2> QED
    BY <2>1, AccountNext
<1>3. Held => AccountCallKeys
  BY AccountImplies DEF AccountCallKeys
<1> QED
  BY <1>1, <1>2, <1>3, PTL DEF RelaySpec

----------------------------------------------------------------------------
(* The two exchanges of a call agree on it.                                *)

(* A message of one of these kinds, about bridge b, is at place i.         *)
At(chan, kinds, b, i) == i \in 1..Len(chan) /\ chan[i].kind \in kinds /\ chan[i].bridge = b
Ending == {"close", "reject"}

(* Bridge b stands at Y, or is about to: place 0 is Y's record.            *)
Live(ys, cy, b, i) == (i = 0 /\ b \in ys) \/ At(cy, {"invite"}, b, i)
(* Y is rid of b, and X knows (place 0) or is about to.                    *)
Over(over, cx, b, i) == (i = 0 /\ b \in over) \/ At(cx, Ending, b, i)

(* With xs the bridges of X, `over` those of them that were refused, ys    *)
(* those of Y, n the bridges made, cx and cy the channels to X and to Y.   *)
OneAtX(xs, over) == over \subseteq xs /\ \A b, c \in xs : b = c
OneToken(over, ys, cx, cy) ==
  \A b \in Bridges : \A i, j \in Nat :
    /\ Live(ys, cy, b, i) => ~Over(over, cx, b, j)
    /\ Live(ys, cy, b, i) /\ Live(ys, cy, b, j) => i = j
    /\ Over(over, cx, b, i) /\ Over(over, cx, b, j) => i = j
Standing(xs, over, ys, cx, cy) ==
  \A b \in xs : \E i \in Nat : Live(ys, cy, b, i) \/ Over(over, cx, b, i)
Leaving(xs, ys, cy) ==
  \A b \in Bridges \ xs : \A i \in Nat :
    Live(ys, cy, b, i) => \E k \in Nat : k > i /\ At(cy, {"close"}, b, k)
Apart(ys, cy) ==
  \A b, c \in Bridges : \A i, j \in Nat :
    b # c /\ i <= j /\ Live(ys, cy, b, i) /\ Live(ys, cy, c, j) =>
      \E k \in Nat : i < k /\ k < j /\ At(cy, {"close"}, b, k)
Closed(xs, cy) == \A b \in xs : \A k \in Nat : ~At(cy, {"close"}, b, k)
Answering(over, cx) ==
  \A b \in Bridges : \A i, j \in Nat : At(cx, {"accept"}, b, i) /\ Over(over, cx, b, j) => i < j
MadeOnly(xs, ys, n, cx, cy) ==
  /\ xs \cup ys \subseteq 1..n
  /\ \A i \in 1..Len(cx) : cx[i].bridge <= n
  /\ \A i \in 1..Len(cy) : cy[i].bridge <= n

Agree(xs, over, ys, n, cx, cy) ==
  /\ xs \subseteq Bridges /\ ys \subseteq Bridges /\ n \in Nat
  /\ cx \in Seq(Message) /\ cy \in Seq(Message)
  /\ OneAtX(xs, over) /\ OneToken(over, ys, cx, cy) /\ Standing(xs, over, ys, cx, cy)
  /\ Leaving(xs, ys, cy) /\ Apart(ys, cy) /\ Closed(xs, cy) /\ Answering(over, cx)
  /\ MadeOnly(xs, ys, n, cx, cy)

AtX == {b \in Bridges : xb[b] # NoX}
OverAlready == {b \in Bridges : xb[b].outcome = "rejected"}
AtY == {b \in Bridges : yb[b] # NoY}

(* Every invite in a channel has an ephemeral. *)
AllDialled(chan) == \A i \in 1..Len(chan) : chan[i].kind = "invite" => chan[i].eph # 0

(* A call has an ephemeral. *)
Dialled ==
  /\ placing \subseteq Nat \ {0} /\ (caller.state \in {"waiting", "asking"} => caller.eph # 0)
  /\ \A b \in AtX : xb[b].eph # 0
  /\ \A b \in AtY : yb[b].eph # 0
  /\ AllDialled(toY)

XIndexed == \A b \in AtX : xIndex = b
YIndexed == \A b \in AtY : yIndex = b
Agreed == Agree(AtX, OverAlready, AtY, made, toX, toY)

BridgesInv == RelayTypeOK /\ Dialled /\ XIndexed /\ (~lossy => Agreed /\ YIndexed)

(* What is at which place once a message is sent, or received.             *)
LEMMA PlacesSent ==
  ASSUME NEW c \in Seq(Message), NEW m \in Message
  PROVE  /\ c \o <<m>> \in Seq(Message) /\ Len(c) \in Nat
         /\ \A K, b, i : At(c, K, b, i) => i \in 1..Len(c)
         /\ \A K, b, i : At(c \o <<m>>, K, b, i) <=>
              At(c, K, b, i) \/ (i = Len(c) + 1 /\ m.kind \in K /\ m.bridge = b)
         /\ \A n : (\A i \in 1..Len(c) : c[i].bridge <= n) /\ m.bridge <= n =>
              \A i \in 1..Len(c \o <<m>>) : (c \o <<m>>)[i].bridge <= n
<1> DEFINE d == c \o <<m>>
<1>1. /\ d \in Seq(Message) /\ Len(c) \in Nat /\ Len(d) = Len(c) + 1
      /\ \A i \in 1..Len(c) : d[i] = c[i]
      /\ d[Len(c) + 1] = m
  BY ConcatProperties, LenProperties
<1> HIDE DEF d, Message
<1>2. \A i : i \in 1..Len(d) <=> i \in 1..Len(c) \/ i = Len(c) + 1
  BY <1>1
<1>3. Len(c) + 1 \notin 1..Len(c)
  BY <1>1
<1>4. \A K, b, i : At(c, K, b, i) => i \in 1..Len(c)
  BY DEF At
<1>5. \A K, b, i : At(d, K, b, i) <=>
              At(c, K, b, i) \/ (i = Len(c) + 1 /\ m.kind \in K /\ m.bridge = b)
  BY <1>1, <1>2, <1>3 DEF At
<1>6. \A n : (\A i \in 1..Len(c) : c[i].bridge <= n) /\ m.bridge <= n => \A i \in 1..Len(d) : d[i].bridge <= n
  BY <1>1, <1>2, <1>3
<1> QED
  BY <1>1, <1>4, <1>5, <1>6 DEF d

LEMMA PlacesReceived ==
  ASSUME NEW c \in Seq(Message), c # <<>>
  PROVE  /\ Tail(c) \in Seq(Message) /\ Head(c) \in Message /\ Len(c) \in Nat
         /\ \A K, b, i : At(c, K, b, i) => i \in 1..Len(c)
         /\ \A K, b : At(c, K, b, 1) <=> Head(c).kind \in K /\ Head(c).bridge = b
         /\ \A K, b, i : At(Tail(c), K, b, i) => i \in 1..Len(c)
         /\ \A K, b : \A i \in Nat : i > 0 => (At(Tail(c), K, b, i) <=> At(c, K, b, i + 1))
         /\ \A n : (\A i \in 1..Len(c) : c[i].bridge <= n) =>
              Head(c).bridge <= n /\ \A i \in 1..Len(Tail(c)) : Tail(c)[i].bridge <= n
<1> DEFINE d == Tail(c)
<1>1. /\ d \in Seq(Message) /\ Head(c) \in Message /\ Head(c) = c[1]
      /\ Len(c) \in Nat \ {0} /\ Len(d) = Len(c) - 1
      /\ \A i \in 1..Len(d) : d[i] = c[i + 1]
  BY HeadTailProperties, LenProperties, EmptySeq
<1> HIDE DEF d, Message
<1>2. /\ \A i \in 1..Len(d) : i + 1 \in 1..Len(c) /\ i \in 1..Len(c)
      /\ \A i \in Nat : i > 0 /\ i + 1 \in 1..Len(c) => i \in 1..Len(d)
      /\ 1 \in 1..Len(c)
  BY <1>1
<1>3. \A K, b, i : (At(c, K, b, i) => i \in 1..Len(c)) /\ (At(d, K, b, i) => i \in 1..Len(c))
  BY <1>1, <1>2 DEF At
<1>4. \A K, b : At(c, K, b, 1) <=> Head(c).kind \in K /\ Head(c).bridge = b
  BY <1>1, <1>2 DEF At
<1>5. \A K, b : \A i \in Nat : i > 0 => (At(d, K, b, i) <=> At(c, K, b, i + 1))
  BY <1>1, <1>2 DEF At
<1>6. \A n : (\A i \in 1..Len(c) : c[i].bridge <= n) =>
              Head(c).bridge <= n /\ \A i \in 1..Len(d) : d[i].bridge <= n
  BY <1>1, <1>2
<1> QED
  BY <1>1, <1>3, <1>4, <1>5, <1>6 DEF d

LEMMA LiveWithin ==
  ASSUME NEW ys, NEW c \in Seq(Message), NEW b, NEW i, Live(ys, c, b, i)
  PROVE  i \in 0..Len(c)
  BY LenProperties DEF Live, At

(* X drops a bridge and says so. *)
LEMMA XTells ==
  ASSUME NEW xs, NEW over, NEW ys, NEW n, NEW cx, NEW cy, NEW b \in xs,
         Agree(xs, over, ys, n, cx, cy)
  PROVE  Agree(xs \ {b}, over \ {b}, ys, n, cx, cy \o <<Close(b)>>)
<1> DEFINE d == cy \o <<Close(b)>>
<1>0. /\ b \in Bridges /\ Close(b) \in Message /\ Close(b).kind = "close" /\ Close(b).bridge = b
      /\ n \in Nat /\ cy \in Seq(Message)
  BY DEF Agree, Close, Msg, Message, Notes
<1>1. /\ d \in Seq(Message) /\ Len(cy) \in Nat
      /\ \A c, i : At(d, {"invite"}, c, i) <=> At(cy, {"invite"}, c, i)
      /\ \A c, i : At(d, {"close"}, c, i) <=> At(cy, {"close"}, c, i) \/ (i = Len(cy) + 1 /\ c = b)
      /\ (\A i \in 1..Len(cy) : cy[i].bridge <= n) /\ b <= n => \A i \in 1..Len(d) : d[i].bridge <= n
  BY <1>0, PlacesSent
<1> HIDE DEF d
<1>2. /\ \A c, i : Live(ys, d, c, i) <=> Live(ys, cy, c, i)
      /\ \A c, i : Over(over \ {b}, cx, c, i) => Over(over, cx, c, i)
  BY <1>1 DEF Live, Over
<1>3. xs \ {b} = {} /\ over \ {b} = {}
  BY DEF Agree, OneAtX
<1>4. OneAtX(xs \ {b}, over \ {b}) /\ Standing(xs \ {b}, over \ {b}, ys, cx, d) /\ Closed(xs \ {b}, d)
  BY <1>3 DEF OneAtX, Standing, Closed
<1>5. OneToken(over \ {b}, ys, cx, d) /\ Answering(over \ {b}, cx)
  <2>1. OneToken(over, ys, cx, cy) /\ Answering(over, cx)
    BY DEF Agree
  <2>2. OneToken(over \ {b}, ys, cx, d)
    BY ONLY <1>2, <2>1 DEF OneToken
  <2>3. Answering(over \ {b}, cx)
    BY ONLY <1>2, <2>1 DEF Answering
  <2> QED
    BY <2>2, <2>3
<1>6. Leaving(xs \ {b}, ys, d)
  <2> SUFFICES ASSUME NEW c \in Bridges, NEW i \in Nat, Live(ys, cy, c, i)
               PROVE  \E k \in Nat : k > i /\ At(d, {"close"}, c, k)
    BY <1>2 DEF Leaving
  <2>1. CASE c = b
    <3>1. i \in 0..Len(cy)
      BY <1>0, LiveWithin
    <3> QED
      BY <1>1, <2>1, <3>1
  <2>2. CASE c # b
    BY <1>1, <1>3, <2>2 DEF Agree, Leaving
  <2> QED
    BY <2>1, <2>2
<1>7. Apart(ys, d)
  BY <1>1, <1>2 DEF Agree, Apart
<1>8. MadeOnly(xs \ {b}, ys, n, cx, d)
  BY <1>0, <1>1 DEF Agree, MadeOnly
<1> QED
  BY <1>0, <1>1, <1>4, <1>5, <1>6, <1>7, <1>8 DEF Agree, d

(* X drops a bridge that it knows to be over. *)
LEMMA XForgets ==
  ASSUME NEW xs, NEW over, NEW ys, NEW n, NEW cx, NEW cy, NEW b \in over,
         Agree(xs, over, ys, n, cx, cy)
  PROVE  Agree(xs \ {b}, over \ {b}, ys, n, cx, cy)
<1>0. b \in xs /\ b \in Bridges /\ xs \ {b} = {} /\ over \ {b} = {}
  BY DEF Agree, OneAtX
<1>1. \A c, i : Over(over \ {b}, cx, c, i) => Over(over, cx, c, i)
  BY DEF Over
<1>2. Over(over, cx, b, 0)
  BY DEF Over
<1>3. OneAtX(xs \ {b}, over \ {b}) /\ Standing(xs \ {b}, over \ {b}, ys, cx, cy) /\ Closed(xs \ {b}, cy)
  BY <1>0 DEF OneAtX, Standing, Closed
<1>4. OneToken(over \ {b}, ys, cx, cy) /\ Answering(over \ {b}, cx)
  BY <1>1 DEF Agree, OneToken, Answering
<1>5. Leaving(xs \ {b}, ys, cy)
  <2> SUFFICES ASSUME NEW c \in Bridges, NEW i \in Nat, Live(ys, cy, c, i)
               PROVE  \E k \in Nat : k > i /\ At(cy, {"close"}, c, k)
    BY DEF Leaving
  <2>1. c # b
    BY <1>0, <1>2 DEF Agree, OneToken
  <2> QED
    BY <1>0, <2>1 DEF Agree, Leaving
<1>6. MadeOnly(xs \ {b}, ys, n, cx, cy)
  BY DEF Agree, MadeOnly
<1> QED
  BY <1>0, <1>3, <1>4, <1>5, <1>6 DEF Agree

(* The word of Y that a bridge is over arrives: X drops it. *)
LEMMA XHearsClose ==
  ASSUME NEW xs, NEW over, NEW ys, NEW n, NEW cx, NEW cy, cx # <<>>, Head(cx).kind \in Ending,
         NEW b, b = Head(cx).bridge, Agree(xs, over, ys, n, cx, cy)
  PROVE  Agree(xs \ {b}, over \ {b}, ys, n, Tail(cx), cy)
<1> DEFINE d == Tail(cx)
<1>1. /\ d \in Seq(Message) /\ b \in Bridges /\ Len(cx) \in Nat
      /\ Over(over, cx, b, 1)
      /\ \A K, c : \A i \in Nat : i > 0 => (At(d, K, c, i) <=> At(cx, K, c, i + 1))
      /\ \A K, c, i : At(d, K, c, i) => i > 0
      /\ (\A i \in 1..Len(cx) : cx[i].bridge <= n) => \A i \in 1..Len(d) : d[i].bridge <= n
  <2>1. cx \in Seq(Message)
    BY DEF Agree
  <2>2. Head(cx) \in Message /\ d \in Seq(Message) /\ Len(cx) \in Nat
    BY <2>1, PlacesReceived
  <2>3. b \in Bridges
    BY <2>2 DEF Message
  <2>4. Over(over, cx, b, 1)
    BY <2>1, PlacesReceived DEF Over
  <2>5. \A K, c : \A i \in Nat : i > 0 => (At(d, K, c, i) <=> At(cx, K, c, i + 1))
    BY <2>1, PlacesReceived
  <2>6. \A K, c, i : At(d, K, c, i) => i > 0
    BY <2>2 DEF At
  <2>7. (\A i \in 1..Len(cx) : cx[i].bridge <= n) => \A i \in 1..Len(d) : d[i].bridge <= n
    BY <2>1, PlacesReceived
  <2> QED
    BY <2>2, <2>3, <2>4, <2>5, <2>6, <2>7
<1> HIDE DEF d
<1>2. \A i \in Nat : ~Live(ys, cy, b, i)
  BY <1>1 DEF Agree, OneToken
<1>3. b \notin over
  <2>1. b \in over => Over(over, cx, b, 0)
    BY DEF Over
  <2> QED
    BY <1>1, <2>1 DEF Agree, OneToken
<1> DEFINE old(i) == IF i = 0 THEN 0 ELSE i + 1
<1>4. \A c : \A i \in Nat : Over(over \ {b}, d, c, i) => Over(over, cx, c, old(i))
  BY <1>1 DEF Over
<1>4a. \A i, j \in Nat : old(i) \in Nat /\ (old(i) = old(j) => i = j)
  OBVIOUS
<1> HIDE DEF old
<1>5. OneAtX(xs \ {b}, over \ {b}) /\ Closed(xs \ {b}, cy)
  BY <1>3 DEF Agree, OneAtX, Closed
<1>6. OneToken(over \ {b}, ys, d, cy)
  <2>1. OneToken(over, ys, cx, cy)
    BY DEF Agree
  <2> QED
    BY ONLY <1>4, <1>4a, <2>1 DEF OneToken
<1>7. Standing(xs \ {b}, over \ {b}, ys, d, cy)
  <2> SUFFICES ASSUME NEW c \in xs \ {b}
               PROVE  \E i \in Nat : Live(ys, cy, c, i) \/ Over(over \ {b}, d, c, i)
    BY DEF Standing
  <2>1. PICK i \in Nat : Live(ys, cy, c, i) \/ Over(over, cx, c, i)
    BY DEF Agree, Standing
  <2>2. CASE Over(over, cx, c, i) /\ i = 0
    <3>1. Over(over \ {b}, d, c, 0)
      BY <2>2 DEF Over, At
    <3> QED
      BY <3>1
  <2>3. CASE Over(over, cx, c, i) /\ i # 0
    <3>1. At(cx, Ending, c, i) /\ i # 1
      BY <2>3, <1>1 DEF Over, At
    <3>2. i - 1 \in Nat /\ i - 1 > 0 /\ (i - 1) + 1 = i
      BY <3>1, <2>3
    <3>3. At(d, Ending, c, i - 1)
      BY <1>1, <3>1, <3>2
    <3> QED
      BY <3>2, <3>3 DEF Over
  <2> QED
    BY <2>1, <2>2, <2>3
<1>8. Leaving(xs \ {b}, ys, cy)
  BY <1>2 DEF Agree, Leaving
<1>9. Answering(over \ {b}, d)
  <2> SUFFICES ASSUME NEW c \in Bridges, NEW i \in Nat, NEW j \in Nat,
                      At(d, {"accept"}, c, i), Over(over \ {b}, d, c, j)
               PROVE  i < j
    BY DEF Answering
  <2>1. At(cx, {"accept"}, c, i + 1) /\ Over(over, cx, c, old(j))
    BY <1>1, <1>4
  <2>2. i + 1 < old(j)
    BY <1>4a, <2>1 DEF Agree, Answering
  <2> QED
    BY <2>2 DEF old
<1>10. MadeOnly(xs \ {b}, ys, n, d, cy)
  BY <1>1 DEF Agree, MadeOnly
<1> QED
  BY <1>1, <1>5, <1>6, <1>7, <1>8, <1>9, <1>10 DEF Agree, d

(* An invite goes out for a bridge of which nothing is left.               *)
LEMMA XInvites ==
  ASSUME NEW ys, NEW n, NEW k, NEW cx, NEW cy, Agree({}, {}, ys, n, cx, cy),
         NEW b \in Bridges, k \in Nat, n <= k, b <= k,
         NEW m \in Message, m.kind = "invite", m.bridge = b,
         \A i \in Nat : ~Live(ys, cy, b, i) /\ ~Over({}, cx, b, i) /\ ~At(cy, {"close"}, b, i)
  PROVE  Agree({b}, {}, ys, k, cx, cy \o <<m>>)
<1> DEFINE d == cy \o <<m>>
<1>1. /\ d \in Seq(Message) /\ Len(cy) \in Nat /\ cy \in Seq(Message) /\ n \in Nat
      /\ \A c, i : At(cy, {"invite"}, c, i) \/ At(cy, {"close"}, c, i) => i \in 1..Len(cy)
      /\ \A c, i : At(d, {"invite"}, c, i) <=> At(cy, {"invite"}, c, i) \/ (i = Len(cy) + 1 /\ c = b)
      /\ \A c, i : At(d, {"close"}, c, i) <=> At(cy, {"close"}, c, i)
      /\ (\A i \in 1..Len(cy) : cy[i].bridge <= k) /\ b <= k => \A i \in 1..Len(d) : d[i].bridge <= k
  <2>1. cy \in Seq(Message) /\ n \in Nat
    BY DEF Agree
  <2> QED
    BY <2>1, PlacesSent
<1> HIDE DEF d
<1>2. /\ \A c, i : Live(ys, d, c, i) <=> Live(ys, cy, c, i) \/ (i = Len(cy) + 1 /\ c = b)
      /\ \A c, i : Live(ys, cy, c, i) => i \in 0..Len(cy)
  BY <1>1 DEF Live
<1>3. OneAtX({b}, {})
  BY DEF OneAtX
<1>4. OneToken({}, ys, cx, d)
  <2> SUFFICES ASSUME NEW c \in Bridges, NEW i \in Nat, NEW j \in Nat
               PROVE  /\ Live(ys, d, c, i) => ~Over({}, cx, c, j)
                      /\ Live(ys, d, c, i) /\ Live(ys, d, c, j) => i = j
                      /\ Over({}, cx, c, i) /\ Over({}, cx, c, j) => i = j
    BY DEF OneToken
  <2>1. /\ Live(ys, cy, c, i) => ~Over({}, cx, c, j)
        /\ Live(ys, cy, c, i) /\ Live(ys, cy, c, j) => i = j
        /\ Over({}, cx, c, i) /\ Over({}, cx, c, j) => i = j
    BY DEF Agree, OneToken
  <2> QED
    BY <1>2, <2>1
<1>5. Standing({b}, {}, ys, cx, d)
  BY <1>1, <1>2 DEF Standing
<1>6. Leaving({b}, ys, d)
  <2> SUFFICES ASSUME NEW c \in Bridges, c # b, NEW i \in Nat, Live(ys, cy, c, i)
               PROVE  \E j \in Nat : j > i /\ At(d, {"close"}, c, j)
    BY <1>2 DEF Leaving
  <2> QED
    BY <1>1 DEF Agree, Leaving
<1>7. Apart(ys, d)
  <2> SUFFICES ASSUME NEW c \in Bridges, NEW a \in Bridges, NEW i \in Nat, NEW j \in Nat,
                      c # a, i <= j, Live(ys, d, c, i), Live(ys, d, a, j)
               PROVE  \E l \in Nat : i < l /\ l < j /\ At(d, {"close"}, c, l)
    BY DEF Apart
  <2>1. CASE Live(ys, cy, c, i) /\ Live(ys, cy, a, j)
    BY <1>1, <2>1 DEF Agree, Apart
  <2>2. CASE Live(ys, cy, c, i) /\ j = Len(cy) + 1
    <3>1. PICK l \in Nat : l > i /\ At(cy, {"close"}, c, l)
      BY <2>2 DEF Agree, Leaving
    <3> QED
      BY <1>1, <2>2, <3>1
  <2>3. CASE i = Len(cy) + 1
    BY <1>1, <1>2, <2>3
  <2> QED
    BY <1>2, <2>1, <2>2, <2>3
<1>8. Closed({b}, d)
  BY <1>1 DEF Closed
<1>9. MadeOnly({b}, ys, k, cx, d)
  <2>1. cx \in Seq(Message)
    BY DEF Agree
  <2>2. /\ \A i \in 1..Len(cx) : cx[i].bridge \in Nat
        /\ \A i \in 1..Len(cy) : cy[i].bridge \in Nat
    <3>1. \A msg \in Message : msg.bridge \in Nat
      BY DEF Message, Bridges
    <3> HIDE DEF Message
    <3> QED
      BY <1>1, <2>1, <3>1, ElementOfSeq
  <2>3. /\ \A i \in 1..Len(cx) : cx[i].bridge <= k
        /\ \A i \in 1..Len(cy) : cy[i].bridge <= k
    BY <1>1, <2>2 DEF Agree, MadeOnly
  <2>4. {b} \cup ys \subseteq 1..k
    BY <1>1 DEF Agree, MadeOnly, Bridges
  <2> QED
    BY <1>1, <2>3, <2>4 DEF MadeOnly
<1> QED
  BY <1>1, <1>3, <1>4, <1>5, <1>6, <1>7, <1>8, <1>9 DEF Agree, d

(* The refusal that arrives at X is of the one bridge X has: it is on      *)
(* record, or X invites once more.                                         *)
LEMMA XRefused ==
  ASSUME NEW xs, NEW over, NEW ys, NEW n, NEW cx, NEW cy, cx # <<>>, Head(cx).kind = "reject",
         NEW b \in xs, b = Head(cx).bridge, Agree(xs, over, ys, n, cx, cy)
  PROVE  /\ Agree(xs, over \cup {b}, ys, n, Tail(cx), cy)
         /\ \A m \in Message : m.kind = "invite" /\ m.bridge = b =>
              Agree(xs, over, ys, n, Tail(cx), cy \o <<m>>)
<1>1. Agree(xs \ {b}, over \ {b}, ys, n, Tail(cx), cy)
  BY XHearsClose DEF Ending
<1>2. xs = {b} /\ b \in Bridges /\ xs \ {b} = {} /\ over \ {b} = {} /\ n \in Nat /\ over \subseteq xs
  BY DEF Agree, OneAtX
<1>3. /\ cx \in Seq(Message)
      /\ \A K, c : At(cx, K, c, 1) <=> Head(cx).kind \in K /\ Head(cx).bridge = c
      /\ \A K, c : \A i \in Nat : i > 0 => (At(Tail(cx), K, c, i) <=> At(cx, K, c, i + 1))
      /\ \A K, c, i : At(Tail(cx), K, c, i) => i \in 1..Len(cx)
      /\ Len(cx) \in Nat
  <2>1. cx \in Seq(Message)
    BY DEF Agree
  <2> QED
    BY <2>1, PlacesReceived
<1>4. Over(over, cx, b, 1)
  BY <1>3 DEF Over, Ending
<1>5. \A i \in Nat : ~Live(ys, cy, b, i) /\ (Over(over, cx, b, i) => i = 1)
  BY <1>2, <1>4 DEF Agree, OneToken
<1>6. \A i \in Nat : ~At(Tail(cx), Ending, b, i)
  <2> SUFFICES ASSUME NEW i \in Nat, At(Tail(cx), Ending, b, i) PROVE FALSE
    OBVIOUS
  <2>1. i > 0 /\ i + 1 \in Nat
    BY <1>3
  <2>2. Over(over, cx, b, i + 1)
    BY <1>3, <2>1 DEF Over
  <2> QED
    BY <1>5, <2>1, <2>2
<1>7. over = {}
  <2>1. b \in over => Over(over, cx, b, 0)
    BY DEF Over
  <2> QED
    BY <1>2, <1>5, <2>1
<1>8. Agree(xs, over \cup {b}, ys, n, Tail(cx), cy)
  <2>1. /\ \A c, i : Over({b}, Tail(cx), c, i) <=> Over({}, Tail(cx), c, i) \/ (i = 0 /\ c = b)
        /\ \A i \in Nat : ~Over({}, Tail(cx), b, i)
    BY <1>6 DEF Over
  <2>2. Agree({}, {}, ys, n, Tail(cx), cy)
    BY <1>1, <1>2
  <2>3. OneAtX({b}, {b}) /\ Closed({b}, cy)
    BY <1>2 DEF OneAtX, Agree, Closed
  <2>4. OneToken({b}, ys, Tail(cx), cy)
    <3> SUFFICES ASSUME NEW c \in Bridges, NEW i \in Nat, NEW j \in Nat
                 PROVE  /\ Live(ys, cy, c, i) => ~Over({b}, Tail(cx), c, j)
                        /\ Live(ys, cy, c, i) /\ Live(ys, cy, c, j) => i = j
                        /\ Over({b}, Tail(cx), c, i) /\ Over({b}, Tail(cx), c, j) => i = j
      BY DEF OneToken
    <3>1. /\ Live(ys, cy, c, i) => ~Over({}, Tail(cx), c, j)
          /\ Live(ys, cy, c, i) /\ Live(ys, cy, c, j) => i = j
          /\ Over({}, Tail(cx), c, i) /\ Over({}, Tail(cx), c, j) => i = j
      BY <2>2 DEF Agree, OneToken
    <3>2. CASE c = b
      <4>1. \A k \in Nat : ~Live(ys, cy, c, k) /\ (Over({b}, Tail(cx), c, k) => k = 0)
        BY <1>5, <2>1, <3>2
      <4> QED
        BY <4>1
    <3>3. CASE c # b
      BY <2>1, <3>1, <3>3
    <3> QED
      BY <3>2, <3>3
  <2>5. Standing({b}, {b}, ys, Tail(cx), cy)
    BY <2>1 DEF Standing
  <2>6. Leaving({b}, ys, cy)
    BY <2>2 DEF Agree, Leaving
  <2>7. Answering({b}, Tail(cx))
    <3> SUFFICES ASSUME NEW c \in Bridges, NEW i \in Nat, NEW j \in Nat,
                        At(Tail(cx), {"accept"}, c, i), Over({b}, Tail(cx), c, j)
                 PROVE  i < j
      BY DEF Answering
    <3>1. CASE Over({}, Tail(cx), c, j)
      BY <2>2, <3>1 DEF Agree, Answering
    <3>2. CASE c = b
      <4>1. i > 0 /\ i + 1 \in Nat /\ At(cx, {"accept"}, b, i + 1)
        BY <1>3, <3>2
      <4>2. i + 1 < 1
        BY <1>2, <1>4, <4>1 DEF Agree, Answering
      <4> QED
        BY <4>1, <4>2
    <3> QED
      BY <2>1, <3>1, <3>2
  <2>8. MadeOnly({b}, ys, n, Tail(cx), cy)
    BY <1>2, <2>2 DEF Agree, MadeOnly
  <2>9. over \cup {b} = {b}
    BY <1>7
  <2> QED
    BY <1>2, <2>2, <2>3, <2>4, <2>5, <2>6, <2>7, <2>8, <2>9 DEF Agree
<1>9. ASSUME NEW m \in Message, m.kind = "invite", m.bridge = b
      PROVE  Agree(xs, over, ys, n, Tail(cx), cy \o <<m>>)
  <2>1. Agree({}, {}, ys, n, Tail(cx), cy)
    BY <1>1, <1>2
  <2>2. \A i \in Nat : ~Over({}, Tail(cx), b, i) /\ ~At(cy, {"close"}, b, i)
    BY <1>2, <1>6 DEF Over, Agree, Closed
  <2>3. b <= n /\ n <= n
    BY <1>2 DEF Agree, MadeOnly
  <2>4. Agree({b}, {}, ys, n, Tail(cx), cy \o <<m>>)
    BY <1>2, <1>5, <1>9, <2>1, <2>2, <2>3, XInvites
  <2> QED
    BY <1>2, <1>7, <2>4
<1> QED
  BY <1>8, <1>9

(* Y drops a bridge and says so. *)
LEMMA YTells ==
  ASSUME NEW xs, NEW over, NEW ys, NEW n, NEW cx, NEW cy, Agree(xs, over, ys, n, cx, cy),
         NEW b \in ys, NEW m \in Message, m.kind \in Ending, m.bridge = b
  PROVE  Agree(xs, over, ys \ {b}, n, cx \o <<m>>, cy)
<1> DEFINE d == cx \o <<m>>
<1>0. b \in Bridges /\ n \in Nat /\ cx \in Seq(Message) /\ m.kind # "accept"
  BY DEF Agree, Ending
<1>1. /\ d \in Seq(Message) /\ Len(cx) \in Nat
      /\ \A c, i : At(cx, Ending, c, i) \/ At(cx, {"accept"}, c, i) => i \in 1..Len(cx)
      /\ \A c, i : At(d, {"accept"}, c, i) <=> At(cx, {"accept"}, c, i)
      /\ \A c, i : At(d, Ending, c, i) <=> At(cx, Ending, c, i) \/ (i = Len(cx) + 1 /\ c = b)
      /\ (\A i \in 1..Len(cx) : cx[i].bridge <= n) /\ b <= n => \A i \in 1..Len(d) : d[i].bridge <= n
  BY <1>0, PlacesSent
<1> HIDE DEF d
<1>2. /\ \A c, i : Live(ys \ {b}, cy, c, i) => Live(ys, cy, c, i)
      /\ \A c, i : c # b => (Live(ys \ {b}, cy, c, i) <=> Live(ys, cy, c, i))
      /\ \A c, i : Over(over, d, c, i) <=> Over(over, cx, c, i) \/ (i = Len(cx) + 1 /\ c = b)
  BY <1>1 DEF Live, Over
<1>3. \A i \in Nat : ~Live(ys \ {b}, cy, b, i) /\ ~Over(over, cx, b, i)
  <2>1. Live(ys, cy, b, 0)
    BY DEF Live
  <2>2. \A i \in Nat : ~Over(over, cx, b, i) /\ (Live(ys, cy, b, i) => i = 0)
    BY <1>0, <2>1 DEF Agree, OneToken
  <2>3. ~Live(ys \ {b}, cy, b, 0)
    BY DEF Live, At
  <2> QED
    BY <1>2, <2>2, <2>3
<1>4. OneToken(over, ys \ {b}, d, cy)
  <2> SUFFICES ASSUME NEW c \in Bridges, NEW i \in Nat, NEW j \in Nat
               PROVE  /\ Live(ys \ {b}, cy, c, i) => ~Over(over, d, c, j)
                      /\ Live(ys \ {b}, cy, c, i) /\ Live(ys \ {b}, cy, c, j) => i = j
                      /\ Over(over, d, c, i) /\ Over(over, d, c, j) => i = j
    BY DEF OneToken
  <2>1. CASE c = b
    <3>1. ~Live(ys \ {b}, cy, c, i) /\ ~Over(over, cx, c, i) /\ ~Over(over, cx, c, j)
      BY <1>3, <2>1
    <3> QED
      BY <1>2, <3>1
  <2>2. CASE c # b
    <3>1. /\ Live(ys, cy, c, i) => ~Over(over, cx, c, j)
          /\ Live(ys, cy, c, i) /\ Live(ys, cy, c, j) => i = j
          /\ Over(over, cx, c, i) /\ Over(over, cx, c, j) => i = j
      BY DEF Agree, OneToken
    <3>2. \A k : /\ Live(ys \ {b}, cy, c, k) <=> Live(ys, cy, c, k)
                 /\ Over(over, d, c, k) <=> Over(over, cx, c, k)
      BY ONLY <1>2, <2>2
    <3> QED
      BY ONLY <3>1, <3>2
  <2> QED
    BY <2>1, <2>2
<1>5. Standing(xs, over, ys \ {b}, d, cy)
  <2> SUFFICES ASSUME NEW c \in xs
               PROVE  \E i \in Nat : Live(ys \ {b}, cy, c, i) \/ Over(over, d, c, i)
    BY DEF Standing
  <2>1. CASE c = b
    BY <1>1, <1>2, <2>1
  <2>2. CASE c # b
    BY <1>2, <2>2 DEF Agree, Standing
  <2> QED
    BY <2>1, <2>2
<1>6. Leaving(xs, ys \ {b}, cy) /\ Apart(ys \ {b}, cy) /\ Closed(xs, cy) /\ OneAtX(xs, over)
  BY <1>2 DEF Agree, Leaving, Apart
<1>7. Answering(over, d)
  <2> SUFFICES ASSUME NEW c \in Bridges, NEW i \in Nat, NEW j \in Nat,
                      At(cx, {"accept"}, c, i), Over(over, d, c, j)
               PROVE  i < j
    BY <1>1 DEF Answering
  <2>1. CASE Over(over, cx, c, j)
    BY <2>1 DEF Agree, Answering
  <2>2. CASE j = Len(cx) + 1
    BY <1>1, <2>2
  <2> QED
    BY <1>2, <2>1, <2>2
<1>8. MadeOnly(xs, ys \ {b}, n, d, cy)
  <2>1. b <= n
    BY DEF Agree, MadeOnly
  <2> QED
    BY <1>1, <2>1 DEF Agree, MadeOnly
<1> QED
  BY <1>0, <1>1, <1>4, <1>5, <1>6, <1>7, <1>8 DEF Agree, d

(* An invite arrives at Y, which has no other bridge left then. *)
LEMMA YTakes ==
  ASSUME NEW xs, NEW over, NEW ys, NEW n, NEW cx, NEW cy, Agree(xs, over, ys, n, cx, cy),
         cy # <<>>, Head(cy).kind = "invite", NEW b, b = Head(cy).bridge
  PROVE  /\ b \in Bridges /\ ys = {}
         /\ Agree(xs, over, {b}, n, cx, Tail(cy))
<1> DEFINE d == Tail(cy)
<1>0. cy \in Seq(Message) /\ n \in Nat
  BY DEF Agree
<1>1. /\ d \in Seq(Message) /\ Head(cy) \in Message /\ Len(cy) \in Nat
      /\ \A c : At(cy, {"invite"}, c, 1) <=> c = b
      /\ \A c : ~At(cy, {"close"}, c, 1)
      /\ \A K, c : \A i \in Nat : i > 0 => (At(d, K, c, i) <=> At(cy, K, c, i + 1))
      /\ \A K, c, i : At(cy, K, c, i) \/ At(d, K, c, i) => i \in 1..Len(cy)
      /\ (\A i \in 1..Len(cy) : cy[i].bridge <= n) => b <= n /\ \A i \in 1..Len(d) : d[i].bridge <= n
  BY <1>0, PlacesReceived
<1> HIDE DEF d
<1>2. b \in Bridges /\ Live(ys, cy, b, 1)
  <2>1. b \in Bridges
    BY <1>1 DEF Message
  <2> QED
    BY <1>1, <2>1 DEF Live
<1>3. ys = {}
  <2> SUFFICES ASSUME NEW c \in ys PROVE FALSE
    OBVIOUS
  <2>1. c \in Bridges /\ Live(ys, cy, c, 0)
    BY DEF Agree, Live
  <2>2. c # b
    BY <1>2, <2>1 DEF Agree, OneToken
  <2>3. PICK k \in Nat : 0 < k /\ k < 1
    BY <1>2, <2>1, <2>2 DEF Agree, Apart
  <2> QED
    BY <2>3
<1>4. \A c : \A i \in Nat : Live({b}, d, c, i) <=> Live(ys, cy, c, i + 1)
  <2> SUFFICES ASSUME NEW c, NEW i \in Nat PROVE Live({b}, d, c, i) <=> Live(ys, cy, c, i + 1)
    OBVIOUS
  <2>1. CASE i = 0
    <3>1. Live({b}, d, c, i) <=> c = b
      BY <1>1, <2>1 DEF Live
    <3>2. Live(ys, cy, c, i + 1) <=> c = b
      BY <1>1, <2>1 DEF Live
    <3> QED
      BY <3>1, <3>2
  <2>2. CASE i > 0
    BY <1>1, <2>2 DEF Live
  <2> QED
    BY <2>1, <2>2
<1>5. \A c : \A k \in Nat : k > 0 => (At(d, {"close"}, c, k) <=> At(cy, {"close"}, c, k + 1))
  BY <1>1
<1>6. \A c : \A i, k \in Nat : At(cy, {"close"}, c, k) /\ k > i + 1 =>
        k - 1 \in Nat /\ k - 1 > i /\ At(d, {"close"}, c, k - 1)
  <2> SUFFICES ASSUME NEW c, NEW i \in Nat, NEW k \in Nat, At(cy, {"close"}, c, k), k > i + 1
               PROVE  k - 1 \in Nat /\ k - 1 > i /\ At(d, {"close"}, c, k - 1)
    OBVIOUS
  <2>1. k - 1 \in Nat /\ k - 1 > i /\ k - 1 > 0 /\ (k - 1) + 1 = k
    OBVIOUS
  <2> QED
    BY <1>5, <2>1
<1>7. OneToken(over, {b}, cx, d)
  <2> SUFFICES ASSUME NEW c \in Bridges, NEW i \in Nat, NEW j \in Nat
               PROVE  /\ Live({b}, d, c, i) => ~Over(over, cx, c, j)
                      /\ Live({b}, d, c, i) /\ Live({b}, d, c, j) => i = j
                      /\ Over(over, cx, c, i) /\ Over(over, cx, c, j) => i = j
    BY DEF OneToken
  <2>1. /\ Live(ys, cy, c, i + 1) => ~Over(over, cx, c, j)
        /\ Live(ys, cy, c, i + 1) /\ Live(ys, cy, c, j + 1) => i + 1 = j + 1
        /\ Over(over, cx, c, i) /\ Over(over, cx, c, j) => i = j
    <3>1. i + 1 \in Nat /\ j + 1 \in Nat
      OBVIOUS
    <3> QED
      BY <3>1 DEF Agree, OneToken
  <2>2. (Live({b}, d, c, i) <=> Live(ys, cy, c, i + 1)) /\ (Live({b}, d, c, j) <=> Live(ys, cy, c, j + 1))
    BY <1>4
  <2>3. i + 1 = j + 1 => i = j
    OBVIOUS
  <2> QED
    BY <2>1, <2>2, <2>3
<1>8. Standing(xs, over, {b}, cx, d)
  <2> SUFFICES ASSUME NEW c \in xs
               PROVE  \E i \in Nat : Live({b}, d, c, i) \/ Over(over, cx, c, i)
    BY DEF Standing
  <2>1. PICK i \in Nat : Live(ys, cy, c, i) \/ Over(over, cx, c, i)
    BY DEF Agree, Standing
  <2>2. CASE Live(ys, cy, c, i)
    <3>1. i # 0
      BY <1>1, <1>3, <2>2 DEF Live
    <3>2. i - 1 \in Nat /\ (i - 1) + 1 = i
      BY <3>1
    <3> QED
      BY <1>4, <2>2, <3>2
  <2> QED
    BY <2>1, <2>2
<1>9. Leaving(xs, {b}, d)
  <2> SUFFICES ASSUME NEW c \in Bridges \ xs, NEW i \in Nat, Live(ys, cy, c, i + 1)
               PROVE  \E k \in Nat : k > i /\ At(d, {"close"}, c, k)
    BY <1>4 DEF Leaving
  <2>1. PICK k \in Nat : k > i + 1 /\ At(cy, {"close"}, c, k)
    BY DEF Agree, Leaving
  <2> QED
    BY <1>6, <2>1
<1>10. Apart({b}, d)
  <2> SUFFICES ASSUME NEW c \in Bridges, NEW a \in Bridges, NEW i \in Nat, NEW j \in Nat,
                      c # a, i <= j, Live(ys, cy, c, i + 1), Live(ys, cy, a, j + 1)
               PROVE  \E k \in Nat : i < k /\ k < j /\ At(d, {"close"}, c, k)
    BY <1>4 DEF Apart
  <2>1. PICK k \in Nat : i + 1 < k /\ k < j + 1 /\ At(cy, {"close"}, c, k)
    BY DEF Agree, Apart
  <2>2. k - 1 \in Nat /\ k - 1 > i /\ At(d, {"close"}, c, k - 1)
    BY <1>6, <2>1
  <2> QED
    BY <2>1, <2>2
<1>11. Closed(xs, d)
  <2> SUFFICES ASSUME NEW c \in xs, NEW k \in Nat, At(d, {"close"}, c, k) PROVE FALSE
    BY DEF Closed
  <2>1. k > 0 /\ At(cy, {"close"}, c, k + 1) /\ k + 1 \in Nat
    BY <1>1
  <2> QED
    BY <2>1 DEF Agree, Closed
<1>12. MadeOnly(xs, {b}, n, cx, d)
  <2>1. b <= n /\ \A i \in 1..Len(d) : d[i].bridge <= n
    BY <1>1 DEF Agree, MadeOnly
  <2>2. b \in 1..n
    BY <1>0, <1>2, <2>1 DEF Bridges
  <2> QED
    BY <2>1, <2>2 DEF Agree, MadeOnly
<1> QED
  BY <1>0, <1>1, <1>2, <1>3, <1>7, <1>8, <1>9, <1>10, <1>11, <1>12 DEF Agree, d

(* Or Y refuses it. *)
LEMMA YRefuses ==
  ASSUME NEW xs, NEW over, NEW ys, NEW n, NEW cx, NEW cy, Agree(xs, over, ys, n, cx, cy),
         cy # <<>>, Head(cy).kind = "invite",
         NEW m \in Message, m.kind = "reject", m.bridge = Head(cy).bridge
  PROVE  Agree(xs, over, ys, n, cx \o <<m>>, Tail(cy))
<1> DEFINE b == Head(cy).bridge
<1>1. ys = {} /\ Agree(xs, over, {b}, n, cx, Tail(cy))
  BY YTakes
<1>2. b \in {b} /\ m.bridge = b /\ m.kind \in Ending
  BY DEF Ending
<1> HIDE DEF b
<1>3. Agree(xs, over, {b} \ {b}, n, cx \o <<m>>, Tail(cy))
  BY <1>1, <1>2, YTells
<1> QED
  BY <1>1, <1>3

(* A close arrives at Y. *)
LEMMA YHears ==
  ASSUME NEW xs, NEW over, NEW ys, NEW n, NEW cx, NEW cy, Agree(xs, over, ys, n, cx, cy),
         cy # <<>>, Head(cy).kind = "close", NEW b, b = Head(cy).bridge
  PROVE  b \in Bridges /\ Agree(xs, over, ys \ {b}, n, cx, Tail(cy))
<1> DEFINE d == Tail(cy)
           zs == ys \ {b}
           old(i) == IF i = 0 THEN 0 ELSE i + 1
<1>0. cy \in Seq(Message) /\ n \in Nat
  BY DEF Agree
<1>1. /\ d \in Seq(Message) /\ Head(cy) \in Message /\ Len(cy) \in Nat
      /\ \A c : At(cy, {"close"}, c, 1) <=> c = b
      /\ \A c : ~At(cy, {"invite"}, c, 1)
      /\ \A K, c : \A i \in Nat : i > 0 => (At(d, K, c, i) <=> At(cy, K, c, i + 1))
      /\ \A K, c, i : At(cy, K, c, i) \/ At(d, K, c, i) => i \in 1..Len(cy)
      /\ (\A i \in 1..Len(cy) : cy[i].bridge <= n) => \A i \in 1..Len(d) : d[i].bridge <= n
  BY <1>0, PlacesReceived
<1> HIDE DEF d
<1>2. b \in Bridges
  BY <1>1 DEF Message
<1>3. b \notin xs
  BY <1>1 DEF Agree, Closed
<1>4. \A c : \A i \in Nat : Live(zs, d, c, i) <=> Live(ys, cy, c, old(i)) /\ (i = 0 => c # b)
  <2> SUFFICES ASSUME NEW c, NEW i \in Nat
               PROVE  Live(zs, d, c, i) <=> Live(ys, cy, c, old(i)) /\ (i = 0 => c # b)
    OBVIOUS
  <2>1. CASE i = 0
    <3>1. ~At(d, {"invite"}, c, 0) /\ ~At(cy, {"invite"}, c, 0)
      BY DEF At
    <3> QED
      BY <2>1, <3>1 DEF Live
  <2>2. CASE i > 0
    BY <1>1, <2>2 DEF Live
  <2> QED
    BY <2>1, <2>2
<1>5. \A i, j \in Nat : old(i) \in Nat /\ (old(i) = old(j) => i = j) /\ (i <= j => old(i) <= old(j))
  OBVIOUS
<1>6. \A c : \A i, k \in Nat : At(cy, {"close"}, c, k) /\ k > old(i) /\ (i = 0 => c # b) =>
        k - 1 \in Nat /\ k - 1 > i /\ At(d, {"close"}, c, k - 1)
  <2> SUFFICES ASSUME NEW c, NEW i \in Nat, NEW k \in Nat, At(cy, {"close"}, c, k), k > old(i),
                      i = 0 => c # b
               PROVE  k - 1 \in Nat /\ k - 1 > i /\ At(d, {"close"}, c, k - 1)
    OBVIOUS
  <2>1. k = 1 => c = b
    BY <1>1
  <2>2. k - 1 \in Nat /\ k - 1 > i /\ k - 1 > 0 /\ (k - 1) + 1 = k
    BY <2>1
  <2> QED
    BY <1>1, <2>2
<1>7. OneToken(over, zs, cx, d)
  <2> SUFFICES ASSUME NEW c \in Bridges, NEW i \in Nat, NEW j \in Nat
               PROVE  /\ Live(zs, d, c, i) => ~Over(over, cx, c, j)
                      /\ Live(zs, d, c, i) /\ Live(zs, d, c, j) => i = j
                      /\ Over(over, cx, c, i) /\ Over(over, cx, c, j) => i = j
    BY DEF OneToken
  <2> HIDE DEF old, zs
  <2>1. /\ Live(ys, cy, c, old(i)) => ~Over(over, cx, c, j)
        /\ Live(ys, cy, c, old(i)) /\ Live(ys, cy, c, old(j)) => old(i) = old(j)
        /\ Over(over, cx, c, i) /\ Over(over, cx, c, j) => i = j
    BY <1>5 DEF Agree, OneToken
  <2> QED
    BY <1>4, <1>5, <2>1
<1>8. Standing(xs, over, zs, cx, d)
  <2> SUFFICES ASSUME NEW c \in xs
               PROVE  \E i \in Nat : Live(zs, d, c, i) \/ Over(over, cx, c, i)
    BY DEF Standing
  <2>1. PICK i \in Nat : Live(ys, cy, c, i) \/ Over(over, cx, c, i)
    BY DEF Agree, Standing
  <2>2. CASE Live(ys, cy, c, i) /\ i = 0
    <3>1. Live(zs, d, c, 0)
      BY <1>3, <1>4, <2>2
    <3> QED
      BY <3>1
  <2>3. CASE Live(ys, cy, c, i) /\ i # 0
    <3>1. i # 1
      BY <1>1, <2>3 DEF Live
    <3>2. i - 1 \in Nat /\ i - 1 # 0 /\ old(i - 1) = i
      BY <2>3, <3>1
    <3>3. Live(zs, d, c, i - 1)
      BY <1>4, <2>3, <3>2
    <3> QED
      BY <3>2, <3>3
  <2> QED
    BY <2>1, <2>2, <2>3
<1>9. Leaving(xs, zs, d)
  <2> SUFFICES ASSUME NEW c \in Bridges \ xs, NEW i \in Nat, Live(ys, cy, c, old(i)), i = 0 => c # b
               PROVE  \E k \in Nat : k > i /\ At(d, {"close"}, c, k)
    BY <1>4 DEF Leaving
  <2>1. PICK k \in Nat : k > old(i) /\ At(cy, {"close"}, c, k)
    BY <1>5 DEF Agree, Leaving
  <2> QED
    BY <1>6, <2>1
<1>10. Apart(zs, d)
  <2> SUFFICES ASSUME NEW c \in Bridges, NEW a \in Bridges, NEW i \in Nat, NEW j \in Nat,
                      c # a, i <= j, Live(zs, d, c, i), Live(zs, d, a, j)
               PROVE  \E k \in Nat : i < k /\ k < j /\ At(d, {"close"}, c, k)
    BY DEF Apart
  <2>1. Live(ys, cy, c, old(i)) /\ Live(ys, cy, a, old(j)) /\ (i = 0 => c # b) /\ old(i) <= old(j)
    BY <1>4, <1>5
  <2>2. PICK k \in Nat : old(i) < k /\ k < old(j) /\ At(cy, {"close"}, c, k)
    BY <1>5, <2>1 DEF Agree, Apart
  <2>3. k - 1 \in Nat /\ k - 1 > i /\ At(d, {"close"}, c, k - 1)
    BY <1>6, <2>1, <2>2
  <2>4. k - 1 < j
    BY <2>2
  <2> QED
    BY <2>3, <2>4
<1>11. Closed(xs, d)
  <2> SUFFICES ASSUME NEW c \in xs, NEW k \in Nat, At(d, {"close"}, c, k) PROVE FALSE
    BY DEF Closed
  <2>1. k > 0 /\ At(cy, {"close"}, c, k + 1) /\ k + 1 \in Nat
    BY <1>1
  <2> QED
    BY <2>1 DEF Agree, Closed
<1>12. MadeOnly(xs, zs, n, cx, d)
  BY <1>0, <1>1 DEF Agree, MadeOnly
<1> QED
  BY <1>0, <1>1, <1>2, <1>7, <1>8, <1>9, <1>10, <1>11, <1>12 DEF Agree, d

(* Y answers a bridge it has; the answer arrives. *)
LEMMA YAnswers ==
  ASSUME NEW xs, NEW over, NEW ys, NEW n, NEW cx, NEW cy, Agree(xs, over, ys, n, cx, cy),
         NEW b \in ys, NEW m \in Message, m.kind = "accept", m.bridge = b
  PROVE  Agree(xs, over, ys, n, cx \o <<m>>, cy)
<1> DEFINE d == cx \o <<m>>
<1>0. b \in Bridges /\ n \in Nat /\ cx \in Seq(Message) /\ m.kind \notin Ending
  BY DEF Agree, Ending
<1>1. /\ d \in Seq(Message)
      /\ \A c, i : At(d, Ending, c, i) <=> At(cx, Ending, c, i)
      /\ \A c, i : At(d, {"accept"}, c, i) => At(cx, {"accept"}, c, i) \/ c = b
      /\ (\A i \in 1..Len(cx) : cx[i].bridge <= n) /\ b <= n => \A i \in 1..Len(d) : d[i].bridge <= n
  BY <1>0, PlacesSent
<1> HIDE DEF d
<1>2. \A c, i : Over(over, d, c, i) <=> Over(over, cx, c, i)
  BY <1>1 DEF Over
<1>3. \A i \in Nat : ~Over(over, cx, b, i)
  <2>1. Live(ys, cy, b, 0)
    BY DEF Live
  <2> QED
    BY <1>0, <2>1 DEF Agree, OneToken
<1>4. OneToken(over, ys, d, cy) /\ Standing(xs, over, ys, d, cy)
  BY <1>2 DEF Agree, OneToken, Standing
<1>5. Answering(over, d)
  BY <1>1, <1>2, <1>3 DEF Agree, Answering
<1>6. MadeOnly(xs, ys, n, d, cy)
  <2>1. b <= n
    BY DEF Agree, MadeOnly
  <2> QED
    BY <1>1, <2>1 DEF Agree, MadeOnly
<1> QED
  BY <1>1, <1>4, <1>5, <1>6 DEF Agree, d

LEMMA XConnects ==
  ASSUME NEW xs, NEW over, NEW ys, NEW n, NEW cx, NEW cy, Agree(xs, over, ys, n, cx, cy),
         cx # <<>>, Head(cx).kind = "accept", NEW b, b = Head(cx).bridge
  PROVE  b \in Bridges /\ b \notin over /\ Agree(xs, over, ys, n, Tail(cx), cy)
<1> DEFINE d == Tail(cx)
           old(i) == IF i = 0 THEN 0 ELSE i + 1
<1>0. cx \in Seq(Message) /\ n \in Nat
  BY DEF Agree
<1>1. /\ d \in Seq(Message) /\ Head(cx) \in Message /\ Len(cx) \in Nat
      /\ At(cx, {"accept"}, b, 1)
      /\ \A c : ~At(cx, Ending, c, 1)
      /\ \A K, c : \A i \in Nat : i > 0 => (At(d, K, c, i) <=> At(cx, K, c, i + 1))
      /\ \A K, c, i : At(cx, K, c, i) \/ At(d, K, c, i) => i \in 1..Len(cx)
      /\ (\A i \in 1..Len(cx) : cx[i].bridge <= n) => \A i \in 1..Len(d) : d[i].bridge <= n
  BY <1>0, PlacesReceived DEF Ending
<1> HIDE DEF d
<1>2. b \in Bridges
  BY <1>1 DEF Message
<1>3. b \notin over
  <2>1. b \in over => Over(over, cx, b, 0)
    BY DEF Over
  <2> QED
    BY <1>1, <1>2, <2>1 DEF Agree, Answering
<1>4. \A c : \A i \in Nat : Over(over, d, c, i) <=> Over(over, cx, c, old(i))
  <2> SUFFICES ASSUME NEW c, NEW i \in Nat PROVE Over(over, d, c, i) <=> Over(over, cx, c, old(i))
    OBVIOUS
  <2>1. CASE i = 0
    <3>1. ~At(d, Ending, c, 0) /\ ~At(cx, Ending, c, 0)
      BY DEF At
    <3> QED
      BY <2>1, <3>1 DEF Over
  <2>2. CASE i > 0
    BY <1>1, <2>2 DEF Over
  <2> QED
    BY <2>1, <2>2
<1>5. \A i, j \in Nat : old(i) \in Nat /\ (old(i) = old(j) => i = j)
  OBVIOUS
<1>6. OneToken(over, ys, d, cy)
  <2> SUFFICES ASSUME NEW c \in Bridges, NEW i \in Nat, NEW j \in Nat
               PROVE  /\ Live(ys, cy, c, i) => ~Over(over, d, c, j)
                      /\ Live(ys, cy, c, i) /\ Live(ys, cy, c, j) => i = j
                      /\ Over(over, d, c, i) /\ Over(over, d, c, j) => i = j
    BY DEF OneToken
  <2> HIDE DEF old
  <2>1. /\ Live(ys, cy, c, i) => ~Over(over, cx, c, old(j))
        /\ Live(ys, cy, c, i) /\ Live(ys, cy, c, j) => i = j
        /\ Over(over, cx, c, old(i)) /\ Over(over, cx, c, old(j)) => old(i) = old(j)
    BY <1>5 DEF Agree, OneToken
  <2> QED
    BY <1>4, <1>5, <2>1
<1>7. Standing(xs, over, ys, d, cy)
  <2> SUFFICES ASSUME NEW c \in xs
               PROVE  \E i \in Nat : Live(ys, cy, c, i) \/ Over(over, d, c, i)
    BY DEF Standing
  <2>1. PICK i \in Nat : Live(ys, cy, c, i) \/ Over(over, cx, c, i)
    BY DEF Agree, Standing
  <2>2. CASE Over(over, cx, c, i) /\ i = 0
    <3>1. Over(over, d, c, 0)
      BY <1>4, <2>2
    <3> QED
      BY <3>1
  <2>3. CASE Over(over, cx, c, i) /\ i # 0
    <3>1. i # 1
      BY <1>1, <2>3 DEF Over
    <3>2. i - 1 \in Nat /\ old(i - 1) = i
      BY <2>3, <3>1
    <3> QED
      BY <1>4, <2>3, <3>2
  <2> QED
    BY <2>1, <2>2, <2>3
<1>8. Answering(over, d)
  <2> SUFFICES ASSUME NEW c \in Bridges, NEW i \in Nat, NEW j \in Nat,
                      At(d, {"accept"}, c, i), Over(over, cx, c, old(j))
               PROVE  i < j
    BY <1>4 DEF Answering
  <2>1. i > 0 /\ At(cx, {"accept"}, c, i + 1)
    BY <1>1
  <2>2. i + 1 < old(j)
    BY <1>5, <2>1 DEF Agree, Answering
  <2> QED
    BY <2>1, <2>2
<1>9. MadeOnly(xs, ys, n, d, cy)
  BY <1>0, <1>1 DEF Agree, MadeOnly
<1> QED
  BY <1>1, <1>2, <1>3, <1>6, <1>7, <1>8, <1>9 DEF Agree, d

LEMMA SentToY ==
  ASSUME RelayTypeOK, NEW s \in Seq(Message), NEW up \in BOOLEAN, SendToY(up, s)
  PROVE  /\ ~lossy' => ~lossy /\ toY' = toY \o s
         /\ toY' \in {toY, toY \o s}
<1>1. toY \in Seq(Message) /\ (s = <<>> => toY \o s = toY)
  BY ConcatProperties DEF RelayTypeOK
<1> QED
  BY <1>1 DEF SendToY

LEMMA SentToX ==
  ASSUME RelayTypeOK, NEW s \in Seq(Message), SendToX(s)
  PROVE  ~lossy' => ~lossy /\ toX' = toX \o s
<1>1. toX \in Seq(Message) /\ (s = <<>> => toX \o s = toX)
  BY ConcatProperties DEF RelayTypeOK
<1> QED
  BY <1>1 DEF SendToX

LEMMA DialledSent ==
  ASSUME NEW c \in Seq(Message), NEW m \in Message, AllDialled(c), m.kind = "invite" => m.eph # 0
  PROVE  AllDialled(c \o <<m>>)
<1> DEFINE d == c \o <<m>>
<1>1. /\ Len(c) \in Nat /\ Len(d) = Len(c) + 1
      /\ \A i \in 1..Len(c) : d[i] = c[i]
      /\ d[Len(c) + 1] = m
  BY ConcatProperties, LenProperties
<1> HIDE DEF d, Message
<1>2. \A i \in 1..Len(d) : i \in 1..Len(c) \/ i = Len(c) + 1
  BY <1>1
<1> QED
  BY <1>1, <1>2 DEF AllDialled, d

LEMMA DialledTail ==
  ASSUME NEW c \in Seq(Message), c # <<>>, AllDialled(c)
  PROVE  AllDialled(Tail(c)) /\ (Head(c).kind = "invite" => Head(c).eph # 0)
<1>1. /\ Head(c) = c[1] /\ Len(c) \in Nat \ {0} /\ Len(Tail(c)) = Len(c) - 1
      /\ \A i \in 1..Len(Tail(c)) : Tail(c)[i] = c[i + 1]
  BY HeadTailProperties, LenProperties, EmptySeq
<1>2. (\A i \in 1..Len(Tail(c)) : i + 1 \in 1..Len(c)) /\ 1 \in 1..Len(c)
  BY <1>1
<1> HIDE DEF Message
<1> QED
  BY <1>1, <1>2 DEF AllDialled

(* X, or Y, drops a bridge. *)
LEMMA DroppedX ==
  ASSUME RelayTypeOK, NEW b \in Bridges, xb' = DropX(xb, b)
  PROVE  AtX' = AtX \ {b} /\ OverAlready' = OverAlready \ {b} /\ \A c \in AtX' : xb'[c] = xb[c]
<1>1. /\ DropX(xb, b)[b] = NoX
      /\ \A c \in Bridges : c # b => DropX(xb, b)[c] = xb[c]
  BY DEF RelayTypeOK, DropX
<1>2. NoX.outcome = "none"
  BY DEF NoX
<1> QED
  BY <1>1, <1>2 DEF AtX, OverAlready

LEMMA DroppedY ==
  ASSUME RelayTypeOK, NEW b \in Bridges, yb' = DropY(yb, b)
  PROVE  AtY' = AtY \ {b} /\ \A c \in AtY' : yb'[c] = yb[c]
<1>1. /\ DropY(yb, b)[b] = NoY
      /\ \A c \in Bridges : c # b => DropY(yb, b)[c] = yb[c]
  BY DEF RelayTypeOK, DropY
<1> QED
  BY <1>1 DEF AtY

(* What a step keeps that touches neither record nor channel.              *)
LEMMA BridgesCalm ==
  ASSUME BridgesInv, RelayTypeOK', UNCHANGED <<xb, xIndex, yb, yIndex, made, toX, toY, lossy>>,
         placing' \subseteq placing, caller'.state \in {"waiting", "asking"} => caller'.eph # 0
  PROVE  BridgesInv'
<1>1. AtX' = AtX /\ OverAlready' = OverAlready /\ AtY' = AtY
  BY DEF AtX, OverAlready, AtY
<1>2. Dialled'
  BY <1>1 DEF BridgesInv, Dialled
<1>3. XIndexed' /\ (YIndexed => YIndexed')
  BY <1>1 DEF BridgesInv, XIndexed, YIndexed
<1>4. Agreed => Agreed'
  BY <1>1 DEF Agreed
<1> QED
  BY <1>2, <1>3, <1>4 DEF BridgesInv

LEMMA BridgesIdle ==
  ASSUME BridgesInv, RelayTypeOK',
         \/ Dial \/ GiveUp \/ CallerRebuilds \/ UNCHANGED relayVars
         \/ \E e \in placing : PlaceFails(e) \/ PlaceLost(e)
         \/ \E d \in Devs : DevOpens(d) \/ DevAnswersAgain(d) \/ DevWaits(d) \/ DevGivesUp(d)
  PROVE  BridgesInv'
<1>0. caller \in CallerRecord /\ (caller.state \in {"waiting", "asking"} => caller.eph # 0)
  BY DEF BridgesInv, RelayTypeOK, Dialled
<1>1. CASE Dial
  <2>1. caller'.eph # 0
    BY <1>0, <1>1 DEF Dial, CallerRecord
  <2> QED
    BY <1>1, <2>1, BridgesCalm DEF Dial, xVars, yVars, netVars
<1>2. CASE GiveUp
  <2>1. caller'.state = "idle"
    BY <1>0, <1>2 DEF GiveUp, CallerRecord
  <2> QED
    BY <1>2, <2>1, BridgesCalm DEF GiveUp, xVars, yVars, netVars
<1>3. CASE CallerRebuilds
  <2>1. caller'.state = "idle"
    BY <1>0, <1>3 DEF CallerRebuilds, CallerRecord
  <2> QED
    BY <1>3, <2>1, BridgesCalm DEF CallerRebuilds, xVars, yVars, netVars
<1>4. CASE UNCHANGED relayVars
  BY <1>0, <1>4, BridgesCalm DEF relayVars, xVars, yVars, netVars
<1>5. ASSUME NEW e \in placing, PlaceFails(e) PROVE BridgesInv'
  <2>1. caller'.state = "idle" \/ caller' = caller
    BY <1>0, <1>5 DEF PlaceFails, CallerRecord
  <2> QED
    BY <1>0, <1>5, <2>1, BridgesCalm DEF PlaceFails, yVars, netVars
<1>6. ASSUME NEW e \in placing, PlaceLost(e) PROVE BridgesInv'
  <2>1. caller'.state \in {"waiting", "asking"} => caller'.eph # 0
    <3>1. CASE caller' = caller
      BY <1>0, <3>1
    <3>2. CASE caller.state = "asking" /\ Answered(xb[xIndex], xIndex)
      <4>1. caller'.eph = caller.eph
        BY <1>0, <3>2 DEF Answered, CallerRecord
      <4> QED
        BY <1>0, <3>2, <4>1
    <3> QED
      BY <1>6, <3>1, <3>2 DEF PlaceLost
  <2> QED
    BY <1>6, <2>1, BridgesCalm DEF PlaceLost, yVars
<1>7. ASSUME NEW d \in Devs, DevOpens(d) PROVE BridgesInv'
  BY <1>0, <1>7, BridgesCalm DEF DevOpens, xVars, netVars
<1>8. ASSUME NEW d \in Devs, DevAnswersAgain(d) PROVE BridgesInv'
  BY <1>0, <1>8, BridgesCalm DEF DevAnswersAgain, xVars, yVars, netVars
<1>9. ASSUME NEW d \in Devs, DevWaits(d) PROVE BridgesInv'
  BY <1>0, <1>9, BridgesCalm DEF DevWaits, xVars, netVars
<1>10. ASSUME NEW d \in Devs, DevGivesUp(d) PROVE BridgesInv'
  BY <1>0, <1>10, BridgesCalm DEF DevGivesUp, xVars, yVars, netVars
<1> QED
  BY <1>1, <1>2, <1>3, <1>4, <1>5, <1>6, <1>7, <1>8, <1>9, <1>10

(* X drops its bridge b, says so to Y, and may begin to place a call.      *)
LEMMA BridgesDropped ==
  ASSUME BridgesInv, RelayTypeOK', NEW b \in AtX, xb' = DropX(xb, b), xIndex' = 0,
         SendToY(linked, <<Close(b)>>), UNCHANGED <<yb, yIndex, made, toX>>,
         placing' \subseteq Nat \ {0}, caller'.state \in {"waiting", "asking"} => caller'.eph # 0
  PROVE  BridgesInv'
<1>1. b \in Bridges /\ Close(b) \in Message /\ <<Close(b)>> \in Seq(Message) /\ linked \in BOOLEAN
      /\ Close(b).kind = "close" /\ toY \in Seq(Message)
  BY DEF AtX, Close, Msg, Message, Notes, BridgesInv, RelayTypeOK
<1>2. AtX' = AtX \ {b} /\ OverAlready' = OverAlready \ {b} /\ \A c \in AtX' : xb'[c] = xb[c]
  BY <1>1, DroppedX DEF BridgesInv
<1>3. AtY' = AtY
  BY DEF AtY
<1>4. XIndexed'
  BY <1>2 DEF BridgesInv, XIndexed
<1>5. /\ ~lossy' => ~lossy /\ toY' = toY \o <<Close(b)>>
      /\ toY' \in {toY, toY \o <<Close(b)>>}
  BY <1>1, SentToY DEF BridgesInv
<1>6. Dialled'
  <2>1. AllDialled(toY')
    BY <1>1, <1>5, DialledSent DEF BridgesInv, Dialled
  <2> QED
    BY <1>2, <1>3, <2>1 DEF BridgesInv, Dialled
<1>7. ASSUME Agreed, ~lossy' PROVE Agreed'
  <2>1. Agree(AtX \ {b}, OverAlready \ {b}, AtY, made, toX, toY \o <<Close(b)>>)
    BY <1>7, XTells DEF Agreed
  <2>2. made' = made /\ toX' = toX /\ toY' = toY \o <<Close(b)>>
    BY <1>5, <1>7
  <2> QED
    BY <1>2, <1>3, <2>1, <2>2 DEF Agreed
<1>8. YIndexed => YIndexed'
  BY <1>3 DEF YIndexed
<1> QED
  BY <1>4, <1>5, <1>6, <1>7, <1>8 DEF BridgesInv

LEMMA BridgesHungUp ==
  ASSUME BridgesInv, RelayTypeOK', CallerHangsUp \/ \E b \in Bridges : SweepX(b)
  PROVE  BridgesInv'
<1>0. /\ caller \in CallerRecord /\ (caller.state \in {"waiting", "asking"} => caller.eph # 0)
      /\ (caller.state = "in" => caller.call.bridge \in Bridges) /\ placing \subseteq Nat \ {0}
  BY DEF BridgesInv, RelayTypeOK, Dialled
<1>1. CASE CallerHangsUp
  <2> DEFINE b == caller.call.bridge
  <2>1. b \in Bridges /\ caller'.state = "idle"
    BY <1>0, <1>1 DEF CallerHangsUp, CallerRecord
  <2>2. UNCHANGED <<made, placing, yb, yIndex, toX>>
    BY <1>1 DEF CallerHangsUp, yVars
  <2>3. CASE xb[b] # NoX /\ xb[b].calleeEph # 0
    <3>1. b \in AtX /\ SendToY(linked, <<Close(b)>>) /\ xb' = DropX(xb, b) /\ xIndex' = 0
      BY <1>1, <2>1, <2>3 DEF CallerHangsUp, AtX
    <3> HIDE DEF b
    <3> QED
      BY <1>0, <2>1, <2>2, <3>1, BridgesDropped
  <2>4. CASE ~(xb[b] # NoX /\ xb[b].calleeEph # 0)
    <3>1. UNCHANGED <<xb, xIndex, toY, lossy>>
      BY <1>1, <2>4 DEF CallerHangsUp
    <3> QED
      BY <2>1, <2>2, <3>1, BridgesCalm
  <2> QED
    BY <2>3, <2>4
<1>2. ASSUME NEW b \in Bridges, SweepX(b) PROVE BridgesInv'
  <2>1. b \in AtX
    BY <1>2 DEF SweepX, OverAtX, AtX
  <2>2. /\ SendToY(linked, <<Close(b)>>) /\ xb' = DropX(xb, b) /\ xIndex' = 0
        /\ UNCHANGED <<made, placing, yb, yIndex, toX, caller>>
    BY <1>2 DEF SweepX, yVars
  <2> QED
    BY <1>0, <2>1, <2>2, BridgesDropped
<1> QED
  BY <1>1, <1>2

(* What another call replaces is what X has. *)
LEMMA ReplacedIsAll ==
  ASSUME BridgesInv, NEW e \in Nat \ {0}, ~SameCall(e)
  PROVE  \/ AtX = {} /\ Replaced(e) = {}
         \/ \E b \in AtX : AtX = {b} /\ Replaced(e) = {b} /\ CloseAll(Replaced(e)) = <<Close(b)>>
<1>1. \A b \in AtX : xIndex = b /\ b # 0
  BY DEF BridgesInv, XIndexed, AtX, Bridges
<1>2. CASE AtX = {}
  BY <1>2 DEF AtX, Replaced
<1>3. ASSUME NEW b \in AtX PROVE AtX = {b} /\ Replaced(e) = {b}
  <2>1. AtX = {b}
    BY <1>1
  <2>2. xb[b].eph # e
    BY <1>1 DEF SameCall
  <2> QED
    BY <1>1, <2>1, <2>2 DEF Replaced, AtX
<1>4. ASSUME NEW b \in AtX PROVE CloseAll(Replaced(e)) = <<Close(b)>>
  BY <1>3 DEF CloseAll
<1> QED
  BY <1>2, <1>3, <1>4

LEMMA BridgesPolls ==
  ASSUME BridgesInv, RelayTypeOK', PollReports \/ PollPlaces
  PROVE  BridgesInv'
<1>0. /\ caller \in CallerRecord /\ (caller.state \in {"waiting", "asking"} => caller.eph # 0)
      /\ placing \subseteq Nat \ {0} /\ xIndex \in Bridges \cup {0}
  BY DEF BridgesInv, RelayTypeOK, Dialled
<1>1. CASE PollReports
  <2> DEFINE b == xIndex
  <2>1. /\ b \in Bridges /\ Answered(xb[b], b) /\ caller.state = "waiting"
        /\ UNCHANGED <<made, placing, yb, yIndex, toX, toY, lossy>>
    BY <1>0, <1>1 DEF PollReports, SameCall, yVars, netVars
  <2>2. caller'.eph # 0
    BY <1>0, <2>1 DEF Answered, CallerRecord
  <2>3. CASE xb[b].outcome = "rejected"
    <3>1. xb' = DropX(xb, b) /\ xIndex' = 0
      BY <1>1, <2>3 DEF PollReports
    <3>2. b \in OverAlready
      BY <2>1, <2>3 DEF OverAlready
    <3> HIDE DEF b
    <3>3. AtX' = AtX \ {b} /\ OverAlready' = OverAlready \ {b} /\ \A c \in AtX' : xb'[c] = xb[c]
      BY <2>1, <3>1, DroppedX DEF BridgesInv
    <3>4. AtY' = AtY
      BY <2>1 DEF AtY
    <3>5. XIndexed'
      BY <3>3 DEF BridgesInv, XIndexed, b
    <3>6. Dialled'
      BY <2>1, <2>2, <3>3, <3>4 DEF BridgesInv, Dialled
    <3>7. Agreed => Agreed'
      BY <2>1, <3>2, <3>3, <3>4, XForgets DEF Agreed
    <3>8. YIndexed => YIndexed'
      BY <2>1, <3>4 DEF YIndexed
    <3> QED
      BY <2>1, <3>5, <3>6, <3>7, <3>8 DEF BridgesInv
  <2>4. CASE xb[b].outcome # "rejected"
    <3>1. xb' = xb /\ xIndex' = xIndex
      BY <1>1, <2>4 DEF PollReports
    <3> QED
      BY <2>1, <2>2, <3>1, BridgesCalm
  <2> QED
    BY <2>3, <2>4
<1>2. CASE PollPlaces
  <2> DEFINE e == caller.eph
  <2>1. /\ e \in Nat \ {0} /\ ~SameCall(e) /\ placing' = placing \cup {e}
        /\ SendToY(linked, CloseAll(Replaced(e)))
        /\ xb' = [b \in Bridges |-> IF b \in Replaced(e) THEN NoX ELSE xb[b]]
        /\ xIndex' = IF Replaced(e) # {} THEN 0 ELSE xIndex
        /\ caller' = [caller EXCEPT !.state = "asking"]
        /\ UNCHANGED <<made, yb, yIndex, toX>>
    BY <1>0, <1>2 DEF PollPlaces, yVars, CallerRecord
  <2>2. caller'.eph # 0
    BY <1>0, <2>1 DEF CallerRecord
  <2>3. placing' \subseteq Nat \ {0}
    BY <1>0, <2>1
  <2> HIDE DEF e
  <2>4. CASE AtX = {} /\ Replaced(e) = {}
    <3>1. CloseAll(Replaced(e)) = <<>> /\ xIndex' = xIndex
      BY <2>1, <2>4 DEF CloseAll
    <3>2. xb' = xb
      BY <2>1, <2>4 DEF BridgesInv, RelayTypeOK
    <3>3. lossy' = lossy /\ toY' = toY
      <4>1. toY \o <<>> = toY
        BY ConcatProperties DEF BridgesInv, RelayTypeOK
      <4> QED
        BY <2>1, <3>1, <4>1 DEF SendToY, BridgesInv, RelayTypeOK
    <3>4. AtX' = AtX /\ OverAlready' = OverAlready /\ AtY' = AtY
      BY <2>1, <3>2 DEF AtX, OverAlready, AtY
    <3>5. Dialled'
      BY <2>1, <2>2, <2>3, <3>2, <3>3, <3>4 DEF BridgesInv, Dialled
    <3>6. Agreed => Agreed'
      BY <2>1, <3>3, <3>4 DEF Agreed
    <3> QED
      BY <2>1, <3>1, <3>3, <3>4, <3>5, <3>6 DEF BridgesInv, XIndexed, YIndexed
  <2>5. ASSUME NEW b \in AtX, Replaced(e) = {b}, CloseAll(Replaced(e)) = <<Close(b)>>
        PROVE  BridgesInv'
    <3>1. xb' = DropX(xb, b)
      BY <2>1, <2>5 DEF DropX, BridgesInv, RelayTypeOK
    <3>2. xIndex' = 0 /\ SendToY(linked, <<Close(b)>>)
      BY <2>1, <2>5
    <3> QED
      BY <2>1, <2>2, <2>3, <3>1, <3>2, BridgesDropped
  <2> QED
    BY <2>1, <2>4, <2>5, ReplacedIsAll
<1> QED
  BY <1>1, <1>2

(* A call is placed: what it replaces is closed before it is invited.      *)
LEMMA BridgesInsert ==
  ASSUME BridgesInv, RelayTypeOK', NEW e \in placing, PlaceInsert(e)
  PROVE  BridgesInv'
<1> DEFINE b == made + 1
           worded == addressed = NoDev /\ ~lists["x"]
           rec == [NoX EXCEPT !.eph = e, !.outcome = "ringing", !.signed = worded]
           inv == Invite(b, e, worded)
           cl == CloseAll(Replaced(e))
<1>1. /\ e \in Nat \ {0} /\ b \in Bridges /\ made \in Nat
      /\ toY \in Seq(Message) /\ toX \in Seq(Message) /\ caller \in CallerRecord
  BY RelayAssumption DEF BridgesInv, RelayTypeOK, Dialled, PlaceInsert, Bridges
<1>2. worded \in BOOLEAN
  OBVIOUS
<1>3. inv \in Message /\ inv.kind = "invite" /\ inv.bridge = b /\ inv.eph = e
  BY <1>1, <1>2 DEF Invite, Msg, Message, Notes
<1>4. rec.eph = e /\ rec.outcome = "ringing" /\ rec # NoX
  BY <1>1 DEF NoX
<1>5. /\ ~SameCall(e) /\ made' = b /\ xIndex' = b /\ placing' \subseteq placing
      /\ SendToY(TRUE, cl \o <<inv>>)
      /\ xb' = [[c \in Bridges |-> IF c \in Replaced(e) THEN NoX ELSE xb[c]] EXCEPT ![b] = rec]
      /\ UNCHANGED <<yb, yIndex, toX>>
  BY DEF PlaceInsert, Messages, yVars
<1>6. caller' = caller \/ (caller'.state = "waiting" /\ caller'.eph = e)
  BY <1>1 DEF PlaceInsert, CallerRecord
<1>7. cl \in Seq(Message) /\ <<inv>> \in Seq(Message) /\ cl \o <<inv>> \in Seq(Message)
  BY <1>3, ReplacedTyped, MessageTyped, ConcatProperties
<1> HIDE DEF rec, inv, cl, worded
<1>8. (~lossy' => ~lossy) /\ toY' = (toY \o cl) \o <<inv>>
  <2>1. toY' = toY \o (cl \o <<inv>>) /\ (~lossy' => ~lossy)
    BY <1>5 DEF SendToY
  <2>2. toY \o (cl \o <<inv>>) = (toY \o cl) \o <<inv>>
    BY <1>1, <1>7, ConcatAssociative
  <2> QED
    BY <2>1, <2>2
<1> HIDE DEF b
<1>9. PICK rest : /\ AtX \ Replaced(e) = {} /\ rest = toY \o cl /\ rest \in Seq(Message)
                  /\ AllDialled(rest)
                  /\ Agreed => Agree({}, {}, AtY, made, toX, rest)
  <2>0. AllDialled(toY)
    BY DEF BridgesInv, Dialled
  <2>1. ASSUME AtX = {}, Replaced(e) = {}
        PROVE  /\ AtX \ Replaced(e) = {} /\ toY \o cl \in Seq(Message) /\ AllDialled(toY \o cl)
               /\ Agreed => Agree({}, {}, AtY, made, toX, toY \o cl)
    <3>1. cl = <<>> /\ toY \o cl = toY
      BY <1>1, <2>1, ConcatProperties DEF cl, CloseAll
    <3>2. Agreed => OverAlready = {}
      BY <2>1 DEF Agreed, Agree, OneAtX
    <3> QED
      BY <1>1, <2>0, <2>1, <3>1, <3>2 DEF Agreed
  <2>2. ASSUME NEW g \in AtX, AtX = {g}, Replaced(e) = {g}, cl = <<Close(g)>>
        PROVE  /\ AtX \ Replaced(e) = {} /\ toY \o cl \in Seq(Message) /\ AllDialled(toY \o cl)
               /\ Agreed => Agree({}, {}, AtY, made, toX, toY \o cl)
    <3>1. g \in Bridges /\ Close(g) \in Message /\ Close(g).kind = "close"
      BY DEF AtX, Close, Msg, Message, Notes
    <3>2. toY \o cl \in Seq(Message) /\ AllDialled(toY \o cl)
      BY <1>1, <2>0, <2>2, <3>1, DialledSent, PlacesSent
    <3>3. ASSUME Agreed PROVE Agree({}, {}, AtY, made, toX, toY \o cl)
      <4>1. Agree(AtX \ {g}, OverAlready \ {g}, AtY, made, toX, toY \o <<Close(g)>>)
        BY <3>3, XTells DEF Agreed
      <4>2. AtX \ {g} = {} /\ OverAlready \ {g} = {}
        BY <2>2, <3>3 DEF Agreed, Agree, OneAtX
      <4> QED
        BY <2>2, <4>1, <4>2
    <3> QED
      BY <2>2, <3>2, <3>3
  <2>3. /\ AtX \ Replaced(e) = {} /\ toY \o cl \in Seq(Message) /\ AllDialled(toY \o cl)
        /\ Agreed => Agree({}, {}, AtY, made, toX, toY \o cl)
    <3>1. \/ AtX = {} /\ Replaced(e) = {}
          \/ \E g \in AtX : AtX = {g} /\ Replaced(e) = {g} /\ cl = <<Close(g)>>
      BY <1>1, <1>5, ReplacedIsAll DEF cl
    <3>2. CASE AtX = {} /\ Replaced(e) = {}
      BY <2>1, <3>2
    <3> QED
      BY <2>2, <3>1, <3>2
  <2> QED
    BY <2>3
<1>10. AtX' = {b} /\ xb'[b] = rec /\ OverAlready' = {} /\ AtY' = AtY
  <2>1. /\ xb'[b] = rec
        /\ \A c \in Bridges : c # b => xb'[c] = IF c \in Replaced(e) THEN NoX ELSE xb[c]
    BY <1>1, <1>5
  <2>2. \A c \in Bridges : c # b => xb'[c] = NoX
    BY <1>9, <2>1 DEF AtX
  <2>3. NoX.outcome = "none"
    BY DEF NoX
  <2> QED
    BY <1>1, <1>4, <1>5, <2>1, <2>2, <2>3 DEF AtX, OverAlready, AtY
<1>11. XIndexed'
  BY <1>5, <1>10 DEF XIndexed
<1>12. Dialled'
  <2>1. AllDialled(toY')
    BY <1>1, <1>3, <1>8, <1>9, DialledSent
  <2>2. caller'.state \in {"waiting", "asking"} => caller'.eph # 0
    BY <1>1, <1>6 DEF BridgesInv, Dialled
  <2> QED
    BY <1>1, <1>4, <1>5, <1>10, <2>1, <2>2 DEF BridgesInv, Dialled
<1>13. ASSUME Agreed PROVE Agreed'
  <2>1. Agree({}, {}, AtY, made, toX, rest)
    BY <1>9, <1>13
  <2>2. \A i \in Nat : ~Live(AtY, rest, b, i) /\ ~Over({}, toX, b, i) /\ ~At(rest, {"close"}, b, i)
    <3>1. b \notin AtY /\ b > made
      BY <1>1, <2>1 DEF Agree, MadeOnly, b
    <3>2. \A K : \A i \in Nat : ~At(rest, K, b, i) /\ ~At(toX, K, b, i)
      BY <1>1, <2>1, <3>1 DEF Agree, MadeOnly, At, b
    <3> QED
      BY <3>1, <3>2 DEF Live, Over
  <2>3. b \in Nat /\ made <= b /\ b <= b
    BY <1>1 DEF b
  <2>4. Agree({b}, {}, AtY, b, toX, rest \o <<inv>>)
    BY <1>1, <1>3, <2>1, <2>2, <2>3, XInvites
  <2>5. toY' = rest \o <<inv>> /\ toX' = toX /\ made' = b
    BY <1>5, <1>8, <1>9
  <2> QED
    BY <1>10, <2>4, <2>5 DEF Agreed
<1>14. YIndexed => YIndexed'
  BY <1>5, <1>10 DEF YIndexed
<1> QED
  BY <1>8, <1>11, <1>12, <1>13, <1>14 DEF BridgesInv

(* A record that changes in place. *)
LEMMA BridgesAnswered ==
  ASSUME BridgesInv, RelayTypeOK',
         AcceptAtX \/ RejectAtX \/ CloseAtX
  PROVE  BridgesInv'
<1> DEFINE msg == Head(toX)
           b == msg.bridge
<1>1. /\ toX \in Seq(Message) /\ toX # <<>> /\ msg \in Message /\ toX' = Tail(toX)
      /\ UNCHANGED <<yb, yIndex, made, placing>>
  <2>1. /\ toX # <<>> /\ toX' = Tail(toX) /\ UNCHANGED <<yb, yIndex, made, placing>>
    BY DEF AcceptAtX, RejectAtX, CloseAtX, Arrives, yVars
  <2>2. toX \in Seq(Message)
    BY DEF BridgesInv, RelayTypeOK
  <2> QED
    BY <2>1, <2>2, PlacesReceived
<1>2. b \in Bridges /\ xb \in [Bridges -> XRecord] /\ toY \in Seq(Message) /\ caller \in CallerRecord
  BY <1>1 DEF Message, BridgesInv, RelayTypeOK
<1>3. AtY' = AtY /\ (YIndexed => YIndexed')
  BY <1>1 DEF AtY, YIndexed
<1>4. /\ Dialled /\ (Agreed => Agree(AtX, OverAlready, AtY, made, toX, toY))
  BY DEF BridgesInv, Agreed
<1>5. CASE AcceptAtX
  <2>1. /\ msg.kind = "accept" /\ UNCHANGED <<xIndex, toY, lossy, caller>>
        /\ xb' = IF xb[b] = NoX THEN xb
                 ELSE [xb EXCEPT ![b].outcome = "established", ![b].callee = msg.dev, ![b].calleeEph = msg.eph]
    BY <1>5 DEF AcceptAtX, Arrives
  <2> HIDE DEF b, msg
  <2>2. /\ \A c \in Bridges : c # b => xb'[c] = xb[c]
        /\ xb[b] = NoX => xb'[b] = NoX
        /\ xb[b] # NoX => xb'[b].outcome = "established" /\ xb'[b].eph = xb[b].eph
    BY <1>2, <2>1 DEF XRecord
  <2>3. NoX.outcome = "none"
    BY DEF NoX
  <2>4. AtX' = AtX /\ OverAlready' = OverAlready \ {b} /\ \A c \in AtX' : xb'[c].eph = xb[c].eph
    BY <1>2, <2>2, <2>3 DEF AtX, OverAlready
  <2>5. ASSUME Agreed PROVE Agreed'
    <3>1. b \notin OverAlready /\ Agree(AtX, OverAlready, AtY, made, Tail(toX), toY)
      BY <1>1, <2>1, <2>5, XConnects DEF Agreed, b, msg
    <3>2. OverAlready' = OverAlready
      BY <2>4, <3>1
    <3> QED
      BY <1>1, <1>3, <2>1, <2>4, <3>1, <3>2 DEF Agreed
  <2>6. XIndexed' /\ Dialled'
    BY <1>1, <1>3, <2>1, <2>4 DEF BridgesInv, XIndexed, Dialled
  <2> QED
    BY <1>3, <2>1, <2>5, <2>6 DEF BridgesInv
<1>6. CASE RejectAtX /\ Resends(msg)
  <2> DEFINE inv == Invite(b, xb[b].eph, TRUE)
  <2>1. /\ msg.kind = "reject" /\ b \in AtX /\ UNCHANGED <<xIndex, caller>>
        /\ SendToY(linked, <<inv>>) /\ xb' = [xb EXCEPT ![b].signed = TRUE]
    BY <1>2, <1>6 DEF RejectAtX, Arrives, Resends, AtX
  <2>2. inv \in Message /\ inv.kind = "invite" /\ inv.bridge = b /\ inv.eph # 0
    BY <1>2, <2>1, <1>4 DEF Invite, Msg, Message, Notes, XRecord, Dialled
  <2>3. <<inv>> \in Seq(Message) /\ linked \in BOOLEAN
    BY <2>2, MessageTyped DEF BridgesInv, RelayTypeOK
  <2> HIDE DEF inv
  <2>4. (~lossy' => ~lossy /\ toY' = toY \o <<inv>>) /\ toY' \in {toY, toY \o <<inv>>}
    BY <2>1, <2>3, SentToY DEF BridgesInv
  <2> HIDE DEF b, msg
  <2>5. /\ \A c \in Bridges : c # b => xb'[c] = xb[c]
        /\ xb'[b].outcome = xb[b].outcome /\ xb'[b].eph = xb[b].eph /\ xb'[b].signed = TRUE
    BY <1>2, <2>1 DEF XRecord
  <2>6. xb'[b] # NoX
    BY <2>5 DEF NoX
  <2>7. AtX' = AtX /\ OverAlready' = OverAlready /\ \A c \in AtX' : xb'[c].eph = xb[c].eph
    BY <1>2, <2>1, <2>5, <2>6 DEF AtX, OverAlready
  <2>8. ASSUME Agreed, ~lossy' PROVE Agreed'
    <3>1. Agree(AtX, OverAlready, AtY, made, Tail(toX), toY \o <<inv>>)
      BY <1>1, <2>1, <2>2, <2>8, XRefused DEF Agreed, b, msg
    <3> QED
      BY <1>1, <1>3, <2>4, <2>7, <2>8, <3>1 DEF Agreed
  <2>9. XIndexed'
    BY <2>1, <2>7 DEF BridgesInv, XIndexed
  <2>10. Dialled'
    <3>1. AllDialled(toY')
      BY <1>2, <1>4, <2>2, <2>4, DialledSent DEF Dialled
    <3> QED
      BY <1>1, <1>3, <1>4, <2>1, <2>7, <3>1 DEF Dialled
  <2> QED
    BY <1>3, <2>4, <2>8, <2>9, <2>10 DEF BridgesInv
<1>7. CASE RejectAtX /\ ~Resends(msg)
  <2>1. /\ msg.kind = "reject" /\ UNCHANGED <<xIndex, caller, toY, lossy>>
        /\ xb' = IF xb[b] = NoX THEN xb ELSE [xb EXCEPT ![b].outcome = "rejected"]
    BY <1>7 DEF RejectAtX, Arrives
  <2> HIDE DEF b, msg
  <2>2. /\ \A c \in Bridges : c # b => xb'[c] = xb[c]
        /\ xb[b] = NoX => xb'[b] = NoX
        /\ xb[b] # NoX => xb'[b].outcome = "rejected" /\ xb'[b].eph = xb[b].eph
    BY <1>2, <2>1 DEF XRecord
  <2>3. NoX.outcome = "none"
    BY DEF NoX
  <2>4. /\ AtX' = AtX /\ \A c \in AtX' : xb'[c].eph = xb[c].eph
        /\ b \in AtX => OverAlready' = OverAlready \cup {b}
        /\ b \notin AtX => OverAlready' = OverAlready /\ b \notin OverAlready
    BY <1>2, <2>2, <2>3 DEF AtX, OverAlready
  <2>5. ASSUME Agreed PROVE Agreed'
    <3>1. CASE b \in AtX
      <4>1. Agree(AtX, OverAlready \cup {b}, AtY, made, Tail(toX), toY)
        BY <1>1, <2>1, <2>5, <3>1, XRefused DEF Agreed, b, msg
      <4> QED
        BY <1>1, <1>3, <2>1, <2>4, <3>1, <4>1 DEF Agreed
    <3>2. CASE b \notin AtX
      <4>1. Agree(AtX \ {b}, OverAlready \ {b}, AtY, made, Tail(toX), toY)
        BY <1>1, <2>1, <2>5, XHearsClose DEF Agreed, b, msg, Ending
      <4>2. AtX \ {b} = AtX /\ OverAlready \ {b} = OverAlready
        BY <2>4, <3>2
      <4> QED
        BY <1>1, <1>3, <2>1, <2>4, <3>2, <4>1, <4>2 DEF Agreed
    <3> QED
      BY <3>1, <3>2
  <2>6. XIndexed' /\ Dialled'
    BY <1>1, <1>3, <2>1, <2>4 DEF BridgesInv, XIndexed, Dialled
  <2> QED
    BY <1>3, <2>1, <2>5, <2>6 DEF BridgesInv
<1>8. CASE CloseAtX
  <2>1. /\ msg.kind = "close" /\ xb' = DropX(xb, b) /\ UNCHANGED <<toY, lossy>>
        /\ xIndex' = IF xb[b] # NoX THEN 0 ELSE xIndex
        /\ caller' = caller \/ caller'.state = "idle"
    BY <1>2, <1>8 DEF CloseAtX, Arrives, CallerRecord
  <2> HIDE DEF b, msg
  <2>2. AtX' = AtX \ {b} /\ OverAlready' = OverAlready \ {b} /\ \A c \in AtX' : xb'[c] = xb[c]
    BY <1>2, <2>1, DroppedX DEF BridgesInv
  <2>3. ASSUME Agreed PROVE Agreed'
    <3>1. Agree(AtX \ {b}, OverAlready \ {b}, AtY, made, Tail(toX), toY)
      BY <1>1, <2>1, <2>3, XHearsClose DEF Agreed, b, msg, Ending
    <3> QED
      BY <1>1, <1>3, <2>1, <2>2, <3>1 DEF Agreed
  <2>4. XIndexed'
    BY <1>2, <2>1, <2>2 DEF BridgesInv, XIndexed, AtX
  <2>5. Dialled'
    BY <1>1, <1>3, <2>1, <2>2 DEF BridgesInv, Dialled
  <2> QED
    BY <1>3, <2>1, <2>3, <2>4, <2>5 DEF BridgesInv
<1> QED
  BY <1>5, <1>6, <1>7, <1>8

(* An invite, or a close, arrives at Y. *)
LEMMA BridgesArrive ==
  ASSUME BridgesInv, RelayTypeOK', InviteRefused \/ InviteTaken \/ CloseAtY
  PROVE  BridgesInv'
<1> DEFINE msg == Head(toY)
           b == msg.bridge
<1>1. /\ toY \in Seq(Message) /\ toX \in Seq(Message) /\ toY # <<>> /\ msg \in Message
      /\ toY' = Tail(toY) /\ UNCHANGED <<xb, xIndex, made, placing, caller>>
  <2>1. toY # <<>> /\ toY' = Tail(toY) /\ UNCHANGED <<xb, xIndex, made, placing, caller>>
    BY DEF InviteRefused, InviteTaken, CloseAtY, Arrives, xVars
  <2>2. toY \in Seq(Message) /\ toX \in Seq(Message)
    BY DEF BridgesInv, RelayTypeOK
  <2> QED
    BY <2>1, <2>2, PlacesReceived
<1>2. b \in Bridges /\ yb \in [Bridges -> YRecord]
  BY <1>1 DEF Message, BridgesInv, RelayTypeOK
<1>3. AtX' = AtX /\ OverAlready' = OverAlready /\ XIndexed'
  BY <1>1 DEF AtX, OverAlready, BridgesInv, XIndexed
<1>4. AllDialled(toY') /\ (msg.kind = "invite" => msg.eph # 0)
  BY <1>1, DialledTail DEF BridgesInv, Dialled
<1>5. ASSUME \A c \in AtY' : yb'[c].eph # 0 PROVE Dialled'
  BY <1>1, <1>3, <1>4, <1>5 DEF BridgesInv, Dialled
<1>6. CASE InviteRefused
  <2>1. PICK reason \in {"refused", "unreachable"} :
          msg.kind = "invite" /\ SendToX(<<Reject(b, reason)>>) /\ UNCHANGED <<yb, yIndex>>
    BY <1>6 DEF InviteRefused, Arrives, yVars
  <2> DEFINE no == Reject(b, reason)
  <2>2. no \in Message /\ no.kind = "reject" /\ no.bridge = b
    BY <1>2 DEF Reject, Msg, Message, Notes
  <2>3. <<no>> \in Seq(Message)
    BY <2>2, MessageTyped
  <2> HIDE DEF no, b, msg
  <2>4. ~lossy' => ~lossy /\ toX' = toX \o <<no>>
    BY <2>1, <2>3, SentToX DEF BridgesInv, no
  <2>5. AtY' = AtY /\ (YIndexed => YIndexed')
    BY <2>1 DEF AtY, YIndexed
  <2>6. ASSUME Agreed, ~lossy' PROVE Agreed'
    <3>1. Agree(AtX, OverAlready, AtY, made, toX \o <<no>>, Tail(toY))
      BY <1>1, <2>1, <2>2, <2>6, YRefuses DEF Agreed, b, msg
    <3> QED
      BY <1>1, <1>3, <2>4, <2>5, <2>6, <3>1 DEF Agreed
  <2>7. Dialled'
    BY <1>5, <2>1, <2>5 DEF BridgesInv, Dialled
  <2> QED
    BY <1>3, <2>4, <2>5, <2>6, <2>7 DEF BridgesInv
<1>7. CASE InviteTaken
  <2> DEFINE waiting == IF addressed = NoDev THEN 0 ELSE pending[addressed]
             rec == [NoY EXCEPT !.eph = msg.eph, !.calleeEph = waiting,
                                !.callee = IF waiting # 0 THEN addressed ELSE NoDev]
             yes == Accept(b, waiting, addressed)
             said == IF waiting = 0 THEN <<>> ELSE <<yes>>
  <2>1. /\ msg.kind = "invite" /\ yb' = [yb EXCEPT ![b] = rec] /\ yIndex' = b /\ SendToX(said)
    BY <1>7 DEF InviteTaken, Arrives
  <2>2. addressed \in Devs \cup {NoDev} /\ (addressed # NoDev => pending[addressed] \in Nat)
    BY DEF BridgesInv, RelayTypeOK
  <2>3. yes \in Message /\ yes.kind = "accept" /\ yes.bridge = b
    BY <1>2, <2>2 DEF Accept, Msg, Message, Notes
  <2>4. said \in Seq(Message) /\ said \in {<<>>, <<yes>>}
    BY <2>3, MessageTyped
  <2>5. rec.eph = msg.eph /\ rec # NoY
    BY <1>4, <2>1 DEF NoY
  <2> HIDE DEF rec, yes, said, b, msg
  <2>6. ~lossy' => ~lossy /\ toX' = toX \o said
    BY <2>1, <2>4, SentToX DEF BridgesInv
  <2>7. yb'[b] = rec /\ \A c \in Bridges : c # b => yb'[c] = yb[c]
    BY <1>2, <2>1
  <2>8. AtY' = AtY \cup {b} /\ \A c \in AtY : c # b => yb'[c] = yb[c]
    BY <1>2, <2>5, <2>7 DEF AtY
  <2>9. Dialled'
    <3>1. \A c \in AtY' : yb'[c].eph # 0
      BY <1>4, <2>1, <2>5, <2>7, <2>8 DEF BridgesInv, Dialled
    <3> QED
      BY <1>5, <3>1
  <2>10. ASSUME Agreed, ~lossy' PROVE Agreed' /\ YIndexed'
    <3>1. AtY = {} /\ Agree(AtX, OverAlready, {b}, made, toX, Tail(toY))
      BY <1>1, <2>1, <2>10, YTakes DEF Agreed, b, msg
    <3>2. AtY' = {b}
      BY <2>8, <3>1
    <3>3. Agree(AtX, OverAlready, {b}, made, toX \o said, Tail(toY))
      <4>1. CASE said = <<>>
        <5>1. toX \o said = toX
          BY <1>1, <4>1, ConcatProperties
        <5> QED
          BY <3>1, <5>1
      <4>2. CASE said = <<yes>>
        <5>1. b \in {b}
          OBVIOUS
        <5>2. Agree(AtX, OverAlready, {b}, made, toX \o <<yes>>, Tail(toY))
          BY <2>3, <3>1, <5>1, YAnswers
        <5> QED
          BY <4>2, <5>2
      <4> QED
        BY <2>4, <4>1, <4>2
    <3> QED
      BY <1>1, <1>3, <2>1, <2>6, <2>10, <3>2, <3>3 DEF Agreed, YIndexed
  <2> QED
    BY <1>3, <2>6, <2>9, <2>10 DEF BridgesInv
<1>8. CASE CloseAtY
  <2>1. /\ msg.kind = "close" /\ yb' = DropY(yb, b) /\ UNCHANGED <<toX, lossy>>
        /\ yIndex' = IF yb[b] # NoY THEN 0 ELSE yIndex
    BY <1>8 DEF CloseAtY, Arrives
  <2> HIDE DEF b, msg
  <2>2. AtY' = AtY \ {b} /\ \A c \in AtY' : yb'[c] = yb[c]
    BY <1>2, <2>1, DroppedY DEF BridgesInv
  <2>3. ASSUME Agreed PROVE Agreed'
    <3>1. Agree(AtX, OverAlready, AtY \ {b}, made, toX, Tail(toY))
      BY <1>1, <2>1, <2>3, YHears DEF Agreed, b, msg
    <3> QED
      BY <1>1, <1>3, <2>1, <2>2, <3>1 DEF Agreed
  <2>4. YIndexed => YIndexed'
    BY <1>2, <2>1, <2>2 DEF YIndexed, AtY
  <2>5. Dialled'
    <3>1. \A c \in AtY' : yb'[c].eph # 0
      BY <2>2 DEF BridgesInv, Dialled
    <3> QED
      BY <1>5, <3>1
  <2> QED
    BY <1>3, <2>1, <2>3, <2>4, <2>5 DEF BridgesInv
<1> QED
  BY <1>6, <1>7, <1>8

(* Y drops its bridge b and says so. *)
LEMMA BridgesEnded ==
  ASSUME BridgesInv, RelayTypeOK', NEW b \in AtY, yb' = DropY(yb, b), yIndex' = 0,
         NEW m \in Message, m.kind \in Ending, m.bridge = b,
         SendToX(<<m>>), UNCHANGED <<xb, xIndex, made, placing, toY, caller>>
  PROVE  BridgesInv'
<1>1. b \in Bridges /\ <<m>> \in Seq(Message)
  BY MessageTyped DEF AtY
<1>2. AtY' = AtY \ {b} /\ \A c \in AtY' : yb'[c] = yb[c]
  BY <1>1, DroppedY DEF BridgesInv
<1>3. AtX' = AtX /\ OverAlready' = OverAlready /\ XIndexed'
  BY DEF AtX, OverAlready, BridgesInv, XIndexed
<1>4. ~lossy' => ~lossy /\ toX' = toX \o <<m>>
  BY <1>1, SentToX DEF BridgesInv
<1>5. Dialled'
  BY <1>2, <1>3 DEF BridgesInv, Dialled
<1>6. ASSUME Agreed, ~lossy' PROVE Agreed'
  <2>1. Agree(AtX, OverAlready, AtY \ {b}, made, toX \o <<m>>, toY)
    BY <1>6, YTells DEF Agreed
  <2>2. made' = made /\ toY' = toY /\ toX' = toX \o <<m>>
    BY <1>4, <1>6
  <2> QED
    BY <1>2, <1>3, <2>1, <2>2 DEF Agreed
<1>7. YIndexed => YIndexed'
  BY <1>2 DEF YIndexed
<1> QED
  BY <1>3, <1>4, <1>5, <1>6, <1>7 DEF BridgesInv

LEMMA BridgesDevice ==
  ASSUME BridgesInv, RelayTypeOK',
         \/ \E d \in Devs : DevAnswers(d) \/ DevHangsUp(d) \/ \E b \in rung[d] : Decline(d, b)
         \/ \E b \in Bridges : SweepY(b)
  PROVE  BridgesInv'
<1>0. /\ caller.state \in {"waiting", "asking"} => caller.eph # 0
      /\ \A b \in Bridges : Close(b) \in Message /\ Close(b).kind \in Ending /\ Close(b).bridge = b
      /\ \A b \in Bridges : /\ Reject(b, "declined") \in Message
                            /\ Reject(b, "declined").kind \in Ending /\ Reject(b, "declined").bridge = b
      /\ dev \in [Devs -> DevRecord] /\ rung \in [Devs -> SUBSET Bridges]
      /\ \A d \in Devs : dev[d].state = "in" => dev[d].call.bridge \in Bridges
  BY DEF BridgesInv, RelayTypeOK, Dialled, Close, Reject, Msg, Message, Notes, Ending
<1>1. ASSUME NEW d \in Devs, DevAnswers(d) PROVE BridgesInv'
  <2> DEFINE b == yIndex
             yes == Accept(b, dev[d].eph, d)
  <2>1. /\ b \in Bridges /\ yb[b] # NoY
        /\ yb' = [yb EXCEPT ![b].callee = d, ![b].calleeEph = dev[d].eph]
        /\ SendToX(<<yes>>)
        /\ UNCHANGED <<xb, xIndex, made, placing, yIndex, toY, caller>>
    BY <1>1 DEF DevAnswers, Mine, BridgesInv, RelayTypeOK, xVars
  <2>2. yes \in Message /\ yes.kind = "accept" /\ yes.bridge = b /\ <<yes>> \in Seq(Message)
    <3>1. yes \in Message /\ yes.kind = "accept" /\ yes.bridge = b
      BY <1>0, <2>1 DEF Accept, Msg, Message, Notes, DevRecord
    <3> QED
      BY <3>1, MessageTyped
  <2>3. yb \in [Bridges -> YRecord] /\ b \in AtY
    BY <2>1 DEF BridgesInv, RelayTypeOK, AtY
  <2> HIDE DEF b, yes
  <2>4. /\ \A c \in Bridges : c # b => yb'[c] = yb[c]
        /\ yb'[b].eph = yb[b].eph
    BY <2>1, <2>3 DEF YRecord
  <2>5. AtY' = AtY /\ \A c \in AtY' : yb'[c].eph = yb[c].eph
    <3>1. yb[b].eph # 0
      BY <2>3 DEF BridgesInv, Dialled
    <3>2. yb'[b] # NoY
      BY <2>4, <3>1 DEF NoY
    <3> QED
      BY <2>1, <2>3, <2>4, <3>2 DEF AtY
  <2>6. ~lossy' => ~lossy /\ toX' = toX \o <<yes>>
    BY <2>1, <2>2, SentToX DEF BridgesInv
  <2>7. AtX' = AtX /\ OverAlready' = OverAlready /\ XIndexed'
    BY <2>1 DEF AtX, OverAlready, BridgesInv, XIndexed
  <2>8. Dialled'
    BY <2>1, <2>5, <2>7 DEF BridgesInv, Dialled
  <2>9. ASSUME Agreed, ~lossy' PROVE Agreed'
    <3>1. Agree(AtX, OverAlready, AtY, made, toX \o <<yes>>, toY)
      BY <2>2, <2>3, <2>9, YAnswers DEF Agreed
    <3> QED
      BY <2>1, <2>5, <2>6, <2>7, <2>9, <3>1 DEF Agreed
  <2>10. YIndexed => YIndexed'
    BY <2>1, <2>5 DEF YIndexed
  <2> QED
    BY <2>6, <2>7, <2>8, <2>9, <2>10 DEF BridgesInv
<1>2. ASSUME NEW d \in Devs, DevHangsUp(d) PROVE BridgesInv'
  <2> DEFINE b == dev[d].call.bridge
  <2>1. b \in Bridges /\ UNCHANGED <<xb, xIndex, made, placing, toY, caller>>
    BY <1>0, <1>2 DEF DevHangsUp, xVars
  <2>2. CASE yb[b] # NoY /\ yb[b].callee = d
    <3>1. b \in AtY /\ SendToX(<<Close(b)>>) /\ yb' = DropY(yb, b) /\ yIndex' = 0
      BY <1>2, <2>1, <2>2 DEF DevHangsUp, AtY
    <3> HIDE DEF b
    <3> QED
      BY <1>0, <2>1, <3>1, BridgesEnded
  <2>3. CASE ~(yb[b] # NoY /\ yb[b].callee = d)
    BY <1>0, <1>2, <2>1, <2>3, BridgesCalm DEF DevHangsUp
  <2> QED
    BY <2>2, <2>3
<1>3. ASSUME NEW d \in Devs, NEW b \in rung[d], Decline(d, b) PROVE BridgesInv'
  <2>1. b \in Bridges /\ UNCHANGED <<xb, xIndex, made, placing, toY, caller>>
    BY <1>0, <1>3 DEF Decline, xVars
  <2>2. CASE yb[b] # NoY
    <3>1. b \in AtY /\ SendToX(<<Reject(b, "declined")>>) /\ yb' = DropY(yb, b) /\ yIndex' = 0
      BY <1>3, <2>1, <2>2 DEF Decline, AtY
    <3> QED
      BY <1>0, <2>1, <3>1, BridgesEnded
  <2>3. CASE yb[b] = NoY
    BY <1>0, <1>3, <2>1, <2>3, BridgesCalm DEF Decline
  <2> QED
    BY <2>2, <2>3
<1>4. ASSUME NEW b \in Bridges, SweepY(b) PROVE BridgesInv'
  <2>1. b \in AtY
    BY <1>4 DEF SweepY, OverAtY, AtY
  <2>2. /\ SendToX(<<Close(b)>>) /\ yb' = DropY(yb, b) /\ yIndex' = 0
        /\ UNCHANGED <<xb, xIndex, made, placing, toY, caller>>
    BY <1>4 DEF SweepY, xVars
  <2> QED
    BY <1>0, <2>1, <2>2, BridgesEnded
<1> QED
  BY <1>1, <1>2, <1>3, <1>4

LEMMA BridgesTime ==
  ASSUME BridgesInv, RelayTypeOK', RelayTick \/ LinkDies
  PROVE  BridgesInv'
<1>1. CASE RelayTick
  <2>1. /\ xb' = [b \in Bridges |-> IF xb[b] = NoX THEN NoX ELSE Older(xb[b])]
        /\ yb' = [b \in Bridges |-> IF yb[b] = NoY THEN NoY ELSE Older(yb[b])]
        /\ UNCHANGED <<xIndex, made, placing, yIndex, toX, toY, lossy, caller>>
    BY <1>1 DEF RelayTick, netVars
  <2>2. xb \in [Bridges -> XRecord] /\ yb \in [Bridges -> YRecord] /\ Dialled
    BY DEF BridgesInv, RelayTypeOK
  <2>3. ASSUME NEW b \in Bridges, xb[b] # NoX
        PROVE  xb'[b].eph = xb[b].eph /\ xb'[b].outcome = xb[b].outcome
    BY <2>1, <2>2, <2>3 DEF Older, XRecord
  <2>4. ASSUME NEW b \in Bridges, yb[b] # NoY PROVE yb'[b].eph = yb[b].eph
    BY <2>1, <2>2, <2>4 DEF Older, YRecord
  <2>5. ASSUME NEW b \in Bridges
        PROVE  /\ xb[b] = NoX <=> xb'[b] = NoX
               /\ yb[b] = NoY <=> yb'[b] = NoY
    <3>1. (xb[b] = NoX => xb'[b] = NoX) /\ (yb[b] = NoY => yb'[b] = NoY)
      BY <2>1
    <3>2. (xb[b] # NoX => xb[b].eph # 0) /\ (yb[b] # NoY => yb[b].eph # 0)
      BY <2>2 DEF Dialled, AtX, AtY
    <3>3. NoX.eph = 0 /\ NoY.eph = 0
      BY DEF NoX, NoY
    <3> QED
      BY <2>3, <2>4, <3>1, <3>2, <3>3
  <2>6. /\ AtX' = AtX /\ OverAlready' = OverAlready /\ AtY' = AtY
        /\ \A b \in AtX' : xb'[b].eph = xb[b].eph
        /\ \A b \in AtY' : yb'[b].eph = yb[b].eph
    <3>1. NoX.outcome = "none"
      BY DEF NoX
    <3> QED
      BY <2>3, <2>4, <2>5, <3>1 DEF AtX, OverAlready, AtY
  <2>7. Dialled'
    BY <2>1, <2>2, <2>6 DEF Dialled
  <2>8. XIndexed' /\ (YIndexed => YIndexed') /\ (Agreed => Agreed')
    BY <2>1, <2>6 DEF BridgesInv, XIndexed, YIndexed, Agreed
  <2> QED
    BY <2>1, <2>7, <2>8 DEF BridgesInv
<1>2. CASE LinkDies
  <2>1. /\ toX' = <<>> /\ toY' = <<>> /\ lossy' = (lossy \/ toX # <<>> \/ toY # <<>>)
        /\ UNCHANGED <<xb, xIndex, yb, yIndex, made, placing, caller>>
    BY <1>2 DEF LinkDies, xVars, yVars
  <2>2. AtX' = AtX /\ OverAlready' = OverAlready /\ AtY' = AtY
    BY <2>1 DEF AtX, OverAlready, AtY
  <2>3. Dialled'
    <3>1. AllDialled(<<>>)
      BY EmptySeq DEF AllDialled
    <3> QED
      BY <2>1, <2>2, <3>1 DEF BridgesInv, Dialled
  <2>4. XIndexed' /\ (YIndexed => YIndexed') /\ (~lossy' => ~lossy)
    BY <2>1, <2>2 DEF BridgesInv, XIndexed, YIndexed
  <2>5. Agreed /\ ~lossy' => Agreed'
    BY <2>1, <2>2 DEF Agreed
  <2> QED
    BY <2>3, <2>4, <2>5 DEF BridgesInv
<1> QED
  BY <1>1, <1>2

(* It is so at first.                                                      *)
LEMMA BridgesInit == RelayInit => BridgesInv
<1> SUFFICES ASSUME RelayInit PROVE BridgesInv
  OBVIOUS
<1>1. RelayTypeOK
  BY RelayTypeInit
<1>2. NoX.outcome = "none" /\ made = 0 /\ caller.state = "idle"
  BY DEF RelayInit, NoX
<1>3. AtX = {} /\ OverAlready = {} /\ AtY = {} /\ toX = <<>> /\ toY = <<>> /\ placing = {}
  BY <1>2 DEF RelayInit, AtX, OverAlready, AtY
<1>4. Len(<<>>) = 0 /\ 1..0 = {}
  BY EmptySeq
<1>5. \A kinds, b, i : ~At(<<>>, kinds, b, i)
  BY <1>4 DEF At
<1>6. \A b, i : ~Live({}, <<>>, b, i) /\ ~Over({}, <<>>, b, i)
  BY <1>5 DEF Live, Over
<1>7. Dialled
  BY <1>2, <1>3, <1>4 DEF Dialled, AllDialled
<1>8. MadeOnly({}, {}, 0, <<>>, <<>>)
  BY <1>4 DEF MadeOnly
<1>9. /\ OneAtX({}, {}) /\ OneToken({}, {}, <<>>, <<>>) /\ Standing({}, {}, {}, <<>>, <<>>)
      /\ Leaving({}, {}, <<>>) /\ Apart({}, <<>>) /\ Closed({}, <<>>) /\ Answering({}, <<>>)
  BY <1>5, <1>6 DEF OneAtX, OneToken, Standing, Leaving, Apart, Closed, Answering
<1>10. <<>> \in Seq(Message)
  BY EmptySeq
<1>11. Agreed
  BY <1>2, <1>3, <1>8, <1>9, <1>10 DEF Agreed, Agree
<1> QED
  BY <1>1, <1>3, <1>7, <1>11 DEF BridgesInv, XIndexed, YIndexed

(* Every step of the two exchanges keeps it.                               *)
LEMMA BridgesNext == BridgesInv /\ [RelayNext]_relayVars => BridgesInv'
<1> SUFFICES ASSUME BridgesInv, [RelayNext]_relayVars PROVE BridgesInv'
  OBVIOUS
<1>0. RelayTypeOK'
  BY RelayTypeNext DEF BridgesInv
<1>1. CASE Dial \/ GiveUp \/ CallerRebuilds \/ UNCHANGED relayVars
  BY <1>0, <1>1, BridgesIdle
<1>2. CASE PollReports \/ PollPlaces
  BY <1>0, <1>2, BridgesPolls
<1>3. CASE CallerHangsUp
  BY <1>0, <1>3, BridgesHungUp
<1>4. ASSUME NEW e \in placing, PlaceFails(e) \/ PlaceLost(e) PROVE BridgesInv'
  BY <1>0, <1>4, BridgesIdle
<1>5. ASSUME NEW e \in placing, PlaceInsert(e) PROVE BridgesInv'
  BY <1>0, <1>5, BridgesInsert
<1>6. CASE Deliver
  <2>1. CASE InviteRefused \/ InviteTaken \/ CloseAtY
    BY <1>0, <2>1, BridgesArrive
  <2>2. CASE AcceptAtX \/ RejectAtX \/ CloseAtX
    BY <1>0, <2>2, BridgesAnswered
  <2> QED
    BY <1>6, <2>1, <2>2 DEF Deliver
<1>7. ASSUME NEW d \in Devs, DevOpens(d) \/ DevAnswersAgain(d) \/ DevWaits(d) \/ DevGivesUp(d)
      PROVE  BridgesInv'
  BY <1>0, <1>7, BridgesIdle
<1>8. ASSUME NEW d \in Devs, DevAnswers(d) \/ DevHangsUp(d) \/ \E b \in rung[d] : Decline(d, b)
      PROVE  BridgesInv'
  BY <1>0, <1>8, BridgesDevice
<1>9. CASE Sweep
  <2>1. PICK b \in Bridges : SweepX(b) \/ SweepY(b)
    BY <1>9 DEF Sweep
  <2>2. CASE SweepX(b)
    BY <1>0, <2>2, BridgesHungUp
  <2>3. CASE SweepY(b)
    BY <1>0, <2>3, BridgesDevice
  <2> QED
    BY <2>1, <2>2, <2>3
<1>10. CASE RelayTick \/ LinkDies
  BY <1>0, <1>10, BridgesTime
<1> QED
  BY <1>1, <1>2, <1>3, <1>4, <1>5, <1>6, <1>7, <1>8, <1>9, <1>10 DEF RelayNext

(* What it says to the reader of a bridge.                                 *)
LEMMA BridgesImply == BridgesInv => BridgesAgree
<1> SUFFICES ASSUME BridgesInv PROVE BridgesAgree
  OBVIOUS
<1>1. 1..made \subseteq Bridges
  BY RelayAssumption DEF BridgesInv, RelayTypeOK, Bridges
<1>2. FarSideIsTold
  <2> SUFFICES ASSUME NEW b \in 1..made, ~lossy
               PROVE  /\ yb[b] # NoY /\ xb[b] = NoX => Pending("close", b, toY)
                      /\ xb[b] # NoX /\ yb[b] = NoY =>
                            \/ Pending("invite", b, toY)
                            \/ Pending("close", b, toX) \/ Pending("reject", b, toX)
                            \/ xb[b].outcome = "rejected"
    BY DEF FarSideIsTold
  <2>0. b \in Bridges /\ Agree(AtX, OverAlready, AtY, made, toX, toY)
    BY <1>1 DEF BridgesInv, Agreed
  <2>1. ASSUME yb[b] # NoY, xb[b] = NoX PROVE Pending("close", b, toY)
    <3>1. b \in Bridges \ AtX /\ Live(AtY, toY, b, 0)
      BY <2>0, <2>1 DEF AtX, AtY, Live
    <3>2. PICK k \in Nat : At(toY, {"close"}, b, k)
      BY <2>0, <3>1 DEF Agree, Leaving
    <3> QED
      BY <3>2 DEF At, Pending
  <2>2. ASSUME xb[b] # NoX, yb[b] = NoY
        PROVE  \/ Pending("invite", b, toY)
               \/ Pending("close", b, toX) \/ Pending("reject", b, toX)
               \/ xb[b].outcome = "rejected"
    <3>1. b \in AtX /\ b \notin AtY
      BY <2>0, <2>2 DEF AtX, AtY
    <3>2. PICK i \in Nat : Live(AtY, toY, b, i) \/ Over(OverAlready, toX, b, i)
      BY <2>0, <3>1 DEF Agree, Standing
    <3>3. At(toY, {"invite"}, b, i) \/ At(toX, Ending, b, i) \/ b \in OverAlready
      BY <3>1, <3>2 DEF Live, Over
    <3> QED
      BY <3>3 DEF At, Pending, Ending, OverAlready
  <2> QED
    BY <2>1, <2>2
<1>3. RingingIsIndexed
  BY DEF RingingIsIndexed, BridgesInv, YIndexed, AtY
<1> QED
  BY <1>2, <1>3 DEF BridgesAgree

(* Neither exchange keeps half of a bridged call, and one that rings can   *)
(* be answered, unless the message that says otherwise is on its way or    *)
(* was lost: for any bridges and devices, calls that replace one another,  *)
(* both sides hanging up at once and sweeps on either side (close_bridge,  *)
(* decline, expire and on_control, relay.rs).                              *)
THEOREM BridgesAgreeAlways == RelaySpec => []BridgesAgree
<1> QED
  BY BridgesInit, BridgesNext, BridgesImply, PTL DEF RelaySpec
=============================================================================
