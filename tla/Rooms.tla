-------------------------------- MODULE Rooms --------------------------------
(***************************************************************************)
(* One voice room carried by several exchanges: sqexd/src/room.rs, the     *)
(* /room routes of server.rs and the shares of relay.rs. A member's home   *)
(* is the exchange it joins at; everybody names every other exchange to    *)
(* share with. Times are ages: what is TTL old is gone.                    *)
(***************************************************************************)
EXTENDS Naturals, Sequences, FiniteSets

CONSTANTS
    Exchanges,
    RMembers,     \* identities: numbers, which are what rosters are sorted by
    HomeOf,       \* [RMembers -> Exchanges]
    RoomTTL,      \* TTL_SECS
    SHARE_SECS,   \* between two shares while nothing changes
    ROOM_MEMBERS, \* MAX_MEMBERS of a room
    Leavers,      \* members that may leave or fall silent; the others keep their heartbeat
    FailingLinks  \* links, sets of two exchanges, that may go

ASSUME RoomsAssumption ==
    /\ RMembers \subseteq Nat /\ HomeOf \in [RMembers -> Exchanges]
    /\ RoomTTL \in Nat \ {0} /\ SHARE_SECS \in 0..RoomTTL
    /\ ROOM_MEMBERS \in Nat /\ Leavers \subseteq RMembers
    /\ FailingLinks \subseteq SUBSET Exchanges

VARIABLES
    present,   \* present[m]: age of m's last heartbeat, RoomTTL when it is not there
    sharers,   \* sharers[e]: the peers the room is shared with
    remote,    \* remote[e][p]: what p last said, and how old that is
    lastShare, \* lastShare[e]: age of e's last share
    owing,     \* owing[e]: the peers a share is on its way to
    goneFor    \* history: how long m has not been in the room, as far as it matters

roomVars == <<present, sharers, remote, lastShare, owing, goneFor>>

Nothing == [who |-> {}, age |-> RoomTTL]
Peers(e) == Exchanges \ {e}
Here(e) == {m \in RMembers : HomeOf[m] = e /\ present[m] < RoomTTL}
Lowest(S, n) == {m \in S : Cardinality({x \in S : x < m}) < n}

RoomInit ==
    /\ present = [m \in RMembers |-> RoomTTL]
    /\ sharers = [e \in Exchanges |-> {}]
    /\ remote = [e \in Exchanges |-> [p \in Exchanges |-> Nothing]]
    /\ lastShare = [e \in Exchanges |-> RoomTTL]
    /\ owing = [e \in Exchanges |-> {}]
    /\ goneFor = [m \in RMembers |-> 0]

(* What e knows of the room from elsewhere, and what a member is shown. *)
Heard(e, p) == IF remote[e][p].age < RoomTTL THEN remote[e][p].who ELSE {}
RosterAt(e) == Here(e) \cup UNION {Heard(e, p) : p \in sharers[e]}

(* view_for: what e tells p -- neither what p said nor who is at home there. *)
ViewForNotHome(e, p) == Lowest(Here(e) \cup UNION {Heard(e, q) : q \in sharers[e] \ {p}}, ROOM_MEMBERS)
ViewForEcho(e, p) ==
    LET others == {m \in UNION {Heard(e, q) : q \in sharers[e]} : HomeOf[m] # p} IN
    Lowest(Here(e) \cup others, ROOM_MEMBERS)
ViewFor(e, p) ==
    LET others == {m \in UNION {Heard(e, q) : q \in sharers[e] \ {p}} : HomeOf[m] # p} IN
    Lowest(Here(e) \cup others, ROOM_MEMBERS)
-----------------------------------------------------------------------------
(* join_shared, which is also the heartbeat. A share is due when something *)
(* changed or the last one is old enough.                                  *)
HasRoom(m) == m \in Here(HomeOf[m]) \/ Cardinality(Here(HomeOf[m])) < ROOM_MEMBERS

Heartbeat(m) ==
    LET e == HomeOf[m]
        due == m \notin Here(e) \/ sharers[e] # Peers(e) \/ lastShare[e] >= SHARE_SECS IN
    /\ HasRoom(m)
    /\ present' = [present EXCEPT ![m] = 0]
    /\ sharers' = [sharers EXCEPT ![e] = Peers(e)]
    /\ owing' = [owing EXCEPT ![e] = IF due THEN Peers(e) ELSE @]
    /\ goneFor' = [goneFor EXCEPT ![m] = 0]
    /\ UNCHANGED <<remote, lastShare>>

Leave(m) ==
    LET e == HomeOf[m] IN
    /\ m \in Here(e)
    /\ present' = [present EXCEPT ![m] = RoomTTL]
    /\ owing' = [owing EXCEPT ![e] = sharers[e]]
    /\ UNCHANGED <<sharers, remote, lastShare, goneFor>>

(* share_room makes the view for one peer, and take_share of that peer     *)
(* keeps it; the first share from a peer is answered with one.             *)
Share(e, p) ==
    LET fresh == e \notin sharers[p] IN
    /\ p \in owing[e]
    /\ lastShare' = [lastShare EXCEPT ![e] = 0]
    /\ remote' = [remote EXCEPT ![p][e] = [who |-> ViewFor(e, p), age |-> 0]]
    /\ sharers' = [sharers EXCEPT ![p] = @ \cup {e}]
    /\ owing' = [owing EXCEPT ![e] = @ \ {p}, ![p] = IF fresh THEN @ \cup {e} ELSE @]
    /\ UNCHANGED <<present, goneFor>>

(* The link is not there, or goes with the share. *)
NotShared(e, p) ==
    /\ p \in owing[e] /\ {e, p} \in FailingLinks
    /\ owing' = [owing EXCEPT ![e] = @ \ {p}]
    /\ UNCHANGED <<present, sharers, remote, lastShare, goneFor>>

(* forget_peer, at both ends of a link that went. *)
LinkGoes(e, p) ==
    /\ {e, p} \in FailingLinks /\ (remote[e][p] # Nothing \/ remote[p][e] # Nothing)
    /\ remote' = [remote EXCEPT ![e][p] = Nothing, ![p][e] = Nothing]
    /\ UNCHANGED <<present, sharers, lastShare, owing, goneFor>>

(* expire: what is old is gone already; a room with nobody here is         *)
(* forgotten a TTL after it was last shared.                               *)
ExpireRoom(e) ==
    /\ Here(e) = {} /\ lastShare[e] >= RoomTTL /\ sharers[e] # {}
    /\ sharers' = [sharers EXCEPT ![e] = {}]
    /\ remote' = [remote EXCEPT ![e] = [p \in Exchanges |-> Nothing]]
    /\ owing' = [owing EXCEPT ![e] = {}]
    /\ UNCHANGED <<present, lastShare, goneFor>>

(* One TTL for every exchange a share may have come through. *)
Longest == RoomTTL * (Cardinality(Exchanges) - 1)

Aged(a) == IF a < RoomTTL THEN a + 1 ELSE a

(* Seconds pass between shares, which take less. *)
RoomTick ==
    /\ \A e \in Exchanges: owing[e] = {}
    /\ present' = [m \in RMembers |-> IF m \in Leavers THEN Aged(present[m]) ELSE present[m]]
    /\ remote' = [e \in Exchanges |-> [p \in Exchanges |->
         IF Aged(remote[e][p].age) = RoomTTL THEN Nothing ELSE [remote[e][p] EXCEPT !.age = Aged(@)]]]
    /\ lastShare' = [e \in Exchanges |-> Aged(lastShare[e])]
    /\ goneFor' = [m \in RMembers |-> IF present[m] = RoomTTL /\ goneFor[m] < Longest THEN goneFor[m] + 1 ELSE goneFor[m]]
    /\ UNCHANGED <<sharers, owing>>

RoomSteps ==
    \/ \E m \in RMembers: Heartbeat(m)
    \/ \E m \in Leavers: Leave(m)
    \/ \E e, p \in Exchanges: Share(e, p)
    \/ \E e \in Exchanges: ExpireRoom(e)
    \/ RoomTick

RoomFaults == \E e, p \in Exchanges: NotShared(e, p) \/ LinkGoes(e, p)

RoomNext == RoomSteps \/ RoomFaults

RoomSpec == RoomInit /\ [][RoomNext]_roomVars
-----------------------------------------------------------------------------
(* Nobody hears from another exchange that one of its own is in the room:  *)
(* such an entry would outlive the member it names (view_for, "less what   *)
(* came from peer itself").                                                *)
OwnNotEchoed == \A e, p \in Exchanges: \A m \in remote[e][p].who: HomeOf[m] # e

(* Whoever left, or fell silent, is off every roster one TTL later for     *)
(* every other exchange at most: "the TTL is what actually removes people" *)
(* (leave), and what exchanges tell each other keeps nobody there. It is   *)
(* so for as many as three that share with each other.                     *)
GoneIsGone ==
    \A m \in RMembers: goneFor[m] >= Longest =>
        \A e \in Exchanges: m \notin RosterAt(e)

(* What exchanges tell each other of a room never keeps anyone in it     *)
(* (share_room, take_share and view_for, room.rs).                       *)
RosterIsCurrent == OwnNotEchoed /\ GoneIsGone
=============================================================================
