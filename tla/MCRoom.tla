------------------------------- MODULE MCRoom -------------------------------
(***************************************************************************)
(* Who is in: the accounts that have a seat in a channel, the devices that *)
(* act for an account and hand each other what they hold, and the prekeys  *)
(* by which others reach a device. They share no state and are checked     *)
(* side by side: `focus` names the one that moves in a behaviour.          *)
(***************************************************************************)
EXTENDS Channel, Registry, SiblingSync, Prekeys, TLC

CONSTANTS room, hall, alice, bob, carol, phone, peer, hx, ox, old, new, p1, p2, chan, past

VARIABLE focus

PairAccountOf == (phone :> alice) @@ (bob :> bob)
TwoRooms == (room :> {}) @@ (hall :> {})

As(who, role) == [account |-> who, role |-> role]
CarolInvites == {<<>>, <<As(carol, "member")>>, <<As(bob, "member"), As(carol, "member")>>}
BobBlocksAlice == {<<bob, alice>>}

(* What p1 and p2 hold when they meet; the first entry of a channel is of  *)
(* its first epoch, and the others of its second.                          *)
Epochs == [x \in {chan, past} \X (1..Top) |-> IF x[2] = 1 THEN 1 ELSE 2]
Has(c, g, keys, in) ==
    [entries |-> (chan :> c) @@ (past :> g),
     keys |-> (chan :> keys) @@ (past :> keys),
     life |-> (chan :> IF c = {} THEN 0 ELSE in) @@ (past :> 1),
     blobs |-> {<<chan, e>> : e \in {f \in c : Epochs[chan, f] \in keys}}]
Whole == Has({1, 2, 3}, {}, {1, 2}, 2)
Meetings ==
    {(p1 :> Whole) @@ (p2 :> Has(c, {}, keys, 2)) :
        c \in {{}, {2, 3}, {3}}, keys \in {{}, {1}, {1, 3}}}
    \cup {(p1 :> Whole) @@ (p2 :> Has({1, 2, 3}, {}, {2, 3}, 2))}
    \cup {(p1 :> Has({}, {1, 2}, {1, 2}, 2)) @@ (p2 :> Has({}, g, {3}, 2)) : g \in {{}, {1}}}
    \cup {(p1 :> Has({1, 2}, {}, {2}, 1)) @@ (p2 :> Has({}, {}, {}, 2))}
SecondNames == {<<chan, 2>>}

RoomInit ==
    /\ focus \in {"room", "carried", "claims", "siblings", "prekeys"}
    /\ Init /\ RegistryInit /\ SyncInit /\ PrekeysInit
    /\ focus # "siblings" => stock = (p1 :> Whole) @@ (p2 :> Has({}, {}, {}, 2))

(* One device at two exchanges, or two devices at one exchange where the   *)
(* account is passed on.                                                   *)
OneDevice == claims' = {} /\ \A c \in creds' : c.delegate = p1
OneRegistry == wire' = {} /\ device'[ox] = device[ox] /\ \A k \in claims' : k.at = hx

RoomNext ==
    /\ UNCHANGED focus
    /\ focus # "prekeys" => UNCHANGED prekeyVars
    /\ \/ focus = "room" /\ Next /\ UNCHANGED <<registryVars, syncVars>>
       \/ focus = "carried" /\ RegistryNext /\ OneDevice /\ UNCHANGED <<vars, syncVars>>
       \/ focus = "claims" /\ RegistryNext /\ OneRegistry /\ UNCHANGED <<vars, syncVars>>
       \/ focus = "siblings" /\ SyncNext /\ UNCHANGED <<vars, registryVars>>
       \/ focus = "prekeys" /\ PrekeysNext /\ UNCHANGED <<vars, registryVars, syncVars>>

RoomSpec == RoomInit /\ [][RoomNext]_<<focus, vars, registryVars, syncVars, prekeyVars>>
=============================================================================
