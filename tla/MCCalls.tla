------------------------------- MODULE MCCalls -------------------------------
(***************************************************************************)
(* Voice between exchanges: a call bridged between two of them, and a room *)
(* shared by three. They share no state and are checked side by side:      *)
(* `focus` names the one that moves in a behaviour. The link between two   *)
(* of the exchanges goes only where nobody is in the room at the third.    *)
(***************************************************************************)
EXTENDS Relay, Rooms, TLC

CONSTANTS phone, tablet, A, B, C

VARIABLE focus

(* The caller's exchange lists the callee's, which does not list it back. *)
OneWay == {[x |-> TRUE, y |-> FALSE]}
OneEach == (1 :> A) @@ (2 :> B) @@ (3 :> C)
LinkAB == {{A, B}}

CallsInit ==
    /\ focus \in {"relay", "rooms", "cut"}
    /\ RelayInit /\ RoomInit
    /\ focus # "relay" => addressed = NoDev

CallsNext ==
    /\ UNCHANGED focus
    /\ \/ focus = "relay" /\ RelayNext /\ UNCHANGED roomVars
       \/ focus = "rooms" /\ RoomSteps /\ UNCHANGED relayVars
       \/ focus = "cut" /\ RoomNext /\ present'[3] = RoomTTL /\ UNCHANGED relayVars

CallsSpec == CallsInit /\ [][CallsNext]_<<focus, relayVars, roomVars>>
=============================================================================
