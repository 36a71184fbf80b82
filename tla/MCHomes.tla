------------------------------ MODULE MCHomes ------------------------------
(***************************************************************************)
(* A channel's keys among its members' devices, and its place among the    *)
(* exchanges that copy it. They share no state: `focus` names the one that *)
(* moves in a behaviour.                                                   *)
(***************************************************************************)
EXTENDS EpochKeys, Rehome

CONSTANTS alice, bob

VARIABLE focus

Two == <<alice, bob>>

(* 2 and 3 copy from the creator, 3 from 2 as well. *)
Configured == {<<2, 1>>, <<3, 1>>, <<3, 2>>}

keysAndHomes == <<focus, vars, rehomeVars, boundVars>>

HomesInit == focus \in {"keys", "homes"} /\ Init /\ RehomeInit

HomesNext ==
  /\ UNCHANGED focus
  /\ \/ focus = "keys" /\ Next /\ UNCHANGED <<rehomeVars, boundVars>>
     \/ focus = "homes" /\ RehomeNext /\ UNCHANGED vars

(* A request a client is in the middle of ends, and a client that runs     *)
(* polls again and again, between whatever else it does (the mints in the  *)
(* model are finitely many). *)
KeysOnly(A) == focus = "keys" /\ A /\ UNCHANGED <<focus, rehomeVars, boundVars>>

KeysFairness ==
  \A d \in Devices : WF_keysAndHomes(KeysOnly(Works(d))) /\ SF_keysAndHomes(KeysOnly(Poll(d)))

HomesSpec == HomesInit /\ [][HomesNext]_keysAndHomes /\ KeysFairness
=============================================================================
