------------------------------- MODULE MCLive -------------------------------
(***************************************************************************)
(* What an exchange owes to those who listen: the two streams it writes to *)
(* -- a device's events, with the wake-ups of the devices that hold none,  *)
(* and the operator's tail -- each with a reader that may fall behind, and *)
(* the requests it holds open, a member's fetch and a replica's wait. They *)
(* share no state: `focus` names the one that moves in a behaviour.        *)
(***************************************************************************)
EXTENDS Events, TailStream, Waiting, TLC

CONSTANTS s1, d1, u1, w1, c1, c2, request, refusal

VARIABLE focus

OneStream == s1 :> d1
OneAccount == d1 :> u1
OneKind == w1 :> {request}

(* A peer that may pull both channels, or none of those it names.          *)
SomePullable == {{c1, c2}, {}}

(* Where the loop's connection is lost: under a wait of `run`, in the      *)
(* checks of what holds, and of run_moved, in the one of what does not.    *)
LostByRun == {<<"configured", "waiting">>}
LostByRunMoved == {<<"moved", "waiting">>}

LiveInit ==
    /\ focus \in {"events", "wakes", "tail", "pulls", "fetches"}
    /\ EvInit /\ TailInit /\ WaitingInit
    /\ focus # "pulls" => loop = "configured" /\ mayPull = WChannels

(* The hints without the wake-ups, and fewer hints with them. *)
NobodyWaits == row' = row /\ evClock' = evClock
FewHints == hints' < MaxHints

LiveNext ==
    /\ UNCHANGED focus
    /\ \/ focus = "events" /\ EvNext /\ NobodyWaits /\ UNCHANGED <<tailVars, waitVars>>
       \/ focus = "wakes" /\ EvNext /\ FewHints /\ UNCHANGED <<tailVars, waitVars>>
       \/ focus = "tail" /\ TailNext /\ UNCHANGED <<evVars, waitVars>>
       \/ focus = "pulls" /\ WaitingNext /\ UNCHANGED <<fetch, member, evVars, tailVars>>
       \/ focus = "fetches" /\ WaitingNext /\ UNCHANGED <<loopVars, evVars, tailVars>>

(* No task of the other stream ever starts, so its fairness asks nothing. *)
LiveSpec ==
    /\ LiveInit /\ [][LiveNext]_<<focus, evVars, tailVars, waitVars>>
    /\ EvFairness /\ TailFairness /\ WaitingFairness
=============================================================================
