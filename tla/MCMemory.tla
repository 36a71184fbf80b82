------------------------------ MODULE MCMemory ------------------------------
(***************************************************************************)
(* What an exchange keeps in memory behind mutexes for those who would     *)
(* come in or meet: the admission queue, the sessions of two identities    *)
(* and their introductions, and the buckets its rate limits are counted    *)
(* in; one request on its way through the routes; and the messages they    *)
(* are asked in, every one of sqex-proto. These share no state and are     *)
(* checked side by side: `focus` names the one that moves in a behaviour.  *)
(***************************************************************************)
EXTENDS Admission, Sessions, Rendezvous, Limits, Wire, Routes, TLC

ChannelWire == INSTANCE WireChannel
AccountWire == INSTANCE WireAccount
StoreWire == INSTANCE WireStores

AllLayouts ==
    ChannelWire!ChannelLayouts \cup AccountWire!PeerLayouts \cup AccountWire!AccountLayouts
        \cup StoreWire!StoreLayouts \cup ChannelWire!LiveLayouts

VARIABLE focus

MemoryInit ==
    /\ focus \in {"admission", "sessions", "rendezvous", "limits", "routes", "wire"}
    /\ AdmissionInit /\ SessionInit /\ RendezvousInit /\ LimitsInit
    /\ IF focus = "routes" THEN RoutesInit ELSE NoRequest
    /\ IF focus = "wire" THEN WireInit ELSE sent = "nothing" /\ bytes = -1 /\ read = "unread"

MemoryNext ==
    /\ UNCHANGED focus
    /\ \/ focus = "admission" /\ AdmissionNext /\ UNCHANGED <<sessionVars, rendezvousVars, limitVars, routeVars, wireVars>>
       \/ focus = "sessions" /\ SessionNext /\ UNCHANGED <<admissionVars, rendezvousVars, limitVars, routeVars, wireVars>>
       \/ focus = "rendezvous" /\ RendezvousNext /\ UNCHANGED <<admissionVars, sessionVars, limitVars, routeVars, wireVars>>
       \/ focus = "limits" /\ LimitsNext /\ UNCHANGED <<admissionVars, sessionVars, rendezvousVars, routeVars, wireVars>>
       \/ focus = "routes" /\ RoutesNext /\ UNCHANGED <<admissionVars, sessionVars, rendezvousVars, limitVars, wireVars>>
       \/ focus = "wire" /\ WireNext /\ UNCHANGED <<admissionVars, sessionVars, rendezvousVars, limitVars, routeVars>>

MemorySpec ==
    MemoryInit /\ [][MemoryNext]_<<focus, admissionVars, sessionVars, rendezvousVars, limitVars, routeVars, wireVars>>

(* Devices are interchangeable, and so are accounts. *)
Alike == Permutations(Devices) \cup Permutations(Accounts)
=============================================================================
