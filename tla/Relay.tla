-------------------------------- MODULE Relay --------------------------------
(***************************************************************************)
(* A call between two exchanges: sqexd/src/relay.rs at the caller's        *)
(* exchange X and at the callee's exchange Y, one caller and one target,   *)
(* the control stream between them, and the clients that poll. A bridge is *)
(* known to an end by the record it keeps; a record's age is what `expire` *)
(* computes from the time it was made.                                     *)
(*                                                                         *)
(* What only decides whether a call is let through (discovery, the peer    *)
(* list of X, the calls limit, the ceiling on bridges, which other calls   *)
(* fill) is a choice to refuse.                                            *)
(***************************************************************************)
EXTENDS Naturals, Sequences, FiniteSets

CONSTANTS
    Devs,       \* devices of the account that is called
    NoDev,      \* no device
    Addressees, \* what a target names: NoDev for the account, or one device
    Listings,   \* who lists whom: functions [{"x", "y"} -> BOOLEAN]
    RingTTL,    \* RINGING_TTL_SECS
    CallTTL,    \* the session's TTL_SECS
    MaxBridges, \* bound: bridges made
    MaxDials,   \* bound: ephemerals of the caller
    MaxOpens    \* bound: ephemerals of a device

ASSUME RelayAssumption ==
    /\ Listings \subseteq [{"x", "y"} -> BOOLEAN]
    /\ NoDev \notin Devs /\ Addressees \subseteq Devs \cup {NoDev}
    /\ RingTTL \in Nat /\ CallTTL \in Nat /\ RingTTL < CallTTL
    /\ MaxBridges \in Nat /\ MaxDials \in Nat /\ MaxOpens \in Nat

Bridges == 1..MaxBridges
NoX == [eph |-> 0, outcome |-> "none", callee |-> NoDev, calleeEph |-> 0, age |-> 0, signed |-> FALSE]
NoY == [eph |-> 0, callee |-> NoDev, calleeEph |-> 0, age |-> 0]
NoCall == [bridge |-> 0, peer |-> NoDev, theirs |-> 0]
Msg(kind, b, eph, d, note) == [kind |-> kind, bridge |-> b, eph |-> eph, dev |-> d, note |-> note]

VARIABLES
    addressed,  \* what the target names
    lists,      \* lists[e]: exchange e lists the other as its peer
    xb, xIndex, \* the bridges of X, and the one indexed under the caller and the target
    yb, yIndex, \* the bridges of Y, and the one indexed under the caller and the account
    made,       \* bridges made so far
    placing,    \* place_call between its two locks: the ephemerals it runs for
    linked,     \* the link is up
    toX, toY,   \* its control stream
    caller,     \* the caller: its state, its ephemeral, the call it is in
    dev,        \* dev[d]: the same of a device
    rung,       \* rung[d]: the rings d has not acted on
    pending,    \* pending[d]: the ephemeral d offers the caller at Y's sessions
    lossy       \* history: a control message was lost

xVars == <<xb, xIndex, made, placing>>
yVars == <<yb, yIndex, rung, pending>>
netVars == <<linked, toX, toY, lossy>>
relayVars == <<addressed, lists, xVars, yVars, netVars, caller, dev>>

RelayInit ==
    /\ addressed \in Addressees
    /\ lists \in Listings
    /\ xb = [b \in Bridges |-> NoX] /\ xIndex = 0
    /\ yb = [b \in Bridges |-> NoY] /\ yIndex = 0
    /\ made = 0 /\ placing = {}
    /\ linked = FALSE /\ toX = <<>> /\ toY = <<>> /\ lossy = FALSE
    /\ caller = [state |-> "idle", eph |-> 0, call |-> NoCall]
    /\ dev = [d \in Devs |-> [state |-> "idle", eph |-> 0, call |-> NoCall]]
    /\ rung = [d \in Devs |-> {}]
    /\ pending = [d \in Devs |-> 0]

(* send_control, of several messages in order: without a link they go      *)
(* nowhere.                                                                *)
SendToY(up, msgs) ==
    /\ toY' = IF up THEN toY \o msgs ELSE toY
    /\ lossy' = (lossy \/ (~up /\ msgs # <<>>))
SendToX(msgs) ==
    /\ toX' = IF linked THEN toX \o msgs ELSE toX
    /\ lossy' = (lossy \/ (~linked /\ msgs # <<>>))

Close(b) == Msg("close", b, 0, NoDev, "ended")
Invite(b, e, word) == Msg("invite", b, e, NoDev, IF word THEN "signed" ELSE "plain")
Reject(b, reason) == Msg("reject", b, 0, NoDev, reason)
Accept(b, e, d) == Msg("accept", b, e, d, "answered")

(* drop_bridge: the record goes, and the index with it. *)
DropX(bridges, b) == [bridges EXCEPT ![b] = NoX]
DropY(bridges, b) == [bridges EXCEPT ![b] = NoY]

(* The older call under this index, of another ephemeral, is closed. *)
Replaced(e) == {b \in Bridges : xIndex = b /\ xb[b] # NoX /\ xb[b].eph # e}
CloseAll(bs) == IF bs = {} THEN <<>> ELSE <<Close(CHOOSE b \in bs : TRUE)>>
(* expire: X knows a call that connected by its outcome, which Y never     *)
(* sets. Either tells the other.                                           *)
OverAtX == {b \in Bridges : xb[b] # NoX /\
              xb[b].age > (IF xb[b].outcome = "established" THEN CallTTL ELSE RingTTL)}
OverAtY == {b \in Bridges : yb[b] # NoY /\ yb[b].age > RingTTL}
-----------------------------------------------------------------------------
(* The caller dials: a fresh ephemeral, and polls from then on. *)
Dial ==
    /\ caller.state = "idle" /\ caller.eph < MaxDials
    /\ caller' = [state |-> "waiting", eph |-> caller.eph + 1, call |-> NoCall]
    /\ UNCHANGED <<addressed, lists, xVars, yVars, netVars, dev>>

(* It gives up, or its connection dies: nobody is told. *)
GiveUp ==
    /\ caller.state \in {"waiting", "asking"}
    /\ caller' = [caller EXCEPT !.state = "idle"]
    /\ UNCHANGED <<addressed, lists, xVars, yVars, netVars, dev>>

(* What an answer makes of the caller that waits for it. *)
Answered(rec, b) ==
    caller' = CASE rec.outcome = "established" ->
                     [caller EXCEPT !.state = "in",
                        !.call = [bridge |-> b, peer |-> rec.callee, theirs |-> rec.calleeEph]]
                [] rec.outcome = "rejected" -> [caller EXCEPT !.state = "idle"]
                [] OTHER -> [caller EXCEPT !.state = "waiting"]

(* place_call, first lock, after what is over was dropped: a poll of the   *)
(* call that is indexed is told where it stands, a refusal once. Anything  *)
(* else is a new call, which closes the one before it.                     *)
SameCallMutant(e) == xIndex # 0
SameCall(e) == xIndex # 0 /\ xb[xIndex].eph = e

PollReports ==
    /\ caller.state = "waiting" /\ SameCall(caller.eph) /\ OverAtX = {}
    /\ Answered(xb[xIndex], xIndex)
    /\ LET over == xb[xIndex].outcome = "rejected" IN
       /\ xb' = IF over THEN DropX(xb, xIndex) ELSE xb
       /\ xIndex' = IF over THEN 0 ELSE xIndex
    /\ UNCHANGED <<addressed, lists, made, placing, yVars, netVars, dev>>

PollPlaces ==
    LET e == caller.eph IN
    /\ caller.state = "waiting" /\ ~SameCall(e) /\ OverAtX = {}
    /\ SendToY(linked, CloseAll(Replaced(e)))
    /\ xb' = [b \in Bridges |-> IF b \in Replaced(e) THEN NoX ELSE xb[b]]
    /\ xIndex' = IF Replaced(e) # {} THEN 0 ELSE xIndex
    /\ placing' = placing \cup {e}
    /\ caller' = [caller EXCEPT !.state = "asking"]
    /\ UNCHANGED <<addressed, lists, made, yVars, linked, toX, dev>>

(* No such peer, nobody it may call, no room, no link. *)
PlaceFails(e) ==
    /\ e \in placing
    /\ placing' = placing \ {e}
    /\ caller' = IF caller.state = "asking" /\ caller.eph = e
                 THEN [caller EXCEPT !.state = "idle"] ELSE caller
    /\ UNCHANGED <<addressed, lists, xb, xIndex, made, yVars, netVars, dev>>

(* Second lock, the link being up: another request may have placed it. *)
PlaceLost(e) ==
    /\ e \in placing /\ SameCall(e)
    /\ placing' = placing \ {e}
    /\ linked' = TRUE
    /\ IF caller.state = "asking" /\ caller.eph = e THEN Answered(xb[xIndex], xIndex) ELSE UNCHANGED caller
    /\ UNCHANGED <<addressed, lists, xb, xIndex, made, yVars, toX, toY, lossy, dev>>

(* The call that is replaced is closed before the invite goes out; the     *)
(* word travels only to a peer that is not listed.                         *)
MessagesUnclosed(e, b, worded) == <<Invite(b, e, worded)>>
MessagesSwapped(e, b, worded) == <<Invite(b, e, worded)>> \o CloseAll(Replaced(e))
Messages(e, b, worded) == CloseAll(Replaced(e)) \o <<Invite(b, e, worded)>>

PlaceInsert(e) ==
    LET b == made + 1
        worded == addressed = NoDev /\ ~lists["x"] IN
    /\ e \in placing /\ ~SameCall(e) /\ made < MaxBridges
    /\ made' = b
    /\ xb' = [[c \in Bridges |-> IF c \in Replaced(e) THEN NoX ELSE xb[c]] EXCEPT
                ![b] = [NoX EXCEPT !.eph = e, !.outcome = "ringing", !.signed = worded]]
    /\ xIndex' = b
    /\ placing' = placing \ {e}
    /\ linked' = TRUE
    /\ SendToY(TRUE, Messages(e, b, worded))
    /\ caller' = IF caller.state = "asking" /\ caller.eph = e
                 THEN [caller EXCEPT !.state = "waiting"] ELSE caller
    /\ UNCHANGED <<addressed, lists, yVars, toX, dev>>

(* close_bridge, by the party on this side. *)
CallerHangsUp ==
    LET b == caller.call.bridge IN
    /\ caller.state = "in"
    /\ IF xb[b] # NoX /\ xb[b].calleeEph # 0
       THEN /\ SendToY(linked, <<Close(b)>>)
            /\ xb' = DropX(xb, b) /\ xIndex' = 0
       ELSE UNCHANGED <<xb, xIndex, toY, lossy>>
    /\ caller' = [caller EXCEPT !.state = "idle", !.call = NoCall]
    /\ UNCHANGED <<addressed, lists, made, placing, yVars, linked, toX, dev>>

(* A caller in a room throws away a session that fell silent. *)
CallerRebuilds ==
    /\ caller.state = "in" /\ addressed # NoDev
    /\ caller' = [caller EXCEPT !.state = "idle", !.call = NoCall]
    /\ UNCHANGED <<addressed, lists, xVars, yVars, netVars, dev>>
-----------------------------------------------------------------------------
(* on_control at Y. *)
Arrives(kind, chan) == chan # <<>> /\ Head(chan).kind = kind

(* An invite is refused: no word where one is needed, a word that does not *)
(* ring, no room, nobody to hear it.                                       *)
InviteRefused ==
    LET msg == Head(toY) IN
    /\ Arrives("invite", toY)
    /\ toY' = Tail(toY)
    /\ \E reason \in {"refused", "unreachable"}: SendToX(<<Reject(msg.bridge, reason)>>)
    /\ UNCHANGED <<addressed, lists, xVars, yVars, linked, caller, dev>>

(* It rings the account's devices; or, sent to one device, it is answered  *)
(* on the spot when that device has opened toward the caller already.      *)
InviteTaken ==
    LET msg == Head(toY)
        b == msg.bridge
        waiting == IF addressed = NoDev THEN 0 ELSE pending[addressed] IN
    /\ Arrives("invite", toY)
    /\ msg.note = "signed" \/ lists["y"] \/ addressed # NoDev
    /\ toY' = Tail(toY)
    /\ yb' = [yb EXCEPT ![b] = [NoY EXCEPT !.eph = msg.eph, !.calleeEph = waiting,
                                           !.callee = IF waiting # 0 THEN addressed ELSE NoDev]]
    /\ yIndex' = b
    /\ rung' = [d \in Devs |-> IF addressed = NoDev THEN rung[d] \cup {b} ELSE rung[d]]
    /\ SendToX(IF waiting = 0 THEN <<>> ELSE <<Accept(b, waiting, addressed)>>)
    /\ UNCHANGED <<addressed, lists, xVars, pending, linked, caller, dev>>

(* Close at Y: the party on it is told, by a datagram that may be lost. *)
CloseAtY ==
    LET b == Head(toY).bridge IN
    /\ Arrives("close", toY)
    /\ toY' = Tail(toY)
    /\ dev' \in {dev, [d \in Devs |-> IF yb[b] # NoY /\ yb[b].callee = d /\ dev[d].call.bridge = b
                                      THEN [dev[d] EXCEPT !.state = "idle", !.call = NoCall] ELSE dev[d]]}
    /\ yb' = DropY(yb, b)
    /\ yIndex' = IF yb[b] # NoY THEN 0 ELSE yIndex
    /\ UNCHANGED <<addressed, lists, xVars, rung, pending, linked, toX, lossy, caller>>

(* The same of X. *)
AcceptAtX ==
    LET msg == Head(toX)
        b == msg.bridge IN
    /\ Arrives("accept", toX)
    /\ toX' = Tail(toX)
    /\ xb' = IF xb[b] = NoX THEN xb
             ELSE [xb EXCEPT ![b].outcome = "established", ![b].callee = msg.dev, ![b].calleeEph = msg.eph]
    /\ UNCHANGED <<addressed, lists, xIndex, made, placing, yVars, linked, toY, lossy, caller, dev>>

(* A plain invite that was refused is sent again on the caller's word,     *)
(* once.                                                                   *)
Resends(msg) ==
    LET rec == xb[msg.bridge] IN
    msg.note = "refused" /\ rec # NoX /\ ~rec.signed /\ addressed = NoDev

RejectAtX ==
    LET msg == Head(toX)
        b == msg.bridge IN
    /\ Arrives("reject", toX)
    /\ toX' = Tail(toX)
    /\ IF Resends(msg)
       THEN /\ SendToY(linked, <<Invite(b, xb[b].eph, TRUE)>>)
            /\ xb' = [xb EXCEPT ![b].signed = TRUE]
       ELSE /\ xb' = IF xb[b] = NoX THEN xb ELSE [xb EXCEPT ![b].outcome = "rejected"]
            /\ UNCHANGED <<toY, lossy>>
    /\ UNCHANGED <<addressed, lists, xIndex, made, placing, yVars, linked, caller, dev>>

CloseAtX ==
    LET b == Head(toX).bridge IN
    /\ Arrives("close", toX)
    /\ toX' = Tail(toX)
    /\ caller' \in {caller, IF xb[b] # NoX /\ xb[b].calleeEph # 0 /\ caller.call.bridge = b
                            THEN [caller EXCEPT !.state = "idle", !.call = NoCall] ELSE caller}
    /\ xb' = DropX(xb, b)
    /\ xIndex' = IF xb[b] # NoX THEN 0 ELSE xIndex
    /\ UNCHANGED <<addressed, lists, made, placing, yVars, linked, toY, lossy, dev>>
-----------------------------------------------------------------------------
(* A device opens a session toward the caller: when it was rung, or when   *)
(* it meets the caller in a room.                                          *)
DevOpens(d) ==
    /\ dev[d].state = "idle" /\ dev[d].eph < MaxOpens
    /\ IF addressed = NoDev THEN rung[d] # {} ELSE addressed = d
    /\ rung' = [rung EXCEPT ![d] = {}]
    /\ dev' = [dev EXCEPT ![d] = [state |-> "opening", eph |-> @.eph + 1, call |-> NoCall]]
    /\ UNCHANGED <<addressed, lists, xVars, yb, yIndex, pending, netVars, caller>>

(* try_answer: the first device has the bridge, and may ask again. *)
InCall(d, b) == [dev EXCEPT ![d].state = "in", ![d].call = [bridge |-> b, peer |-> d, theirs |-> yb[b].eph]]
Mine(d) == yIndex # 0 /\ yb[yIndex] # NoY /\ addressed \in {NoDev, d}
Unanswered(b) == yb[b].callee = NoDev

DevAnswers(d) ==
    LET b == yIndex IN
    /\ dev[d].state = "opening" /\ Mine(d) /\ Unanswered(b)
    /\ yb' = [yb EXCEPT ![b].callee = d, ![b].calleeEph = dev[d].eph]
    /\ SendToX(<<Accept(b, dev[d].eph, d)>>)
    /\ dev' = InCall(d, b)
    /\ UNCHANGED <<addressed, lists, xVars, yIndex, rung, pending, linked, toY, caller>>

DevAnswersAgain(d) ==
    LET b == yIndex IN
    /\ dev[d].state = "opening" /\ Mine(d) /\ yb[b].callee = d
    /\ dev' = InCall(d, b)
    /\ UNCHANGED <<addressed, lists, xVars, yVars, netVars, caller>>

(* Nothing to answer: the open waits with the local sessions, where only  *)
(* an invite to this device looks for it.                                  *)
DevWaits(d) ==
    /\ dev[d].state = "opening" /\ addressed = d /\ pending[d] # dev[d].eph
    /\ Mine(d) => yb[yIndex].callee \notin {NoDev, d}
    /\ pending' = [pending EXCEPT ![d] = dev[d].eph]
    /\ UNCHANGED <<addressed, lists, xVars, yb, yIndex, rung, netVars, caller, dev>>

(* It stops asking; or, in a room, throws away a silent session. *)
DevGivesUp(d) ==
    /\ dev[d].state = "opening" \/ (dev[d].state = "in" /\ addressed = d)
    /\ dev' = [dev EXCEPT ![d].state = "idle", ![d].call = NoCall]
    /\ UNCHANGED <<addressed, lists, xVars, yVars, netVars, caller>>

DevHangsUp(d) ==
    LET b == dev[d].call.bridge IN
    /\ dev[d].state = "in"
    /\ IF yb[b] # NoY /\ yb[b].callee = d
       THEN /\ SendToX(<<Close(b)>>)
            /\ yb' = DropY(yb, b) /\ yIndex' = 0
       ELSE UNCHANGED <<yb, yIndex, toX, lossy>>
    /\ dev' = [dev EXCEPT ![d].state = "idle", ![d].call = NoCall]
    /\ UNCHANGED <<addressed, lists, xVars, rung, pending, linked, toY, caller>>

(* decline: any device of the account, whether or not one has answered. *)
Decline(d, b) ==
    /\ b \in rung[d]
    /\ rung' = [rung EXCEPT ![d] = @ \ {b}]
    /\ IF yb[b] # NoY
       THEN /\ SendToX(<<Reject(b, "declined")>>)
            /\ yb' = DropY(yb, b) /\ yIndex' = 0
       ELSE UNCHANGED <<yb, yIndex, toX, lossy>>
    /\ UNCHANGED <<addressed, lists, xVars, pending, linked, toY, caller, dev>>
-----------------------------------------------------------------------------
SweepX(b) ==
    /\ b \in OverAtX
    /\ SendToY(linked, <<Close(b)>>)
    /\ xb' = DropX(xb, b) /\ xIndex' = 0
    /\ UNCHANGED <<addressed, lists, made, placing, yVars, linked, toX, caller, dev>>

SweepY(b) ==
    /\ b \in OverAtY
    /\ SendToX(<<Close(b)>>)
    /\ yb' = DropY(yb, b) /\ yIndex' = 0
    /\ UNCHANGED <<addressed, lists, xVars, rung, pending, linked, toY, caller, dev>>

(* Time: as far as an age matters. *)
Older(rec) == [rec EXCEPT !.age = IF @ > CallTTL THEN @ ELSE @ + 1]

RelayTick ==
    /\ xb' = [b \in Bridges |-> IF xb[b] = NoX THEN NoX ELSE Older(xb[b])]
    /\ yb' = [b \in Bridges |-> IF yb[b] = NoY THEN NoY ELSE Older(yb[b])]
    /\ UNCHANGED <<addressed, lists, xIndex, made, placing, yIndex, rung, pending, netVars, caller, dev>>

(* The link dies with what it carries. *)
LinkDies ==
    /\ linked
    /\ linked' = FALSE /\ toX' = <<>> /\ toY' = <<>>
    /\ lossy' = (lossy \/ toX # <<>> \/ toY # <<>>)
    /\ UNCHANGED <<addressed, lists, xVars, yVars, caller, dev>>

Deliver == InviteRefused \/ InviteTaken \/ CloseAtY \/ AcceptAtX \/ RejectAtX \/ CloseAtX
Sweep == \E b \in Bridges: SweepX(b) \/ SweepY(b)

RelayNext ==
    \/ Dial \/ GiveUp \/ PollReports \/ PollPlaces \/ CallerHangsUp \/ CallerRebuilds
    \/ \E e \in placing: PlaceFails(e) \/ PlaceLost(e) \/ PlaceInsert(e)
    \/ Deliver
    \/ \E d \in Devs: DevOpens(d) \/ DevAnswers(d) \/ DevAnswersAgain(d) \/ DevWaits(d) \/ DevGivesUp(d) \/ DevHangsUp(d)
    \/ \E d \in Devs: \E b \in rung[d]: Decline(d, b)
    \/ Sweep \/ RelayTick \/ LinkDies

RelaySpec == RelayInit /\ [][RelayNext]_relayVars
-----------------------------------------------------------------------------

KeysAgree ==
    \A d \in Devs: caller.state = "in" /\ dev[d].state = "in" /\ caller.call.bridge = dev[d].call.bridge
        => /\ caller.call.peer = d
           /\ caller.call.theirs = dev[d].eph
           /\ dev[d].call.theirs = caller.eph

(* Caller and device of an answered call hold each other's ephemeral, and  *)
(* no second device is on it -- whatever the caller abandoned and dialled  *)
(* again in between (place_call: "both ends established, neither able to   *)
(* open a frame the other sealed").                                        *)
AccountCallKeys == addressed = NoDev => KeysAgree

(* The same of a pair in a room, which is invited device to device. *)
PairKeys == addressed # NoDev => KeysAgree

Pending(kind, b, chan) == \E i \in 1..Len(chan): chan[i].kind = kind /\ chan[i].bridge = b

(* A bridge that one exchange holds and the other does not is about to be  *)
(* told so, or a control message was lost: whoever hangs up, declines,     *)
(* gives up or redials, and in whatever order the messages cross.          *)
FarSideIsTold ==
    \A b \in 1..made: ~lossy =>
        /\ yb[b] # NoY /\ xb[b] = NoX => Pending("close", b, toY)
        /\ xb[b] # NoX /\ yb[b] = NoY =>
              \/ Pending("invite", b, toY)
              \/ Pending("close", b, toX) \/ Pending("reject", b, toX)
              \/ xb[b].outcome = "rejected"

(* A call that rings can be answered: the index of Y leads to it, unless a *)
(* control message was lost (try_answer looks nowhere else).               *)
RingingIsIndexed ==
    \A b \in Bridges: ~lossy /\ yb[b] # NoY /\ yb[b].callee = NoDev => yIndex = b

(* The two exchanges of a bridged call agree on it, but for a message on *)
(* its way or lost: neither keeps half of one, and one that rings can be *)
(* answered (close_bridge, decline, expire and on_control, relay.rs).    *)
BridgesAgree == FarSideIsTold /\ RingingIsIndexed

(* "A bridge that never connected goes after RINGING_TTL_SECS; one         *)
(* carrying a call follows SIP-12's own session TTL" (expire).             *)
ConnectedLasts ==
    [][\A b \in Bridges: SweepY(b) /\ yb[b].callee # NoDev => yb[b].age > CallTTL]_relayVars
=============================================================================
