------------------------------ MODULE Waiting ------------------------------
(***************************************************************************)
(* Requests held open until something happens. An origin's channels change *)
(* (a write, then a ring of those parked on it: no ring is kept for one    *)
(* who parks later). A member's fetch is held at the origin                *)
(* (server.rs fetch_waiting); a replica's loop holds one wait over all its *)
(* channels (server.rs wait_for_changes), pulls when told, and otherwise   *)
(* lives by its interval (replica.rs run, run_moved, pause_or_wait,        *)
(* wait_any). The loop's connection is kept in the forwarder's slot and    *)
(* may be lost under it.                                                   *)
(*                                                                         *)
(* A pull takes what the origin holds at one moment: Copy has its parts.   *)
(* Bounds: MaxTop entries, MaxLost losses of a connection, one origin;     *)
(* time passes only as timers that fire.                                   *)
(***************************************************************************)
EXTENDS Integers, FiniteSets, FiniteSetsExt

CONSTANTS
    WChannels,      \* channels the replica copies from this origin
    Pullable,       \* the sets of channels this peer may be let pull
    Followed,       \* the channel a member's fetch is about
    LoopKinds,      \* "configured" (run) and "moved" (run_moved)
    Losable,        \* <<loop, where the loop is>> at which the connection may go
    MAX_WAITS_PER_PEER,
    MaxTop, MaxLost

ASSUME WaitingAssumption ==
    /\ Followed \in WChannels /\ LoopKinds \subseteq {"configured", "moved"}
    /\ MAX_WAITS_PER_PEER \in Nat \ {0}
    /\ MaxTop \in Nat /\ MaxLost \in Nat

VARIABLES
    top,            \* newest entry of each channel at the origin
    toRing,         \* channels written to and not rung yet
    mayPull,        \* channels this peer may pull
    spoilt,         \* entries <<channel, seq>> the replica will refuse
    loop,           \* which loop this is
    place,             \* where it is: "off", "dial", "pull", "pause", "waiting", "rest"
    slot,           \* the connection the forwarder keeps: "none", "good" or "dead"
    client,         \* the one the loop holds
    losses,           \* losses so far
    stored, shown,  \* newest entry kept, and newest one shown and refused
    waitsNow,       \* the origin may be asked to wait
    poked,          \* a ring kept for the loop
    wait,           \* the origin's side of the wait
    abandoned,      \* waits nobody listens to any more, still held there
    fetch,          \* the member's fetch
    member          \* the member may still read the channel it follows

originVars == <<top, toRing, mayPull, spoilt, member>>
loopVars == <<loop, place, slot, client, losses, stored, shown, waitsNow, poked, wait, abandoned>>
waitVars == <<originVars, loopVars, fetch>>

NoWait == [phase |-> "none", since |-> [c \in WChannels |-> 0], parked |-> {}, rung |-> {}, missed |-> {}]
NoFetch == [phase |-> "none", since |-> 0, signal |-> FALSE, rung |-> FALSE]

(* Entries the origin has ordered, in all its channels.                    *)
Ordered == FoldSet(LAMBDA c, n : n + top[c], 0, WChannels)

LargerOf(a, b) == IF a > b THEN a ELSE b

-----------------------------------------------------------------------------
(* The origin: a change is stored, then rung.                              *)

(* A message, perhaps one the replica will refuse, perhaps one a member    *)
(* sent through this replica, whose forwarder then pokes the loop.         *)
Post(c) ==
    /\ Ordered < MaxTop
    /\ top' = [top EXCEPT ![c] = @ + 1]
    /\ spoilt' \in {spoilt, spoilt \cup {<<c, top[c] + 1>>}}
    /\ poked' \in {poked, TRUE}
    /\ toRing' = toRing \cup {c}
    /\ UNCHANGED <<mayPull, member, loop, place, slot, client, losses, stored, shown, waitsNow,
                   wait, abandoned, fetch>>

(* A signal, a read mark or a redaction: no entry, but news to who waits.  *)
Signal(c) ==
    /\ toRing' = toRing \cup {c}
    /\ wait' = IF wait.phase = "held" THEN [wait EXCEPT !.missed = @ \cup {c}] ELSE wait
    /\ fetch' = IF c = Followed /\ fetch.phase # "none" THEN [fetch EXCEPT !.signal = TRUE] ELSE fetch
    /\ UNCHANGED <<top, mayPull, spoilt, member, loop, place, slot, client, losses, stored, shown, waitsNow, poked,
                   abandoned>>

(* The member is taken out, by an entry of the channel it follows.         *)
TakenOut ==
    /\ member /\ Ordered < MaxTop
    /\ member' = FALSE
    /\ top' = [top EXCEPT ![Followed] = @ + 1] /\ toRing' = toRing \cup {Followed}
    /\ UNCHANGED <<mayPull, spoilt, loopVars, fetch>>

(* Channels::wake: those parked are rung, and no ring is kept.             *)
Ring(c) ==
    /\ c \in toRing /\ toRing' = toRing \ {c}
    /\ wait' = IF c \in wait.parked THEN [wait EXCEPT !.rung = @ \cup {c}] ELSE wait
    /\ fetch' = IF c = Followed /\ fetch.phase # "none" THEN [fetch EXCEPT !.rung = TRUE] ELSE fetch
    /\ UNCHANGED <<top, mayPull, spoilt, member, loop, place, slot, client, losses, stored, shown,
                   waitsNow, poked, abandoned>>

-----------------------------------------------------------------------------
(* A member's fetch: parked, then a look; rung or out of time, parked      *)
(* again and then a look.                                                  *)

FetchNews == top[Followed] > fetch.since \/ fetch.signal \/ ~member

Answered == fetch' = NoFetch

FetchAsks ==
    /\ fetch.phase = "none"
    /\ \E since \in 0 .. top[Followed] :
          fetch' = [phase |-> "parked", since |-> since, signal |-> FALSE, rung |-> FALSE]
    /\ UNCHANGED <<originVars, loopVars>>

FetchLooks ==
    /\ fetch.phase = "parked"
    /\ IF FetchNews THEN Answered ELSE fetch' = [fetch EXCEPT !.phase = "held"]
    /\ UNCHANGED <<originVars, loopVars>>

(* Rung, and sleeps on without a look.                                     *)
FetchSleepsOn ==
    /\ fetch.phase = "held" /\ fetch.rung
    /\ fetch' = [fetch EXCEPT !.rung = FALSE]
    /\ UNCHANGED <<originVars, loopVars>>

(* The next park is on the list before this round looks.                   *)
FetchWakes ==
    /\ fetch.phase = "held" /\ fetch.rung
    /\ fetch' = [fetch EXCEPT !.phase = "parked", !.rung = FALSE]
    /\ UNCHANGED <<originVars, loopVars>>

FetchEnds == fetch.phase = "held" /\ Answered /\ UNCHANGED <<originVars, loopVars>>

-----------------------------------------------------------------------------
(* The origin's side of a replica's wait.                                  *)

(* Entries past what the caller named, of the channels it may pull.        *)
Watched == WChannels \cap mayPull
Past == {c \in Watched : top[c] > wait.since[c]}

OriginStep == UNCHANGED <<originVars, loop, place, slot, client, losses, stored, shown, waitsNow, poked,
                          abandoned, fetch>>

Parks(c) ==
    /\ wait.phase = "parking" /\ c \in Watched \ wait.parked
    /\ wait' = [wait EXCEPT !.parked = @ \cup {c}]
    /\ OriginStep

AllParked == wait.parked = Watched
SomeParked == wait.parked # {}

(* Looks as soon as one task is parked.                                    *)
LooksEarly ==
    /\ wait.phase = "parking" /\ SomeParked
    /\ wait' = [wait EXCEPT !.phase = IF Past # {} THEN "changed" ELSE "held"]
    /\ OriginStep

(* The look waits for every task to be parked.                             *)
LooksPast ==
    /\ wait.phase = "parking" /\ AllParked
    /\ wait' = [wait EXCEPT !.phase = IF Past # {} THEN "changed" ELSE "held"]
    /\ OriginStep

(* The first to be rung ends the wait, whatever kind of change rang it.    *)
WaitWoken ==
    /\ wait.phase = "held" /\ wait.rung # {}
    /\ wait' = [wait EXCEPT !.phase = "changed"]
    /\ OriginStep

WaitRunsOut ==
    /\ wait.phase = "held"
    /\ wait' = [wait EXCEPT !.phase = IF Past # {} THEN "changed" ELSE "quiet"]
    /\ OriginStep

(* Nothing tells the origin that a caller stopped listening: its wait is   *)
(* held, and counted against it, until it ends by itself.                  *)
AbandonedEnds ==
    /\ abandoned > 0 /\ abandoned' = abandoned - 1
    /\ UNCHANGED <<originVars, loop, place, slot, client, losses, stored, shown, waitsNow, poked, wait, fetch>>

Abandon ==
    /\ abandoned' = abandoned + (IF wait.phase \in {"parking", "held"} THEN 1 ELSE 0)
    /\ wait' = NoWait

-----------------------------------------------------------------------------
(* The replica's loop.                                                     *)

LoopStep == UNCHANGED <<originVars, loop, losses, fetch>>

(* The server starts its loops: one pulls first, the other rests first.    *)
Begin ==
    /\ place = "off" /\ place' = IF loop = "configured" THEN "dial" ELSE "rest"
    /\ LoopStep /\ UNCHANGED <<slot, client, stored, shown, waitsNow, poked, wait, abandoned>>

(* Forwarder::connection: what the slot keeps is handed out as it is.      *)
Dial ==
    /\ place = "dial" /\ place' = "pull"
    /\ slot' = IF slot = "none" THEN "good" ELSE slot
    /\ client' = slot'
    /\ LoopStep /\ UNCHANGED <<stored, shown, waitsNow, poked, wait, abandoned>>

(* A member's act through the forwarder: it dials where there is no        *)
(* connection, and forgets the one it found dead.                          *)
Forward ==
    /\ slot' = CASE slot = "none" -> "good" [] slot = "dead" -> "none" [] OTHER -> slot
    /\ LoopStep /\ UNCHANGED <<place, client, stored, shown, waitsNow, poked, wait, abandoned>>

Served(c) == {n \in 1 .. top[c] : c \in mayPull}
Taken(c) == {n \in Served(c) : <<c, n>> \notin spoilt}
Refused(c) == {n \in Served(c) : <<c, n>> \in spoilt}
Newest(S, old) == CHOOSE n \in S \cup {old} : \A k \in S \cup {old} : k <= n

(* pull_once_from over all the channels, and note_seen of the refused.     *)
Pull ==
    /\ place = "pull"
    /\ IF client = "dead"
       THEN /\ place' = "rest"
            /\ UNCHANGED <<stored, shown>>
       ELSE /\ place' = "pause"
            /\ stored' = [c \in WChannels |-> Newest(Taken(c), stored[c])]
            /\ shown' = [c \in WChannels |-> Newest(Refused(c), shown[c])]
    /\ LoopStep /\ UNCHANGED <<slot, client, waitsNow, poked, wait, abandoned>>

NamedStored(c) == stored[c]

(* What a wait names: the newest entry stored, or shown and refused.       *)
Named(c) == LargerOf(stored[c], shown[c])

(* The origin is asked to wait, and refuses one caller too many waits.     *)
Asks ==
    /\ place = "pause" /\ waitsNow /\ client = "good"
    /\ IF abandoned < MAX_WAITS_PER_PEER
       THEN /\ wait' = [NoWait EXCEPT !.phase = "parking", !.since = [c \in WChannels |-> Named(c)]]
            /\ place' = "waiting" /\ UNCHANGED waitsNow
       ELSE /\ waitsNow' = FALSE
            /\ place' = IF loop = "configured" THEN "pull" ELSE "pause"
            /\ UNCHANGED wait
    /\ LoopStep /\ UNCHANGED <<slot, client, stored, shown, poked, abandoned>>

(* Told of a change it pulls; told of none it believes that and waits on.  *)
Told ==
    /\ place = "waiting" /\ client = "good"
    /\ \/ wait.phase = "changed" /\ place' = IF loop = "configured" THEN "pull" ELSE "dial"
       \/ wait.phase = "quiet" /\ place' = "pause"
    /\ wait' = NoWait
    /\ LoopStep /\ UNCHANGED <<slot, client, stored, shown, waitsNow, poked, abandoned>>

(* A sweep falls due, or a poke arrives, while the origin waits.           *)
SafetyNet ==
    /\ place = "waiting" /\ client = "good"
    /\ \/ UNCHANGED poked
       \/ loop = "configured" /\ poked /\ poked' = FALSE
    /\ place' = IF loop = "configured" THEN "pull" ELSE "dial"
    /\ Abandon
    /\ LoopStep /\ UNCHANGED <<slot, client, stored, shown, waitsNow>>

(* Lost, and the dead connection kept.                                     *)
LostKept ==
    /\ place \in {"waiting", "pause"} /\ client = "dead" /\ waitsNow
    /\ place' = "rest" /\ wait' = NoWait
    /\ LoopStep /\ UNCHANGED <<slot, client, stored, shown, waitsNow, poked, abandoned>>

(* The wait was lost with the connection: `run` forgets the connection and *)
(* rests an interval; wait_any only lets the origin drop out.              *)
LostWaiting ==
    /\ place \in {"waiting", "pause"} /\ client = "dead" /\ waitsNow
    /\ place' = "rest"
    /\ slot' = IF loop = "configured" THEN "none" ELSE slot
    /\ wait' = NoWait
    /\ LoopStep /\ UNCHANGED <<client, stored, shown, waitsNow, poked, abandoned>>

(* No wait: the interval is the delivery, or a poke cuts it short.         *)
Interval ==
    /\ \/ place = "rest" /\ place' = "dial"
       \/ place = "pause" /\ ~waitsNow /\ place' = IF loop = "configured" THEN "pull" ELSE "dial"
    /\ poked' \in {poked, poked /\ loop = "moved"}
    /\ LoopStep /\ UNCHANGED <<slot, client, stored, shown, waitsNow, wait, abandoned>>

(* WAIT_RETRY after a refusal; run_moved asks again with its next cycle.   *)
RetryDue ==
    /\ ~waitsNow /\ (loop = "moved" => place = "dial")
    /\ waitsNow' = TRUE
    /\ LoopStep /\ UNCHANGED <<place, slot, client, stored, shown, poked, wait, abandoned>>

(* The connection goes while the loop is somewhere the run lets it go.     *)
LoseConnection ==
    /\ client = "good" /\ losses < MaxLost /\ <<loop, place>> \in Losable
    /\ client' = "dead" /\ losses' = losses + 1
    /\ slot' = IF slot = "good" THEN "dead" ELSE slot
    /\ Abandon
    /\ UNCHANGED <<originVars, loop, place, stored, shown, waitsNow, poked, fetch>>

-----------------------------------------------------------------------------

WaitingInit ==
    /\ top = [c \in WChannels |-> 0] /\ toRing = {}
    /\ mayPull \in Pullable /\ spoilt = {} /\ member = TRUE
    /\ loop \in LoopKinds /\ place = "off"
    /\ slot = "none" /\ client = "none" /\ losses = 0
    /\ stored = [c \in WChannels |-> 0] /\ shown = [c \in WChannels |-> 0]
    /\ waitsNow = TRUE /\ poked = FALSE
    /\ wait = NoWait /\ abandoned = 0
    /\ fetch = NoFetch

Changes == \E c \in WChannels : Post(c) \/ Signal(c) \/ Ring(c)
Fetches == TakenOut \/ FetchAsks \/ FetchLooks \/ FetchWakes \/ FetchEnds
Serves == (\E c \in WChannels : Parks(c)) \/ LooksPast \/ WaitWoken \/ WaitRunsOut \/ AbandonedEnds
Follows ==
    \/ Begin \/ Dial \/ Forward \/ Pull \/ Asks \/ Told \/ SafetyNet \/ LostWaiting \/ Interval \/ RetryDue
    \/ LoseConnection

WaitingNext == Changes \/ Fetches \/ Serves \/ Follows

(* A ring follows its write, the origin's tasks run, a wait runs out and   *)
(* the loop goes on. Neither the sweep, a poke nor a retry is counted on.  *)
WaitingFairness ==
    /\ \A c \in WChannels : WF_waitVars(Ring(c))
    /\ WF_waitVars((\E c \in WChannels : Parks(c)) \/ LooksPast \/ WaitWoken \/ WaitRunsOut)
    /\ WF_waitVars(AbandonedEnds)
    /\ WF_waitVars(Dial \/ Pull \/ Asks \/ Told \/ LostWaiting \/ Interval)

WaitingSpec == WaitingInit /\ [][WaitingNext]_waitVars /\ WaitingFairness

-----------------------------------------------------------------------------

(* Nothing is slept over: a request held at the origin that nobody has     *)
(* rung, or is about to ring, has nothing to be told -- no entry past what *)
(* it named, no signal since it looked, no loss of its right to ask        *)
(* (server.rs fetch_waiting, wait_for_changes). And a wait is about news:  *)
(* nothing the replica was already shown, refused or not, ends one.        *)
NothingSleptOver ==
    /\ fetch.phase = "held" /\ ~fetch.rung /\ Followed \notin toRing => ~FetchNews
    /\ wait.phase = "held" =>
          \A c \in Watched \ (toRing \cup wait.rung) : top[c] <= wait.since[c] /\ c \notin wait.missed
    /\ wait.phase \in {"changed", "held"} =>
          \A c \in WChannels : wait.since[c] = LargerOf(stored[c], shown[c])

(* The origin holds what this replica may pull and was not shown.          *)
HasNews == place # "off" /\ \E c \in mayPull : top[c] > LargerOf(stored[c], shown[c])

(* What an origin orders reaches the replica by the wait alone, without    *)
(* counting on the sweep -- through refused waits, waits nobody listens to *)
(* any more and connections lost while waiting (replica.rs run,            *)
(* pause_or_wait: the interval is "the safety net rather than the          *)
(* delivery").                                                             *)
NewsIsPulled == HasNews ~> ~HasNews

(* An origin whose connection is gone is dialled again (replica.rs         *)
(* wait_any: "that origin drops out of the waiting and is redialled by the *)
(* next cycle").                                                           *)
Redialled == slot = "dead" ~> slot # "dead"
=============================================================================
