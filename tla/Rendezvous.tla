----------------------------- MODULE Rendezvous -----------------------------
(***************************************************************************)
(* Introductions: sqexd/src/rendezvous.rs and the route that asks for one, *)
(* for two parties that ask for each other over one address family or      *)
(* another. The wait is a task: it asks, asks again, takes the notifier    *)
(* and sleeps, each under its own lock.                                    *)
(***************************************************************************)
EXTENDS Naturals

CONSTANTS
    Parties,        \* the two
    Families,       \* address families
    PENDING_TTL,    \* how long a request stands
    StartLead,      \* START_LEAD_SECS
    MaxWait,        \* the longest wait a request may ask for
    MaxRTime        \* bound: the clock

ASSUME RendezvousAssumption ==
    /\ \E p, q \in Parties: p # q /\ Parties = {p, q}
    /\ PENDING_TTL \in Nat /\ StartLead \in Nat /\ MaxWait \in Nat /\ MaxRTime \in Nat
    /\ MaxWait < PENDING_TTL

VARIABLES
    asked,   \* asked[p][f]: p's request over f, at = 0 when there is none
    rTask,    \* rTask[p]: where the request of p that is being served is
    rTold,   \* rTold[p]: the last answer to p
    met,     \* history: while p waited the other was told Ready over p's family
    rClock

rendezvousVars == <<asked, rTask, rTold, met, rClock>>

NotAsking == [at |-> 0, start |-> 0]
Served == [at |-> "none", family |-> "none", until |-> 0]
Peer(p) == CHOOSE q \in Parties : q # p

RendezvousInit ==
    /\ asked = [p \in Parties |-> [f \in Families |-> NotAsking]]
    /\ rTask = [p \in Parties |-> Served]
    /\ rTold = [p \in Parties |-> [answer |-> "none", start |-> 0]]
    /\ met = [p \in Parties |-> FALSE]
    /\ rClock = 1

IsLiveMutant(a) == a # NotAsking /\ rClock - a.at + 1 < MaxWait
IsLive(a) == a # NotAsking /\ rClock - a.at < PENDING_TTL
StillAsked == [p \in Parties |-> [f \in Families |-> IF IsLive(asked[p][f]) THEN asked[p][f] ELSE NotAsking]]

Elsewhere(p, f) == \E g \in Families \ {f}: IsLive(asked[Peer(p)][g])
NotYet(p, f) == [answer |-> IF Elsewhere(p, f) THEN "no family" ELSE "waiting", start |-> 0]

(* request: recorded anew, and the pair complete if the other stands. One  *)
(* start for both: the one that is there already, if there is one.         *)
StartFor(p, f) ==
    LET theirs == StillAsked[Peer(p)][f] IN
    IF theirs.start # 0 THEN theirs.start ELSE rClock + StartLead

RequestMutant(p, f) ==
    IF StillAsked[Peer(p)][f] # NotAsking
    THEN [StillAsked EXCEPT ![p][f] = [at |-> rClock, start |-> rClock + StartLead]]
    ELSE [StillAsked EXCEPT ![p][f] = [at |-> rClock, start |-> 0]]
Request(p, f) ==
    IF StillAsked[Peer(p)][f] # NotAsking
    THEN [StillAsked EXCEPT ![p][f] = [at |-> rClock, start |-> StartFor(p, f)], ![Peer(p)][f].start = StartFor(p, f)]
    ELSE [StillAsked EXCEPT ![p][f] = [at |-> rClock, start |-> 0]]

RequestTold(p, f) ==
    IF StillAsked[Peer(p)][f] # NotAsking THEN [answer |-> "ready", start |-> StartFor(p, f)] ELSE NotYet(p, f)

(* notify_waiters wakes those that sleep on the notifier, and nobody else. *)
Woken(p, f) ==
    [t \in Parties |-> IF t # p /\ StillAsked[t][f] # NotAsking /\ rTask[t].at = "sleep"
                       THEN [rTask[t] EXCEPT !.at = "poll"] ELSE rTask[t]]

(* The other is in a wait over f, and p is told Ready. *)
Meets(p, f) ==
    [t \in Parties |-> met[t] \/ (t # p /\ RequestTold(p, f).answer = "ready"
                                  /\ rTask[t].at # "none" /\ rTask[t].family = f)]

(* The request that arrives over f, willing to wait until `until`; then    *)
(* the same asked again by `wait`.                                         *)
Asks(p, f, until, next) ==
    LET told == RequestTold(p, f)
        goesOn == told.answer = "waiting" /\ until > rClock IN
    /\ asked' = Request(p, f)
    /\ rTask' = [Woken(p, f) EXCEPT ![p] = IF goesOn THEN [at |-> next, family |-> f, until |-> until] ELSE Served]
    /\ rTold' = IF goesOn THEN rTold ELSE [rTold EXCEPT ![p] = told]
    /\ met' = [Meets(p, f) EXCEPT ![p] = @ /\ told.answer # "ready"]
    /\ UNCHANGED rClock

Introduce(p, f, wait) == rTask[p] = Served /\ Asks(p, f, rClock + wait, "again")
AsksAgain(p) == rTask[p].at = "again" /\ Asks(p, rTask[p].family, rTask[p].until, "notifier")

(* The notifier is taken after the answer: a wake-up in between is lost. *)
Sleeps(p) ==
    /\ rTask[p].at = "notifier"
    /\ rTask' = [rTask EXCEPT ![p].at = "sleep"]
    /\ UNCHANGED <<asked, rTold, met, rClock>>

(* poll: both stand, or not. *)
PollTold(p, f) ==
    LET mine == asked[p][f] IN
    IF IsLive(mine) /\ IsLive(asked[Peer(p)][f])
    THEN [answer |-> "ready", start |-> IF mine.start # 0 THEN mine.start ELSE rClock + StartLead]
    ELSE NotYet(p, f)

(* Woken, or the deadline: only the deadline answers `waiting`. *)
Polls(p) ==
    LET told == PollTold(p, rTask[p].family)
        late == rTask[p].at = "sleep" /\ rClock >= rTask[p].until IN
    /\ rTask[p].at = "poll" \/ late
    /\ IF late \/ told.answer # "waiting"
       THEN /\ rTask' = [rTask EXCEPT ![p] = Served]
            /\ rTold' = [rTold EXCEPT ![p] = told]
            /\ met' = [met EXCEPT ![p] = @ /\ told.answer # "ready"]
       ELSE /\ rTask' = [rTask EXCEPT ![p].at = "sleep"]
            /\ UNCHANGED <<rTold, met>>
    /\ UNCHANGED <<asked, rClock>>

SweepAsked ==
    /\ asked # StillAsked
    /\ asked' = StillAsked
    /\ UNCHANGED <<rTask, rTold, met, rClock>>

(* A deadline that has come is served before the clock moves on. *)
RendezvousTick ==
    /\ rClock < MaxRTime
    /\ \A p \in Parties: rTask[p] = Served \/ (rTask[p].at = "sleep" /\ rClock < rTask[p].until)
    /\ rClock' = rClock + 1
    /\ UNCHANGED <<asked, rTask, rTold, met>>

RendezvousNext ==
    \/ \E p \in Parties, f \in Families, wait \in 0..MaxWait: Introduce(p, f, wait)
    \/ \E p \in Parties: AsksAgain(p) \/ Sleeps(p) \/ Polls(p)
    \/ SweepAsked
    \/ RendezvousTick

RendezvousSpec == RendezvousInit /\ [][RendezvousNext]_rendezvousVars
-----------------------------------------------------------------------------
(* Two requests that stand for each other carry one moment to begin, "so   *)
(* both sides are told the same moment to begin" (Asked, rendezvous.rs).   *)
OneStart ==
    \A f \in Families:
        (\A p \in Parties: IsLive(asked[p][f])) =>
            \A p, q \in Parties: asked[p][f].start = asked[q][f].start /\ asked[p][f].start # 0

(* A party whose address was handed out while it waited is introduced in   *)
(* its turn, the wake-up lost or not: its wait does not end otherwise.     *)
BothIntroduced == \A p \in Parties: met[p] => rTask[p].at # "none"

(* Whoever waits while the other asks is introduced, and both begin at   *)
(* one moment (request and wait, rendezvous.rs).                         *)
IntroducedTogether == OneStart /\ BothIntroduced
=============================================================================
