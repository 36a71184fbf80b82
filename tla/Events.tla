------------------------------- MODULE Events -------------------------------
(***************************************************************************)
(* Event streams and wake-ups: sqexd/src/events.rs, wake.rs, serve_events  *)
(* and tell of server.rs, and the wake rows of device.rs.                  *)
(*                                                                         *)
(* A publisher walks the subscriptions under the lock of the map; the pump *)
(* of a stream takes no lock, so its steps come between the publisher's    *)
(* look at the queue and its mark on the flag.                             *)
(***************************************************************************)
EXTENDS Naturals, Sequences, FiniteSets

CONSTANTS
    Slots,          \* streams that may be open
    DeviceOf,       \* [Slots -> device]: the device a stream is opened from
    EvAccountOf,    \* [devices -> account]
    QUEUE,          \* hints held for one subscriber
    MaxPerIdentity, \* streams of one account
    WakeMinSecs,    \* between two wakes of one absence
    WakeTtl,        \* how long a wake registration stands
    MaxHints,       \* bound: hints published
    MaxEvTime,      \* bound: the clock
    Resync, Heartbeat, NoSlot  \* what the pump writes besides hints; no stream

ASSUME EventsAssumption ==
    /\ QUEUE \in Nat \ {0} /\ MaxHints \in Nat /\ MaxEvTime \in Nat
    /\ MaxPerIdentity \in Nat /\ WakeMinSecs \in Nat \ {0} /\ WakeTtl \in Nat
    /\ DOMAIN DeviceOf = Slots
    /\ Resync \notin Nat /\ Heartbeat \notin Nat /\ Resync # Heartbeat
    /\ NoSlot \notin Slots

Devices == {DeviceOf[s] : s \in Slots}
EvAccounts == {EvAccountOf[d] : d \in Devices}
Hints == 1..MaxHints

VARIABLES
    phase,     \* phase[s]: where the task of stream s is
    queue,     \* queue[s]: the bounded channel
    behind,    \* behind[s]: the flag
    writing,   \* writing[s]: what the pump writes
    lost,      \* history: lost[s], the hints s will not be given
    byDevice,  \* streams counted per device
    hints,     \* hints published so far; a hint is its number
    pub,       \* the publisher under the lock: its hint, whom it has not looked at, whom it found full
    told,      \* the waker's channel
    waker,     \* what the waker is doing: the devices it has not decided on
    row,       \* row[d]: the wake registration, until = 0 when there is none
    evClock,
    lastPost   \* history: when d was posted to in its present absence, 0 if not

streamVars == <<phase, queue, behind, writing, lost>>
wakeVars == <<told, waker, row, evClock, lastPost>>
evVars == <<streamVars, byDevice, hints, pub, wakeVars>>

Free == [hint |-> 0, todo |-> {}, full |-> NoSlot]
Idle == [todo |-> {}, urgent |-> FALSE, now |-> 0]
NoRow == [until |-> 0, woken |-> 0]
Subscribed == {s \in Slots : phase[s] \notin {"off", "release"}}
StreamsOf(a) == {s \in Subscribed : EvAccountOf[DeviceOf[s]] = a}

EvInit ==
    /\ phase = [s \in Slots |-> "off"]
    /\ queue = [s \in Slots |-> <<>>]
    /\ behind = [s \in Slots |-> FALSE]
    /\ writing = [s \in Slots |-> Heartbeat]
    /\ lost = [s \in Slots |-> {}]
    /\ byDevice = [d \in Devices |-> 0]
    /\ hints = 0 /\ pub = Free
    /\ told = <<>> /\ waker = Idle
    /\ row = [d \in Devices |-> NoRow]
    /\ evClock = 1
    /\ lastPost = [d \in Devices |-> 0]
-----------------------------------------------------------------------------
(* subscribe, before the response head goes out. *)
Subscribe(s) ==
    LET d == DeviceOf[s] IN
    /\ pub = Free /\ phase[s] = "off"
    /\ Cardinality(StreamsOf(EvAccountOf[d])) < MaxPerIdentity
    /\ phase' = [phase EXCEPT ![s] = "head"]
    /\ byDevice' = [byDevice EXCEPT ![d] = @ + 1]
    /\ lastPost' = [lastPost EXCEPT ![d] = 0]
    /\ UNCHANGED <<queue, behind, writing, lost, hints, pub, told, waker, row, evClock>>

(* The head is out and the pump starts. *)
SendHead(s) ==
    /\ phase[s] = "head"
    /\ phase' = [phase EXCEPT ![s] = "loop"]
    /\ UNCHANGED <<queue, behind, writing, lost, byDevice, hints, pub, wakeVars>>

(* unsubscribe: the stream is forgotten with its queue. `onLast` is what   *)
(* the task does next when it was the device's last one.                   *)
Unsubscribe(s, onLast) ==
    LET d == DeviceOf[s]
        left == IF byDevice[d] = 0 THEN 0 ELSE byDevice[d] - 1 IN
    /\ pub = Free
    /\ byDevice' = [byDevice EXCEPT ![d] = left]
    /\ phase' = [phase EXCEPT ![s] = IF left = 0 THEN onLast ELSE "off"]
    /\ queue' = [queue EXCEPT ![s] = <<>>]
    /\ behind' = [behind EXCEPT ![s] = FALSE]
    /\ lost' = [lost EXCEPT ![s] = {}]
    /\ UNCHANGED <<writing, hints, pub, wakeVars>>

(* The client was gone before the head: nothing is released. *)
HeadFails(s) == phase[s] = "head" /\ Unsubscribe(s, "off")
StreamEnds(s) == phase[s] = "ended" /\ Unsubscribe(s, "release")

(* released: the interval is over -- under another lock, after the stream *)
(* is forgotten.                                                          *)
Released(s) ==
    /\ phase[s] = "release"
    /\ phase' = [phase EXCEPT ![s] = "off"]
    /\ row' = [row EXCEPT ![DeviceOf[s]].woken = 0]
    /\ lastPost' = [lastPost EXCEPT ![DeviceOf[s]] = 0]
    /\ UNCHANGED <<queue, behind, writing, lost, byDevice, hints, pub, told, waker, evClock>>
-----------------------------------------------------------------------------
(* The pump. The flag is looked at before anything is read, and the mark   *)
(* is taken down before the backlog is thrown away.                        *)
PumpLooks(s) ==
    /\ phase[s] = "loop"
    /\ phase' = [phase EXCEPT ![s] = IF behind[s] THEN "drain" ELSE "select"]
    /\ behind' = [behind EXCEPT ![s] = FALSE]
    /\ UNCHANGED <<queue, writing, lost, byDevice, hints, pub, wakeVars>>

PumpDrains(s) ==
    /\ phase[s] = "drain" /\ queue[s] # <<>>
    /\ lost' = [lost EXCEPT ![s] = @ \cup {Head(queue[s])}]
    /\ queue' = [queue EXCEPT ![s] = Tail(@)]
    /\ UNCHANGED <<phase, behind, writing, byDevice, hints, pub, wakeVars>>

Writes(s, what) ==
    /\ writing' = [writing EXCEPT ![s] = what]
    /\ phase' = [phase EXCEPT ![s] = "write"]

PumpDrained(s) ==
    /\ phase[s] = "drain" /\ queue[s] = <<>>
    /\ Writes(s, Resync)
    /\ UNCHANGED <<queue, behind, lost, byDevice, hints, pub, wakeVars>>

PumpReceives(s) ==
    /\ phase[s] = "select" /\ queue[s] # <<>>
    /\ Writes(s, Head(queue[s]))
    /\ queue' = [queue EXCEPT ![s] = Tail(@)]
    /\ UNCHANGED <<behind, lost, byDevice, hints, pub, wakeVars>>

(* The interval ticks, whether or not a hint is waiting. *)
PumpBeatsMutant(s) ==
    /\ phase[s] = "select" /\ queue[s] # <<>>
    /\ Writes(s, Heartbeat)
    /\ UNCHANGED <<queue, behind, lost, byDevice, hints, pub, wakeVars>>

PumpBeats(s) ==
    /\ phase[s] = "select"
    /\ Writes(s, Heartbeat)
    /\ UNCHANGED <<queue, behind, lost, byDevice, hints, pub, wakeVars>>

WriteOk(s) ==
    /\ phase[s] = "write"
    /\ phase' = [phase EXCEPT ![s] = "loop"]
    /\ lost' = [lost EXCEPT ![s] = IF writing[s] = Resync THEN {} ELSE @]
    /\ UNCHANGED <<queue, behind, writing, byDevice, hints, pub, wakeVars>>

(* The client went away. *)
WriteFails(s) ==
    /\ phase[s] = "write"
    /\ phase' = [phase EXCEPT ![s] = "ended"]
    /\ UNCHANGED <<queue, behind, writing, lost, byDevice, hints, pub, wakeVars>>
-----------------------------------------------------------------------------
(* tell: publish to the streams of an account, then tell the waker. A      *)
(* signal or a cursor wakes nobody; a ring is urgent.                      *)
Publish(a, kind) ==
    /\ pub = Free /\ hints < MaxHints
    /\ hints' = hints + 1
    /\ pub' = [hint |-> hints + 1, todo |-> StreamsOf(a), full |-> NoSlot]
    /\ told' = IF kind = "signal" THEN told
               ELSE Append(told, [account |-> a, urgent |-> kind = "ring"])
    /\ UNCHANGED <<streamVars, byDevice, waker, row, evClock, lastPost>>

(* One subscription: skipped when it owes a resync already, sent to when   *)
(* there is room. A full queue is marked in the next step: the pump may    *)
(* come between.                                                           *)
Offer(s) ==
    LET room == Len(queue[s]) < QUEUE IN
    /\ s \in pub.todo /\ pub.full = NoSlot
    /\ lost' = [lost EXCEPT ![s] = IF behind[s] \/ ~room THEN @ \cup {pub.hint} ELSE @]
    /\ queue' = [queue EXCEPT ![s] = IF ~behind[s] /\ room THEN Append(@, pub.hint) ELSE @]
    /\ pub' = [pub EXCEPT !.todo = @ \ {s}, !.full = IF ~behind[s] /\ ~room THEN s ELSE NoSlot]
    /\ UNCHANGED <<phase, behind, writing, byDevice, hints, wakeVars>>

MarkBehindMutant ==
    /\ pub.full # NoSlot
    /\ pub' = [pub EXCEPT !.full = NoSlot]
    /\ UNCHANGED <<streamVars, byDevice, hints, wakeVars>>

MarkBehind ==
    /\ pub.full # NoSlot
    /\ behind' = [behind EXCEPT ![pub.full] = TRUE]
    /\ pub' = [pub EXCEPT !.full = NoSlot]
    /\ UNCHANGED <<phase, queue, writing, lost, byDevice, hints, wakeVars>>

PublishDone ==
    /\ pub # Free /\ pub.todo = {} /\ pub.full = NoSlot
    /\ pub' = Free
    /\ UNCHANGED <<streamVars, byDevice, hints, wakeVars>>
-----------------------------------------------------------------------------
(* register_wake: a registration made again keeps the time of its last wake. *)
RegisterWakeMutant(d) ==
    /\ row' = [row EXCEPT ![d] = [until |-> evClock + WakeTtl, woken |-> 0]]
    /\ UNCHANGED <<streamVars, byDevice, hints, pub, told, waker, evClock, lastPost>>

RegisterWake(d) ==
    /\ row' = [row EXCEPT ![d].until = evClock + WakeTtl]
    /\ UNCHANGED <<streamVars, byDevice, hints, pub, told, waker, evClock, lastPost>>

(* forget_wake: asked for, or the distributor answered 404 or 410. *)
ForgetWake(d) ==
    /\ row[d] # NoRow
    /\ row' = [row EXCEPT ![d] = NoRow]
    /\ lastPost' = [lastPost EXCEPT ![d] = 0]
    /\ UNCHANGED <<streamVars, byDevice, hints, pub, told, waker, evClock>>

(* The waker takes one notice, reads the clock and the rows of the devices. *)
WakerTakes ==
    /\ waker = Idle /\ told # <<>>
    /\ LET live == {d \in Devices : EvAccountOf[d] = Head(told).account /\ row[d].until >= evClock} IN
       waker' = IF live = {} THEN Idle
                ELSE [todo |-> {[device |-> d, woken |-> row[d].woken] : d \in live},
                      urgent |-> Head(told).urgent, now |-> evClock]
    /\ told' = Tail(told)
    /\ UNCHANGED <<streamVars, byDevice, hints, pub, row, evClock, lastPost>>

(* For one of them: does it listen, was it woken lately -- else post. *)
Posts(it) == byDevice[it.device] = 0 /\ (waker.urgent \/ waker.now - it.woken >= WakeMinSecs)

WakerDecides(it) ==
    LET d == it.device IN
    /\ it \in waker.todo
    /\ waker' = IF waker.todo = {it} THEN Idle ELSE [waker EXCEPT !.todo = @ \ {it}]
    /\ row' = IF Posts(it) /\ row[d] # NoRow THEN [row EXCEPT ![d].woken = evClock] ELSE row
    /\ lastPost' = [lastPost EXCEPT ![d] = IF Posts(it) /\ row[d] # NoRow THEN evClock ELSE @]
    /\ UNCHANGED <<streamVars, byDevice, hints, pub, told, evClock>>

EvTick ==
    /\ evClock < MaxEvTime
    /\ evClock' = evClock + 1
    /\ UNCHANGED <<streamVars, byDevice, hints, pub, told, waker, row, lastPost>>

PumpStep(s) ==
    \/ PumpLooks(s) \/ PumpDrains(s) \/ PumpDrained(s) \/ PumpReceives(s)
    \/ PumpBeats(s) \/ WriteOk(s) \/ WriteFails(s)

TaskStep(s) == SendHead(s) \/ HeadFails(s) \/ StreamEnds(s) \/ Released(s) \/ PumpStep(s)

PublisherStep == (\E s \in Slots: Offer(s)) \/ MarkBehind \/ PublishDone

EvNext ==
    \/ \E s \in Slots: Subscribe(s) \/ TaskStep(s)
    \/ \E a \in EvAccounts, kind \in {"entry", "signal", "ring"}: Publish(a, kind)
    \/ PublisherStep
    \/ \E d \in Devices: RegisterWake(d) \/ ForgetWake(d)
    \/ WakerTakes
    \/ \E it \in waker.todo: WakerDecides(it)
    \/ EvTick

EvSpec == EvInit /\ [][EvNext]_evVars

(* The tasks of a stream and the publisher run on; the choice between a    *)
(* hint and the beat is tokio's select!, which is random: a hint that      *)
(* waits is not passed over for ever.                                      *)
EvFairness ==
    /\ \A s \in Slots: WF_evVars(TaskStep(s)) /\ SF_evVars(PumpReceives(s))
    /\ WF_evVars(PublisherStep)
-----------------------------------------------------------------------------
(* In one absence -- it begins when the release of the last stream is      *)
(* recorded -- a device is posted to once an interval, rings excepted,     *)
(* whatever it registers again in between.                                 *)
WakeSpacing ==
    [][\A d \in Devices:
         lastPost'[d] > lastPost[d] /\ lastPost[d] # 0 /\ ~waker.urgent
         => lastPost'[d] - lastPost[d] >= WakeMinSecs]_evVars

(* What is owed to a reader, as the promise of HintStream has it. *)
Owed(s) ==
    {queue[s][i] : i \in 1..Len(queue[s])} \cup lost[s]
    \cup {h \in Hints : phase[s] \in {"write", "ended"} /\ writing[s] = h}

Promise == INSTANCE HintStream WITH
    HSlots <- Slots, HHints <- Hints, hOpen <- Subscribed, hOwed <- [s \in Slots |-> Owed(s)]

(* The streams keep the promise of HintStream: every hint published to an  *)
(* open stream is written, or a resync is written after it was dropped, or *)
(* the stream ends.                                                        *)
KeepsHintPromise == Promise!HSpec
=============================================================================
