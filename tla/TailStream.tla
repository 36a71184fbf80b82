----------------------------- MODULE TailStream -----------------------------
(***************************************************************************)
(* The operator's live view: sqexd/src/tail.rs and serve_tail of           *)
(* server.rs. A publisher walks the watchers under their lock; the pump    *)
(* shares two atomic counters with it and takes no lock.                   *)
(***************************************************************************)
EXTENDS Naturals, Sequences, FiniteSets

CONSTANTS
    Watchers,     \* tails that may be open
    KindsOf,      \* [Watchers -> SUBSET RecordKinds]: what each asked for
    RecordKinds,  \* kinds of records
    TailQUEUE,    \* lines held for one watcher
    MaxTails,     \* MAX_TAILS
    MaxRecords,   \* bound: records published
    MaxBeats      \* bound: heartbeats a watcher is sent

ASSUME TailAssumption ==
    /\ TailQUEUE \in Nat \ {0} /\ MaxTails \in Nat /\ MaxRecords \in Nat /\ MaxBeats \in Nat

VARIABLES
    tPhase,    \* where the task of a watcher is
    tQueue,    \* lines waiting, each its number
    tSeq,      \* the counter of lines, shared
    tDropped,  \* the counter of lines discarded, shared
    tWriting,  \* the line the pump writes: its number and what it tells
    tPub,      \* the publisher under the lock
    watching,  \* the flag read before the lock is taken
    tRecords, tBeats,  \* how many records and heartbeats so far
    offered,   \* history: records that were meant for the watcher
    seen       \* history: the lines written, [numbers, records, told]

tailVars == <<tPhase, tQueue, tSeq, tDropped, tWriting, tPub, watching, tRecords, tBeats, offered, seen>>

TFree == [todo |-> {}, at |-> "none", who |-> {}, number |-> 0, kind |-> "none"]
NothingSeen == [numbers |-> <<>>, records |-> 0, told |-> 0]
NoLine == [number |-> 0, tells |-> "beat", count |-> 0]
OpenTails == {w \in Watchers : tPhase[w] # "off"}

TailInit ==
    /\ tPhase = [w \in Watchers |-> "off"]
    /\ tQueue = [w \in Watchers |-> <<>>]
    /\ tSeq = [w \in Watchers |-> 0]
    /\ tDropped = [w \in Watchers |-> 0]
    /\ tWriting = [w \in Watchers |-> NoLine]
    /\ tPub = TFree /\ watching = FALSE
    /\ tRecords = 0 /\ tBeats = 0
    /\ offered = [w \in Watchers |-> 0]
    /\ seen = [w \in Watchers |-> NothingSeen]

OpenTail(w) ==
    /\ tPub = TFree /\ tPhase[w] = "off" /\ Cardinality(OpenTails) < MaxTails
    /\ tPhase' = [tPhase EXCEPT ![w] = "head"]
    /\ watching' = TRUE
    /\ UNCHANGED <<tQueue, tSeq, tDropped, tWriting, tPub, tRecords, tBeats, offered, seen>>

(* The head of the answer is sent, or the operator is already gone. *)
TailHead(w) ==
    /\ tPhase[w] = "head"
    /\ tPhase' \in {[tPhase EXCEPT ![w] = "loop"], [tPhase EXCEPT ![w] = "ended"]}
    /\ UNCHANGED <<tQueue, tSeq, tDropped, tWriting, tPub, watching, tRecords, tBeats, offered, seen>>

(* close, which forgets the watcher's queue and counters. *)
CloseTail(w) ==
    /\ tPub = TFree /\ tPhase[w] = "ended"
    /\ tPhase' = [tPhase EXCEPT ![w] = "off"]
    /\ watching' = (OpenTails # {w})
    /\ tQueue' = [tQueue EXCEPT ![w] = <<>>]
    /\ tSeq' = [tSeq EXCEPT ![w] = 0]
    /\ tDropped' = [tDropped EXCEPT ![w] = 0]
    /\ offered' = [offered EXCEPT ![w] = 0]
    /\ seen' = [seen EXCEPT ![w] = NothingSeen]
    /\ UNCHANGED <<tWriting, tPub, tRecords, tBeats>>
-----------------------------------------------------------------------------
(* publish: nothing is built while nobody watches. *)
PublishRecord(kind) ==
    /\ tPub = TFree /\ tRecords < MaxRecords
    /\ watching /\ OpenTails # {}
    /\ tRecords' = tRecords + 1
    /\ tPub' = [TFree EXCEPT !.todo = OpenTails, !.kind = kind]
    /\ UNCHANGED <<tPhase, tQueue, tSeq, tDropped, tWriting, watching, tBeats, offered, seen>>

(* One watcher: its number is taken before the line is sent, and given     *)
(* back when the queue turns out to be full.                               *)
TakeNumber(w) ==
    /\ w \in tPub.todo /\ tPub.at = "none"
    /\ LET wanted == tPub.kind \in KindsOf[w] IN
       /\ tPub' = [tPub EXCEPT !.todo = @ \ {w}, !.who = {w}, !.number = tSeq[w],
                               !.at = IF wanted THEN "send" ELSE "none"]
       /\ tSeq' = [tSeq EXCEPT ![w] = IF wanted THEN @ + 1 ELSE @]
       /\ offered' = [offered EXCEPT ![w] = IF wanted THEN @ + 1 ELSE @]
    /\ UNCHANGED <<tPhase, tQueue, tDropped, tWriting, watching, tRecords, tBeats, seen>>

SendLine(w) ==
    /\ tPub.at = "send" /\ w \in tPub.who
    /\ LET room == Len(tQueue[w]) < TailQUEUE IN
       /\ tQueue' = [tQueue EXCEPT ![w] = IF room THEN Append(@, tPub.number) ELSE @]
       /\ tPub' = [tPub EXCEPT !.at = IF room THEN "none" ELSE "undo"]
    /\ UNCHANGED <<tPhase, tSeq, tDropped, tWriting, watching, tRecords, tBeats, offered, seen>>

GiveBack(w) ==
    /\ tPub.at = "undo" /\ w \in tPub.who
    /\ tSeq' = [tSeq EXCEPT ![w] = @ - 1]
    /\ tPub' = [tPub EXCEPT !.at = "count"]
    /\ UNCHANGED <<tPhase, tQueue, tDropped, tWriting, watching, tRecords, tBeats, offered, seen>>

CountDropMutant(w) ==
    /\ tPub.at = "count" /\ w \in tPub.who
    /\ tDropped' = [tDropped EXCEPT ![w] = 1]
    /\ tPub' = [tPub EXCEPT !.at = "none"]
    /\ UNCHANGED <<tPhase, tQueue, tSeq, tWriting, watching, tRecords, tBeats, offered, seen>>

CountDrop(w) ==
    /\ tPub.at = "count" /\ w \in tPub.who
    /\ tDropped' = [tDropped EXCEPT ![w] = @ + 1]
    /\ tPub' = [tPub EXCEPT !.at = "none"]
    /\ UNCHANGED <<tPhase, tQueue, tSeq, tWriting, watching, tRecords, tBeats, offered, seen>>

PublishedRecord ==
    /\ tPub # TFree /\ tPub.todo = {} /\ tPub.at = "none"
    /\ tPub' = TFree
    /\ UNCHANGED <<tPhase, tQueue, tSeq, tDropped, tWriting, watching, tRecords, tBeats, offered, seen>>
-----------------------------------------------------------------------------
(* The pump: a count of what was dropped goes out before anything else. *)
PumpDropped(w) ==
    /\ tPhase[w] = "loop" /\ tDropped[w] > 0
    /\ tWriting' = [tWriting EXCEPT ![w] = [number |-> tSeq[w], tells |-> "dropped", count |-> tDropped[w]]]
    /\ tSeq' = [tSeq EXCEPT ![w] = @ + 1]
    /\ tDropped' = [tDropped EXCEPT ![w] = 0]
    /\ tPhase' = [tPhase EXCEPT ![w] = "write"]
    /\ UNCHANGED <<tQueue, tPub, watching, tRecords, tBeats, offered, seen>>

PumpWaits(w) ==
    /\ tPhase[w] = "loop" /\ tDropped[w] = 0
    /\ tPhase' = [tPhase EXCEPT ![w] = "select"]
    /\ UNCHANGED <<tQueue, tSeq, tDropped, tWriting, tPub, watching, tRecords, tBeats, offered, seen>>

PumpLine(w) ==
    /\ tPhase[w] = "select" /\ tQueue[w] # <<>>
    /\ tWriting' = [tWriting EXCEPT ![w] = [number |-> Head(tQueue[w]), tells |-> "record", count |-> 1]]
    /\ tQueue' = [tQueue EXCEPT ![w] = Tail(@)]
    /\ tPhase' = [tPhase EXCEPT ![w] = "write"]
    /\ UNCHANGED <<tSeq, tDropped, tPub, watching, tRecords, tBeats, offered, seen>>

(* The interval. The bound on beats keeps one for every drop that is still *)
(* to be told.                                                             *)
PumpBeatLineMutant(w) ==
    /\ tPhase[w] = "select" /\ tQueue[w] # <<>> /\ (tBeats < MaxBeats \/ tDropped[w] > 0)
    /\ tBeats' = IF tBeats < MaxBeats THEN tBeats + 1 ELSE tBeats
    /\ tWriting' = [tWriting EXCEPT ![w] = [number |-> tSeq[w], tells |-> "beat", count |-> 0]]
    /\ tSeq' = [tSeq EXCEPT ![w] = @ + 1]
    /\ tPhase' = [tPhase EXCEPT ![w] = "write"]
    /\ UNCHANGED <<tQueue, tDropped, tPub, watching, tRecords, offered, seen>>

PumpBeatLine(w) ==
    /\ tPhase[w] = "select" /\ (tBeats < MaxBeats \/ tDropped[w] > 0)
    /\ tBeats' = IF tBeats < MaxBeats THEN tBeats + 1 ELSE tBeats
    /\ tWriting' = [tWriting EXCEPT ![w] = [number |-> tSeq[w], tells |-> "beat", count |-> 0]]
    /\ tSeq' = [tSeq EXCEPT ![w] = @ + 1]
    /\ tPhase' = [tPhase EXCEPT ![w] = "write"]
    /\ UNCHANGED <<tQueue, tDropped, tPub, watching, tRecords, offered, seen>>

LineOut(w) ==
    /\ tPhase[w] = "write"
    /\ tPhase' = [tPhase EXCEPT ![w] = "loop"]
    /\ seen' = [seen EXCEPT ![w] =
         [numbers |-> Append(@.numbers, tWriting[w].number),
          records |-> @.records + (IF tWriting[w].tells = "record" THEN 1 ELSE 0),
          told |-> @.told + (IF tWriting[w].tells = "dropped" THEN tWriting[w].count ELSE 0)]]
    /\ UNCHANGED <<tQueue, tSeq, tDropped, tWriting, tPub, watching, tRecords, tBeats, offered>>

LineFails(w) ==
    /\ tPhase[w] = "write"
    /\ tPhase' = [tPhase EXCEPT ![w] = "ended"]
    /\ UNCHANGED <<tQueue, tSeq, tDropped, tWriting, tPub, watching, tRecords, tBeats, offered, seen>>

TailTask(w) ==
    \/ TailHead(w) \/ CloseTail(w) \/ PumpDropped(w) \/ PumpWaits(w)
    \/ PumpLine(w) \/ PumpBeatLine(w) \/ LineOut(w) \/ LineFails(w)

TailPublisher ==
    \/ \E w \in Watchers: TakeNumber(w) \/ SendLine(w) \/ GiveBack(w) \/ CountDrop(w)
    \/ PublishedRecord

TailNext ==
    \/ \E w \in Watchers: OpenTail(w) \/ TailTask(w)
    \/ \E k \in RecordKinds: PublishRecord(k)
    \/ TailPublisher

TailSpec == TailInit /\ [][TailNext]_tailVars

TailFairness ==
    /\ \A w \in Watchers: WF_tailVars(TailTask(w)) /\ SF_tailVars(PumpLine(w))
    /\ WF_tailVars(TailPublisher)
-----------------------------------------------------------------------------
(* What the line being written stands for. *)
InHand(w, what) == IF tPhase[w] = "write" /\ tWriting[w].tells = what THEN tWriting[w].count ELSE 0

(* The publisher has the watcher's record in hand. *)
OnItsWay(w) == IF w \in tPub.who /\ tPub.at # "none" THEN 1 ELSE 0

(* Every record meant for a watcher is written, waiting, counted as        *)
(* dropped or already reported as such: the counts the operator is sent    *)
(* account for all of them (tail.rs, "a full queue is never blocked on;    *)
(* the lines are discarded and counted").                                  *)
LossIsCounted ==
    \A w \in OpenTails: tPhase[w] # "ended" =>
        offered[w] = seen[w].records + InHand(w, "record") + Len(tQueue[w])
                     + OnItsWay(w) + tDropped[w] + InHand(w, "dropped") + seen[w].told

(* What was dropped is reported, unless the watcher goes away: the beat    *)
(* brings the pump back to a count made after it had gone to wait.         *)
LossIsTold == \A w \in Watchers: tDropped[w] > 0 ~> tDropped[w] = 0

(* The operator's tail accounts for what it drops, and says so           *)
(* (tail.rs).                                                            *)
LossIsReported == []LossIsCounted /\ LossIsTold

(* The numbers a watcher sees are those of the lines it was sent, each     *)
(* once: "a gap in it is impossible" (tail.rs, head).                      *)
NumberedWithoutGap ==
    \A w \in Watchers:
        LET n == seen[w].numbers IN
        tQueue[w] = <<>> /\ tPhase[w] = "loop" /\ tPub = TFree
        => {n[i] : i \in 1..Len(n)} = 0..(Len(n) - 1)
=============================================================================
