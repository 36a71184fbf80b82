---------------------------- MODULE EventsProofs ----------------------------
(***************************************************************************)
(* Proofs about Events, for any number of streams, devices and hints and   *)
(* any length of queue: an event stream implements the safety half of the  *)
(* promise of HintStream, and the waker keeps its interval.  And about     *)
(* Waiting, for any channels: no request held at an origin sleeps over     *)
(* what was written.                                                       *)
(***************************************************************************)
EXTENDS Events, Waiting, Induction, SequenceTheorems, TLAPS

Phases == {"off", "head", "loop", "drain", "select", "write", "ended", "release"}
Kinds == [account : EvAccounts, urgent : BOOLEAN]
Looks == [device : Devices, woken : Nat]

StreamsTypeOK ==
    /\ phase \in [Slots -> Phases]
    /\ queue \in [Slots -> Seq(Hints)]
    /\ behind \in [Slots -> BOOLEAN]
    /\ writing \in [Slots -> Hints \cup {Resync, Heartbeat}]
    /\ lost \in [Slots -> SUBSET Hints]

PublisherTypeOK ==
    /\ hints \in 0..MaxHints
    /\ pub \in [hint : 0..MaxHints, todo : SUBSET Slots, full : Slots \cup {NoSlot}]

(* A publisher that has somebody left to look at has a hint, and those it  *)
(* will look at have not gone: nobody unsubscribes under its lock.         *)
PublisherInv ==
    /\ pub # Free => pub.hint \in Hints
    /\ pub.todo \subseteq Subscribed

StreamsInv == StreamsTypeOK /\ PublisherTypeOK /\ PublisherInv

-----------------------------------------------------------------------------

LEMMA SentinelsAreNoHints == Resync \notin Hints /\ Heartbeat \notin Hints
  BY EventsAssumption DEF Hints

LEMMA BusyIsNotFree ==
    ASSUME NEW s, s \in pub.todo
    PROVE  pub # Free
  BY DEF Free

LEMMA StreamsInvInit == EvInit => StreamsInv
  BY EventsAssumption DEF EvInit, StreamsInv, StreamsTypeOK, PublisherTypeOK, PublisherInv,
     Phases, Free, Hints, Subscribed

(* The publisher's part is kept by a step that leaves it alone and ends no *)
(* stream.                                                                 *)
LEMMA PublisherKept ==
    ASSUME StreamsInv, UNCHANGED <<hints, pub>>, Subscribed \subseteq Subscribed'
    PROVE  (PublisherTypeOK /\ PublisherInv)'
  BY DEF StreamsInv, PublisherTypeOK, PublisherInv, Free, Hints

(* ... or when there is nothing to publish.                                *)
LEMMA NobodyPublishes ==
    ASSUME StreamsInv, UNCHANGED <<hints, pub>>, pub = Free
    PROVE  (PublisherTypeOK /\ PublisherInv)'
  BY DEF StreamsInv, PublisherTypeOK, PublisherInv, Free, Hints

(* What a step does to one stream keeps the streams' types when the        *)
(* stream's own values do.                                                 *)
LEMMA TaskStepInv ==
    ASSUME StreamsInv, NEW s \in Slots, TaskStep(s)
    PROVE  StreamsInv'
<1> USE DEF StreamsInv
<1> phase[s] \in Phases /\ queue[s] \in Seq(Hints) /\ lost[s] \in SUBSET Hints
  BY DEF StreamsTypeOK
<1>1. CASE SendHead(s)
  <2>1. StreamsTypeOK'
    BY <1>1 DEF SendHead, StreamsTypeOK, Phases
  <2>2. Subscribed \subseteq Subscribed'
    BY <1>1 DEF SendHead, Subscribed, StreamsTypeOK
  <2> QED
    BY <1>1, <2>1, <2>2, PublisherKept DEF SendHead
<1>2. ASSUME NEW onLast \in {"off", "release"}, Unsubscribe(s, onLast) PROVE StreamsInv'
  <2>1. StreamsTypeOK'
    BY <1>2 DEF Unsubscribe, StreamsTypeOK, Phases
  <2> QED
    BY <1>2, <2>1, NobodyPublishes DEF Unsubscribe
<1>3. CASE Released(s)
  <2>1. StreamsTypeOK'
    BY <1>3 DEF Released, StreamsTypeOK, Phases
  <2>2. Subscribed \subseteq Subscribed'
    BY <1>3 DEF Released, Subscribed, StreamsTypeOK
  <2> QED
    BY <1>3, <2>1, <2>2, PublisherKept DEF Released
<1>4. CASE PumpStep(s)
  <2>1. StreamsTypeOK'
    <3> USE DEF StreamsTypeOK, Phases
    <3>1. CASE PumpLooks(s)
      BY <3>1 DEF PumpLooks
    <3>2. CASE PumpDrains(s) \/ PumpReceives(s)
      <4>1. Head(queue[s]) \in Hints /\ Tail(queue[s]) \in Seq(Hints)
        BY <3>2, HeadTailProperties DEF PumpDrains, PumpReceives
      <4>2. CASE PumpDrains(s)
        BY <4>1, <4>2 DEF PumpDrains
      <4>3. CASE PumpReceives(s)
        BY <4>1, <4>3 DEF PumpReceives, Writes
      <4> QED
        BY <3>2, <4>2, <4>3
    <3>3. CASE PumpDrained(s) \/ PumpBeats(s)
      BY <3>3 DEF PumpDrained, PumpBeats, Writes
    <3>4. CASE WriteOk(s) \/ WriteFails(s)
      BY <3>4 DEF WriteOk, WriteFails
    <3> QED
      BY <1>4, <3>1, <3>2, <3>3, <3>4 DEF PumpStep
  <2>2. Subscribed \subseteq Subscribed'
    BY <1>4 DEF PumpStep, PumpLooks, PumpDrains, PumpDrained, PumpReceives, PumpBeats,
       WriteOk, WriteFails, Writes, Subscribed, StreamsTypeOK
  <2>3. UNCHANGED <<hints, pub>>
    BY <1>4 DEF PumpStep, PumpLooks, PumpDrains, PumpDrained, PumpReceives, PumpBeats,
       WriteOk, WriteFails
  <2> QED
    BY <2>1, <2>2, <2>3, PublisherKept
<1> QED
  BY <1>1, <1>2, <1>3, <1>4 DEF TaskStep, HeadFails, StreamEnds

LEMMA OfferInv ==
    ASSUME StreamsInv, NEW s \in Slots, Offer(s)
    PROVE  StreamsInv'
<1> USE DEF StreamsInv
<1>1. pub.hint \in Hints
  BY BusyIsNotFree DEF Offer, PublisherInv
<1>2. queue[s] \in Seq(Hints) /\ Append(queue[s], pub.hint) \in Seq(Hints)
  BY <1>1, AppendProperties DEF StreamsTypeOK
<1>3. StreamsTypeOK'
  BY <1>1, <1>2 DEF Offer, StreamsTypeOK
<1>4. pub' = [hint |-> pub.hint, todo |-> pub.todo \ {s}, full |-> pub'.full] /\ pub'.full \in Slots \cup {NoSlot}
  BY DEF Offer, PublisherTypeOK
<1>5. PublisherTypeOK'
  BY <1>4 DEF Offer, PublisherTypeOK
<1>6. Subscribed' = Subscribed
  BY DEF Offer, Subscribed
<1>7. PublisherInv'
  BY <1>1, <1>4, <1>6 DEF PublisherInv, Hints
<1> QED
  BY <1>3, <1>5, <1>7

LEMMA StreamsInvNext == StreamsInv /\ [EvNext]_evVars => StreamsInv'
<1> SUFFICES ASSUME StreamsInv, [EvNext]_evVars PROVE StreamsInv'
  OBVIOUS
<1> USE DEF StreamsInv
<1>same. ASSUME UNCHANGED <<streamVars, hints, pub>> PROVE StreamsInv'
  <2>1. Subscribed' = Subscribed
    BY <1>same DEF streamVars, Subscribed
  <2> QED
    BY <1>same, <2>1 DEF streamVars, StreamsTypeOK, PublisherTypeOK, PublisherInv, Free, Hints
<1>1. ASSUME NEW s \in Slots, Subscribe(s) PROVE StreamsInv'
  <2>1. StreamsTypeOK'
    BY <1>1 DEF Subscribe, StreamsTypeOK, Phases
  <2> QED
    BY <1>1, <2>1, NobodyPublishes DEF Subscribe
<1>2. ASSUME NEW s \in Slots, TaskStep(s) PROVE StreamsInv'
  BY <1>2, TaskStepInv
<1>3. ASSUME NEW a \in EvAccounts, NEW kind \in {"entry", "signal", "ring"}, Publish(a, kind)
      PROVE StreamsInv'
  <2>1. hints + 1 \in Hints /\ hints' \in 0..MaxHints
    BY <1>3, EventsAssumption DEF Publish, Hints, PublisherTypeOK
  <2>2. StreamsOf(a) \subseteq Subscribed /\ Subscribed \subseteq Slots
    BY DEF StreamsOf, Subscribed
  <2>3. Subscribed' = Subscribed
    BY <1>3 DEF Publish, streamVars, Subscribed
  <2> QED
    BY <1>3, <2>1, <2>2, <2>3, EventsAssumption
    DEF Publish, streamVars, StreamsTypeOK, PublisherTypeOK, PublisherInv, Hints
<1>4. ASSUME NEW s \in Slots, Offer(s) PROVE StreamsInv'
  BY <1>4, OfferInv
<1>5. CASE MarkBehind
  <2>1. pub.full \in Slots /\ pub' = [hint |-> pub.hint, todo |-> pub.todo, full |-> NoSlot]
    BY <1>5 DEF MarkBehind, PublisherTypeOK
  <2>2. pub # Free /\ pub'.hint = pub.hint
    BY <1>5, <2>1 DEF MarkBehind, Free
  <2>3. StreamsTypeOK'
    BY <1>5, <2>1 DEF MarkBehind, StreamsTypeOK
  <2>4. Subscribed' = Subscribed
    BY <1>5 DEF MarkBehind, Subscribed
  <2> QED
    BY <1>5, <2>1, <2>2, <2>3, <2>4 DEF MarkBehind, PublisherTypeOK, PublisherInv, Hints
<1>6. CASE PublishDone
  <2>1. Subscribed' = Subscribed
    BY <1>6 DEF PublishDone, streamVars, Subscribed
  <2> QED
    BY <1>6, <2>1, EventsAssumption
    DEF PublishDone, streamVars, StreamsTypeOK, PublisherTypeOK, PublisherInv, Free, Hints
<1>7. ASSUME NEW d \in Devices, RegisterWake(d) \/ ForgetWake(d) PROVE StreamsInv'
  BY <1>7, <1>same DEF RegisterWake, ForgetWake
<1>8. CASE WakerTakes \/ (\E it \in waker.todo : WakerDecides(it)) \/ EvTick
  BY <1>8, <1>same DEF WakerTakes, WakerDecides, EvTick
<1>9. CASE UNCHANGED evVars
  BY <1>9, <1>same DEF evVars
<1> QED
  BY <1>1, <1>2, <1>3, <1>4, <1>5, <1>6, <1>7, <1>8, <1>9 DEF EvNext, PublisherStep

LEMMA StreamsCorrect == EvSpec => []StreamsInv
  BY StreamsInvInit, StreamsInvNext, PTL DEF EvSpec

-----------------------------------------------------------------------------

(* The refinement: Owed is what the reader has coming.                     *)

Held(q) == {q[i] : i \in 1..Len(q)}

(* A queue holds its head and what its tail holds ...                      *)
LEMMA HeldByTail ==
    ASSUME NEW S, NEW q \in Seq(S), q # <<>>
    PROVE  Held(q) = {Head(q)} \cup Held(Tail(q))
<1>1. Len(q) \in Nat \ {0} /\ Len(Tail(q)) = Len(q) - 1 /\ Head(q) = q[1]
      /\ \A i \in 1..Len(Tail(q)) : Tail(q)[i] = q[i + 1]
  BY HeadTailProperties, LenProperties
<1>2. ASSUME NEW i \in 1..Len(q) PROVE q[i] \in {Head(q)} \cup Held(Tail(q))
  <2>1. CASE i = 1
    BY <1>1, <2>1
  <2>2. CASE i # 1
    <3>1. i - 1 \in 1..Len(Tail(q)) /\ Tail(q)[i - 1] = q[(i - 1) + 1] /\ (i - 1) + 1 = i
      BY <1>1, <2>2
    <3> QED
      BY <3>1 DEF Held
  <2> QED
    BY <2>1, <2>2
<1>3. ASSUME NEW i \in 1..Len(Tail(q)) PROVE Tail(q)[i] \in Held(q)
  <2>1. i + 1 \in 1..Len(q) /\ Tail(q)[i] = q[i + 1]
    BY <1>1
  <2> QED
    BY <2>1 DEF Held
<1>4. Head(q) \in Held(q)
  <2>1. 1 \in 1..Len(q)
    BY <1>1
  <2> QED
    BY <1>1, <2>1 DEF Held
<1> QED
  BY <1>2, <1>3, <1>4 DEF Held

(* ... and one hint more when it was given one.                            *)
LEMMA HeldByAppend ==
    ASSUME NEW S, NEW q \in Seq(S), NEW h
    PROVE  Held(Append(q, h)) = Held(q) \cup {h}
<1>1. Len(q) \in Nat /\ Len(Append(q, h)) = Len(q) + 1 /\ Append(q, h)[Len(q) + 1] = h
      /\ \A i \in 1..Len(q) : Append(q, h)[i] = q[i]
  BY AppendProperties, LenProperties
<1>2. 1..(Len(q) + 1) = 1..Len(q) \cup {Len(q) + 1}
  BY <1>1
<1> QED
  BY <1>1, <1>2 DEF Held

LEMMA HeldByNone == Held(<<>>) = {}
<1>1. 1..Len(<<>>) = {}
  BY EmptySeq
<1> QED
  BY <1>1 DEF Held

Writing(s) == {h \in Hints : phase[s] \in {"write", "ended"} /\ writing[s] = h}

LEMMA OwedParts == ASSUME NEW s PROVE Owed(s) = Held(queue[s]) \cup lost[s] \cup Writing(s)
  BY DEF Owed, Held, Writing

OwedBy == [s \in Slots |-> Owed(s)]
PromiseStep == [Promise!HNext]_<<Subscribed, OwedBy>>

(* A step that leaves a stream's values alone leaves what it is owed.      *)
LEMMA OthersOweTheSame ==
    ASSUME NEW s \in Slots, StreamsInv, StreamsInv',
           \A t \in Slots \ {s} :
               /\ queue'[t] = queue[t] /\ lost'[t] = lost[t]
               /\ phase'[t] = phase[t] /\ writing'[t] = writing[t]
    PROVE  OwedBy' = [OwedBy EXCEPT ![s] = Owed(s)']
<1>1. OwedBy' = [t \in Slots |-> Owed(t)']
  BY DEF OwedBy
<1>2. ASSUME NEW t \in Slots, t # s PROVE Owed(t)' = Owed(t)
  <2>1. queue'[t] = queue[t] /\ lost'[t] = lost[t] /\ phase'[t] = phase[t] /\ writing'[t] = writing[t]
    BY <1>2
  <2> QED
    BY <2>1 DEF Owed
<1>3. \A t \in Slots : Owed(t)' = IF t = s THEN Owed(s)' ELSE OwedBy[t]
  BY <1>2 DEF OwedBy
<1> HIDE DEF OwedBy
<1>4. OwedBy = [t \in Slots |-> OwedBy[t]]
  BY DEF OwedBy
<1> QED
  BY <1>1, <1>3, <1>4

(* A stream is told to fetch again, or what it was owed was written.       *)
LEMMA OwedLess ==
    ASSUME NEW s \in Slots, OwedBy' = [OwedBy EXCEPT ![s] = Owed(s)'],
           Owed(s)' \subseteq Owed(s), Subscribed' = Subscribed
    PROVE  PromiseStep
<1>1. OwedBy[s] = Owed(s)
  BY DEF OwedBy
<1>2. \E rest \in SUBSET OwedBy[s] : OwedBy' = [OwedBy EXCEPT ![s] = rest]
  BY <1>1
<1>3. Promise!HResync(s)
  BY <1>2 DEF Promise!HResync, OwedBy
<1> QED
  BY <1>3 DEF PromiseStep, Promise!HNext

(* The pump moves what is owed about; only a write that went through takes *)
(* anything from it: the hint it wrote, or whatever a resync stands for.   *)
LEMMA PumpOwes ==
    ASSUME NEW s \in Slots, StreamsInv, PumpStep(s)
    PROVE  /\ Owed(s)' \subseteq Owed(s)
           /\ \A h \in Owed(s) \ Owed(s)' : WriteOk(s) /\ writing[s] \in {h, Resync}
<1> USE DEF StreamsInv, StreamsTypeOK
<1>1. Owed(s) = Held(queue[s]) \cup lost[s] \cup Writing(s)
  BY OwedParts
<1>2. Owed(s)' = Held(queue'[s]) \cup lost'[s] \cup Writing(s)'
  BY DEF Owed, Held, Writing
<1>3. CASE PumpLooks(s)
  BY <1>1, <1>2, <1>3 DEF PumpLooks, Writing
<1>4. CASE PumpDrains(s)
  <2>1. Held(queue[s]) = {Head(queue[s])} \cup Held(Tail(queue[s]))
    BY <1>4, HeldByTail DEF PumpDrains
  <2>2. Writing(s)' = Writing(s)
    BY <1>4 DEF PumpDrains, Writing
  <2> QED
    BY <1>1, <1>2, <1>4, <2>1, <2>2 DEF PumpDrains
<1>5. CASE PumpDrained(s) \/ PumpBeats(s)
  <2>1. Writing(s) = {} /\ Writing(s)' = {}
    BY <1>5, SentinelsAreNoHints DEF PumpDrained, PumpBeats, Writes, Writing
  <2> QED
    BY <1>1, <1>2, <1>5, <2>1 DEF PumpDrained, PumpBeats, Writes
<1>6. CASE PumpReceives(s)
  <2>1. /\ Held(queue[s]) = {Head(queue[s])} \cup Held(Tail(queue[s]))
        /\ Head(queue[s]) \in Hints
    BY <1>6, HeldByTail, HeadTailProperties DEF PumpReceives
  <2>2. Writing(s) = {} /\ Writing(s)' = {Head(queue[s])}
    BY <1>6, <2>1 DEF PumpReceives, Writes, Writing, Hints
  <2> QED
    BY <1>1, <1>2, <1>6, <2>1, <2>2 DEF PumpReceives, Writes
<1>7. CASE WriteOk(s)
  <2>1. Writing(s)' = {} /\ Writing(s) = {h \in Hints : h = writing[s]}
    BY <1>7 DEF WriteOk, Writing
  <2> QED
    BY <1>1, <1>2, <1>7, <2>1 DEF WriteOk
<1>8. CASE WriteFails(s)
  <2>1. Writing(s)' = Writing(s)
    BY <1>8 DEF WriteFails, Writing
  <2> QED
    BY <1>1, <1>2, <1>8, <2>1 DEF WriteFails
<1> QED
  BY <1>3, <1>4, <1>5, <1>6, <1>7, <1>8 DEF PumpStep

LEMMA PumpKeepsPromise ==
    ASSUME NEW s \in Slots, StreamsInv, StreamsInv', PumpStep(s)
    PROVE  PromiseStep
<1> USE DEF StreamsInv, StreamsTypeOK
<1>1. Subscribed' = Subscribed
  BY DEF PumpStep, PumpLooks, PumpDrains, PumpDrained, PumpReceives, PumpBeats,
     WriteOk, WriteFails, Writes, Subscribed
<1>2. OwedBy' = [OwedBy EXCEPT ![s] = Owed(s)']
  <2>1. \A t \in Slots \ {s} :
           /\ queue'[t] = queue[t] /\ lost'[t] = lost[t]
           /\ phase'[t] = phase[t] /\ writing'[t] = writing[t]
    BY DEF PumpStep, PumpLooks, PumpDrains, PumpDrained, PumpReceives, PumpBeats,
       WriteOk, WriteFails, Writes
  <2> QED
    BY <2>1, OthersOweTheSame
<1> QED
  BY <1>1, <1>2, PumpOwes, OwedLess

(* The task of a stream around the pump.                                   *)
LEMMA TaskKeepsPromise ==
    ASSUME NEW s \in Slots, StreamsInv, StreamsInv', TaskStep(s)
    PROVE  PromiseStep
<1> USE DEF StreamsInv, StreamsTypeOK
<1>1. CASE SendHead(s) \/ Released(s)
  <2>1. Subscribed' = Subscribed
    BY <1>1 DEF SendHead, Released, Subscribed
  <2>2. OwedBy' = [OwedBy EXCEPT ![s] = Owed(s)']
    BY <1>1, OthersOweTheSame DEF SendHead, Released
  <2>3. Owed(s)' \subseteq Owed(s)
    BY <1>1 DEF SendHead, Released, Owed
  <2> QED
    BY <2>1, <2>2, <2>3, OwedLess
<1>2. ASSUME NEW onLast \in {"off", "release"}, s \in Subscribed, Unsubscribe(s, onLast) PROVE PromiseStep
  <2>1. Subscribed' = Subscribed \ {s}
    BY <1>2 DEF Unsubscribe, Subscribed
  <2>2. OwedBy' = [OwedBy EXCEPT ![s] = Owed(s)']
    BY <1>2, OthersOweTheSame DEF Unsubscribe
  <2>3. Owed(s)' = {}
    <3>1. queue'[s] = <<>> /\ lost'[s] = {} /\ phase'[s] \notin {"write", "ended"}
      BY <1>2 DEF Unsubscribe
    <3>2. Owed(s)' = Held(queue'[s]) \cup lost'[s] \cup Writing(s)'
      BY DEF Owed, Held, Writing
    <3> QED
      BY <3>1, <3>2, HeldByNone DEF Writing
  <2>4. Promise!HClose(s)
    BY <1>2, <2>1, <2>2, <2>3 DEF Promise!HClose, OwedBy
  <2> QED
    BY <2>4 DEF PromiseStep, Promise!HNext
<1>3. CASE HeadFails(s) \/ StreamEnds(s)
  <2>1. s \in Subscribed
    BY <1>3 DEF HeadFails, StreamEnds, Subscribed
  <2> QED
    BY <1>2, <1>3, <2>1 DEF HeadFails, StreamEnds
<1>4. CASE PumpStep(s)
  BY <1>4, PumpKeepsPromise
<1> QED
  BY <1>1, <1>3, <1>4 DEF TaskStep

(* A hint offered to a stream is owed to it, taken into its queue or not.  *)
LEMMA OfferKeepsPromise ==
    ASSUME NEW s \in Slots, StreamsInv, StreamsInv', Offer(s)
    PROVE  PromiseStep
<1> USE DEF StreamsInv, StreamsTypeOK
<1>1. pub.hint \in Hints /\ s \in Subscribed
  BY BusyIsNotFree DEF Offer, PublisherInv
<1>2. OwedBy' = [OwedBy EXCEPT ![s] = Owed(s)']
  BY OthersOweTheSame DEF Offer
<1>3. Subscribed' = Subscribed
  BY DEF Offer, Subscribed
<1>4. Owed(s)' = Owed(s) \cup {pub.hint}
  <2>1. Writing(s)' = Writing(s)
    BY DEF Offer, Writing
  <2>2. Owed(s)' = Held(queue'[s]) \cup lost'[s] \cup Writing(s)'
    BY DEF Owed, Held, Writing
  <2>3. Held(Append(queue[s], pub.hint)) = Held(queue[s]) \cup {pub.hint}
    BY HeldByAppend
  <2>4. \/ queue'[s] = Append(queue[s], pub.hint) /\ lost'[s] = lost[s]
        \/ queue'[s] = queue[s] /\ lost'[s] = lost[s] \cup {pub.hint}
    BY DEF Offer
  <2> QED
    BY <2>1, <2>2, <2>3, <2>4, OwedParts
<1>5. Promise!HPublish(s, pub.hint)
  BY <1>1, <1>2, <1>3, <1>4 DEF Promise!HPublish, OwedBy
<1> QED
  BY <1>1, <1>5 DEF PromiseStep, Promise!HNext

LEMMA StepKeepsPromise ==
    ASSUME StreamsInv, StreamsInv', [EvNext]_evVars
    PROVE  PromiseStep
<1>same. ASSUME UNCHANGED <<phase, queue, lost, writing>> PROVE PromiseStep
  BY <1>same DEF PromiseStep, Subscribed, OwedBy, Owed
<1>1. ASSUME NEW s \in Slots, Subscribe(s) PROVE PromiseStep
  <2>1. Subscribed' = Subscribed \cup {s} /\ s \notin Subscribed
    BY <1>1 DEF Subscribe, Subscribed, StreamsInv, StreamsTypeOK
  <2>2. OwedBy' = OwedBy
    <3>1. \A t \in Slots : phase'[t] \in {"write", "ended"} <=> phase[t] \in {"write", "ended"}
      BY <1>1 DEF Subscribe, StreamsInv, StreamsTypeOK
    <3> QED
      BY <1>1, <3>1 DEF Subscribe, OwedBy, Owed
  <2>3. Promise!HOpenStream(s)
    BY <2>1, <2>2 DEF Promise!HOpenStream, OwedBy
  <2> QED
    BY <2>3 DEF PromiseStep, Promise!HNext
<1>2. ASSUME NEW s \in Slots, TaskStep(s) PROVE PromiseStep
  BY <1>2, TaskKeepsPromise
<1>3. ASSUME NEW a \in EvAccounts, NEW kind \in {"entry", "signal", "ring"}, Publish(a, kind)
      PROVE PromiseStep
  BY <1>3, <1>same DEF Publish, streamVars
<1>4. ASSUME NEW s \in Slots, Offer(s) PROVE PromiseStep
  BY <1>4, OfferKeepsPromise
<1>5. CASE MarkBehind \/ PublishDone
  BY <1>5, <1>same DEF MarkBehind, PublishDone, streamVars
<1>6. ASSUME NEW d \in Devices, RegisterWake(d) \/ ForgetWake(d) PROVE PromiseStep
  BY <1>6, <1>same DEF RegisterWake, ForgetWake, streamVars
<1>7. CASE WakerTakes \/ (\E it \in waker.todo : WakerDecides(it)) \/ EvTick
  BY <1>7, <1>same DEF WakerTakes, WakerDecides, EvTick, streamVars
<1>8. CASE UNCHANGED evVars
  BY <1>8, <1>same DEF evVars, streamVars
<1> QED
  BY <1>1, <1>2, <1>3, <1>4, <1>5, <1>6, <1>7, <1>8 DEF EvNext, PublisherStep

(* The event streams implement the safety half of the promise: whatever    *)
(* the pumps, the publisher and the readers that come and go do, a hint    *)
(* that was published to an open stream stays owed to its reader until it, *)
(* or a resync in its stead, is written, or the stream ends (events.rs,    *)
(* the comment at its head). That it does not stay owed for ever is checked *)
(* by TLC under the fairness of the tasks.                                 *)
THEOREM StreamsImplementHintStream == EvSpec => Promise!HSafeSpec
<1>1. EvInit => Promise!HInit
  <2>1. ASSUME EvInit PROVE Subscribed = {} /\ OwedBy = [s \in Slots |-> {}]
    <3>1. \A s \in Slots : queue[s] = <<>> /\ lost[s] = {} /\ phase[s] = "off"
      BY <2>1 DEF EvInit
    <3>2. \A s \in Slots : Owed(s) = {}
      BY <3>1, HeldByNone, OwedParts DEF Writing
    <3> QED
      BY <3>1, <3>2 DEF Subscribed, OwedBy
  <2> QED
    BY <2>1 DEF Promise!HInit, OwedBy
<1>2. StreamsInv /\ StreamsInv' /\ [EvNext]_evVars => [Promise!HNext]_(Promise!hVars)
  BY StepKeepsPromise DEF PromiseStep, Promise!hVars, OwedBy
<1> QED
  BY <1>1, <1>2, StreamsCorrect, PTL DEF EvSpec, Promise!HSafeSpec

-----------------------------------------------------------------------------

(* What is owed to a reader leaves only with a write that went through, of *)
(* that hint or of a resync, or with the stream itself (serve_events and   *)
(* the pump of events.rs): no drain, beat or failed write drops a hint in  *)
(* silence.                                                                *)
OwedUntilWritten ==
    [][\A s \in Slots : \A h \in Owed(s) \ Owed(s)' :
         \/ phase[s] = "write" /\ phase'[s] = "loop" /\ writing[s] \in {h, Resync}
         \/ s \in Subscribed \ Subscribed']_evVars

LEMMA StepOwes ==
    ASSUME StreamsInv, [EvNext]_evVars, NEW s \in Slots, NEW h \in Owed(s) \ Owed(s)'
    PROVE  \/ phase[s] = "write" /\ phase'[s] = "loop" /\ writing[s] \in {h, Resync}
           \/ s \in Subscribed \ Subscribed'
<1> DEFINE Wrote == phase[s] = "write" /\ phase'[s] = "loop" /\ writing[s] \in {h, Resync}
           Gone == s \in Subscribed \ Subscribed'
<1> SUFFICES ASSUME ~Wrote, ~Gone PROVE FALSE
  OBVIOUS
<1> USE DEF StreamsInv, StreamsTypeOK
<1>same. ASSUME queue'[s] = queue[s], lost[s] \subseteq lost'[s], writing'[s] = writing[s],
                phase[s] \in {"write", "ended"} => phase'[s] \in {"write", "ended"}
         PROVE FALSE
  BY <1>same DEF Owed
<1>1. ASSUME NEW t \in Slots, Subscribe(t) PROVE FALSE
  BY <1>1, <1>same DEF Subscribe
<1>2. ASSUME NEW t \in Slots, SendHead(t) \/ Released(t) PROVE FALSE
  BY <1>2, <1>same DEF SendHead, Released
<1>3. ASSUME NEW t \in Slots, HeadFails(t) \/ StreamEnds(t) PROVE FALSE
  <2>1. CASE t = s
    BY <1>3, <2>1 DEF HeadFails, StreamEnds, Unsubscribe, Subscribed
  <2>2. CASE t # s
    BY <1>3, <2>2, <1>same DEF HeadFails, StreamEnds, Unsubscribe
  <2> QED
    BY <2>1, <2>2
<1>4. ASSUME NEW t \in Slots, PumpStep(t) PROVE FALSE
  <2>1. CASE t = s
    <3>1. ~WriteOk(s) \/ writing[s] \notin {h, Resync}
      BY DEF WriteOk
    <3> QED
      BY <1>4, <2>1, <3>1, PumpOwes
  <2>2. CASE t # s
    BY <1>4, <2>2, <1>same DEF PumpStep, PumpLooks, PumpDrains, PumpDrained, PumpReceives,
       PumpBeats, WriteOk, WriteFails, Writes
  <2> QED
    BY <2>1, <2>2
<1>5. ASSUME NEW t \in Slots, Offer(t) PROVE FALSE
  <2>1. lost[s] \subseteq lost'[s] /\ phase' = phase /\ writing' = writing
    BY <1>5 DEF Offer
  <2>2. Held(queue[s]) \subseteq Held(queue'[s])
    <3>1. queue'[s] = queue[s] \/ queue'[s] = Append(queue[s], pub.hint)
      BY <1>5 DEF Offer
    <3>2. queue[s] \in Seq(Hints)
      OBVIOUS
    <3>3. Held(Append(queue[s], pub.hint)) = Held(queue[s]) \cup {pub.hint}
      BY <3>2, HeldByAppend
    <3> QED
      BY <3>1, <3>3
  <2> QED
    BY <2>1, <2>2 DEF Owed, Held
<1>6. ASSUME NEW a \in EvAccounts, NEW kind \in {"entry", "signal", "ring"}, Publish(a, kind)
      PROVE FALSE
  BY <1>6, <1>same DEF Publish, streamVars
<1>7. CASE MarkBehind \/ PublishDone
  BY <1>7, <1>same DEF MarkBehind, PublishDone, streamVars
<1>8. ASSUME NEW d \in Devices, RegisterWake(d) \/ ForgetWake(d) PROVE FALSE
  BY <1>8, <1>same DEF RegisterWake, ForgetWake, streamVars
<1>9. CASE WakerTakes \/ (\E it \in waker.todo : WakerDecides(it)) \/ EvTick \/ UNCHANGED evVars
  BY <1>9, <1>same DEF WakerTakes, WakerDecides, EvTick, streamVars, evVars
<1> QED
  BY <1>1, <1>2, <1>3, <1>4, <1>5, <1>6, <1>7, <1>8, <1>9 DEF EvNext, TaskStep, PublisherStep

(* What is owed leaves as OwedUntilWritten says, for any number of streams, *)
(* hints and any length of queue.                                          *)
THEOREM OwedUntilWrittenHolds == EvSpec => OwedUntilWritten
<1>1. StreamsInv /\ [EvNext]_evVars =>
        [\A s \in Slots : \A h \in Owed(s) \ Owed(s)' :
           \/ phase[s] = "write" /\ phase'[s] = "loop" /\ writing[s] \in {h, Resync}
           \/ s \in Subscribed \ Subscribed']_evVars
  BY StepOwes
<1> QED
  BY <1>1, StreamsCorrect, PTL DEF EvSpec, OwedUntilWritten

-----------------------------------------------------------------------------

(* The wake-ups. What the waker read of a device when it took its notice   *)
(* is not older than the last post of the present absence, and the time it *)
(* read is not ahead of the clock.                                         *)
WakesTypeOK ==
    /\ told \in Seq(Kinds)
    /\ waker \in [todo : SUBSET Looks, urgent : BOOLEAN, now : Nat]
    /\ row \in [Devices -> [until : Nat, woken : Nat]]
    /\ evClock \in Nat
    /\ lastPost \in [Devices -> Nat]

WakerInv ==
    /\ waker.now <= evClock
    /\ \A it, jt \in waker.todo : it.device = jt.device => it = jt
    /\ \A it \in waker.todo : lastPost[it.device] # 0 => lastPost[it.device] <= it.woken

PostedInv == \A d \in Devices : lastPost[d] # 0 => lastPost[d] <= row[d].woken

WakesInv == WakesTypeOK /\ WakerInv /\ PostedInv

LEMMA WakesInvInit == EvInit => WakesInv
<1> SUFFICES ASSUME EvInit PROVE WakesInv
  OBVIOUS
<1>1. told = <<>> /\ waker = [todo |-> {}, urgent |-> FALSE, now |-> 0] /\ evClock = 1
  BY DEF EvInit, Idle
<1>2. row = [d \in Devices |-> [until |-> 0, woken |-> 0]] /\ lastPost = [d \in Devices |-> 0]
  BY DEF EvInit, NoRow
<1> QED
  BY <1>1, <1>2 DEF WakesInv, WakesTypeOK, WakerInv, PostedInv

LEMMA DevicesOfSlots == ASSUME NEW s \in Slots PROVE DeviceOf[s] \in Devices
  BY DEF Devices

(* The waker takes a notice: it reads the rows as they are.                *)
LEMMA WakerTakesInv ==
    ASSUME WakesInv, WakerTakes
    PROVE  WakesInv'
<1> USE DEF WakesInv, WakesTypeOK, WakerInv, PostedInv
<1> DEFINE live == {d \in Devices : EvAccountOf[d] = Head(told).account /\ row[d].until >= evClock}
           looks == {[device |-> d, woken |-> row[d].woken] : d \in live}
<1>1. Head(told) \in Kinds /\ Tail(told) \in Seq(Kinds)
  BY HeadTailProperties DEF WakerTakes
<1>2. Head(told).urgent \in BOOLEAN
  BY <1>1 DEF Kinds
<1>3. looks \subseteq Looks
  BY DEF Looks
<1>4. \A it \in looks : it.device \in Devices /\ it.woken = row[it.device].woken
  OBVIOUS
<1>5. \A it, jt \in looks : it.device = jt.device => it = jt
  OBVIOUS
<1>6. UNCHANGED <<row, evClock, lastPost>> /\ told' = Tail(told)
  BY DEF WakerTakes
<1>7. waker' = Idle \/ waker' = [todo |-> looks, urgent |-> Head(told).urgent, now |-> evClock]
  BY DEF WakerTakes
<1>8. CASE waker' = Idle
  BY <1>1, <1>6, <1>8 DEF Idle
<1>9. CASE waker' = [todo |-> looks, urgent |-> Head(told).urgent, now |-> evClock]
  <2> HIDE DEF looks
  <2> QED
    BY <1>1, <1>2, <1>3, <1>4, <1>5, <1>6, <1>9
<1> QED
  BY <1>7, <1>8, <1>9

(* The waker decides on one device, and posts or does not.                 *)
LEMMA WakerDecidesInv ==
    ASSUME WakesInv, NEW it \in waker.todo, WakerDecides(it)
    PROVE  /\ WakesInv'
           /\ \A d \in Devices :
                 lastPost'[d] > lastPost[d] /\ lastPost[d] # 0 /\ ~waker.urgent
                 => lastPost'[d] - lastPost[d] >= WakeMinSecs
<1> USE DEF WakesInv, WakesTypeOK, WakerInv, PostedInv
<1> DEFINE d == it.device
           posts == Posts(it) /\ row[d] # NoRow
<1>1. it \in Looks /\ d \in Devices /\ it.woken \in Nat
  BY DEF Looks
<1>2. UNCHANGED <<told, evClock>>
  BY DEF WakerDecides
<1>3. /\ waker' \in [todo : SUBSET Looks, urgent : BOOLEAN, now : Nat]
      /\ waker'.todo = waker.todo \ {it} /\ waker'.now <= evClock
  <2>1. (waker' = Idle /\ waker.todo = {it}) \/ waker' = [waker EXCEPT !.todo = @ \ {it}]
    BY DEF WakerDecides
  <2>2. CASE waker' = Idle /\ waker.todo = {it}
    BY <2>2 DEF Idle
  <2>3. CASE waker' = [waker EXCEPT !.todo = @ \ {it}]
    <3>1. waker = [todo |-> waker.todo, urgent |-> waker.urgent, now |-> waker.now]
      OBVIOUS
    <3>2. waker' = [todo |-> waker.todo \ {it}, urgent |-> waker.urgent, now |-> waker.now]
      BY <2>3, <3>1
    <3> QED
      BY <3>2
  <2> QED
    BY <2>1, <2>2, <2>3
<1>4. \A jt \in waker'.todo : jt.device # d /\ jt \in waker.todo /\ jt.device \in Devices
  BY <1>1, <1>3 DEF Looks
<1>5. row' = IF posts THEN [row EXCEPT ![d].woken = evClock] ELSE row
  BY DEF WakerDecides
<1>6. lastPost' = [lastPost EXCEPT ![d] = IF posts THEN evClock ELSE @]
  BY DEF WakerDecides
<1>7. row' \in [Devices -> [until : Nat, woken : Nat]] /\ lastPost' \in [Devices -> Nat]
  <2>1. evClock \in Nat /\ d \in Devices /\ row[d] \in [until : Nat, woken : Nat]
    BY <1>1
  <2>2. [row[d] EXCEPT !.woken = evClock] \in [until : Nat, woken : Nat]
    BY <2>1
  <2>3. row' \in [Devices -> [until : Nat, woken : Nat]]
    BY <2>1, <2>2, <1>5
  <2>4. lastPost' \in [Devices -> Nat]
    BY <2>1, <1>6
  <2> QED
    BY <2>3, <2>4
<1>8. PostedInv'
  BY <1>1, <1>5, <1>6
<1>9. WakerInv'
  BY <1>1, <1>2, <1>3, <1>4, <1>6
<1>10. ASSUME NEW e \in Devices, lastPost'[e] > lastPost[e], lastPost[e] # 0, ~waker.urgent
       PROVE lastPost'[e] - lastPost[e] >= WakeMinSecs
  <2>1. e = d /\ posts /\ lastPost'[e] = evClock
    BY <1>1, <1>6, <1>10
  <2>2. waker.now - it.woken >= WakeMinSecs
    BY <2>1, <1>10 DEF Posts
  <2> QED
    BY <1>1, <2>1, <2>2, <1>10, EventsAssumption
<1> QED
  BY <1>2, <1>3, <1>7, <1>8, <1>9, <1>10

LEMMA IntervalOver ==
    ASSUME NEW r \in [until : Nat, woken : Nat]
    PROVE  [r EXCEPT !.woken = 0] = [until |-> r.until, woken |-> 0]
  OBVIOUS

(* The steps that touch the row, the clock or the history of a device.     *)
LEMMA RowStepInv ==
    ASSUME WakesInv,
           \/ \E s \in Slots : Subscribe(s) \/ Released(s)
           \/ \E d \in Devices : RegisterWake(d) \/ ForgetWake(d)
           \/ EvTick
    PROVE  WakesInv' /\ \A d \in Devices : lastPost'[d] <= lastPost[d]
<1> USE DEF WakesInv, WakesTypeOK, WakerInv, PostedInv
<1>0. \A it \in waker.todo : it.device \in Devices
  BY DEF Looks
<1>1. ASSUME NEW s \in Slots, Subscribe(s) PROVE WakesInv' /\ \A d \in Devices : lastPost'[d] <= lastPost[d]
  BY <1>0, <1>1, DevicesOfSlots DEF Subscribe
<1>2. ASSUME NEW s \in Slots, Released(s) PROVE WakesInv' /\ \A d \in Devices : lastPost'[d] <= lastPost[d]
  <2> DEFINE d == DeviceOf[s]
  <2>1. d \in Devices
    BY DevicesOfSlots
  <2>2. /\ row' = [row EXCEPT ![d] = [until |-> row[d].until, woken |-> 0]]
        /\ lastPost' = [lastPost EXCEPT ![d] = 0] /\ UNCHANGED <<told, waker, evClock>>
    <3>1. row[d] \in [until : Nat, woken : Nat]
      BY <2>1
    <3>2. [row[d] EXCEPT !.woken = 0] = [until |-> row[d].until, woken |-> 0]
      BY <3>1, IntervalOver
    <3>3. row' = [row EXCEPT ![d] = [row[d] EXCEPT !.woken = 0]]
      BY <1>2 DEF Released
    <3> QED
      BY <1>2, <3>2, <3>3 DEF Released
  <2> HIDE DEF d
  <2> QED
    BY <1>0, <2>1, <2>2
<1>3. ASSUME NEW d \in Devices, RegisterWake(d) PROVE WakesInv' /\ \A e \in Devices : lastPost'[e] <= lastPost[e]
  BY <1>0, <1>3, EventsAssumption DEF RegisterWake
<1>4. ASSUME NEW d \in Devices, ForgetWake(d) PROVE WakesInv' /\ \A e \in Devices : lastPost'[e] <= lastPost[e]
  BY <1>0, <1>4 DEF ForgetWake, NoRow
<1>5. CASE EvTick
  BY <1>0, <1>5 DEF EvTick
<1> QED
  BY <1>1, <1>2, <1>3, <1>4, <1>5

(* Publish only adds to what the waker is told; everything else leaves the *)
(* wake-ups alone.                                                         *)
LEMMA WakesStep ==
    ASSUME WakesInv, [EvNext]_evVars
    PROVE  /\ WakesInv'
           /\ \A d \in Devices :
                 lastPost'[d] > lastPost[d] /\ lastPost[d] # 0 /\ ~waker.urgent
                 => lastPost'[d] - lastPost[d] >= WakeMinSecs
<1> DEFINE Spaced == \A d \in Devices :
                       lastPost'[d] > lastPost[d] /\ lastPost[d] # 0 /\ ~waker.urgent
                       => lastPost'[d] - lastPost[d] >= WakeMinSecs
<1>low. ASSUME WakesInv', \A d \in Devices : lastPost'[d] <= lastPost[d] PROVE WakesInv' /\ Spaced
  BY <1>low DEF WakesInv, WakesTypeOK
<1>same. ASSUME UNCHANGED <<waker, row, evClock, lastPost>>, told' \in Seq(Kinds) PROVE WakesInv' /\ Spaced
  BY <1>same DEF WakesInv, WakesTypeOK, WakerInv, PostedInv
<1>told. told \in Seq(Kinds)
  BY DEF WakesInv, WakesTypeOK
<1> SUFFICES WakesInv' /\ Spaced
  OBVIOUS
<1> HIDE DEF Spaced
<1>1. ASSUME NEW s \in Slots, Subscribe(s) \/ Released(s) PROVE WakesInv' /\ Spaced
  BY <1>1, <1>low, RowStepInv
<1>2. ASSUME NEW s \in Slots, SendHead(s) \/ HeadFails(s) \/ StreamEnds(s) PROVE WakesInv' /\ Spaced
  BY <1>2, <1>same, <1>told DEF SendHead, HeadFails, StreamEnds, Unsubscribe, wakeVars
<1>3. ASSUME NEW s \in Slots, PumpStep(s) PROVE WakesInv' /\ Spaced
  <2>1. UNCHANGED wakeVars
    BY <1>3 DEF PumpStep, PumpLooks, PumpDrains, PumpDrained, PumpReceives, PumpBeats, WriteOk, WriteFails
  <2> QED
    BY <2>1, <1>same, <1>told DEF wakeVars
<1>4. ASSUME NEW a \in EvAccounts, NEW kind \in {"entry", "signal", "ring"}, Publish(a, kind)
      PROVE WakesInv' /\ Spaced
  <2>1. [account |-> a, urgent |-> kind = "ring"] \in Kinds
    BY DEF Kinds
  <2>2. told' \in Seq(Kinds)
    BY <1>4, <1>told, <2>1, AppendProperties DEF Publish
  <2> QED
    BY <1>4, <2>2, <1>same DEF Publish
<1>5. ASSUME NEW s \in Slots, Offer(s) PROVE WakesInv' /\ Spaced
  BY <1>5, <1>same, <1>told DEF Offer, wakeVars
<1>6. CASE MarkBehind \/ PublishDone
  BY <1>6, <1>same, <1>told DEF MarkBehind, PublishDone, wakeVars
<1>7. ASSUME NEW d \in Devices, RegisterWake(d) \/ ForgetWake(d) PROVE WakesInv' /\ Spaced
  BY <1>7, <1>low, RowStepInv
<1>8. CASE WakerTakes
  <2>1. \A d \in Devices : lastPost'[d] <= lastPost[d]
    BY <1>8 DEF WakerTakes, WakesInv, WakesTypeOK
  <2> QED
    BY <1>8, <2>1, <1>low, WakerTakesInv
<1>9. ASSUME NEW it \in waker.todo, WakerDecides(it) PROVE WakesInv' /\ Spaced
  BY <1>9, WakerDecidesInv DEF Spaced
<1>10. CASE EvTick
  BY <1>10, <1>low, RowStepInv
<1>11. CASE UNCHANGED evVars
  BY <1>11, <1>same, <1>told DEF evVars, wakeVars
<1> QED
  BY <1>1, <1>2, <1>3, <1>4, <1>5, <1>6, <1>7, <1>8, <1>9, <1>10, <1>11
  DEF EvNext, TaskStep, PublisherStep

(* A device that is away is posted to once an interval, rings excepted,    *)
(* whatever notices queue up behind the waker and however often the device *)
(* registers again (wake.rs, and woken in device.rs).                      *)
THEOREM WakeSpacingHolds == EvSpec => WakeSpacing
<1>1. WakesInv /\ [EvNext]_evVars =>
        WakesInv' /\ [\A d \in Devices :
           lastPost'[d] > lastPost[d] /\ lastPost[d] # 0 /\ ~waker.urgent
           => lastPost'[d] - lastPost[d] >= WakeMinSecs]_evVars
  BY WakesStep
<1> QED
  BY <1>1, WakesInvInit, PTL DEF EvSpec, WakeSpacing

-----------------------------------------------------------------------------

(* Requests held open (Waiting).                                           *)

Waits == [phase : {"none", "parking", "held", "changed", "quiet"}, since : [WChannels -> Nat],
          parked : SUBSET WChannels, rung : SUBSET WChannels, missed : SUBSET WChannels]
Requests == [phase : {"none", "parked", "held"}, since : Nat, signal : BOOLEAN, rung : BOOLEAN]

WaitTypeOK ==
    /\ top \in [WChannels -> Nat] /\ toRing \subseteq WChannels /\ member \in BOOLEAN
    /\ stored \in [WChannels -> Nat] /\ shown \in [WChannels -> Nat]
    /\ wait \in Waits /\ fetch \in Requests

(* The first of what a held request promises: its own ring is still to     *)
(* come, or it looked when there was nothing.                              *)
FetchInv == fetch.phase = "held" /\ ~fetch.rung /\ Followed \notin toRing => ~FetchNews

(* A wait lives while the loop waits, so that what it named is what the    *)
(* loop was shown; and by the time it is held every task of it is parked,  *)
(* so no ring from then on misses it.                                      *)
WaitInv ==
    /\ wait.phase # "none" =>
          place = "waiting" /\ \A c \in WChannels : wait.since[c] = Named(c)
    /\ wait.phase = "parking" => wait.missed = {}
    /\ wait.phase = "held" => AllParked
    /\ wait.phase = "held" =>
          \A c \in Watched \ (toRing \cup wait.rung) : top[c] <= wait.since[c] /\ c \notin wait.missed

SleptInv == WaitTypeOK /\ FetchInv /\ WaitInv

LEMMA SleptInit == WaitingInit => SleptInv
  BY WaitingAssumption DEF WaitingInit, SleptInv, WaitTypeOK, FetchInv, WaitInv, NoWait, NoFetch, Waits, Requests

LEMMA NoWaitIsAWait == NoWait \in Waits /\ NoWait.phase = "none"
  BY DEF NoWait, Waits

LEMMA NoFetchIsARequest == NoFetch \in Requests /\ NoFetch.phase = "none"
  BY DEF NoFetch, Requests

LEMMA NamedIsNat == ASSUME WaitTypeOK, NEW c \in WChannels PROVE Named(c) \in Nat
  BY DEF WaitTypeOK, Named, LargerOf

(* What a pull keeps of a channel is what it has, or below the origin's    *)
(* newest.                                                                 *)
LEMMA NewestIsNat ==
    ASSUME NEW t \in Nat, NEW S, S \subseteq 1..t, NEW old \in Nat
    PROVE  Newest(S, old) \in Nat
<1>1. PICK b \in Nat : old <= b /\ t <= b
  OBVIOUS
<1>2. S \cup {old} \subseteq Nat /\ \A x \in S \cup {old} : x <= b
  BY <1>1
<1>3. \E n \in S \cup {old} : \A k \in S \cup {old} : k <= n
  BY <1>2, GreatestBelow
<1> QED
  BY <1>2, <1>3 DEF Newest

LEMMA PullsNat ==
    ASSUME WaitTypeOK, NEW c \in WChannels
    PROVE  Newest(Taken(c), stored[c]) \in Nat /\ Newest(Refused(c), shown[c]) \in Nat
<1>1. top[c] \in Nat /\ stored[c] \in Nat /\ shown[c] \in Nat
  BY DEF WaitTypeOK
<1>2. Taken(c) \subseteq 1..top[c] /\ Refused(c) \subseteq 1..top[c]
  BY DEF Taken, Refused, Served
<1> QED
  BY <1>1, <1>2, NewestIsNat

(* The origin's changes.                                                   *)
LEMMA ChangesKeepSlept == SleptInv /\ Changes => SleptInv'
<1> SUFFICES ASSUME SleptInv, NEW c \in WChannels, Post(c) \/ Signal(c) \/ Ring(c) PROVE SleptInv'
  BY DEF Changes
<1> USE WaitingAssumption
<1>1. CASE Post(c)
  <2>1. WaitTypeOK'
    BY <1>1 DEF Post, SleptInv, WaitTypeOK
  <2>2. FetchInv'
    BY <1>1 DEF Post, SleptInv, WaitTypeOK, FetchInv, FetchNews
  <2>3. WaitInv'
    BY <1>1 DEF Post, SleptInv, WaitTypeOK, WaitInv, Named, LargerOf, Watched, AllParked
  <2> QED
    BY <2>1, <2>2, <2>3 DEF SleptInv
<1>2. CASE Signal(c)
  <2>1. WaitTypeOK'
    <3>1. wait' \in Waits
      BY <1>2 DEF Signal, SleptInv, WaitTypeOK, Waits
    <3>2. fetch' \in Requests
      BY <1>2 DEF Signal, SleptInv, WaitTypeOK, Requests
    <3> QED
      BY <1>2, <3>1, <3>2 DEF Signal, SleptInv, WaitTypeOK
  <2>2. FetchInv'
    BY <1>2 DEF Signal, SleptInv, WaitTypeOK, Requests, FetchInv, FetchNews
  <2>3. WaitInv'
    BY <1>2 DEF Signal, SleptInv, WaitTypeOK, Waits, WaitInv, Named, LargerOf, Watched, AllParked
  <2> QED
    BY <2>1, <2>2, <2>3 DEF SleptInv
<1>3. CASE Ring(c)
  <2>1. WaitTypeOK'
    <3>1. wait' \in Waits
      BY <1>3 DEF Ring, SleptInv, WaitTypeOK, Waits
    <3>2. fetch' \in Requests
      BY <1>3 DEF Ring, SleptInv, WaitTypeOK, Requests
    <3> QED
      BY <1>3, <3>1, <3>2 DEF Ring, SleptInv, WaitTypeOK
  <2>2. FetchInv'
    BY <1>3 DEF Ring, SleptInv, WaitTypeOK, Requests, FetchInv, FetchNews
  <2>3. WaitInv'
    BY <1>3 DEF Ring, SleptInv, WaitTypeOK, Waits, WaitInv, Named, LargerOf, Watched, AllParked
  <2> QED
    BY <2>1, <2>2, <2>3 DEF SleptInv
<1> QED
  BY <1>1, <1>2, <1>3

(* The member's fetch.                                                     *)
LEMMA FetchesKeepSlept == SleptInv /\ Fetches => SleptInv'
<1> SUFFICES ASSUME SleptInv, Fetches PROVE SleptInv'
  OBVIOUS
<1> USE WaitingAssumption
<1>1. CASE TakenOut
  <2>1. WaitTypeOK'
    <3>1. top' \in [WChannels -> Nat]
      BY <1>1 DEF TakenOut, SleptInv, WaitTypeOK
    <3>2. member' \in BOOLEAN /\ toRing' \subseteq WChannels
      BY <1>1 DEF TakenOut, SleptInv, WaitTypeOK
    <3>3. UNCHANGED <<stored, shown, wait, fetch>>
      BY <1>1 DEF TakenOut, loopVars
    <3> QED
      BY <3>1, <3>2, <3>3 DEF SleptInv, WaitTypeOK
  <2>2. FetchInv'
    BY <1>1 DEF TakenOut, loopVars, SleptInv, WaitTypeOK, FetchInv, FetchNews
  <2>3. WaitInv'
    BY <1>1 DEF TakenOut, loopVars, SleptInv, WaitTypeOK, WaitInv, Named, LargerOf, Watched, AllParked
  <2> QED
    BY <2>1, <2>2, <2>3 DEF SleptInv
<1>2. ASSUME fetch' \in Requests, UNCHANGED <<originVars, loopVars>>, FetchInv' PROVE SleptInv'
  BY <1>2 DEF originVars, loopVars, SleptInv, WaitTypeOK, WaitInv, Named, LargerOf, Watched, AllParked
<1>3. CASE FetchAsks
  <2>1. fetch' \in Requests /\ fetch'.phase = "parked"
    BY <1>3 DEF FetchAsks, Requests, SleptInv, WaitTypeOK
  <2> QED
    BY <1>2, <1>3, <2>1 DEF FetchAsks, FetchInv
<1>4. CASE FetchLooks
  <2>1. fetch' \in Requests
    BY <1>4, NoFetchIsARequest DEF FetchLooks, Answered, Requests, SleptInv, WaitTypeOK
  <2>2. FetchInv'
    BY <1>4, NoFetchIsARequest
    DEF FetchLooks, Answered, FetchInv, FetchNews, Requests, SleptInv, WaitTypeOK, originVars
  <2> QED
    BY <1>2, <1>4, <2>1, <2>2 DEF FetchLooks
<1>5. CASE FetchWakes
  <2>1. fetch' \in Requests /\ fetch'.phase = "parked"
    BY <1>5 DEF FetchWakes, Requests, SleptInv, WaitTypeOK
  <2> QED
    BY <1>2, <1>5, <2>1 DEF FetchWakes, FetchInv
<1>6. CASE FetchEnds
  BY <1>2, <1>6, NoFetchIsARequest DEF FetchEnds, Answered, FetchInv
<1> QED
  BY <1>1, <1>3, <1>4, <1>5, <1>6 DEF Fetches

(* The origin's side of a wait: it looks once every task is parked.        *)
LEMMA ServesKeepSlept == SleptInv /\ Serves => SleptInv'
<1> SUFFICES ASSUME SleptInv, Serves PROVE SleptInv'
  OBVIOUS
<1> DEFINE Same == UNCHANGED <<originVars, loop, place, slot, client, losses, stored, shown, waitsNow,
                               poked, fetch>>
<1>1. ASSUME wait' \in Waits, Same, WaitInv' PROVE SleptInv'
  BY <1>1 DEF originVars, SleptInv, WaitTypeOK, FetchInv, FetchNews
<1>2. ASSUME NEW c \in WChannels, Parks(c) PROVE SleptInv'
  <2>1. wait' \in Waits
    BY <1>2 DEF Parks, Waits, SleptInv, WaitTypeOK, Watched
  <2>2. WaitInv'
    BY <1>2 DEF Parks, OriginStep, originVars, Waits, SleptInv, WaitTypeOK, WaitInv, Named, LargerOf
  <2> QED
    BY <1>1, <1>2, <2>1, <2>2 DEF Parks, OriginStep
<1>3. CASE LooksPast
  <2>1. wait' \in Waits
    BY <1>3 DEF LooksPast, Waits, SleptInv, WaitTypeOK
  <2>2. \A c \in Watched \ Past : top[c] <= wait.since[c]
    BY DEF Watched, Past, SleptInv, WaitTypeOK, Waits
  <2>3. WaitInv'
    BY <1>3, <2>2
    DEF LooksPast, OriginStep, originVars, Waits, SleptInv, WaitTypeOK, WaitInv, Named, LargerOf, Watched, AllParked
  <2> QED
    BY <1>1, <1>3, <2>1, <2>3 DEF LooksPast, OriginStep
<1>4. CASE WaitWoken \/ WaitRunsOut
  <2>1. wait' \in Waits
    BY <1>4 DEF WaitWoken, WaitRunsOut, Waits, SleptInv, WaitTypeOK
  <2>2. WaitInv'
    BY <1>4
    DEF WaitWoken, WaitRunsOut, OriginStep, originVars, Waits, SleptInv, WaitTypeOK, WaitInv, Named, LargerOf
  <2> QED
    BY <1>1, <1>4, <2>1, <2>2 DEF WaitWoken, WaitRunsOut, OriginStep
<1>5. CASE AbandonedEnds
  BY <1>1, <1>5 DEF AbandonedEnds, SleptInv, WaitTypeOK, WaitInv, originVars, Named, LargerOf, Watched, AllParked
<1> QED
  BY <1>2, <1>3, <1>4, <1>5 DEF Serves

(* The replica's loop: it names what it was shown, and whatever it does    *)
(* but wait ends the wait.                                                 *)
LEMMA FollowsKeepSlept == SleptInv /\ Follows => SleptInv'
<1> SUFFICES ASSUME SleptInv, Follows PROVE SleptInv'
  OBVIOUS
<1>1. ASSUME UNCHANGED <<originVars, fetch, stored, shown>>, wait' = NoWait PROVE SleptInv'
  BY <1>1, NoWaitIsAWait DEF originVars, SleptInv, WaitTypeOK, FetchInv, FetchNews, WaitInv
<1>2. ASSUME UNCHANGED <<originVars, fetch, stored, shown, wait>>, wait.phase # "none" => place' = place
      PROVE SleptInv'
  BY <1>2
  DEF originVars, SleptInv, WaitTypeOK, FetchInv, FetchNews, WaitInv, Named, LargerOf, Watched, AllParked
<1>3. place # "waiting" => wait.phase = "none"
  BY DEF SleptInv, WaitInv
<1>4. CASE Begin \/ Dial \/ Forward \/ Interval \/ RetryDue
  BY <1>2, <1>3, <1>4 DEF Begin, Dial, Forward, Interval, RetryDue, LoopStep
<1>5. CASE Pull
  <2>1. stored' \in [WChannels -> Nat] /\ shown' \in [WChannels -> Nat]
    BY <1>5, PullsNat DEF Pull, SleptInv, WaitTypeOK
  <2> QED
    BY <1>3, <1>5, <2>1
    DEF Pull, LoopStep, originVars, SleptInv, WaitTypeOK, FetchInv, FetchNews, WaitInv
<1>6. CASE Asks
  <2>1. CASE abandoned < MAX_WAITS_PER_PEER
    <3> DEFINE named == [c \in WChannels |-> Named(c)]
    <3>1. wait' = [phase |-> "parking", since |-> named, parked |-> {}, rung |-> {}, missed |-> {}]
      BY <1>6, <2>1 DEF Asks, NoWait
    <3>2. named \in [WChannels -> Nat]
      BY NamedIsNat DEF SleptInv
    <3>3. wait' \in Waits
      BY <3>1, <3>2 DEF Waits
    <3>4. \A c \in WChannels : wait'.since[c] = Named(c)' 
      BY <1>6, <3>1 DEF Asks, Named
    <3>5. place' = "waiting" /\ UNCHANGED <<originVars, fetch, stored, shown>>
      BY <1>6, <2>1 DEF Asks, LoopStep
    <3>6. wait'.phase = "parking" /\ wait'.missed = {}
      BY <3>1
    <3> QED
      BY <3>3, <3>4, <3>5, <3>6 DEF originVars, SleptInv, WaitTypeOK, FetchInv, FetchNews, WaitInv
  <2>2. CASE ~(abandoned < MAX_WAITS_PER_PEER)
    BY <1>2, <1>3, <1>6, <2>2 DEF Asks, LoopStep
  <2> QED
    BY <2>1, <2>2
<1>7. CASE Told \/ SafetyNet \/ LostWaiting \/ LoseConnection
  BY <1>1, <1>7 DEF Told, SafetyNet, LostWaiting, LoseConnection, Abandon, LoopStep
<1> QED
  BY <1>4, <1>5, <1>6, <1>7 DEF Follows

(* Nothing is slept over: a request held open that nobody has rung or is   *)
(* about to ring has nothing to be told, with any channels, entries,       *)
(* losses and refusals (server.rs fetch_waiting, wait_for_changes).        *)
THEOREM NothingSleptOverAlways == WaitingSpec => []NothingSleptOver
<1>1. SleptInv /\ [WaitingNext]_waitVars => SleptInv'
  <2>1. SleptInv /\ UNCHANGED waitVars => SleptInv'
    BY DEF waitVars, originVars, loopVars, SleptInv, WaitTypeOK, FetchInv, FetchNews, WaitInv, Named, LargerOf,
           Watched, AllParked
  <2> QED
    BY <2>1, ChangesKeepSlept, FetchesKeepSlept, ServesKeepSlept, FollowsKeepSlept DEF WaitingNext
<1>2. SleptInv => NothingSleptOver
  BY DEF SleptInv, FetchInv, WaitInv, NothingSleptOver, Named
<1> QED
  BY <1>1, <1>2, SleptInit, PTL DEF WaitingSpec
=============================================================================
