------------------------------ MODULE Sessions ------------------------------
(***************************************************************************)
(* Relayed sessions: sqexd/src/session.rs, behind one lock, and the two    *)
(* ends that open them by repeating one request until it is answered. An   *)
(* ephemeral is whose it is and its number; what travels is sealed, so a   *)
(* frame is its place in what its sender sent.                             *)
(***************************************************************************)
EXTENDS Naturals, Sequences, FiniteSets

CONSTANTS
    SPeers,            \* identities
    SessionTTL,        \* TTL_SECS
    MAX_QUEUED_FRAMES, \* frames waiting in one direction
    MaxEph,            \* bound: ephemerals one end makes
    MaxSessions,       \* bound: sessions made
    MaxFrames,         \* bound: frames one end sends in a session
    MaxSTime           \* bound: the clock

ASSUME SessionsAssumption ==
    /\ SessionTTL \in Nat /\ MAX_QUEUED_FRAMES \in Nat /\ MaxEph \in Nat
    /\ MaxSessions \in Nat /\ MaxFrames \in Nat /\ MaxSTime \in Nat

VARIABLES
    sPending,   \* sPending[p][q]: p asked for q, with which ephemeral and when
    sSessions,  \* the sessions by number
    sNext,      \* the last number given
    sClock,
    mine,       \* mine[p]: the ephemeral p holds the secret of
    held,       \* held[p]: the session p believes it is in
    sSent,      \* history: sSent[id][p], how many frames of p were accepted
    sGot        \* history: sGot[id][p], the frames answers to p took

sessionVars == <<sPending, sSessions, sNext, sClock, mine, held, sSent, sGot>>

SessionIds == 1..MaxSessions
Eph(p) == <<p, mine[p]>>
NotAsked == [eph |-> <<>>, at |-> 0]
NotMade == [ends |-> {}, eph |-> <<>>, queue |-> <<>>, created |-> 0, open |-> FALSE]
NotHeld == [id |-> 0, peer |-> {}, own |-> <<>>, theirs |-> <<>>]
Other(id, p) == CHOOSE q \in sSessions[id].ends : q # p

SessionInit ==
    /\ sPending = [p \in SPeers |-> [q \in SPeers |-> NotAsked]]
    /\ sSessions = [id \in SessionIds |-> NotMade]
    /\ sNext = 0 /\ sClock = 1
    /\ mine = [p \in SPeers |-> 1]
    /\ held = [p \in SPeers |-> NotHeld]
    /\ sSent = [id \in SessionIds |-> [p \in SPeers |-> 0]]
    /\ sGot = [id \in SessionIds |-> [p \in SPeers |-> <<>>]]

(* expire, which every call makes first. *)
LivePending ==
    [p \in SPeers |-> [q \in SPeers |->
        IF sPending[p][q].at + SessionTTL >= sClock THEN sPending[p][q] ELSE NotAsked]]
LiveSessions ==
    [id \in SessionIds |-> IF sSessions[id].created + SessionTTL >= sClock THEN sSessions[id] ELSE NotMade]

(* The open session between the two, if there is one; whether the caller   *)
(* offers the ephemeral it made that one with.                             *)
Between(p, q) == {id \in SessionIds : LiveSessions[id].open /\ {p, q} = LiveSessions[id].ends}
IsRetryMutant(p, id) == TRUE
IsRetry(p, id) == LiveSessions[id].eph[p] = Eph(p)

Told(p, q, id, theirs) == [id |-> id, peer |-> {q}, own |-> Eph(p), theirs |-> theirs]

(* The answer reaches the one that asked, or the connection dies first. *)
Answer(p, told) == held' \in {held, [held EXCEPT ![p] = told]}

OpenAgain(p, q) ==
    /\ \E id \in Between(p, q):
        /\ IsRetry(p, id)
        /\ Answer(p, Told(p, q, id, LiveSessions[id].eph[q]))
    /\ sSessions' = LiveSessions /\ sPending' = LivePending
    /\ UNCHANGED <<sNext, sClock, mine, sSent, sGot>>

(* Not a retry: a session that is open is discarded; if the other has      *)
(* asked too, a new one is made.                                           *)
RemainingMutant(p, q) == LiveSessions
Remaining(p, q) == [id \in SessionIds |-> IF id \in Between(p, q) THEN NotMade ELSE LiveSessions[id]]

OpenMatched(p, q) ==
    LET theirs == LivePending[q][p].eph
        id == sNext + 1 IN
    /\ \A old \in Between(p, q): ~IsRetry(p, old)
    /\ LivePending[q][p] # NotAsked /\ sNext < MaxSessions
    /\ sNext' = id
    /\ sPending' = [LivePending EXCEPT ![q][p] = NotAsked, ![p][q] = NotAsked]
    /\ sSessions' = [Remaining(p, q) EXCEPT ![id] =
         [ends |-> {p, q}, eph |-> [e \in {p, q} |-> IF e = p THEN Eph(p) ELSE theirs],
          queue |-> [e \in {p, q} |-> <<>>], created |-> sClock, open |-> TRUE]]
    /\ Answer(p, Told(p, q, id, theirs))
    /\ UNCHANGED <<sClock, mine, sSent, sGot>>

OpenWaits(p, q) ==
    /\ \A old \in Between(p, q): ~IsRetry(p, old)
    /\ LivePending[q][p] = NotAsked
    /\ sPending' = [LivePending EXCEPT ![p][q] = [eph |-> Eph(p), at |-> sClock]]
    /\ sSessions' = Remaining(p, q)
    /\ UNCHANGED <<sNext, sClock, mine, held, sSent, sGot>>

OpenSession(p, q) == p # q /\ (OpenAgain(p, q) \/ OpenMatched(p, q) \/ OpenWaits(p, q))
-----------------------------------------------------------------------------
(* send: refused when the other does not collect. *)
SendFrameMutant(p) ==
    LET id == held[p].id IN
    /\ id # 0 /\ LiveSessions[id].open /\ sSent[id][p] < MaxFrames
    /\ LET q == Other(id, p)
           waiting == LiveSessions[id].queue[q]
           kept == IF Len(waiting) >= MAX_QUEUED_FRAMES THEN Tail(waiting) ELSE waiting IN
       sSessions' = [LiveSessions EXCEPT ![id].queue[q] = Append(kept, sSent[id][p] + 1)]
    /\ sSent' = [sSent EXCEPT ![id][p] = @ + 1]
    /\ sPending' = LivePending
    /\ UNCHANGED <<sNext, sClock, mine, held, sGot>>

SendFrame(p) ==
    LET id == held[p].id IN
    /\ id # 0 /\ LiveSessions[id].open /\ sSent[id][p] < MaxFrames
    /\ LET q == Other(id, p) IN
       /\ Len(LiveSessions[id].queue[q]) < MAX_QUEUED_FRAMES
       /\ sSessions' = [LiveSessions EXCEPT ![id].queue[q] = Append(@, sSent[id][p] + 1)]
    /\ sSent' = [sSent EXCEPT ![id][p] = @ + 1]
    /\ sPending' = LivePending
    /\ UNCHANGED <<sNext, sClock, mine, held, sGot>>

(* recv: what waits is taken, before the answer is written: one that does  *)
(* not arrive takes its frames with it, and nobody asks for them again. A  *)
(* session that is closed or gone is told, where the answer arrives.       *)
RecvFrames(p) ==
    LET id == held[p].id
        live == LiveSessions[id] IN
    /\ id # 0
    /\ IF live = NotMade THEN sSessions' = LiveSessions /\ UNCHANGED sGot
       ELSE /\ sGot' = [sGot EXCEPT ![id][p] = @ \o live.queue[p]]
            /\ sSessions' = [LiveSessions EXCEPT ![id].queue[p] = <<>>]
    /\ Answer(p, IF live.open THEN held[p] ELSE NotHeld)
    /\ sPending' = LivePending
    /\ UNCHANGED <<sNext, sClock, mine, sSent>>

CloseSession(p) ==
    LET id == held[p].id IN
    /\ id # 0
    /\ sSessions' = IF LiveSessions[id].open THEN [LiveSessions EXCEPT ![id].open = FALSE]
                    ELSE LiveSessions
    /\ held' = [held EXCEPT ![p] = NotHeld]
    /\ sPending' = LivePending
    /\ UNCHANGED <<sNext, sClock, mine, sSent, sGot>>

(* An end starts again: the secret and what it knew are gone. *)
EndRestarts(p) ==
    /\ mine[p] < MaxEph
    /\ mine' = [mine EXCEPT ![p] = @ + 1]
    /\ held' = [held EXCEPT ![p] = NotHeld]
    /\ UNCHANGED <<sPending, sSessions, sNext, sClock, sSent, sGot>>

SessionTick ==
    /\ sClock < MaxSTime
    /\ sClock' = sClock + 1
    /\ UNCHANGED <<sPending, sSessions, sNext, mine, held, sSent, sGot>>

SessionNext ==
    \/ \E p, q \in SPeers: OpenSession(p, q)
    \/ \E p \in SPeers: SendFrame(p) \/ RecvFrames(p) \/ CloseSession(p) \/ EndRestarts(p)
    \/ SessionTick

SessionSpec == SessionInit /\ [][SessionNext]_sessionVars
-----------------------------------------------------------------------------
(* Two ends that are in one session pair the same two ephemerals: neither  *)
(* is told one whose secret the other has lost (open, "a fresh ephemeral   *)
(* discards the old session").                                             *)
SessionKeysAgree ==
    \A p, q \in SPeers: p # q /\ held[p].id # 0 /\ held[p].id = held[q].id
        => held[p].theirs = held[q].own /\ held[q].theirs = held[p].own

(* Between two identities at most one session is open. *)
OneSessionAPair ==
    \A i, j \in SessionIds: sSessions[i].open /\ sSessions[j].open /\ sSessions[i].ends = sSessions[j].ends
        => i = j

(* What was accepted from one end went out in an answer to the other or    *)
(* waits for it, in order and once, for as long as the session is kept: a  *)
(* frame is refused rather than dropped. Whether the answer arrived is not *)
(* known to the exchange.                                                  *)
FramesKept ==
    \A id \in SessionIds: sSessions[id] # NotMade =>
        \A p \in sSessions[id].ends:
            LET q == Other(id, p) IN
            sGot[id][q] \o sSessions[id].queue[q] = [i \in 1..sSent[id][p] |-> i]

(* The two ends of a session agree on it, through retries, restarts and  *)
(* expiry: on its keys, on its being the only one, and on what each has  *)
(* said in it (open, send and recv, session.rs).                         *)
SessionsAgree == SessionKeysAgree /\ OneSessionAPair /\ FramesKept
=============================================================================
