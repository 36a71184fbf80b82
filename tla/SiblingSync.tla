----------------------------- MODULE SiblingSync -----------------------------
(***************************************************************************)
(* Two devices of one account hand each other the history each holds       *)
(* (sqex-chat/src/sync.rs), over a session the exchange carries, while     *)
(* each goes on fetching between the steps.                                *)
(*                                                                         *)
(* `step` takes what arrived, serves a page and sends what the link will   *)
(* take; what arrives together is up to the link, so each message taken,   *)
(* page served and message sent is an action here. A message is what the   *)
(* frames make up; a channel's live incarnation and each ended one that is *)
(* kept (a generation) is an item.                                         *)
(***************************************************************************)
EXTENDS Naturals, Sequences, FiniteSets, FiniteSetsExt

CONSTANTS
    Sides,       \* the two devices
    Live,        \* items that are a channel's live incarnation
    Gens,        \* items that are an ended one
    Attached,    \* <<item, position>>: entries that name a blob
    EpochOf,     \* EpochOf[item, position]: whose key an entry opens with
    Expired,     \* positions whose entry is past its time
    PAGE,
    QUEUED,      \* messages a direction of the session holds
    Stocks,      \* what the two may hold to begin with
    Top          \* bound: positions of a channel

Items == Live \cup Gens

(* What a device holds of each item: positions, epochs whose key it has,   *)
(* the incarnation it knows (0 for none); and the blobs.                   *)
Stock ==
    [entries : [Items -> SUBSET (1..Top)], keys : [Items -> SUBSET Nat], life : [Items -> Nat],
     blobs : SUBSET (Items \X (1..Top))]

ASSUME SyncAssumption ==
    /\ IsFiniteSet(Sides) /\ Cardinality(Sides) = 2 /\ Live \cap Gens = {}
    /\ PAGE \in Nat \ {0} /\ QUEUED \in Nat \ {0} /\ Top \in Nat
    /\ EpochOf \in [Items \X (1..Top) -> Nat]
    /\ \A pair \in Stocks :
        /\ DOMAIN pair = Sides /\ pair = [s \in Sides |-> pair[s]]
        /\ \A s \in Sides :
            /\ pair[s] \in Stock
            /\ \A i \in Items : IsFiniteSet(pair[s].keys[i])

Other(s) == CHOOSE o \in Sides : o # s

VARIABLES
    stock,     \* stock[s]: entries, keys and life of each item, and the blobs
    step,      \* step[s]: the phase, and what was got and sent
    outbox,    \* outbox[s]: messages the link has not taken
    link,      \* link[s]: messages on their way to s
    open,      \* whether the exchange holds the session open
    owed,      \* owed[s]: item -> the position its sibling has got to
    keyed,     \* keyed[s]: items whose keys were sent
    offered,   \* offered[s]: the generations the sibling keeps
    asked,     \* asked[s]: the generations asked for
    wanted,    \* wanted[s]: blobs named and not held
    said,      \* history: what s held when it said so
    had        \* history: what s held when it was told

syncVars == <<stock, step, outbox, link, open, owed, keyed, offered, asked, wanted, said, had>>

SyncInit ==
    /\ stock \in Stocks
    /\ step = [s \in Sides |-> [phase |-> "greeting", gotHave |-> FALSE, gotWant |-> FALSE,
                                gotDone |-> FALSE, sentDone |-> FALSE]]
    /\ outbox = [s \in Sides |-> <<>>] /\ link = [s \in Sides |-> <<>>] /\ open = TRUE
    /\ owed = [s \in Sides |-> <<>>]
    /\ keyed = [s \in Sides |-> {}] /\ offered = [s \in Sides |-> {}]
    /\ asked = [s \in Sides |-> {}] /\ wanted = [s \in Sides |-> {}]
    /\ said = stock /\ had = stock
-----------------------------------------------------------------------------
Ongoing(s) == step[s].phase \in {"listing", "trading"}
Fails(s) ==
    /\ step' = [step EXCEPT ![s].phase = "failed"]
    /\ outbox' = [outbox EXCEPT ![s] = <<>>]
Queues(s, messages) == outbox' = [outbox EXCEPT ![s] = @ \o messages]
Ifs(cond, message) == IF cond THEN <<message>> ELSE <<>>

Greet(s) ==
    /\ step[s].phase = "greeting"
    /\ step' = [step EXCEPT ![s].phase = "listing"]
    /\ Queues(s, <<[tells |-> "hello"]>>)
    /\ UNCHANGED <<stock, link, open, owed, keyed, offered, asked, wanted, said, had>>

(* The next message that has arrived. *)
Arrives(s, what) ==
    /\ Ongoing(s) /\ link[s] # <<>> /\ Head(link[s]).tells = what
    /\ link' = [link EXCEPT ![s] = Tail(@)]
    /\ UNCHANGED open

(* held_for_siblings and held_generations: only what has signed entries.   *)
Held(s, of) ==
    {[item |-> i, life |-> stock[s].life[i], first |-> Min(stock[s].entries[i]),
      last |-> Max(stock[s].entries[i]), epochs |-> Cardinality(stock[s].keys[i])]
        : i \in {j \in of : stock[s].entries[j] # {}}}

(* The door: what each holds is told to a sibling the exchange lists. *)
TakeHello(s) ==
    /\ Arrives(s, "hello")
    /\ Queues(s, Ifs(Held(s, Gens) # {}, [tells |-> "earlier", rows |-> Held(s, Gens)])
                   \o <<[tells |-> "have", rows |-> Held(s, Live)]>>)
    /\ said' = [said EXCEPT ![s] = stock[s]]
    /\ UNCHANGED <<stock, step, owed, keyed, offered, asked, wanted, had>>

(* It is not listed any more, or its credential does not verify. *)
RefuseHello(s) ==
    /\ Arrives(s, "hello") /\ Fails(s)
    /\ UNCHANGED <<stock, owed, keyed, offered, asked, wanted, said, had>>

TakeEarlier(s) ==
    /\ Arrives(s, "earlier")
    /\ offered' = [offered EXCEPT ![s] = Head(link[s]).rows]
    /\ UNCHANGED <<stock, step, outbox, owed, keyed, asked, wanted, said, had>>
-----------------------------------------------------------------------------
(* From where this side lacks nothing of theirs. *)
SinceFirst(mine, h) == IF mine = {} THEN 0 ELSE IF Min(mine) <= h.first THEN Max(mine) ELSE h.first
Since(mine, h) == IF mine = {} THEN 0 ELSE IF Min(mine) <= h.first THEN Max(mine) ELSE h.first - 1

WantsLiveEntries(s, rows) ==
    {<<h.item, Since(stock[s].entries[h.item], h)>> : h \in {r \in rows :
        /\ stock[s].life[r.item] \in {0, r.life} /\ r.last > Since(stock[s].entries[r.item], r)}}

WantsLive(s, rows) ==
    {<<h.item, Since(stock[s].entries[h.item], h)>> : h \in {r \in rows :
        /\ stock[s].life[r.item] \in {0, r.life}
        /\ \/ r.last > Since(stock[s].entries[r.item], r)
           \/ r.epochs > Cardinality(stock[s].keys[r.item])}}

(* Of a generation, what is above the top of what is kept. *)
Reached(mine) == IF mine = {} THEN 0 ELSE Max(mine)
WantsEarlier(s) ==
    {<<g.item, Reached(stock[s].entries[g.item])>> : g \in {r \in offered[s] :
        \/ r.last > Reached(stock[s].entries[r.item])
        \/ r.epochs > Cardinality(stock[s].keys[r.item])}}

Trades(st) == IF st.gotHave /\ st.gotWant THEN [st EXCEPT !.phase = "trading"] ELSE st

TakeHave(s) ==
    LET earlier == WantsEarlier(s) IN
    /\ Arrives(s, "have")
    /\ Queues(s, Ifs(earlier # {}, [tells |-> "wantEarlier", rows |-> earlier])
                   \o <<[tells |-> "want", rows |-> WantsLive(s, Head(link[s]).rows)]>>)
    /\ asked' = [asked EXCEPT ![s] = {w[1] : w \in earlier}]
    /\ step' = [step EXCEPT ![s] = Trades([@ EXCEPT !.gotHave = TRUE])]
    /\ had' = [had EXCEPT ![s] = stock[s]]
    /\ UNCHANGED <<stock, owed, keyed, offered, wanted, said>>

Owes(s, rows) ==
    owed' = [owed EXCEPT ![s] = [i \in DOMAIN @ \cup {w[1] : w \in rows} |->
                IF i \in DOMAIN owed[s] THEN owed[s][i] ELSE (CHOOSE w \in rows : w[1] = i)[2]]]

TakeWantEarlier(s) ==
    /\ Arrives(s, "wantEarlier")
    /\ Owes(s, Head(link[s]).rows)
    /\ UNCHANGED <<stock, step, outbox, keyed, offered, asked, wanted, said, had>>

TakeWant(s) ==
    /\ Arrives(s, "want")
    /\ Owes(s, Head(link[s]).rows)
    /\ step' = [step EXCEPT ![s] = Trades([@ EXCEPT !.gotWant = TRUE])]
    /\ UNCHANGED <<stock, outbox, keyed, offered, asked, wanted, said, had>>
-----------------------------------------------------------------------------
(* serve: keys once, then a page of entries, then the blobs it names. *)
PageOf(mine, since) ==
    {e \in mine : e > since /\ Cardinality({f \in mine : since < f /\ f < e}) < PAGE}

(* The blobs entries of an item name, read through keys: an entry whose    *)
(* key is not held names none, and one of epoch 0 is not sealed.           *)
Opens(keys, i, e) == EpochOf[i, e] \in keys \cup {0}
Named(keys, i, es) == {<<i, e>> : e \in {f \in es : Opens(keys, i, f)}} \cap Attached

MoreIsOwedShort(s, i, page) == page \ Expired # {} /\ Max(page) + 1 < Max(stock[s].entries[i])
MoreIsOwed(s, i, page) == page \ Expired # {} /\ Max(page) < Max(stock[s].entries[i])

Serve(s, i) ==
    LET page == PageOf(stock[s].entries[i], owed[s][i])
        blobs == Named(stock[s].keys[i], i, page \ Expired) \cap stock[s].blobs
    IN  /\ step[s].phase = "trading" /\ outbox[s] = <<>> /\ i \in DOMAIN owed[s]
        /\ keyed' = [keyed EXCEPT ![s] = @ \cup {i}]
        /\ Queues(s, Ifs(i \notin keyed[s] /\ stock[s].keys[i] # {},
                         [tells |-> "keys", item |-> i, keys |-> stock[s].keys[i]])
                     \o Ifs(page \ Expired # {},
                         [tells |-> "entries", item |-> i, life |-> stock[s].life[i],
                          entries |-> page \ Expired])
                     \o Ifs(blobs # {}, [tells |-> "blobs", ids |-> blobs]))
        /\ owed' = [owed EXCEPT ![s] =
                IF MoreIsOwed(s, i, page) THEN [@ EXCEPT ![i] = Max(page)]
                ELSE [j \in DOMAIN @ \ {i} |-> @[j]]]
        /\ UNCHANGED <<stock, step, link, open, offered, asked, wanted, said, had>>

SayDone(s) ==
    /\ step[s].phase = "trading" /\ step[s].gotWant /\ ~step[s].sentDone /\ DOMAIN owed[s] = {}
    /\ step' = [step EXCEPT ![s].sentDone = TRUE]
    /\ Queues(s, <<[tells |-> "done"]>>)
    /\ UNCHANGED <<stock, link, open, owed, keyed, offered, asked, wanted, said, had>>
-----------------------------------------------------------------------------
(* Keys and KeysOf: of a generation, only where this side asked for it. *)
TakeKeys(s) ==
    LET k == Head(link[s]) IN
    /\ Arrives(s, "keys")
    /\ stock' = IF k.item \in Live \cup asked[s]
                THEN [stock EXCEPT ![s].keys[k.item] = @ \cup k.keys] ELSE stock
    /\ UNCHANGED <<step, outbox, owed, keyed, offered, asked, wanted, said, had>>

(* import and import_earlier: of the live incarnation, only what the       *)
(* exchange serves today and this side does not know otherwise.            *)
Serves == 2
Importable(s, m) ==
    \/ m.item \in asked[s]
    \/ stock[s].life[m.item] \in {0, m.life} /\ m.life = Serves
TakeEntries(s) ==
    LET m == Head(link[s]) IN
    /\ Arrives(s, "entries") /\ Importable(s, m)
    /\ stock' = [stock EXCEPT ![s].entries[m.item] = @ \cup m.entries, ![s].life[m.item] = m.life]
    /\ wanted' = [wanted EXCEPT ![s] =
            @ \cup (Named(stock[s].keys[m.item], m.item, m.entries) \ stock[s].blobs)]
    /\ UNCHANGED <<step, outbox, owed, keyed, offered, asked, said, had>>

(* Another incarnation ends the whole sync. *)
RefuseEntries(s) ==
    /\ Arrives(s, "entries") /\ ~Importable(s, Head(link[s])) /\ Fails(s)
    /\ UNCHANGED <<stock, owed, keyed, offered, asked, wanted, said, had>>

(* A blob nobody asked for is dropped. *)
TakeBlobs(s) ==
    LET ids == Head(link[s]).ids \cap wanted[s] IN
    /\ Arrives(s, "blobs")
    /\ stock' = [stock EXCEPT ![s].blobs = @ \cup ids]
    /\ wanted' = [wanted EXCEPT ![s] = @ \ ids]
    /\ UNCHANGED <<step, outbox, owed, keyed, offered, asked, said, had>>

TakeDone(s) ==
    /\ Arrives(s, "done")
    /\ step' = [step EXCEPT ![s].gotDone = TRUE]
    /\ UNCHANGED <<stock, outbox, owed, keyed, offered, asked, wanted, said, had>>
-----------------------------------------------------------------------------
(* Out, as far as the link will take it. *)
Send(s) ==
    /\ Ongoing(s) /\ open /\ outbox[s] # <<>> /\ Len(link[Other(s)]) < QUEUED
    /\ link' = [link EXCEPT ![Other(s)] = Append(@, Head(outbox[s]))]
    /\ outbox' = [outbox EXCEPT ![s] = Tail(@)]
    /\ UNCHANGED <<stock, step, open, owed, keyed, offered, asked, wanted, said, had>>

(* Everything sent has gone, and both said Done: whoever ran the sync      *)
(* closes the session, and what is still in it may be collected.           *)
MayFinish(s) == step[s].sentDone /\ step[s].gotDone /\ outbox[s] = <<>>
Finish(s) ==
    /\ Ongoing(s) /\ MayFinish(s)
    /\ step' = [step EXCEPT ![s].phase = "finished"]
    /\ outbox' = [outbox EXCEPT ![s] = <<>>]
    /\ open' = FALSE
    /\ UNCHANGED <<stock, link, owed, keyed, offered, asked, wanted, said, had>>

(* The session ends by itself: it expires, or the exchange restarts. *)
SessionGone ==
    /\ open /\ open' = FALSE
    /\ link' = [s \in Sides |-> <<>>]
    /\ UNCHANGED <<stock, step, outbox, owed, keyed, offered, asked, wanted, said, had>>

(* A link that has gone ends the sync; so does a failed side's close. *)
LinkLost(s) ==
    /\ Ongoing(s) /\ ~open /\ (link[s] = <<>> \/ outbox[s] # <<>>) /\ ~MayFinish(s)
    /\ Fails(s)
    /\ UNCHANGED <<stock, link, open, owed, keyed, offered, asked, wanted, said, had>>

CloseFailed(s) ==
    /\ step[s].phase = "failed" /\ open
    /\ open' = FALSE
    /\ UNCHANGED <<stock, step, outbox, link, owed, keyed, offered, asked, wanted, said, had>>

(* Between two steps, a fetch of the newest. *)
Fetches(s, i) ==
    /\ i \in Live /\ Reached(stock[s].entries[i]) < Top /\ stock[s].life[i] \in {0, Serves}
    /\ stock' = [stock EXCEPT ![s].entries[i] = @ \cup {Top}, ![s].life[i] = Serves]
    /\ UNCHANGED <<step, outbox, link, open, owed, keyed, offered, asked, wanted, said, had>>

SyncOf(s) ==
    \/ Greet(s) \/ TakeHello(s) \/ RefuseHello(s) \/ TakeEarlier(s) \/ TakeHave(s)
    \/ TakeWantEarlier(s) \/ TakeWant(s) \/ TakeKeys(s) \/ TakeEntries(s) \/ RefuseEntries(s)
    \/ TakeBlobs(s) \/ TakeDone(s) \/ SayDone(s) \/ Send(s) \/ Finish(s) \/ LinkLost(s)
    \/ CloseFailed(s)
    \/ \E i \in Items : Serve(s, i) \/ Fetches(s, i)

(* Both have ended, and each client goes on without. *)
Over ==
    /\ \A s \in Sides : step[s].phase \in {"finished", "failed"}
    /\ UNCHANGED syncVars

SyncNext == SessionGone \/ Over \/ \E s \in Sides : SyncOf(s)

SyncSpec == SyncInit /\ [][SyncNext]_syncVars
-----------------------------------------------------------------------------
Gapless(es) == es = {} \/ es = Min(es)..Max(es)

(* Whether a side's copy of an item was one the two can compare: without a *)
(* hole, of no other incarnation, and -- of a generation -- not the later  *)
(* part alone.                                                             *)
Comparable(mine, theirs, i) ==
    /\ Gapless(mine.entries[i])
    /\ i \in Live => mine.life[i] \in {0, theirs.life[i]}
    /\ i \in Gens /\ mine.entries[i] # {} => Min(mine.entries[i]) <= Min(theirs.entries[i])

(* When both sides have finished, each holds every entry the other had     *)
(* told it of; where it lacked one of them, or held keys to fewer epochs,  *)
(* every key the other had too; and each blob that an entry it lacked      *)
(* names, when the other held the blob and the key the entry opens with.   *)
(* So whatever either fetched meanwhile and however the pages fell -- for  *)
(* a copy without holes, of a channel in which nothing has timed out       *)
(* (Since, serve and take in sync.rs; import in client.rs). Keys are       *)
(* listed by their number alone: between two that lack no entry of each    *)
(* other's and hold as many keys, other keys are not handed over.          *)
SyncHandsOver ==
    (\A s \in Sides : step[s].phase = "finished") =>
        \A s \in Sides, i \in Items :
            LET theirs == said[Other(s)]
                lacked == theirs.entries[i] \ had[s].entries[i]
            IN  /\ theirs.entries[i] # {} /\ theirs.entries[i] \cap Expired = {}
                /\ Comparable(had[s], theirs, i)
                => /\ theirs.entries[i] \subseteq stock[s].entries[i]
                   /\ \/ lacked # {}
                      \/ Cardinality(theirs.keys[i]) > Cardinality(had[s].keys[i])
                      => theirs.keys[i] \subseteq stock[s].keys[i]
                   /\ Named(theirs.keys[i], i, lacked) \cap theirs.blobs \subseteq stock[s].blobs

(* From where a side asks, it lacks nothing of what the other holds:       *)
(* "From where this side lacks nothing of theirs: its own top when its     *)
(* copy starts at or before theirs" (take, sync.rs).                       *)
LacksNothing ==
    (\A s \in Sides : step[s].phase = "finished") =>
        \A s \in Sides, i \in Live :
            had[s].life[i] = said[Other(s)].life[i]
                => said[Other(s)].entries[i] \ Expired \subseteq stock[s].entries[i]
=============================================================================
