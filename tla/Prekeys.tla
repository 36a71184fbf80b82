------------------------------ MODULE Prekeys ------------------------------
(***************************************************************************)
(* One device's prekeys: the exchange's store of them (sqexd/src/prekey.rs *)
(* and the /prekey routes), the device's pool (sqex-proto/src/prekey.rs)   *)
(* and its rows (sqex-chat/src/store.rs), and the client's top_up_prekeys, *)
(* restart_pool and collect_keys, which keep the two together across lost  *)
(* requests, lost answers, crashes, refusals and a lost store.             *)
(*                                                                         *)
(* A prekey is its id and the number of its minting: two with one id hold  *)
(* different secrets. The device's connection runs one request at a time;  *)
(* peers take prekeys, and seal to them, between any two.                  *)
(***************************************************************************)
EXTENDS Naturals, FiniteSets, FiniteSetsExt

CONSTANTS
    POOL, LOW_WATER, RUNAWAY,  \* what a device keeps published, tops up below, gives up above
    MAX_PUBLISH,               \* prekeys in one Publish
    MAX_STORED,                \* one-time prekeys an exchange holds for a device
    MAX_CLEAR,                 \* Clears within the window
    MaxMints, MaxLosses,       \* bounds: prekeys minted, stores lost and Moves away
    NoPrekey

ASSUME PrekeysAssumption ==
    /\ POOL \in Nat /\ LOW_WATER \in Nat /\ RUNAWAY \in Nat
    /\ MAX_PUBLISH \in Nat \ {0} /\ MAX_STORED \in Nat /\ MAX_CLEAR \in Nat
    /\ MaxMints \in Nat /\ MaxLosses \in Nat

VARIABLES
    shelf,     \* the exchange: one-time prekeys, fallback, every id seen, Clears in the window
    pkRows,      \* the device's store: secrets held, those unpublished, fallback, spent ids
    topUp,     \* the client's top_up_prekeys under way
    sealedTo,  \* prekeys peers took and sealed to, their envelopes not yet opened
    minted,    \* history: every prekey minted
    served,    \* history: ids of the one-time prekeys served
    dropped,   \* history: prekeys whose secrets the client dropped unspent
    gone,      \* history: prekeys whose secrets went with a lost store, less those
               \* a Clear over its quota left at the exchange
    elsewhere, \* the exchange holds a Move of the account to another
    mishaps    \* stores lost and Moves away, against their bound

prekeyVars == <<shelf, pkRows, topUp, sealedTo, minted, served, dropped, gone, elsewhere, mishaps>>

Idle == [at |-> "idle"]
EmptyPool == [one |-> {}, unpub |-> {}, fall |-> NoPrekey, spent |-> {}]
PrekeysInit ==
    /\ shelf = [one |-> {}, fall |-> NoPrekey, seen |-> {}, clears |-> 0]
    /\ pkRows = EmptyPool /\ topUp = Idle /\ sealedTo = {}
    /\ minted = {} /\ served = {} /\ dropped = {} /\ gone = {}
    /\ elsewhere = FALSE /\ mishaps = 0
-----------------------------------------------------------------------------
Ids(ps) == {p.id : p \in ps}
OptSet(p) == {p} \ {NoPrekey}
OneAbove(ids) == 1 + Max(ids \cup {0})

(* publish: all or nothing, and an id seen once is refused for ever. *)
PublishableMutant(ps) == Cardinality(shelf.one \cup ps) <= MAX_STORED
Publishable(ps) == Ids(ps) \cap shelf.seen = {} /\ Cardinality(shelf.one \cup ps) <= MAX_STORED
Shelved(ps) == [shelf EXCEPT !.one = @ \cup ps, !.seen = @ \cup Ids(ps)]
WithFallback(p) == [shelf EXCEPT !.fall = p, !.seen = @ \cup {p.id}]

(* take: the lowest one-time prekey, consumed, or the fallback, which is   *)
(* not. Away, the request is handed to the account's home instead.         *)
Lowest(ps) == CHOOSE p \in ps : \A q \in ps : p.id <= q.id
Take ==
    /\ ~elsewhere
    /\ IF shelf.one # {}
       THEN LET p == Lowest(shelf.one) IN
            /\ shelf' = [shelf EXCEPT !.one = @ \ {p}]
            /\ served' = served \cup {p.id}
            /\ sealedTo' = sealedTo \cup {p}
       ELSE /\ shelf.fall # NoPrekey
            /\ sealedTo' = sealedTo \cup {shelf.fall}
            /\ UNCHANGED <<shelf, served>>
    /\ UNCHANGED <<pkRows, topUp, minted, dropped, gone, elsewhere, mishaps>>

(* clear: everything published is discarded, no id is forgotten. *)
ClearedMutant == [shelf EXCEPT !.one = {}, !.clears = @ + 1]
Cleared == [shelf EXCEPT !.one = {}, !.fall = NoPrekey, !.clears = @ + 1]
WindowEnds ==
    /\ shelf.clears > 0
    /\ shelf' = [shelf EXCEPT !.clears = 0]
    /\ UNCHANGED <<pkRows, topUp, sealedTo, minted, served, dropped, gone, elsewhere, mishaps>>
-----------------------------------------------------------------------------
(* Store::pool: next_id is one above the highest row; with no row it is    *)
(* the clock, which is above every id this device ever minted.             *)
RowIds == Ids(pkRows.one) \cup Ids(OptSet(pkRows.fall)) \cup pkRows.spent
NextId == IF RowIds = {} THEN OneAbove(Ids(minted)) ELSE OneAbove(RowIds)

(* wipe_one_time, and discard_unpublished with the save that follows it. *)
RowsWithout(ps) == [pkRows EXCEPT !.one = @ \ ps, !.unpub = @ \ ps]

(* /prekey/count: what the exchange holds is asked for first. A refusal    *)
(* (the account moved away) wipes the pool; without an answer the count is *)
(* not known.                                                              *)
AskCount ==
    /\ topUp = Idle
    /\ IF elsewhere
       THEN \/ /\ pkRows' = RowsWithout(pkRows.one) /\ dropped' = dropped \cup pkRows.one
               /\ UNCHANGED topUp
            \/ /\ topUp' = [at |-> "counted", known |-> FALSE, count |-> 0, next |-> NextId]
               /\ UNCHANGED <<pkRows, dropped>>
       ELSE /\ \E known \in BOOLEAN :
                 topUp' = [at |-> "counted", known |-> known,
                           count |-> IF known THEN Cardinality(shelf.one) ELSE 0, next |-> NextId]
            /\ UNCHANGED <<pkRows, dropped>>
    /\ UNCHANGED <<shelf, sealedTo, minted, served, gone, elsewhere, mishaps>>

(* restart_pool: an empty pool, or one that ran away, is cleared at the    *)
(* exchange, and starts above every id seen there. next_id is kept by no   *)
(* row: after a runaway's wipe the pool is loaded again from the rows.     *)
(* Moved away, the refusal ends the top-up, as a stop of the client does.  *)
RanAway == Cardinality(pkRows.one) > RUNAWAY
MustRestart == RanAway \/ (pkRows.one = {} /\ pkRows.fall = NoPrekey)
RestartPool ==
    /\ topUp.at = "counted" /\ "cleared" \notin DOMAIN topUp /\ MustRestart
    /\ ~elsewhere
    /\ LET started(next) ==
             IF RanAway
             THEN /\ pkRows' = RowsWithout(pkRows.one) /\ dropped' = dropped \cup pkRows.one
                  /\ topUp' = [at |-> "counted", known |-> topUp.known, count |-> topUp.count,
                               next |-> LET left == RowIds \ Ids(pkRows.one) IN
                                        IF left = {} THEN OneAbove(Ids(minted)) ELSE OneAbove(left)]
             ELSE /\ topUp' = [at |-> "counted", known |-> topUp.known, count |-> topUp.count,
                               next |-> Max({topUp.next, next}), cleared |-> TRUE]
                  /\ UNCHANGED <<pkRows, dropped>>
       IN \/ /\ shelf.clears < MAX_CLEAR /\ shelf' = Cleared
             /\ started(OneAbove(shelf.seen))
          \/ /\ shelf.clears < MAX_CLEAR /\ shelf' = Cleared \* its answer lost
             /\ topUp' = Idle /\ UNCHANGED <<pkRows, dropped>>
          \/ /\ shelf.clears >= MAX_CLEAR                    \* over the quota: by the count
             /\ started(OneAbove(Ids(OptSet(shelf.fall)))) /\ UNCHANGED shelf
    /\ gone' = IF shelf.clears >= MAX_CLEAR THEN {} ELSE gone
    /\ UNCHANGED <<sealedTo, minted, served, elsewhere, mishaps>>
-----------------------------------------------------------------------------
(* What is held unpublished is offered again, and minted around, never on  *)
(* top of. The pool is saved before anything is published.                 *)
Have == LET left == Cardinality(pkRows.one) - Cardinality(pkRows.unpub) IN
        IF topUp.known /\ topUp.count < left THEN topUp.count ELSE left
FreshMint == LET held == Have + Cardinality(pkRows.unpub)
             short == IF held < LOW_WATER /\ held < POOL THEN POOL - held ELSE 0 IN
         {[id |-> topUp.next + k, gen |-> Cardinality(minted) + k] : k \in 0 .. short - 1}
NeedsFallback(offer) == pkRows.fall = NoPrekey \/ offer # {}

SavedMutant(fresh) == pkRows
Saved(fresh) == [pkRows EXCEPT !.one = @ \cup fresh, !.unpub = @ \cup fresh]

MintOneTime ==
    /\ topUp.at = "counted" /\ ("cleared" \in DOMAIN topUp \/ ~MustRestart)
    /\ LET fresh == FreshMint
           offer == pkRows.unpub \cup fresh IN
       /\ Cardinality(minted) + Cardinality(fresh) <= MaxMints
       /\ minted' = minted \cup fresh
       /\ pkRows' = Saved(fresh)
       /\ topUp' = IF NeedsFallback(offer)
                   THEN [at |-> "publish", left |-> offer, offered |-> offer, marked |-> {},
                         next |-> topUp.next + Cardinality(fresh)]
                   ELSE Idle
    /\ UNCHANGED <<shelf, sealedTo, served, dropped, gone, elsewhere, mishaps>>

(* One batch: taken, refused whole -- the secrets of every prekey offered  *)
(* and not yet marked go -- or without an answer, kept for the next time.  *)
Batch == {p \in topUp.left : Cardinality({q \in topUp.left : q.id < p.id}) < MAX_PUBLISH}
Marked == [pkRows EXCEPT !.unpub = @ \ topUp.marked]
PublishBatch ==
    /\ topUp.at = "publish" /\ topUp.left # {}
    /\ \/ /\ ~elsewhere /\ Publishable(Batch) /\ shelf' = Shelved(Batch)
          /\ topUp' = [topUp EXCEPT !.left = @ \ Batch, !.marked = @ \cup Batch]
          /\ pkRows' = IF topUp.left = Batch THEN [pkRows EXCEPT !.unpub = @ \ (topUp.marked \cup Batch)] ELSE pkRows
          /\ UNCHANGED dropped
       \/ /\ elsewhere \/ ~Publishable(Batch)
          /\ LET discarded == topUp.offered \ topUp.marked IN
             /\ pkRows' = [Marked EXCEPT !.one = @ \ discarded, !.unpub = @ \ discarded]
             /\ dropped' = dropped \cup discarded
          /\ topUp' = Idle /\ UNCHANGED shelf
       \/ /\ shelf' = IF ~elsewhere /\ Publishable(Batch) THEN Shelved(Batch) ELSE shelf
          /\ pkRows' = Marked /\ topUp' = Idle /\ UNCHANGED dropped
       \/ /\ pkRows' = Marked /\ topUp' = Idle /\ UNCHANGED <<shelf, dropped>>
    /\ UNCHANGED <<sealedTo, minted, served, gone, elsewhere, mishaps>>

(* A fallback after every batch, the one it replaces retired, saved before *)
(* it is published.                                                        *)
MintFallback ==
    /\ topUp.at = "publish" /\ topUp.left = {} /\ Cardinality(minted) < MaxMints
    /\ LET p == [id |-> topUp.next, gen |-> Cardinality(minted)] IN
       /\ minted' = minted \cup {p}
       /\ pkRows' = [pkRows EXCEPT !.fall = p, !.spent = @ \cup Ids(OptSet(pkRows.fall))]
       /\ topUp' = [at |-> "fallback", fall |-> p]
    /\ UNCHANGED <<shelf, sealedTo, served, dropped, gone, elsewhere, mishaps>>

PublishFallback ==
    /\ topUp.at = "fallback"
    /\ \/ shelf' = IF elsewhere \/ topUp.fall.id \in shelf.seen THEN shelf ELSE WithFallback(topUp.fall)
       \/ UNCHANGED shelf
    /\ topUp' = Idle
    /\ UNCHANGED <<pkRows, sealedTo, minted, served, dropped, gone, elsewhere, mishaps>>
-----------------------------------------------------------------------------
(* collect_keys opens an envelope: Pool::take spends a one-time id whether *)
(* or not the secret is the one sealed to, keeps the fallback, and refuses *)
(* an id that is spent or was never held.                                  *)
Open(e) ==
    /\ topUp = Idle /\ e \in sealedTo
    /\ sealedTo' = sealedTo \ {e}
    /\ pkRows' = IF e.id \notin pkRows.spent /\ e.id \in Ids(pkRows.one)
               THEN LET same == {q \in pkRows.one : q.id = e.id} IN
                    [RowsWithout(same) EXCEPT !.spent = @ \cup {e.id}]
               ELSE pkRows
    /\ UNCHANGED <<shelf, topUp, minted, served, dropped, gone, elsewhere, mishaps>>

(* The client stops, between any two of its steps. *)
ClientStops ==
    /\ topUp # Idle /\ topUp' = Idle
    /\ UNCHANGED <<shelf, pkRows, sealedTo, minted, served, dropped, gone, elsewhere, mishaps>>

(* The device's store is lost, and made anew. *)
StoreLost ==
    /\ topUp = Idle /\ pkRows # EmptyPool /\ mishaps < MaxLosses /\ mishaps' = mishaps + 1
    /\ gone' = gone \cup pkRows.one \cup OptSet(pkRows.fall)
    /\ dropped' = dropped \cup pkRows.one \cup OptSet(pkRows.fall)
    /\ pkRows' = EmptyPool
    /\ UNCHANGED <<shelf, topUp, sealedTo, minted, served, elsewhere>>

(* The account moves away, and back: the exchange keeps what it holds. *)
Moves ==
    /\ elsewhere \/ mishaps < MaxLosses
    /\ elsewhere' = ~elsewhere
    /\ mishaps' = IF elsewhere THEN mishaps ELSE mishaps + 1
    /\ UNCHANGED <<shelf, pkRows, topUp, sealedTo, minted, served, dropped, gone>>

PrekeysNext ==
    \/ Take \/ WindowEnds \/ AskCount \/ RestartPool \/ MintOneTime \/ PublishBatch
    \/ MintFallback \/ PublishFallback \/ ClientStops \/ StoreLost \/ Moves
    \/ \E e \in sealedTo : Open(e)

PrekeysSpec == PrekeysInit /\ [][PrekeysNext]_prekeyVars
-----------------------------------------------------------------------------
(* A one-time prekey is served at most once, whatever is offered again     *)
(* after an answer was lost or minted again under its id: no id on the     *)
(* shelf was ever served (prekey.rs take and its prekey_seen).             *)
ServedOnce == Ids(shelf.one) \cap served = {}

(* The device holds the secret of every one-time prekey the exchange may   *)
(* serve or a peer has sealed to, unless it dropped that secret itself --  *)
(* told by a refusal, over RUNAWAY, or with its store -- whatever answer   *)
(* is lost and wherever the client stops (client.rs 2270).                 *)
SecretsKept ==
    \A p \in shelf.one \cup {q \in sealedTo : q.id \in served} :
        p \in pkRows.one \cup dropped \/ p.id \in pkRows.spent

(* A store lost with its secrets stops being sealed to: once the device    *)
(* holds a fallback again, nothing lost is on the shelf, unless the Clear  *)
(* was over its quota (restart_pool).                                      *)
NothingLostIsServed ==
    pkRows.fall # NoPrekey => gone \cap (shelf.one \cup OptSet(shelf.fall)) = {}

(* What the exchange serves can be opened: the device holds its secret,  *)
(* or dropped it knowingly, and what a lost store took with it is no     *)
(* longer served (top_up_prekeys and restart_pool, client.rs).           *)
ServedIsOpened == SecretsKept /\ NothingLostIsServed

(* A prekey that somebody seals to is somebody's alone and can be opened,  *)
(* across lost answers, offers made again and a store that was lost        *)
(* (prekey.rs take, client.rs top_up_prekeys).                             *)
ServedOnceAndOpened == ServedOnce /\ ServedIsOpened

(* The promise of Pool::discard_unpublished, that an id is never used for  *)
(* two prekeys: `The ids are not reused -- next_id has moved past them`.   *)
IdsNotReused == \A p, q \in minted : p.id = q.id => p = q
=============================================================================
