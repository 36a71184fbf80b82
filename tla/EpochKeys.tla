----------------------------- MODULE EpochKeys -----------------------------
(***************************************************************************)
(* How the clients of one private channel come to share an epoch's key     *)
(* (sqex-chat/src/client.rs: ensure_epoch, mint_epoch, collect_keys,       *)
(* rotate), against the exchange's put_keys and get_keys                   *)
(* (sqexd/src/channel.rs) and its prekeys (sqexd/src/prekey.rs).           *)
(*                                                                         *)
(* Every device is an account's only one and its account an administrator, *)
(* as in a direct message.  A mint is many requests: one prekey is taken   *)
(* for every device of the roster in turn, then the envelopes are put; in  *)
(* between anybody else may do the same.  The exchange knows nothing of    *)
(* keys; all it decides by is that a device gets one envelope an epoch.    *)
(*                                                                         *)
(* A device that has published prekeys always has one to give (the         *)
(* fallback is served when the others are gone), so what matters of a      *)
(* device's prekeys is whether there are any.  A client publishes them     *)
(* when it starts and goes no further if that fails; later it may clear    *)
(* them to start its pool again, and fail to publish anew.  Left out:      *)
(* channels keyed by agreement (SIP-87), members that may not mint, and    *)
(* lost stores.                                                            *)
(***************************************************************************)
EXTENDS Integers, FiniteSets, Sequences

CONSTANTS
  Devices,
  Roster,     \* the devices, in the order the members are listed
  Running,    \* the devices whose client has started, at the beginning
  Restarts,   \* whether a running client may start its pool again
  MaxEpoch, MaxMints,  \* bounds: epochs, keys generated by one device
  None

ASSUME KeysAssumption ==
  /\ Roster \in Seq(Devices) /\ Devices = {Roster[i] : i \in DOMAIN Roster}
  /\ Running \subseteq Devices /\ Restarts \in BOOLEAN
  /\ {MaxEpoch, MaxMints} \subseteq Nat
  /\ None \notin [by: Devices, n: Nat]

Epochs == 1..MaxEpoch
Key == [by: Devices, n: Nat]

(* What a client is in the middle of: `ensure_epoch`, waiting for what it  *)
(* collects, or `mint_epoch`, about to ask for the prekey at `at`. *)
EnsureTask == [does: {"ensure"}, epoch: Epochs]
MintTask ==
  [does: {"mint"}, epoch: Epochs, key: Key, at: 1..(Len(Roster) + 1), sealed: SUBSET Devices]

VARIABLES
  epoch,      \* the channel's epoch at the exchange
  envelope,   \* device |-> epoch |-> the key sealed to it, or None
  up,         \* the devices whose client has started
  ready,      \* the devices with prekeys at the exchange
  held,       \* device |-> epoch |-> the key in its store, or None
  task,       \* device |-> what its client is in the middle of, or None
  minted      \* device |-> how many keys it has generated

vars == <<epoch, envelope, up, ready, held, task, minted>>

Nothing == [d \in Devices |-> [e \in Epochs |-> None]]

Init ==
  /\ epoch = 0 /\ envelope = Nothing /\ held = Nothing /\ up = Running /\ ready = Running
  /\ task = [d \in Devices |-> None] /\ minted = [d \in Devices |-> 0]

----------------------------------------------------------------------------
(* What a client does with its keys *)

highest_epoch(d) ==
  LET have == {e \in Epochs : held[d][e] # None}
  IN IF have = {} THEN 0 ELSE CHOOSE e \in have : \A f \in have : f <= e

(* `put_key`: a key held is not replaced. *)
put_key(keys, e, k) == [keys EXCEPT ![e] = IF @ = None THEN k ELSE @]

(* Mutant of Served: the comparison the wrong way round. *)
ServedBelow(d, e) == e < highest_epoch(d)

(* `get_keys`: what is served to a device that asks from its highest epoch *)
Served(d, e) == e >= highest_epoch(d)

(* `collect_keys`: open what is served and not held *)
Collected(d) ==
  [e \in Epochs |-> IF held[d][e] = None /\ Served(d, e) THEN envelope[d][e] ELSE held[d][e]]

Minting(d, e) ==
  [does |-> "mint", epoch |-> e, key |-> [by |-> d, n |-> minted[d] + 1], at |-> 1, sealed |-> {}]

Begins(d, e) ==
  /\ e <= MaxEpoch /\ minted[d] < MaxMints
  /\ task' = [task EXCEPT ![d] = Minting(d, e)]
  /\ minted' = [minted EXCEPT ![d] = @ + 1]

----------------------------------------------------------------------------
(* The client starts: `top_up_prekeys` before anything else *)
Start(d) ==
  /\ d \notin up
  /\ up' = up \cup {d} /\ ready' = ready \cup {d}
  /\ UNCHANGED <<epoch, envelope, held, task, minted>>

(* or fails to, with the one-time prekeys published and the fallback not, *)
StartFails(d) ==
  /\ d \notin up \cup ready
  /\ ready' = ready \cup {d}
  /\ UNCHANGED <<epoch, envelope, up, held, task, minted>>

(* and then the last of them may be taken. *)
Drained(d) ==
  /\ d \in ready \ up
  /\ ready' = ready \ {d}
  /\ UNCHANGED <<epoch, envelope, up, held, task, minted>>

(* `restart_pool`: a pool that ran away is cleared at the exchange, *)
Clear(d) ==
  /\ Restarts /\ task[d] = None /\ d \in up \cap ready
  /\ ready' = ready \ {d}
  /\ UNCHANGED <<epoch, envelope, up, held, task, minted>>

(* and published anew by this or a later `top_up_prekeys`. *)
Publish(d) ==
  /\ task[d] = None /\ d \in up \ ready
  /\ ready' = ready \cup {d}
  /\ UNCHANGED <<epoch, envelope, up, held, task, minted>>

(* `ensure_epoch`, called before a post: read the epoch; the first is      *)
(* minted at once, *)
EnsureFirst(d) ==
  /\ d \in up /\ task[d] = None /\ epoch = 0
  /\ Begins(d, 1)
  /\ UNCHANGED <<epoch, envelope, up, ready, held>>

(* a later one the device has no key for is asked for first *)
Ensure(d) ==
  /\ d \in up /\ task[d] = None /\ epoch > 0 /\ held[d][epoch] = None
  /\ task' = [task EXCEPT ![d] = [does |-> "ensure", epoch |-> epoch]]
  /\ UNCHANGED <<epoch, envelope, up, ready, held, minted>>

(* and the next one minted only when nothing was there to collect. *)
EnsureCollects(d) ==
  /\ task[d] # None /\ task[d].does = "ensure"
  /\ held' = [held EXCEPT ![d] = Collected(d)]
  /\ \/ held'[d][task[d].epoch] # None
        /\ task' = [task EXCEPT ![d] = None] /\ UNCHANGED minted
     \/ held'[d][task[d].epoch] = None /\ Begins(d, task[d].epoch + 1)
  /\ UNCHANGED <<epoch, envelope, up, ready>>

(* `rotate`, and the rotation after `remove` *)
Rotate(d) ==
  /\ d \in up /\ task[d] = None
  /\ Begins(d, epoch + 1)
  /\ UNCHANGED <<epoch, envelope, up, ready, held>>

(* `take`: a prekey of the device, the fallback if no other is left *)
take(x) == x \in ready

(* `mint_epoch`: a prekey for the next device of the roster.  One that has *)
(* published nothing is skipped, but ends a conversation of two. *)
TakePrekey(d) ==
  LET t == task[d] who == Roster[t.at]
  IN /\ t # None /\ t.does = "mint" /\ t.at <= Len(Roster)
     /\ task' = [task EXCEPT ![d] =
          IF take(who) THEN [t EXCEPT !.at = @ + 1, !.sealed = @ \cup {who}]
          ELSE IF Len(Roster) > 2 THEN [t EXCEPT !.at = @ + 1] ELSE None]
     /\ UNCHANGED <<epoch, envelope, up, ready, held, minted>>

(* `mint_epoch`: with no envelope at all there is nothing to put. *)
HasEnvelopes(t) == t.sealed # {}

(* `put_keys`: the epoch is the channel's, or the next. *)
EpochFits(e) == e \in {epoch, epoch + 1}

(* Mutant of Taken: a put takes the place of what is there. *)
TakenNever(d, t) == FALSE

(* `put_keys`: a request that names a device with an envelope for the      *)
(* epoch is answered, not accepted. *)
Taken(d, t) == \E x \in t.sealed : envelope[x][t.epoch] # None

Accept(t) ==
  /\ epoch' = t.epoch
  /\ envelope' = [d \in Devices |-> [e \in Epochs |->
       IF d \in t.sealed /\ e = t.epoch THEN t.key ELSE envelope[d][e]]]

Ready(d) == task[d] # None /\ task[d].does = "mint" /\ task[d].at > Len(Roster)

(* `mint_epoch`: the put is accepted and the key kept, *)
PutAccepted(d) ==
  LET t == task[d]
  IN /\ Ready(d) /\ HasEnvelopes(t) /\ EpochFits(t.epoch) /\ ~Taken(d, t)
     /\ Accept(t)
     /\ held' = [held EXCEPT ![d] = put_key(@, t.epoch, t.key)]
     /\ task' = [task EXCEPT ![d] = None]
     /\ UNCHANGED <<up, ready, minted>>

(* accepted with the answer lost, or the client gone before it came, *)
PutUnheard(d) ==
  LET t == task[d]
  IN /\ Ready(d) /\ HasEnvelopes(t) /\ EpochFits(t.epoch) /\ ~Taken(d, t)
     /\ Accept(t)
     /\ task' = [task EXCEPT ![d] = None]
     /\ UNCHANGED <<up, ready, held, minted>>

(* not accepted, and what the winner sealed is collected, *)
PutRefused(d) ==
  LET t == task[d]
  IN /\ Ready(d) /\ HasEnvelopes(t) /\ EpochFits(t.epoch) /\ Taken(d, t)
     /\ held' = [held EXCEPT ![d] = Collected(d)]
     /\ task' = [task EXCEPT ![d] = None]
     /\ UNCHANGED <<epoch, envelope, up, ready, minted>>

(* or nothing to put, or an epoch that is no longer the next. *)
PutFails(d) ==
  /\ Ready(d) /\ ~(HasEnvelopes(task[d]) /\ EpochFits(task[d].epoch))
  /\ task' = [task EXCEPT ![d] = None]
  /\ UNCHANGED <<epoch, envelope, up, ready, held, minted>>

(* `absorb`, the poll: collected when there is no key for the epoch in     *)
(* force *)
Poll(d) ==
  /\ d \in up /\ task[d] = None /\ epoch > 0 /\ held[d][epoch] = None
  /\ held' = [held EXCEPT ![d] = Collected(d)]
  /\ UNCHANGED <<epoch, envelope, up, ready, task, minted>>

(* `collect_keys`, whenever the conversation is opened or caught up with *)
Collect(d) ==
  /\ d \in up /\ task[d] = None
  /\ held' = [held EXCEPT ![d] = Collected(d)]
  /\ UNCHANGED <<epoch, envelope, up, ready, task, minted>>

(* The client stops in the middle of something. *)
Stop(d) ==
  /\ task[d] # None
  /\ task' = [task EXCEPT ![d] = None]
  /\ UNCHANGED <<epoch, envelope, up, ready, held, minted>>

Next ==
  \E d \in Devices :
    \/ Start(d) \/ StartFails(d) \/ Drained(d) \/ Clear(d) \/ Publish(d)
    \/ EnsureFirst(d) \/ Ensure(d) \/ EnsureCollects(d) \/ Rotate(d)
    \/ TakePrekey(d) \/ PutAccepted(d) \/ PutUnheard(d) \/ PutRefused(d) \/ PutFails(d)
    \/ Poll(d) \/ Collect(d) \/ Stop(d)

Spec == Init /\ [][Next]_vars

(* What a client is in the middle of: a request ends, in an answer or in an *)
(* error. *)
Works(d) ==
  EnsureCollects(d) \/ TakePrekey(d) \/ PutAccepted(d) \/ PutUnheard(d) \/ PutRefused(d)
  \/ PutFails(d) \/ Stop(d)

----------------------------------------------------------------------------
(* The exchange's rows and every client's store and task keep their types,  *)
(* within the bounds. *)
TypeOK ==
  /\ epoch \in 0..MaxEpoch /\ up \subseteq Devices /\ ready \subseteq Devices
  /\ envelope \in [Devices -> [Epochs -> Key \cup {None}]]
  /\ held \in [Devices -> [Epochs -> Key \cup {None}]]
  /\ task \in [Devices -> {None} \cup EnsureTask \cup MintTask]
  /\ minted \in [Devices -> 0..MaxMints]

(* Whoever races whom, an epoch has one key: "One `Put` wins and the loser *)
(* collects instead" (`mint_epoch`, `put_keys`). *)
OneKeyPerEpoch ==
  \A c, d \in Devices, e \in Epochs :
    held[c][e] # None /\ held[d][e] # None => held[c][e] = held[d][e]

(* A key sealed to a device whose client runs reaches it while its epoch   *)
(* is in force: losing the race, a lost answer or a request given up cost  *)
(* nothing (`collect_keys`, `absorb`). *)
InForceIsCollected ==
  \A d \in Devices, e \in Epochs :
    d \in up /\ envelope[d][e] # None ~> held[d][e] # None \/ epoch > e
=============================================================================
