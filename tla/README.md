# A TLA+ model of the sqex exchange

sqex is an exchange: a server (`sqexd`) that clients reach over HTTP/3 on a
transport that authenticates both ends, and that keeps channels, mail, names,
devices and calls for them without holding the keys to what they say. Exchanges
copy channels from one another, and an account lives at one of them, its home.
This directory holds TLA+ models of the parts of it whose correctness is a
matter of *sequences* -- of handlers, requests, restarts, pulls and messages --
the TLC configurations that check them on small instances, and TLAPS proofs of
what matters most for instances of any size.

- [The system and its parts](#the-system-and-its-parts)
- [Modules](#modules)
- [Runs](#runs)
- [Fairness](#fairness)
- [What is proved](#what-is-proved)
- [What is only model-checked](#what-is-only-model-checked)
- [Where the code and its own words disagree](#where-the-code-and-its-own-words-disagree)
- [What is not modelled](#what-is-not-modelled)
- [Plan](#plan)

## The system and its parts

The server is one process on a tokio runtime. A store is either a SQLite
database behind one `Mutex` -- a handler is then one transaction, hence one
atomic step, unless it commits statement by statement -- or a few maps behind a
mutex each, and then a handler that takes two of them is two steps. Clients and
other exchanges make several requests to do one thing, so at their level almost
nothing is atomic.

| Component | State it keeps | Hard because | Correct when |
|---|---|---|---|
| Admission queue (`admission.rs`) | pending, denied, accepted: three maps, three locks | request and deny each hold two locks one after the other | limits hold, a budget is a budget |
| Challenges (`challenge.rs`) | nonces with an expiry | a captured command is delivered again | one nonce, one command |
| Administration (`server.rs`, `state.rs`) | whitelist, peers, audit, admin list; the transport's own set; connections | derived state, a batch of ops, a save that fails | the door is what the state says |
| Request routing (`server.rs`) | none of its own | gates, limits, carriage to an origin, each with its own arm | an action carried is the action asked |
| Rate limits (`limits.rs`) | buckets that refill | sweep, equal times | never more than burst and refill |
| Channel store (`channel.rs`) | channel, member, entry, chain, high_water, envelope, retired_instance, replica | identifiers used again, pruned logs that go on counting, quotas over channels | no statement twice, no number twice, no counter twice |
| Replication (`replica.rs`) | a copy of another exchange's log, a roster derived from it, holes | entries refused for a while, pruned before they are pulled, of an earlier incarnation | the copy catches up and serves whom the origin would |
| Waits and the replica's loops | held requests, permits, the forwarder's connection | what changes between the look and the sleep | nothing slept over |
| Rehoming (`channel.rs`, `replica.rs`) | who orders a channel, lineage of origins, stranded entries | two exchanges order at once | one origin, nothing said is lost |
| Epoch keys (`client.rs` with `channel.rs`, `prekey.rs`) | prekeys, envelopes, the client's store | a mint is one request per device, everybody may mint | one key per epoch, and it arrives |
| Prekeys (`prekey.rs`) | one-time keys and a fallback; the device's pool | lost answers, lost stores, moves | given once, and opened |
| Devices, credentials, succession (`device.rs`) | registrations, revocations, successions, moves | registries share nothing; claims checked by one statement, recorded by another | what was revoked stays out |
| Mailbox (`mailbox.rs`) | sealed mail | an account that moves while mail is collected | delivered once, not stranded |
| Feeds (`feed.rs`) | an author's chained posts | statements commit one by one; the head outlives the posts | the chain never forks |
| Attachments, backup (`channel.rs`) | uploads, blobs, references of three kinds; manifests | shared by several owners; collected from a former home | kept while referred to; never replaced by half |
| Sessions, rooms, relay, rendezvous | calls and presence, in memory | two ends, two exchanges, timeouts | both ends agree whether there is a call |
| Events, wake-ups, tail | bounded queues per subscriber | overflow while draining, no common lock | what was dropped is announced |
| Client: store, sync, timeline (`sqex-chat`) | entries, keys, cursors | restarts, replays, re-made channels | what was opened is kept; nothing is passed over |
| Byte formats (`sqex-proto`) | none | lengths narrower than what they count | read as written, or refused |
| Names, profiles, directory, beacon, attestation; cursors, signals, reports; voice engine; discovery, CLI, terminal UI | rows, rings, a file | -- | not modelled, see below |

How they meet: an approved admission becomes a whitelist key; the whitelist and
the device registry make the transport's set; channels ask the device registry
which account a device is and the profiles who blocked whom; it is the *client*
that takes prekeys from one store and puts envelopes into another; a copy pulls
from a channel store, and its own serves the copy's readers; what a member asks
of a copy is carried to the origin; what changes is published to event streams
and rings those who wait.

`PROJECT.json` lists every component with its status, and the hazards each is
exposed to at the line where they bite.

## Modules

| Module | Models | State and actions |
|---|---|---|
| `Admission` | `admission.rs` | `request` is `Ask` (under `denied`) and `Land` (under `pending`), `deny` is `DenyTake` and `DenyRecord`; the history `landed` is when requests entered the queue |
| `Admin` | challenges, signed transactions, state file, the door | `Authorise`; `Begin`, one action per op, `Finish`/`FinishUnsaved` are `execute`, with handlers under other locks between its ops; `Resync` and `SweepDue` re-derive the door too; `Restart` is a crash or a kill and loads what was saved last, `Shutdown` saves first |
| `Routes` | `route` of `server.rs` | the table: who may ask, limit, writes, carriage, what follows; the machine: one request from the gates to the answer, over a connection that may fail before or after the origin acted |
| `Limits` | `limits.rs` | `take` with its refill and its "come back", `sweep`; tokens counted in parts so that the arithmetic is exact |
| `Channel` | the channel store at an origin | per channel the rows `destroy` clears, plus `retired` and `replica`, which it leaves; one action per handler; `spent` and `life` are histories |
| `Copy` | extends `Channel` with an exchange that copies it | `PullOnce`, then `PullBelow` or `PullEnds`; `adopt`, `store_pulled`, `rederive` inside them; restarts and learning the lineage between |
| `Waiting` | fetch and wait held at the origin; `run`, `run_moved`, `wait_any` | the write, the ring, the park and the look are steps apart; the connection in the forwarder's slot may be lost |
| `Rehome` | `rehome`, `adopt_rehome`, `my_rehome`, `record_origin`, `store_pulled` | one log per exchange; a receipt is who ordered the entry, where and for which time |
| `EpochKeys` | clients of one channel and the tables they use | a client is in at most one `task`; `TakePrekey` asks for one device, four `Put` actions are the ways a publication ends, `Stop` is a client that goes away in between |
| `Prekeys` | one device's pool and the exchange's rows | a prekey is its id and the number of its minting; publish in batches whose answer may be lost, `restart_pool`, a lost store, a Move away |
| `Registry` | `device.rs`, `/device`, `succeed`, `handover` | a registry per exchange, messages the home carries, claims checked in one step and recorded in another |
| `Homing` | `mailbox.rs`, the Move on record, the home task's collection, `move_home` | the collection is four exchanges of messages; any may be lost; `deliver` is the row, then the note of it, which may fail or not be reached (`Deliver`, `noted`) |
| `Feed` | `feed.rs`, two devices of the author, a follower | `append` is the row, then the evictions one by one, then the head; it may stop after each (`AppendStops`); `withdraw`, `sweep`, pages |
| `Blobs` | uploads, attachments to channels, folded messages and feeds | every operation a transaction; four ways the last holder goes; an identifier that was freed is made again with either visibility (`Create`), under uploads and pulls that are under way |
| `Backup` | `/backup`, `collect_backup` | a device's upload and manifest; a collection as many requests |
| `Sessions` | `session.rs` and both ends | one lock; ends repeat their request, restart, keep what they were told; any answer may be lost, the frames in it too |
| `Rendezvous` | `rendezvous.rs` and the route that waits | the waiting task split at its locks |
| `Relay` | `relay.rs` at caller's and callee's exchange | `place_call` with what it awaits, answers, every control message, the death of the link |
| `Rooms` | `room.rs`, shares between exchanges | ages instead of times; `share_room`, `take_share`, `view_for` |
| `Events`, `HintStream` | `events.rs`, `wake.rs`; what a stream promises | publisher under its lock, pump without one; `Events` implements `HintStream` |
| `TailStream` | `tail.rs` | two counters shared without a lock |
| `Timeline`, `Reading` | the timeline's fold; a client polling one channel | a poll is several requests, a store statement a commit of its own, the client may stop at any |
| `SiblingSync` | `sync.rs` of the client | hello, lists, wants, pages, blobs, done, over a link with back-pressure |
| `Layout`, `Wire`, `WireChannel`, `WireAccount`, `WireStores` | every message of `sqex-proto` | a layout is the fields in order with the width of each length, what the writer cuts and what the reader accepts |

`MCAdmin`, `MCCalls`, `MCChannel`, `MCHomes`, `MCLive`, `MCMemory`,
`MCRoom` and `MCStores` give the constants values. Modules that share no state
are checked in one run: the MC module has a variable `focus`, chosen at the
start, that names the component that moves while the rest stay where they began.
The state space is the sum of theirs, not the product, and each is explored as
fully as it would be alone. Where components do act on each other they are
composed in earnest: `Copy` on `Channel`, `Events` under `HintStream`,
`Reading` over `Timeline`, `Wire` over its layouts. `MCChannel` serves two runs: the
origin alone, and the origin with its copy.

In each module the operators whose comment calls them a mistake or a mutant are
wrong versions of the operator that follows them. No action uses one; each shows
that a property notices.

`AdminProofs`, `CallsProofs`, `ChannelProofs`, `EventsProofs`, `KeysProofs`,
`MemoryProofs` and `StoresProofs` hold the theorems, `Induction` the lemmas on
numbers and finite sets that several of them need.

## Runs

Bounds are constants of the modules, named so where they are declared
(`MaxSeq`, `MaxTime`, `MaxBridges`, the sets). Deadlock is checked unless every
bounded behaviour of the run ends (`live`, `memory`, `keys_and_homes`, `redial`,
where the counters of what may happen run out).

| Run | Asks | Instance | States |
|---|---|---|---|
| `admin` | a nonce works once; the door is what the state says, the administrators are never locked out, recorded connections are admitted ones; a lapsed device leaves | 2 nonces, six batches that together hold every op, 1 device with a connection, two admin lists, saves may fail | 765k |
| `memory` | queue limits; both ends of a session hold one key; introductions agree; the rate limit; an action carried is the one asked; bytes are read as written | 2 devices, 2 accounts; 2 peers, 2 sessions, 1 frame queued; 2 parties, 2 families; burst 2 at 2 in 3 s; every route; every layout | 1.29M |
| `calls` | no two ends with different keys, no half bridge; a left member is off every roster | 2 devices, 2 bridges, 2 dials; 3 exchanges, one link that fails | 1.37M |
| `live` | the hint promise, the wake interval, loss is reported, nothing is slept over, news is pulled | queues of 1, 3 hints, 4 records; 2 channels, 2 entries, 1 loss, both loops | 183k |
| `channel_log` | replay and fork, numbering, counters, pruning | one direct message, two devices, two incarnations, 4 positions, cap and byte limit 2 | 321k |
| `channel_room` | the quota on strangers; what was revoked stays out; a sync hands over what it told of; prekeys served once and opened | two public channels, three accounts, one block, cap 2, quota 1; two registries, two accounts, two devices; two siblings, four positions, keys that differ in number or in epoch; a pool of 1, 4 mints | 600k |
| `copy` | right readers, one incarnation, catching up | one private channel, two accounts, two incarnations, 3 positions, holes tried twice, a key change at the origin, restarts | 88k |
| `keys_and_homes` | one key per epoch, it arrives; a channel handed over has one origin with everything; what a takeover cuts off is kept | 2 devices, 3 epochs, 2 mints; 3 exchanges, 2 moves, 1 takeover | 43k |
| `stores` | one feed chain, the author's withdrawal; mail follows; blobs kept while held; backup whole; reading keeps what it opened | 2 author devices, 3 posts, 1 torn append; 2 homes, 2 moves, 2 letters, 1 lost note; 1 blob, 2 channels, each public or not in turn; 2 devices, 3 segments; 8 conversations | 1.32M |

Why the bounds are enough for what they ask. *admin*: a nonce can be issued,
used, replayed and expired while the other carries a batch that undoes the
first; the ops meet in one batch because that is where they share a lock.
*channel_log*: four positions are a create with its invitation, a key and a
post, with the cap and the byte limit both below that, so entries are displaced
as well as expired; with two instance markers the second create can only
propose one used before or one fresh. A public direct message is followed for
its first entries (constraint `PublicIsShort`). *channel_room*: three accounts
over a cap of two, and a quota of one over two channels, are the smallest
numbers at which the guards refuse; two credentials with two lifetimes let an
older one outlive a newer; siblings meet whose keys are fewer, or as many and others;
four mints run a pool past its mark. *copy*: three positions suffice for the constitution
and an addition below a removal, leave or key. *calls*: the second bridge is the
one that replaces the first while the messages of the first are on their way;
three exchanges are the least at which a roster can come back by a detour. The
numbers of `memory` and `live` put every queue at its limit. *stores*: two
devices race for one position of the feed, the first accepted being either (where an
append may stop half way, one publishes); two moves are away and back; a blob
can be held by two channels, of which one is folded and either may be made again;
one note may be lost. *keys_and_homes*: three exchanges are the least at which one
learns of a takeover by pulling and another by being told.

Ten properties are not invariants: `KeepsRecent`, `StrangersBoundedByQuota`,
`WakeSpacing` and `WordsAreKept` speak of steps; `LapsedLeavesDoor`,
`CatchesUp`, `InForceIsCollected`, `KeepsHintPromise`, `LossIsReported` and
`NewsIsPulled` of what must come.

Three runs end in a violation, on purpose: `backup_quota`, `mail_twice`,
`redial`. Each states what a comment or the repository's README says and shows
a behaviour of the code that is otherwise; they are described below.

## Fairness

- `Admin!Fairness`: weak fairness of the steps the server takes without being
  asked: a handler that holds the lock goes on, a spawned close fires after its
  250 ms, the handler that owes a resync gets the lock, the sweep ticks. None
  for requests, edits of the config, connections or restarts.
  `LapsedLeavesDoor` excuses a failed save.
- `Copy!CopyLiveSpec`: strong fairness of pulling, of ending a pull and of
  learning the lineage. The pull task is a loop that sleeps at most one
  interval; strong rather than weak because restarts may take away a pull in
  progress any number of times, only not always. Nothing is assumed of the
  origin's handlers, whose number the bound on the log makes finite.
- `KeysFairness` (`MCHomes`): weak fairness of a task in progress (every request
  ends, be it in an error) and strong fairness of the poll, which a client
  repeats between whatever else it does.
- `EvFairness`, `TailFairness`: weak fairness of the tasks of a stream and of the
  publisher; strong fairness of the pump's receiving, because tokio's `select!`
  picks at random between a line that waits and the heartbeat.
- `WaitingFairness`: a ring follows its write, the origin's tasks run, a wait runs
  out, the loop dials, pulls, asks and lives through its interval. None for the
  sweep, a poke or a retry: news must be pulled without them.
- The other modules have safety properties only.

## What is proved

Every proof is checked by TLAPS down to the last leaf, for every value of the
constants that satisfies the named assumptions of the modules (`...Assumption`,
`NoneIsNoRow`, `NoneIsNoPull`), which TLC evaluates in the runs. Each inductive invariant was
checked by TLC before it was proved.

| Theorem | Of | Argument |
|---|---|---|
| `SingleUseHolds` | Admin | a nonce that was used is not merely counted but gone, and nothing leads out of "gone" (`SpentIsGone`) |
| `DoorFollowsStateAlways` | Admin | `DoorInv`: while nothing is owed, whatever the door admits as a device is watched for its lapse, and nothing is watched that does not stand; every way out of the lock re-derives the door or leaves the debt on record |
| `LimitsHoldAlways` | Limits | `LimitsInv`: since any earlier grant, a kept bucket holds no more than the burst and what came back, less the grants since; a bucket that was forgotten owes nothing. The arithmetic is induction over seconds (`CountedUp`) |
| `SessionsAgreeAlways` | Sessions | `SessionsInv`: while the exchange keeps a session, whoever believes to be in it is one of its ends and holds the two ephemerals as the exchange paired them; a pair has one session; the frames handed over, followed by the queue, are the frames accepted, in order |
| `AdmissionLimitsAlways` | Admission | the two caps of the queue by cardinality (`QueueInv`), whatever happens between the two locks. The budget of a connection is read from a pruned list of times that are not those of the landings; `WindowInv` relates the two (`Listed`): what landed at or after a time whose window is still open is listed, at most one second earlier, because what `retain` drops is at least `RATE_WINDOW` before a clock that was read at most one second ago. So there are no more landings in a window than entries in the list, whoever else pruned it in between |
| `IntroducedTogetherAlways` | Rendezvous | `IntroductionsInv`: whoever waits has a request that outlasts its wait, and so has the other once it was told; two that have met have one start time (needs waits shorter than `PENDING_TTL`, the code's 30 s and 45 s) |
| `ChannelTypeCorrect`, `NoReplayNoForkHolds`, `NumberedOnceHolds`, `CounterCoversUseHolds` | Channel | `LogInv`, below |
| `KeepsRecentAlways` | Channel | `LogInv` and `PruneOnly`: whatever a handler takes out of a log it takes out by `prune`, over what was held and what it adds (one entry, or at `create` the first ones, all above what was held), and every clause of `prune` drops for a reason the property names; the byte limit by cardinality of what is newer |
| `StrangersBoundedByQuotaAlways` | Channel | `QuotaInv`: `LogInv`, finitely many channels stand, one without a row has nothing else. Each handler changes one channel, so an account's count rises by at most one, and only through an invitation that was metered or a statement of the account's own device |
| `HoldsOneLifeAlways` | Copy | `CopyInv`: `LogInv` of the origin, and every entry a copy holds was said in the incarnation the copy names; what was said stays said (`SpentGrows`), and adoption empties the copy before it takes a new marker |
| `ServesMembersAlways` | Copy | `TellInv`, below. For logs that fit one page, or channels made once (`OnceOrWhole`; the run has the first); for others it is false |
| `KeysTypeCorrect`, `OneKeyPerEpochHolds` | EpochKeys | `KeysInv`, below |
| `RevokedStaysOutAlways` | Registry | `RegistryInv`: whoever is out has its revocation on record until the credential that was revoked has run out, and a registration of the same account beside such a record is newer than it or outlives it |
| `StreamsImplementHintStream` | Events | refinement: each step of `Events` is a step of `HintStream`'s safety specification or a stutter, under `StreamsInv` (a publisher that has streams left to look at has a hint in hand, and none of them is gone) |
| `OwedUntilWrittenHolds` | Events | the same in one action property: what is owed stays owed until it, or a resync, is written or the stream ends |
| `WakeSpacingHolds` | Events | `WakesInv`: what the waker read is never older than the last post, so two posts are apart by the interval |
| `NothingSleptOverAlways` | Waiting | `SleptInv`: a request that is parked and not rung has been told of everything written, or the ring for it is still owed -- apart for a fetch (`FetchInv`) and for a wait over several channels (`WaitInv`) |
| `AccountCallKeysAlways` | Relay | `AccountInv`: per bridge, where its invite, refusal, answer and record can be at once (`BridgeOK`); a record follows an invite, an answer follows the record, both with the ephemerals they were made of |
| `BridgesAgreeAlways` | Relay | `BridgesInv`, below |
| `RosterIsCurrentForThree` | Rooms | `RoomInv` with ages (`HeardInTime`): what the home last said of a member who left is as old as the absence, and what came by a detour is at most one lifetime younger, which is when every exchange forgets it. For three exchanges: with four it is false, as a roster can circle |
| `FeedIsOneChainAlways`, `WithdrawalIsTheAuthorsAlways` | Feed | `FeedInv`: the rows are posts, at most one of them after the newest, and a Redact that was accepted is held as long as what it withdrew; the head row is exact except while the row of an append that stopped stands above it, and the next append then fails its insert (`HeadInv`) |
| `HoldersDecideAlways` | Blobs | `BlobsInv`: what a channel or a feed holds is stored, what a fold took over is held, what nobody holds any more is gone, and what is held in public was published, had been overlooked in a fold, or surfaced with the identifier of its channel (`CreateKeeps`) |
| `BackupIsWholeAlways` | Backup | `BackupInv`: the former home keeps what the account moved with until the collection is over, and what is being fetched or staged is that |
| `ServedOnceAndOpenedAlways` | Prekeys | `PrekeysInv`: what is published was minted (`MintedOK`) and once (`PublishedOnce`), rows and what was handed out are apart, a top-up goes above every row, secrets stay while served -- and what a lost store left behind stays apart (`LostApart`) |
| `SyncHandsOverAlways` | SiblingSync | `SyncInv`, below |
| `WordsAreKeptAlways` | Reading | `ReadInv`, below. For conversations whose channel ends at most once, was met before, and has no timed entry before it ends (`Unhurried`, as in the run); for others it is false |
| `NothingIsLostAlways` | Reading | both halves of `NothingIsLost`, `OpenedIsKept` and `NothingPassedOver`, from `ReadInv` with `PassedInv`, below, under the same restriction |

**`LogInv`** (ChannelProofs). The history of statements is for ever, while the
tables that should refuse one again are destroyed and made anew; so the
invariant says of every statement ever held that its incarnation is retired, and
that the tables of that incarnation, as long as they stand, are past it in chain
position, log position and counter (`SpentIsPast`), and that what stands is
retired already (`StandingIsRetired`). Every handler that commits either
destroys the tables or appends at most one entry at the next places
(`Appends`); `CommitStep` shows once that this preserves the invariant, and one
lemma per handler that it does that. `create` is apart, because it writes
several entries at once (`CreateStep`), and there the argument is the
`retired_instance` check.
`TidyLog` (entries of one log have different numbers, all below the
next) is part of it for `KeepsRecent`: only then is what `prune` counts as newer
really newer. `StrangersBoundedByQuota` counts over channels, so it needs that
only finitely many stand, and of every handler what it does to the rows of the
other accounts.

**`TellInv`** (ChannelProofs), for any origin and any copy of it, restarted at any
time. The origin's readers and epoch are in its tables, which handlers change; the
copy has only the entries. So the invariant relates the two over what has been
written, which neither may still have in full: the origin prunes, and the copy lacks
what it did not pull. What the origin still has and what the copy kept of the
incarnation that stands (`Both`), when they are all of it, tell the origin's tables
(`Told`): folding them in order gives its readers, and they hold as many rotations
as its epoch. Every handler keeps this, because one that changes who reads or the
epoch writes the entry that says so (`Records`, `TellsOn`) -- but for `create`,
which writes several, in the order its chain was signed (`FoundedTells`). The other
half is of the copy: its roster is the fold of what it holds
(`Derived`). A fold can be continued only upwards (`FoldAppends`), so what the copy
lacks must be above or below all it has (`InOrder`), and what is below must come
with a rederivation. A pull asks from the highest entry or from a hole, and a hole
is never below all that is held (`HoleIsAbove`), so a first request brings nothing
below; a second brings everything below at once, if a page can hold it
(`BroughtBelow`), and where it cannot, a channel made once never needs one
(`NeverBelow`). `RosterAfter` is a recursive function, and what it is for is never
asked: the proof needs only that folding one more entry at the top is one step of
`derive_membership`, and that what is below the top decides the rest (`FoldAppends`).

**`KeysInv`** (KeysProofs): with any number of devices, while no client starts its
pool again. Two puts for one epoch are both accepted only when their recipients
are disjoint. They are not: a client that mints has prekeys at the exchange
(`WorkersReady`), so a mint never passes over its own device
(`MintsForItself`), of two mints at least one finds the other (`NotBothSkip`),
and a mint that passed over the one that won was found by it
(`WinnerNotSkipped`). The assumption is needed: with three devices, one of which
restarts its pool, two mints have disjoint recipients and both are accepted
(`channel.rs:5138`; `client.rs:3022` "One `Put` wins and the loser collects").

**`SyncInv`** (KeysProofs), for two siblings with any stocks, any page size and any
room on the link, each fetching between the steps. What a side has said and the
other has not taken is one sequence, the link and then the outbox (`Way`); while
neither has failed, five things hold of the two ways. *Turns*: the messages on a way
are in the order of the exchange -- hello, lists, wants, then what is served, then
done -- so nobody is past a phase whose message is still to come. *Content*: a list is
what its sender held when it said so, a want asks for each item once. *Store*: a side
never lets go of what it told or was told about. *Deal*, while what was sent can
still arrive (`Alive`): every entry, key and blob that is to be handed over is held, or
on its way, or due -- above the position asked for, in a want not taken yet or in a page not
served; the keys of an item are due where an entry of it was lacked or fewer keys were
held, which is when it is asked for. An entry that names a blob comes before the blob, and the keys that open it
before both (`Ahead`); otherwise the receiver would not know what it wants. The hard
step is `Serve`, where a page is cut from what is held now and not from what was
told: `PageServes` shows that what lies above the position is in the page or above
the new position, whatever was fetched in between. When both have finished, nothing is
on a way and nothing is owed, so what was to be handed
over is held. `SyncAssumption` says what a
client's store can be: two of them, each with finitely many keys of an item.

**`BridgesInv`** (CallsProofs), for either kind of call. While no message was lost,
a bridge has one token: its invite on the way, its record at the callee's exchange,
or the word that it is over -- on the way back, or the refusal the caller's exchange
has on record (`OneToken`). A bridge the caller's exchange holds has a token
(`Standing`); one it no longer holds, and that stands or is about to stand at the
callee's, has a close behind the invite or the record (`Leaving`), and one it holds
has none on the way (`Closed`). Two bridges can both stand, or be about to, only with a
close of the earlier between them (`Apart`): `place_call` closes what it replaces
before it invites, and control messages of a link arrive in order. That is why the
callee's exchange never has two records, and why its index names the one it has
(`YIndexed`). An answer goes before the word that it is over (`Answering`), so it
never revives a refused bridge. Once a message was lost (`lossy`) nothing of this is
claimed, in the property as in the invariant: what is left over on either side goes
by `expire`.

**`ReadInv`** (StoresProofs), for scripts of any length and any interleaving of the
client's requests with the exchange. A row may lose its words only when somebody who
may has asked, so the invariant must know why a message counts as deleted, in the store
and in the timeline: every row is of the incarnation held and of an entry said in it,
and one without words is `Doomed` -- wiped, or with a redaction by its author or an
administrator in the script (`RowsRight`); a message the timeline shows as deleted is
`Doomed` too (`TimelineRight`), because that is where `fold_entries` and `history` read
it off. `ApplyRight` shows this of one entry, `FoldStaysRight` and `FoldRowsRight` of
the two folds, entry by entry. An answer in flight is of the incarnation it is folded
into (`JobRight`). Then it must be excluded that the client takes a living incarnation
for another and resets: below the last incarnation nothing is announced, the cursor is
covered by an entry that is served, and so is what was asked for (`Steady`). Timers are
for the last incarnation alone (`TimersRight`), because `reset_sequence_space` leaves
`timed`. Both restrictions of `Unhurried` are needed, see "The client" below.

**`PassedInv`** (StoresProofs), on top of `ReadInv`. The cursor may move only over what
was taken in, and it is moved at the end of a poll whose answer was made several steps
earlier. So the invariant says of the answer in flight, while the incarnation it is of
still stands, that it leaves out nothing between what was asked for and its last entry
but what was served since (`AnswerIsWhole`), and of the cursor that everything served up
to it is held or accounted for (`CursorIsCovered`). Every step within an incarnation
keeps both (`Onward`, `OnwardFacts`): what others write is above the log, what a copy
takes late is noted as such, what a timer or a crash removes is excepted. A reset, a
rewind and an incarnation made anew start over with a cursor of 0 and no counter
recorded (`PassedReset`); a fold takes in every entry it is given, in whatever order
earlier polls left the rows (`FoldHolds`), and only then may the cursor go up to the
answer's last. `OpenedIsKept` is part of it because an entry whose counter is already
recorded is skipped by the fold, and is held only because it was held before.

`Induction` derives induction over the naturals, and the greatest element of a
finite set, from the least-number principle of the library applied to a concrete
set: `NumberInduction` takes a set of numbers, not an operator. That is as far
as induction goes here; that the recursive function of `RosterAfter` has the value
its definition asks for is derived in the same way (`RosterFoldingEnds`).

## What is only model-checked

Of the properties the runs check, these have no theorem:

- Out of the prover's reach: the liveness properties (`LapsedLeavesDoor`,
  `CatchesUp`, `InForceIsCollected`, `LossIsReported`, `NewsIsPulled`, the
  liveness half of `KeepsHintPromise`), which need fairness and ENABLED.
- `ShownIsKept`, which says that two folds, of the log as it came and of the store,
  are equal: each would need what `FoldAppends` is for `ServesMembers`.
- Tables, which TLC goes through completely: `CarriedAsAsked` over every action
  and every outcome, `ReadAsWritten` over every layout. There is no constant in
  them that a theorem would range over.
- `HandedOver`, `ForkIsKept` and `MailFollows` hold within the bounds of their
  runs and fail beyond them, for reasons given in the next section; there is
  nothing to prove.
- `ServesMembers` is proved for logs of one page or channels made once; with two
  incarnations and smaller pages it is false (below).
- `RosterIsCurrent` is proved for three exchanges; for four it is false (below).
- `OneKeyPerEpoch` is proved for clients that do not restart their pool, and the
  run checks it with restarts for two devices; for three it is false (below).

## Where the code and its own words disagree

Shown by a run:

- `backup_quota` (`OwnBackupStands`): a collection that runs into the quota drops
  the account's whole backup, one that a device wrote here meanwhile included
  (`replica.rs:817`; `:814` "release what was fetched, and leave the backup where
  it was").
- `mail_twice` (`StoresNothingTwice`): what is collected from a former home is stored
  and then noted, in two statements that commit one by one, the second one's error
  dropped (`mailbox.rs:256`). After a stop or a failure between them the next pull
  stores it again (`mailbox.rs:81` "so a pull answered twice -- across a restart too
  -- stores nothing twice").
- `redial` (`Redialled`): the loop for moved channels goes on with a connection
  whose waits failed (`replica.rs:1772` "that origin drops out of the waiting and
  is redialled by the next cycle").

Met while modelling; the models have the behaviour, no run is spent on it. Paths
are those of `sqexd` unless named.

*Administration, channels and copies.*

- `AdmissionApprove` is not a mutation to `is_mutation` (`sqex-proto/src/lib.rs:410`
  "only mutations are audited"; `README.md:247` "Every mutation is recorded"), so an
  approval is neither audited nor saved, nor is the door derived again
  (`FinishUnsaved` in `Admin`): a crash or a kill before the next save forgets it. A
  graceful stop saves it (`server.rs:2407`, `Shutdown`).
- A request between its two locks lands in the queue after the denial of the same
  device was recorded (`admission.rs:113`, the comment at `:172`).
- A batch is not all-or-nothing: `apply` may refuse an op after others took effect,
  and the batch goes on (`server.rs:6420`; `README.md:243` "atomically").
- After a failed save the gate reads the new switch and the transport the old
  set (`server.rs:6440`; `:559` "cannot disagree").
- A connection whose handshake preceded a removal and whose registration came
  after it is not closed (`server.rs:2428`; `README.md:299` "`remove` closes what
  it let in"); the gate refuses what it asks.
- The last administrator may demote itself through `invite` (`channel.rs:2675`,
  `:1567`); the only member of a private channel may remove itself and leave it
  empty for good (`:4993`; `:1546` "is destroyed").
- One sweep may prune the last entry of an empty public channel and close it at
  once (`channel.rs:2566`; `:2563`). `destroy` leaves the `replica` rows
  (`:1984`). `remove` leaves the envelopes of the account's devices (`:5004`).
  `create` skips an invitee that blocked the creator, and the chain then tells
  (`:1307`; `:1306`, `:2645`).
- A copy's roster keeps a role through promotion, demotion and leaving and drops a
  mute on a repeated join (`channel.rs:6726`, `:6757`, `:6799`; `:6712`). A copy
  that missed a removal the origin pruned goes on serving (`:4812`; `:588`).
  Entries refused at first are applied after later ones without deriving the
  roster again (`replica.rs:469`; `channel.rs:4879`): `ServesMembers` is stated
  for logs none of whose entries had to wait. So are entries that a restart finds
  missing: when a channel was made again and is past the position the copy had of
  the one before, the first request starts above that position, the second brings
  one page from the start (`replica.rs:541`), and what lies between is found by
  `lowest_gap` at the next start (`replica.rs:1813`) and applied after what is above
  it. With pages of one entry, four positions and two incarnations TLC reaches a
  copy that has the whole log and goes on serving a member who left.
- The guard against writing at a copy is missing in close, set_directory,
  replicate, unreplicate and dismiss (`channel.rs:4568` "Writes go to the origin,
  always"): `/channel/close` at a copy destroys the copy alone (`:2424`), until
  the next pull.
- Of two mints with disjoint recipients both are accepted (`channel.rs:5138`;
  `sqex-chat/src/client.rs:3022` "One `Put` wins and the loser collects"): with
  three devices, one of which starts its pool again. Envelopes of an epoch below
  the highest one held are never asked for (`client.rs:3041`; `:3033`).

*Routes and limits.*

- A carried key and a pull of envelopes tell nobody (`server.rs` near 4799 "Told
  to every member"); neither do retain, directory, close and rehomed.
- `/feed/since` takes one token per request, whatever its rows (`limits.rs:29`).
- The former home still takes `/blob/begin-feed`, `/blob/attach-feed`,
  `/backup/drop` and `/wake/forget` (near `server.rs:2868`).
- A wait abandoned by a poke stays held at the origin and counts toward its limit
  of 8 for 25 s; beyond that the replica polls for 600 s. `wait_any` asks a quiet
  origin again only when its slowest wait has ended.
- A clock set back lowers a limiter's tokens.

*Accounts.*

- The revocation of a device is kept only as long as its *current* credential, so
  an older one with a longer life registers it again afterwards (`device.rs:13`,
  `:130`); and `revoke` does not compare the withdrawal's time with the
  registration's, so one that is carried late takes off a device that has
  returned on a fresh credential (`device.rs:385` "A device that comes back with
  a fresh credential is not revoked any more").
- A device not registered when its account is succeeded registers to the dead
  account (`device.rs:636`). `handover` makes every kept device as old as itself,
  so seniority is lost (`:395`). Two claims checked before either is recorded
  may give one successor two accounts.
- The client of a handover loses the new key when the answer is lost
  (`client.rs:2613`). A withdrawal carried to an origin that does not know its
  author is refused and not sent again (`server.rs:7541`).
- `collect`: a stale mark strands mail after a move away, back and away again; a
  third home does not hear of the first; more hints than `MAX_HINTS` drop the
  oldest. `MailFollows` is stated for the moves its run has.

*What an exchange stores.*

- Feed: `append` is not one transaction, and a stop among its statements leaves a row
  above the head that later appends run into, or evicted posts that the head still
  counts (`HeadSaysWhatIsHeld` excepts both while the row stands); a follower of a feed that was truncated
  is not told so (`sqex-proto/src/feed.rs:55`, `server.rs` near 3716), and an
  expired Redact reads as "removed".
- Blobs: the sweep's collection overlooks folded attachments (`channel.rs:2607`;
  the table's comment `:649`), a commit re-checks neither channel nor quota, and
  a feed attachment's expiry is never applied. So an upload begun for a private
  channel and committed after it was destroyed (`:5599`), or a blob a copy was still
  pulling for it (`:3177`), is attached to an identifier that anybody may make again,
  public (`:1217`), and is then served to all. `HoldersDecide` excepts exactly these
  blobs (`resurfaced`), beside those a fold hides from `attached_privately`.
- Prekeys: an answer lost makes the device discard secrets that are served; ids
  start again with a lost store (`sqex-proto/src/prekey.rs` near 450 "The ids are
  not reused"); a fallback saved and not published leaves a retired one served.
- Backup: the client reports success after two refusals (`sqex-chat/src/backup.rs:361`).
- Rehoming: a second stranding at a position is not kept (its primary key is
  channel and position), so `ForkIsKept` fails with two takeovers; a page is
  checked under the origins known before it (`replica.rs` `take_under`), so a
  copy that slept through three planned moves and pulls them at once refuses the
  entry of an origin it has not heard of, stores the later ones, and if the last
  of them names it is origin with a hole that it no longer asks for --
  `HandedOver` fails with three moves; a replica that took a channel
  back numbers positions again for which it had given receipts
  (`receipt.rs:10`); `adopt_rehome` records the time of arrival, so a tie may
  be broken differently at two exchanges (`channel.rs:3792`); an older rehome is
  adopted after a later one.

*Calls and streams.*

- Relay: `drop_bridge` drops the index of a newer bridge; an account device that
  declines ends the call another has answered; a connected bridge is swept at
  the callee's exchange after `RINGING_TTL_SECS`; `max_bridges` is checked before
  an await; the keys of a pair in a room may differ
  (`PairKeys`, `ConnectedLasts` in `Relay` state it).
- `ensure_link` looks for a link, unlocks and dials (`relay.rs:1457`), so two calls at
  once may leave two links, and messages sent over one may pass those of the other.
  `Relay` has one link in each direction, in order; `BridgesAgree` needs that.
- Sessions: `recv` takes the waiting frames before its answer is written
  (`session.rs:303`), so frames go with an answer that does not arrive. `RecvFrames` has
  that; `SessionsAgree` is about what the exchange handed to an answer.
- Rooms: among four exchanges a member who left may circulate between three.
- Rendezvous: a wake-up between the look and the wait is lost, and a repeated ask
  reads the former start.
- Tail: a line may be missing from the numbering (`tail.rs:27` "a gap in it is
  impossible"). Wake: `CrossCall` is urgent in `wake.rs:34` and never posted.

*The client.*

- The rewind for a newly collected key is undone when the same fetch brought
  entries (`client.rs:7717`, `:7757`; comment `:3296`); a tombstone and an edit
  that meet an entry before it is opened are lost until a restart; `record_seen`
  precedes `put_message` (near `:7229`).
- `reset_sequence_space` leaves `timed`, so a timer of a destroyed incarnation
  deletes the message with its number in the next (`store.rs:1853`, `:3780`):
  `WordsAreKept`, `OpenedIsKept` and `NothingPassedOver` fail for such a
  conversation, and those of the run have their timed entries in the last incarnation.
- A poll of a client that has not met the channel yet has no incarnation to
  compare with (`client.rs:7580`): if the channel is destroyed and made anew
  between its requests, it stores what it read of the former as being of the new
  one, and its cursor passes over the new one's first entries. `ShownIsKept` and
  `NothingPassedOver` fail then; in the run the client has met a channel that ends.
- A channel made again with the same epoch number is written to under the old
  key (`client.rs:2866`); a client that learns late stores its first message as
  archived.
- Sync: of keys only the number is told (`sqex-chat/src/sync.rs:733`, `:756`), so two
  siblings that hold keys to as many epochs, but to others, and lack no entry of one
  another's, finish without handing any over (`:2` "hand each other the channel
  history each holds -- the signed entries, the epoch keys that open them").
  `SyncHandsOver` is stated accordingly, and the run has siblings whose keys differ in
  number and siblings whose keys differ only in epoch.
- Sync: a hole within one's own range is never asked for (`sqex-chat/src/sync.rs`
  near 719); a page of which every entry ran out ends the channel; a sibling
  with a copy of an earlier incarnation fails the whole sync; "was given the
  account key" is printed for a key that was queued.

*Byte formats.*

- Names and topics are bounded by characters and written by bytes: a name of 64
  multi-byte characters is refused (`client.rs:4410`, `channel.rs:2329`), and
  64 of four bytes write a length of 0. Texts clipped inside a character make
  the whole message unreadable (`refusal.rs` keeps the boundary). A rename signs
  the unclipped name and verifies the clipped (`client.rs:4765`).
- A count of one byte is compared with 256 (`Create`); `Stranded`, `Mines`,
  `Revoked` and `Reply` ignore what follows them.

## What is not modelled

Cryptography: a key is a value nobody else makes, a signature the statement it
binds. Text, logging and metrics. Within the modelled parts:

- `Admin`: labels and provenance of whitelist keys, the ops on names and channels.
- `Channel`: welcome, the public channels the exchange makes, redaction, cursors,
  signals, reports. `Copy`: equivocation, envelopes and profiles of the copy.
- `Rehome`: folding one channel into another, the standing a takeover restores,
  how long an origin has to be out of reach.
- `EpochKeys`: keys by agreement, members that may not mint, a roster that changes.
- `Registry`: lodged policies and vouches, the hourly limit on registrations.
- `Feed`: listings and quotes. `Homing`: the status a sender asks for. `Backup`: what
  a restore overwrites. `Blobs`: the chunk cipher.
- `Relay`: datagrams, the search for the peer, who may ring whom (a choice to
  refuse). `Rooms`: the signed word of a member.
- `Events`: catch-up and the import of wake rows. In `HintStream` a resync that is
  written also settles what was dropped while it was being written.
- `Waiting`: in `live` a connection is lost only under the configured loop, while it
  waits. `Admission`: in the run two devices fill the queue, so
  its overall cap refuses nobody; the theorem is for every cap.
- `Blobs`: the members of a channel are the same each time it is made, and a pull
  stores what it fetched whether or not its origin's channel is still the one copied.
- `SiblingSync`: which epoch an entry opens with is given (`EpochOf`).
- `Reading`, `SiblingSync`: forks and former origins, profiles and contacts, blobs
  chunk by chunk.

No module: names, directory and profiles (lookups), beacon and attestation (a
counter and a history around a signature), cursors, signals and reports,
discovery (I/O and a file), the voice engine (signal processing), the command
line and terminal interface (drawing). `PROJECT.json` says of each why.

## Plan

Of the proofs: `ShownIsKept`, by the way taken for `ServesMembers`. In the model:
leased names and their sweep; cursors and signals; the jitter buffer of the voice
engine as an algorithm against a reference definition.
