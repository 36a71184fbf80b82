------------------------------ MODULE Reading ------------------------------
(***************************************************************************)
(* One device's client reading one direct message (sqex-chat/src/client.rs:*)
(* poll, ask, absorb, fold_entries, read_folded, folded_away, send_body;   *)
(* sqex-chat/src/store.rs).  A poll is several requests -- fetch, info,    *)
(* fetch again after a reset, keys -- and between any two of them the      *)
(* channel may grow, be wiped, be destroyed or be made anew.  The store's  *)
(* statements are committed one by one; a client may stop at any of them,  *)
(* and starts again from what `history` folds out of the store.            *)
(*                                                                         *)
(* What the others write in each incarnation is a script; when it reaches  *)
(* the exchange, when its key does, what is wiped, what a copy serves late *)
(* and whose time runs out is left open.  Entries of the script by Me are  *)
(* sent by this client.  Left out: keys by agreement, forks and former     *)
(* origins, paging, siblings, other channels, and a fetch parked elsewhere *)
(* (`watch`, which this repository's programs do not use).                 *)
(***************************************************************************)
EXTENDS Timeline, Integers, Sequences, FiniteSets, FiniteSetsExt

CONSTANTS
  Scripts,    \* the conversations: [admins, says, epochs, met], says incarnation
              \* |-> entries, met whether this client polled the first when it was empty
  Me,         \* this client's account
  MaxInst, MaxSeq, RdEpochs,   \* bounds: incarnations, entries in one, epochs
  MaxWipes, MaxTroubles         \* bounds: bodies taken out; entries served late, requests
                               \* that fail and stops of the client, together

Kinds == {"system", "post", "edit", "redact", "react", "unreact", "meta", "call", "end"}

ASSUME ReadingAssumption == MaxSeq \in Nat /\ \A c \in Scripts :
  /\ Len(c.says) \in 1..MaxInst
  /\ \A i \in 1..Len(c.says) :
       /\ Len(c.says[i]) \in 0..MaxSeq
       /\ \A s \in 1..Len(c.says[i]) : c.says[i][s].is \in Kinds

Insts == 1..MaxInst
Seqs == 1..MaxSeq
RdEpoch == 1..RdEpochs

VARIABLES
  script,     \* the conversation of this behaviour
  exists,     \* whether the exchange serves the channel
  inst,       \* its incarnation, or the last one
  len,        \* how many entries it has
  wiped,      \* <<incarnation, entry>> pairs whose body was taken out
  hidden,     \* the entries this exchange does not serve (yet, or any more)
  inForce,    \* its epoch
  envs,       \* epoch |-> this device's envelope: "none", "ready", "spent"
  foldedLog,  \* the log of an incarnation folded away, or NoFold
  past        \* <<incarnation, entry>> pairs whose time has run out

exchangeVars == <<script, exists, inst, len, wiped, hidden, inForce, envs, foldedLog, past>>

VARIABLES
  kept,       \* table message: entry number |-> what is held of it
  spent,      \* table seen: the counters opened
  keys,       \* table channel_key: epoch |-> the incarnation of its key, or 0
  cursor,     \* table cursor
  known,      \* table incarnation: the one held, or 0
  announce,   \* ... and whether a reset is still to be told
  timers,     \* table timed: entry number |-> the incarnation it is for, or 0
  attic       \* tables *_history: what was read of earlier incarnations

diskVars == <<kept, spent, keys, cursor, known, announce, timers, attic>>

VARIABLES
  tl,         \* the timeline the caller holds
  told,       \* `told_about`: the last info, inst 0 for none
  gapAsked,   \* `gap_asked`
  job         \* the poll under way, or NoJob

memoryVars == <<tl, told, gapAsked, job>>

(* History: entries whose counter was recorded when the client stopped;    *)
(* own entries sealed under another incarnation's key; entries served only *)
(* after they were passed over; whether words came to the timeline out of  *)
(* order, and its highest entry; how much went wrong so far. *)
VARIABLES tornOff, misSealed, filled, late, troubles

ghostVars == <<tornOff, misSealed, filled, late, troubles>>

rdVars == <<exchangeVars, diskVars, memoryVars, ghostVars>>

NoFold == [of |-> 0, len |-> 0]
NoJob == [at |-> "idle"]
NoRow == [of |-> 0, has |-> "none"]
NothingKept == [s \in Seqs |-> NoRow]
NoInfo == [inst |-> 0, epoch |-> 0]
NoKeys == [e \in RdEpoch |-> 0]
NoTimers == [s \in Seqs |-> 0]
InOrder == [is |-> FALSE, top |-> 0]

RdInit ==
  /\ script \in Scripts /\ exists = TRUE /\ inst = 1 /\ len = 0
  /\ wiped = {} /\ hidden = {} /\ inForce = 0 /\ envs = [e \in RdEpoch |-> "none"]
  /\ foldedLog = NoFold /\ past = {}
  /\ kept = NothingKept /\ spent = {} /\ keys = NoKeys /\ cursor = 0 /\ known = IF script.met THEN 1 ELSE 0
  /\ announce = FALSE /\ timers = NoTimers /\ attic = {}
  /\ tl = EmptyTimeline /\ told = NoInfo /\ gapAsked = FALSE /\ job = NoJob
  /\ tornOff = {} /\ misSealed = {} /\ filled = {} /\ late = InOrder
  /\ troubles = 0

entry(i, s) == script.says[i][s]
Rows == {s \in Seqs : kept[s].has # "none"}
ServedSeqs == (1..len) \ hidden

Trouble == troubles < MaxTroubles /\ troubles' = troubles + 1

----------------------------------------------------------------------------
(* The exchange and the others *)

NextEntry == entry(inst, len + 1)

MayPost ==
  /\ exists /\ len < Len(script.says[inst])
  /\ NextEntry.epoch \in {0, inForce}

(* Somebody else's entry arrives; a copy may refuse it for a while. *)
Arrives(hide) ==
  /\ MayPost /\ NextEntry.by # Me
  /\ len' = len + 1
  /\ hidden' = IF hide THEN hidden \cup {len + 1} ELSE hidden
  /\ IF hide THEN Trouble ELSE UNCHANGED troubles
  /\ UNCHANGED <<script, exists, inst, wiped, inForce, envs, foldedLog, past>>
  /\ UNCHANGED <<diskVars, memoryVars, tornOff, misSealed, filled, late>>

(* The copy takes what it had refused. *)
Fills(s) ==
  /\ exists /\ s \in hidden /\ <<inst, s>> \notin past
  /\ hidden' = hidden \ {s}
  /\ filled' = filled \cup {<<inst, s>>}
  /\ UNCHANGED <<script, exists, inst, len, wiped, inForce, envs, foldedLog, past>>
  /\ UNCHANGED <<diskVars, memoryVars, tornOff, misSealed, late, troubles>>

(* `/channel/redact`: the body of a message goes, the entry stays. *)
Wipes(s) ==
  /\ exists /\ s \in 1..len /\ <<inst, s>> \notin wiped /\ entry(inst, s).is = "post"
  /\ Cardinality(wiped) < MaxWipes
  /\ wiped' = wiped \cup {<<inst, s>>}
  /\ UNCHANGED <<script, exists, inst, len, hidden, inForce, envs, foldedLog, past>>
  /\ UNCHANGED <<diskVars, memoryVars, ghostVars>>

(* Somebody mints the next epoch, with or without this device, *)
Rotates(sealed) ==
  /\ exists /\ inForce < script.epochs
  /\ inForce' = inForce + 1
  /\ envs' = [envs EXCEPT ![inForce + 1] = IF sealed THEN "ready" ELSE "none"]
  /\ UNCHANGED <<script, exists, inst, len, wiped, hidden, foldedLog, past>>
  /\ UNCHANGED <<diskVars, memoryVars, ghostVars>>

(* or seals it to this device afterwards. *)
Seals(e) ==
  /\ exists /\ e <= inForce /\ envs[e] = "none"
  /\ envs' = [envs EXCEPT ![e] = "ready"]
  /\ UNCHANGED <<script, exists, inst, len, wiped, hidden, inForce, foldedLog, past>>
  /\ UNCHANGED <<diskVars, memoryVars, ghostVars>>

(* The channel is destroyed, or folded away, *)
Ends(fold) ==
  /\ exists /\ inst < Len(script.says)
  /\ exists' = FALSE
  /\ foldedLog' = IF fold THEN [of |-> inst, len |-> len] ELSE NoFold
  /\ UNCHANGED <<script, inst, len, wiped, hidden, inForce, envs, past>>
  /\ UNCHANGED <<diskVars, memoryVars, ghostVars>>

(* and made anew under the same identifier. *)
MadeAnew ==
  /\ ~exists
  /\ exists' = TRUE /\ inst' = inst + 1 /\ len' = 0 /\ hidden' = {}
  /\ inForce' = 0 /\ envs' = [e \in RdEpoch |-> "none"]
  /\ UNCHANGED <<script, wiped, foldedLog, past>>
  /\ UNCHANGED <<diskVars, memoryVars, ghostVars>>

(* A timed entry's time runs out, *)
TimeUp(i, s) ==
  /\ i <= inst /\ s <= Len(script.says[i]) /\ (i = inst => s <= len)
  /\ entry(i, s).timed /\ <<i, s>> \notin past
  /\ past' = past \cup {<<i, s>>}
  /\ UNCHANGED <<script, exists, inst, len, wiped, hidden, inForce, envs, foldedLog>>
  /\ UNCHANGED <<diskVars, memoryVars, ghostVars>>

(* and the exchange's own sweep takes it out some time after. *)
Swept(s) ==
  /\ exists /\ s \in ServedSeqs /\ <<inst, s>> \in past
  /\ hidden' = hidden \cup {s}
  /\ UNCHANGED <<script, exists, inst, len, wiped, inForce, envs, foldedLog, past>>
  /\ UNCHANGED <<diskVars, memoryVars, ghostVars>>

----------------------------------------------------------------------------
(* The store *)

MaxKept == Max(Rows \cup {0})

(* `lowest_gap`: the entry before the first one missing *)
Gaps == {s \in Rows : s < MaxKept /\ s + 1 \notin Rows}

highestKey == Max({e \in RdEpoch : keys[e] # 0} \cup {0})

(* `put_message`: the words held stay. *)
put_message(r, s, i, has) ==
  [r EXCEPT ![s] = IF @.has \in {"none", "null"} THEN [of |-> i, has |-> has] ELSE @]

(* `redact_message`, where the row is *)
redact_message(r, s) == [r EXCEPT ![s] = IF @.has = "none" THEN @ ELSE [@ EXCEPT !.has = "empty"]]

HowHeld(row) ==
  CASE row.has = "words" -> "words" [] row.has = "null" -> "sealed" [] row.has = "empty" -> "tombstone"

(* `fold_rows`: what the kept alone make of the conversation *)
fold_rows(r) ==
  LET told_by[n \in 0..MaxSeq] ==
        IF n = 0 THEN EmptyTimeline
        ELSE IF r[n].has = "none" THEN told_by[n - 1]
        ELSE apply(told_by[n - 1], n, entry(r[n].of, n), HowHeld(r[n]), script.admins)
  IN told_by[MaxSeq]

Deleted(t) == {s \in DOMAIN t.msgs : t.msgs[s].redacted}

(* `history`: the kept the fold finds deleted lose their words. *)
history(r) ==
  [s \in Seqs |-> IF r[s].has = "words" /\ s \in Deleted(fold_rows(r))
                  THEN [r[s] EXCEPT !.has = "empty"] ELSE r[s]]

(* Mutant of Archived: nothing is kept of the incarnation that ends. *)
ArchivedNothing(r) == attic

(* `archive_incarnation` *)
Archived(r) ==
  IF r = NothingKept /\ keys = NoKeys THEN attic ELSE attic \cup {[of |-> known, kept |-> r]}

(* Mutant of reset_sequence_space: the cursor stays. *)
reset_but_cursor(r) ==
  /\ attic' = Archived(r)
  /\ kept' = NothingKept /\ spent' = {} /\ keys' = NoKeys /\ cursor' = cursor

(* `reset_sequence_space`, with the kept `r` there are by now *)
reset_sequence_space(r) ==
  /\ attic' = Archived(r)
  /\ kept' = NothingKept /\ spent' = {} /\ keys' = NoKeys /\ cursor' = 0

----------------------------------------------------------------------------
(* fold_entries: what a run of entries `got`, checked against incarnation  *)
(* `of`, makes of the store and of the timeline *)

State == [kept |-> kept, spent |-> spent, timers |-> timers, tl |-> tl, late |-> late]

Opens(got, s) ==
  LET e == entry(got.of, s)
  IN \/ e.is = "system"
     \/ s \notin got.wiped /\ keys[e.epoch] = got.of /\ <<got.of, s>> \notin misSealed

(* `Replay::accept`, and the counters of the entries that could be opened *)
Replayed(st, got, s) == entry(got.of, s).is # "system" /\ <<got.of, s>> \in st.spent

(* Mutant of record_seen: an attempt is as good as an opening. *)
record_seenTried(st, got, s) ==
  IF entry(got.of, s).is # "system" THEN [st EXCEPT !.spent = @ \cup {<<got.of, s>>}] ELSE st

record_seen(st, got, s) ==
  IF Opens(got, s) /\ entry(got.of, s).is # "system"
  THEN [st EXCEPT !.spent = @ \cup {<<got.of, s>>}] ELSE st

How(got, s) ==
  IF Opens(got, s) THEN "words" ELSE IF s \in got.wiped THEN "tombstone" ELSE "sealed"

AsKept(how) == CASE how = "words" -> "words" [] how = "sealed" -> "null" [] how = "tombstone" -> "empty"

(* The row, its timer, and the tombstone that takes a body held *)
Keep(st, got, s) ==
  LET how == How(got, s)
      stored == put_message(st.kept, s, got.of, AsKept(how))
  IN [st EXCEPT !.kept = IF how = "tombstone" THEN redact_message(stored, s) ELSE stored,
                !.timers = IF entry(got.of, s).timed THEN [@ EXCEPT ![s] = got.of] ELSE @]

(* The timeline; words an honoured redaction deletes leave the store too. *)
Apply(st, got, s) ==
  LET e == entry(got.of, s)
      how == How(got, s)
      t == apply(st.tl, s, e, how, script.admins)
      honoured == e.is = "redact" /\ how = "words" /\ e.target \in Deleted(t)
  IN [st EXCEPT !.tl = t,
                !.kept = IF honoured THEN redact_message(@, e.target) ELSE @,
                !.late = [is |-> @.is \/ (how = "words" /\ s < @.top), top |-> Max({@.top, s})]]

FoldEntry(st, got, of, s) ==
  LET e == entry(got.of, s)
      opened == record_seen(st, got, s)
  IN IF Replayed(st, got, s) THEN st
     ELSE IF e.is # "system" /\ got.of # of
          THEN [opened EXCEPT !.tl = apply(@, s, e, "forged", script.admins)]
     ELSE IF e.timed /\ <<got.of, s>> \in past THEN opened
     ELSE Apply(Keep(opened, got, s), got, s)

fold_entries(st, got, of, which) ==
  LET after[n \in 0..MaxSeq] ==
        IF n = 0 THEN st
        ELSE IF n \in which THEN FoldEntry(after[n - 1], got, of, n) ELSE after[n - 1]
  IN after[MaxSeq]

----------------------------------------------------------------------------
(* Collecting keys *)

Collectable == {e \in RdEpoch : envs[e] = "ready" /\ e >= highestKey /\ keys[e] = 0}

(* `absorb_keys`: an envelope opens once, and the log is read again. *)
absorb_keys ==
  /\ keys' = [e \in RdEpoch |-> IF e \in Collectable THEN inst ELSE keys[e]]
  /\ envs' = [e \in RdEpoch |-> IF e \in Collectable THEN "spent" ELSE envs[e]]
  /\ cursor' = IF Collectable # {} THEN 0 ELSE cursor

NoCollection == UNCHANGED <<keys, envs, cursor>>

Lacks(epoch) == epoch > 0 /\ keys[epoch] = 0

----------------------------------------------------------------------------
(* poll *)

Now == [inst |-> inst, epoch |-> inForce]

(* `/channel/fetch` *)
Answer(since) ==
  [of |-> inst, seqs |-> {s \in ServedSeqs : s > since}, wiped |-> {s \in Seqs : <<inst, s>> \in wiped},
   last |-> Max(ServedSeqs \cup {0})]

(* `expire`: the timers that have run out, in the store and the timeline *)
Expired == {s \in Seqs : timers[s] # 0 /\ <<timers[s], s>> \in past}

(* `poll`, `ask`: from the cursor, or once in a run from the lowest gap *)
Ask ==
  LET since == IF ~gapAsked /\ Gaps # {} THEN Min({cursor, Min(Gaps)}) ELSE cursor
  IN /\ job = NoJob /\ exists
     /\ job' = [at |-> "told", since |-> since, got |-> Answer(since)]
     /\ gapAsked' = (gapAsked \/ Gaps # {})
     /\ kept' = [s \in Seqs |-> IF s \in Expired THEN NoRow ELSE kept[s]]
     /\ timers' = [s \in Seqs |-> IF s \in Expired THEN 0 ELSE timers[s]]
     /\ tl' = forget(tl, Expired)
     /\ UNCHANGED <<exchangeVars, ghostVars, spent, keys, cursor, known, announce, attic, told>>

(* What the exchange says of the channel, unless the last answer will do *)
Told(arrived) == IF arrived \/ told.inst = 0 THEN {Now} ELSE {Now, told}

Differs(i) == known # 0 /\ i # known

Restarted(i) ==
  \/ Differs(i)
  \/ job.since > 0 /\ job.got.last > 0 /\ job.got.last < job.since
  \/ announce

(* `absorb`, where the conversation goes on, *)
GoesOn ==
  /\ job.at = "told" /\ exists
  /\ \E t \in Told(job.got.seqs # {}) :
       /\ ~Restarted(t.inst)
       /\ told' = t
  /\ job' = [job EXCEPT !.at = "info"]
  /\ UNCHANGED <<exchangeVars, diskVars, ghostVars, tl, gapAsked>>

(* Of the folded log, what was not yet read, unless it was read before *)
Unread ==
  IF known = 0 \/ foldedLog = NoFold \/ (\E a \in attic : a.of = known) THEN {}
  ELSE {s \in 1..foldedLog.len : s > cursor}

(* `read_folded` *)
read_folded ==
  fold_entries(State, [of |-> foldedLog.of, wiped |-> {s \in Seqs : <<foldedLog.of, s>> \in wiped}], known, Unread)

(* ... and where it is another's: what was read is put away. *)
StartsOver ==
  /\ job.at = "told" /\ exists
  /\ \E t \in Told(job.got.seqs # {}) : Restarted(t.inst)
  /\ told' = Now
  /\ reset_sequence_space(read_folded.kept)
  /\ timers' = read_folded.timers
  /\ known' = inst /\ announce' = FALSE
  /\ tl' = EmptyTimeline /\ late' = InOrder
  /\ job' = [job EXCEPT !.at = "again"]
  /\ UNCHANGED <<exchangeVars, gapAsked, tornOff, misSealed, filled, troubles>>

(* It is fetched from the start. *)
FetchAgain ==
  /\ job.at = "again" /\ exists
  /\ job' = [job EXCEPT !.at = "info", !.since = 0, !.got = Answer(0)]
  /\ UNCHANGED <<exchangeVars, diskVars, ghostVars, tl, told, gapAsked>>

(* The members and the epoch; a key for the epoch in force is asked for. *)
Informs ==
  /\ job.at = "info" /\ exists
  /\ \E t \in Told(job.got.seqs # {}) :
       \/ /\ Lacks(t.epoch) /\ absorb_keys
          /\ told' = Now
       \/ /\ ~Lacks(t.epoch) /\ NoCollection
          /\ told' = t
  /\ job' = [job EXCEPT !.at = "fold"]
  /\ UNCHANGED <<script, exists, inst, len, wiped, hidden, inForce, foldedLog, past>>
  /\ UNCHANGED <<kept, spent, known, announce, timers, attic, tl, gapAsked, ghostVars>>

Stored(st) ==
  kept' = st.kept /\ spent' = st.spent /\ timers' = st.timers

(* `set_since` *)
set_since(last) == cursor' = Max({cursor, last})

(* `fold_entries`, and the cursor *)
Folds ==
  LET st == fold_entries(State, job.got, told.inst, job.got.seqs)
      last == Max(job.got.seqs \cup {job.since})
  IN /\ job.at = "fold"
     /\ Stored(st) /\ tl' = st.tl /\ late' = st.late
     /\ known' = IF known = 0 THEN told.inst ELSE known
     /\ IF last > job.since THEN set_since(last) ELSE UNCHANGED cursor
     /\ job' = IF Lacks(told.epoch) THEN [at |-> "keys"] ELSE NoJob
     /\ UNCHANGED <<exchangeVars, keys, announce, attic, told, gapAsked>>
     /\ UNCHANGED <<tornOff, misSealed, filled, troubles>>

(* The key, once more, now that the log has been read *)
CollectsAfter ==
  /\ job.at = "keys" /\ exists
  /\ absorb_keys
  /\ job' = NoJob
  /\ UNCHANGED <<script, exists, inst, len, wiped, hidden, inForce, foldedLog, past>>
  /\ UNCHANGED <<kept, spent, known, announce, timers, attic, tl, told, gapAsked, ghostVars>>

(* A request of the poll is refused or gets no answer. *)
JobFails ==
  /\ job # NoJob
  /\ IF exists THEN Trouble ELSE UNCHANGED troubles
  /\ job' = NoJob
  /\ UNCHANGED <<exchangeVars, diskVars, tl, told, gapAsked>>
  /\ UNCHANGED <<tornOff, misSealed, filled, late>>

(* `folded_away`: the poll is refused, and there is a folded log. *)
FoldedAway ==
  /\ job = NoJob /\ ~exists /\ Rows # {} /\ known # 0 /\ foldedLog # NoFold
  /\ reset_sequence_space(read_folded.kept)
  /\ timers' = read_folded.timers
  /\ tl' = EmptyTimeline /\ late' = InOrder
  /\ UNCHANGED <<exchangeVars, known, announce, told, gapAsked, job>>
  /\ UNCHANGED <<tornOff, misSealed, filled, troubles>>

----------------------------------------------------------------------------
(* Sending *)

(* `ensure_epoch`: an epoch that went back is another channel's, and a key *)
(* that is missing is asked for. *)
EnsureBack ==
  /\ job = NoJob /\ exists /\ inForce < highestKey
  /\ reset_sequence_space(kept)
  /\ UNCHANGED <<exchangeVars, known, announce, timers, memoryVars, ghostVars>>

EnsureKey ==
  /\ job = NoJob /\ exists /\ inForce >= highestKey /\ Lacks(inForce)
  /\ absorb_keys
  /\ UNCHANGED <<script, exists, inst, len, wiped, hidden, inForce, foldedLog, past>>
  /\ UNCHANGED <<kept, spent, known, announce, timers, attic, memoryVars, ghostVars>>

(* `send_body`: sealed with the key held for the epoch, *)
Sends ==
  /\ job = NoJob /\ MayPost /\ NextEntry.by = Me
  /\ NextEntry.is = "redact" => <<inst, NextEntry.target>> \in wiped
  /\ inForce >= highestKey /\ ~Lacks(inForce)
  /\ misSealed' = IF keys[inForce] = inst THEN misSealed ELSE misSealed \cup {<<inst, len + 1>>}
  /\ len' = len + 1
  /\ UNCHANGED <<script, exists, inst, wiped, hidden, inForce, envs, foldedLog, past>>
  /\ UNCHANGED <<memoryVars, tornOff, filled, late>>

(* `post_entry`: the row and its timer, and after `redact` the words *)
Own(r) ==
  LET stored == put_message(r, len + 1, inst, "words")
  IN /\ kept' = IF NextEntry.is = "redact" THEN redact_message(stored, NextEntry.target) ELSE stored
     /\ timers' = IF NextEntry.timed THEN [timers EXCEPT ![len + 1] = inst] ELSE timers

SendsOn ==
  /\ Sends /\ known \in {0, inst}
  /\ known' = inst /\ Own(kept)
  /\ UNCHANGED <<troubles, spent, keys, cursor, announce, attic>>

(* `chain_at`: another incarnation than the one held is reset to first, *)
SendsAnew ==
  /\ Sends /\ known \notin {0, inst}
  /\ attic' = Archived(kept)
  /\ spent' = {} /\ keys' = NoKeys /\ cursor' = 0
  /\ known' = inst /\ announce' = TRUE /\ Own(NothingKept)
  /\ UNCHANGED troubles

(* or the answer is lost, and with it the row. *)
SendUnheard ==
  /\ Sends /\ known \in {0, inst} /\ Trouble
  /\ known' = inst
  /\ UNCHANGED <<kept, spent, keys, cursor, announce, timers, attic>>

----------------------------------------------------------------------------
(* The client stops, and starts again from its store. *)
StartsFrom(r) ==
  /\ Trouble
  /\ kept' = history(r)
  /\ tl' = fold_rows(r)
  /\ late' = [is |-> FALSE, top |-> Max({s \in Seqs : r[s].has # "none"} \cup {0})]
  /\ told' = NoInfo /\ gapAsked' = FALSE /\ job' = NoJob

Restart ==
  /\ StartsFrom(kept)
  /\ UNCHANGED <<exchangeVars, spent, keys, cursor, known, announce, timers, attic>>
  /\ UNCHANGED <<tornOff, misSealed, filled>>

(* It stops between a counter and the message it is for (`record_seen`,    *)
(* `put_message`). *)
StopsAt(s) ==
  LET before == fold_entries(State, job.got, told.inst, {x \in job.got.seqs : x < s})
      st == record_seen(before, job.got, s)
  IN /\ job.at = "fold" /\ s \in job.got.seqs /\ ~Replayed(before, job.got, s)
     /\ st # before
     /\ spent' = st.spent /\ timers' = st.timers /\ StartsFrom(st.kept)
     /\ known' = IF known = 0 THEN told.inst ELSE known
     /\ tornOff' = tornOff \cup {<<job.got.of, s>>}
     /\ UNCHANGED <<exchangeVars, keys, cursor, announce, attic, misSealed, filled>>

----------------------------------------------------------------------------
Exchange ==
  \/ \E b \in BOOLEAN : Arrives(b) \/ Rotates(b) \/ Ends(b)
  \/ \E s \in Seqs : Fills(s) \/ Wipes(s) \/ Swept(s)
  \/ \E e \in RdEpoch : Seals(e)
  \/ \E i \in Insts, s \in Seqs : TimeUp(i, s)
  \/ MadeAnew

PollStep == GoesOn \/ StartsOver \/ FetchAgain \/ Informs \/ Folds \/ CollectsAfter \/ JobFails

RdNext ==
  \/ Exchange \/ Ask \/ PollStep \/ FoldedAway
  \/ EnsureBack \/ EnsureKey \/ SendsOn \/ SendsAnew \/ SendUnheard
  \/ Restart \/ \E s \in Seqs : StopsAt(s)

RdSpec == RdInit /\ [][RdNext]_rdVars

----------------------------------------------------------------------------
Entry(i, s) == s \in 1..Len(script.says[i])

Lost(s) == <<inst, s>> \in tornOff \/ <<inst, s>> \in past

(* A counter is recorded once and for all, so what was opened must be      *)
(* held: whatever was reset, re-read or stopped in between, an entry of    *)
(* the incarnation held whose counter is spent has its words in the store, *)
(* or the mark that they were deleted (`fold_entries`: "a message not      *)
(* written here is one this client can never read again").  Excepted are a *)
(* timed entry and one a crash tore from its counter. *)
OpenedIsKept ==
  known = inst =>
    \A s \in Seqs : <<inst, s>> \in spent /\ ~Lost(s) => kept[s].has \in {"words", "empty"}

Redactors(i, s) ==
  {x \in Seqs : Entry(i, x) /\ entry(i, x).is = "redact" /\ entry(i, x).target = s
                /\ entry(i, x).by \in script.admins \cup {entry(i, s).by}}

(* The words of a message leave the store in three ways only: by its own   *)
(* timer; deleted by somebody who may; or, when the incarnation has ended, *)
(* into the history of the earlier ones (`expire_timed`, `redact_message`, *)
(* `reset_sequence_space`). *)
WordsLeave ==
  \A s \in Seqs :
    LET i == kept[s].of
    IN kept[s].has = "words" /\ kept'[s] # kept[s] =>
         \/ kept'[s] = NoRow /\ <<i, s>> \in past
         \/ kept'[s] = [of |-> i, has |-> "empty"] /\ (<<i, s>> \in wiped \/ Redactors(i, s) # {})
         \/ \E a \in attic' : a.of = i /\ a.kept[s].has \in {"words", "empty"}
WordsAreKept == [][WordsLeave]_rdVars

(* What a running client shows is what it would show started again: once   *)
(* it has caught up, and nothing was opened after what came behind it, the *)
(* timeline it has carried through polls, resets, deletions and timers is  *)
(* the fold of its store (`absorb`, `history`). *)
ShownIsKept ==
  job = NoJob /\ known = inst /\ cursor = len /\ ~late.is /\ ~announce =>
    Shown(forget(tl, Expired)) = Shown(forget(fold_rows(kept), Expired))

(* The cursor passes nothing over: between polls, whatever reset, rewind,  *)
(* failed request or stop came before, an entry that the exchange serves   *)
(* at or below it is held, if only as one there is no key for, so asking   *)
(* from the cursor loses nothing (`ask`, `absorb`, `set_since`).  Excepted *)
(* is what a copy took late, asked for once a run, and what was torn off   *)
(* or timed. *)
NothingPassedOver ==
  job = NoJob /\ exists /\ known = inst =>
    \A s \in ServedSeqs : s <= cursor =>
      kept[s].of = inst \/ <<inst, s>> \in filled \/ Lost(s)

(* Nothing is lost to the reader: neither what it could open once and for  *)
(* all, nor what it would have to ask for again. *)
NothingIsLost == OpenedIsKept /\ NothingPassedOver
=============================================================================
