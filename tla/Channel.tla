------------------------------ MODULE Channel ------------------------------
(***************************************************************************)
(* The exchange's channel store (sqexd/src/channel.rs) for the channels it *)
(* is the origin of: membership and roles, the numbered log, each device's *)
(* signature chain, message counters, epoch envelopes, retention and the   *)
(* sweep.  The store is one SQLite database under one mutex and a handler  *)
(* is one transaction, so a handler is one step; what is hard is the       *)
(* sequences of handlers, across destruction and recreation.               *)
(*                                                                         *)
(* Signatures.  Every entry carries a statement its device signed over the *)
(* incarnation of the channel, its position in the device's chain and the  *)
(* link to the statement before.  A statement is identified here by        *)
(* (channel, instance, device, position): two different statements with    *)
(* one identity are a fork, the same one twice is a replay.  A request     *)
(* whose statement is not the next of its chain is refused and changes     *)
(* nothing, so an action below always takes the next position.             *)
(*                                                                         *)
(* Left out: blobs, cursors, signals, reports, tombstones, succession,     *)
(* folding and rehoming, and the channels held as a copy of another        *)
(* exchange's (module Copy).  Names and topics are not kept.               *)
(***************************************************************************)
EXTENDS Integers, FiniteSets, Sequences

CONSTANTS
  Channels,     \* channel identifiers
  DmPair,       \* channel |-> the two accounts its identifier derives from, or {}
  Accounts,
  Devices,      \* an account with no registered device is its own device
  AccountOf,    \* device |-> account
  Blocks,       \* pairs <<a, b>>: a has blocked b
  Instances,    \* the incarnation markers creators propose
  Peers,        \* exchanges that may be authorised to replicate
  Visibilities, Roles,
  InviteLists,  \* the invite lists a create may carry: sequences of [account, role]
  Recipients,   \* the sets of devices one key request may carry envelopes for
  Retentions, Caps, Ttls,   \* the retention_secs, max_entries, expires_after that occur
  MAX_MEMBERS, MAX_UNSPOKEN, MAX_CHANNELS_PER_IDENTITY, MAX_ENTRIES,
  MAX_HELD,     \* max_channel_bytes, counted in entries of one size
  MAX_EPOCH, MAX_REPLICAS, ABANDON_SECS,
  MaxSeq, MaxMsg, MaxTime,  \* bounds: log positions, message counters, the clock
  None

ASSUME ChannelAssumption ==
  /\ DmPair \in [Channels -> SUBSET Accounts]
  /\ AccountOf \in [Devices -> Accounts]
  /\ Visibilities \subseteq {"private", "public"} /\ Roles \subseteq {"admin", "member"}
  /\ Retentions \subseteq Nat \ {0} /\ Caps \subseteq Nat /\ Ttls \subseteq Nat
  /\ InviteLists \subseteq Seq([account: Accounts, role: Roles])
  /\ Recipients \subseteq SUBSET Devices
  /\ {MAX_MEMBERS, MAX_ENTRIES, MAX_HELD} \subseteq Nat \ {0}
  /\ {MAX_UNSPOKEN, MAX_CHANNELS_PER_IDENTITY, MAX_EPOCH, MAX_REPLICAS, ABANDON_SECS,
      MaxSeq, MaxMsg, MaxTime} \subseteq Nat
  /\ None \notin Instances /\ None \notin Nat

VARIABLES
  now,
  db,        \* channel |-> its rows in the tables `destroy` clears
  retired,   \* channel |-> the instances it has used (table retired_instance)
  replica,   \* channel |-> the peers authorised to replicate it (table replica)
  life,      \* history: channel |-> how many times it has been created
  spent      \* history: every statement a log has ever held

vars == <<now, db, retired, replica, life, spent>>

Kinds == {"created", "joined", "left", "added", "promoted", "demoted", "removed", "muted",
          "unmuted", "rotated", "retention", "renamed", "replicate", "unreplicate", "post"}
Epoch == 0..MAX_EPOCH

(* The tables, per channel.  `row` is the row of table `channel`, `chain`  *)
(* the position each device signs next (`chain_head`), `high` the largest  *)
(* msg_seq taken per device and epoch (0: none). *)
Row == [vis: {"private", "public"}, ret: Nat \ {0}, cap: Nat, epoch: Epoch, next: Nat,
        creator: Accounts, since: Nat \cup {None}, inst: Instances]
MemberRow == [role: {"admin", "member"}, present: BOOLEAN, posted: BOOLEAN, muted: BOOLEAN]
Entry == [seq: Nat, kind: Kinds, subject: Accounts \cup Peers, dev: Devices, pos: Nat,
          posted: Nat, ttl: Nat, epoch: Epoch, msg: Nat]
Tables == [row: Row \cup {None}, member: [Accounts -> MemberRow \cup {None}],
           entry: SUBSET Entry, chain: [Devices -> Nat], high: [Devices -> [Epoch -> Nat]],
           envelope: SUBSET (Devices \X Epoch)]
Statement == [chan: Channels, life: Nat, inst: Instances, dev: Devices, pos: Nat, seq: Nat,
              post: BOOLEAN, epoch: Epoch, msg: Nat]

ASSUME NoneIsNoRow == None \notin Row /\ None \notin MemberRow

(* `destroy`: what is left of a channel's own tables. *)
destroyed ==
  [row |-> None, member |-> [a \in Accounts |-> None], entry |-> {},
   chain |-> [d \in Devices |-> 0], high |-> [d \in Devices |-> [e \in Epoch |-> 0]],
   envelope |-> {}]

Init ==
  /\ now = 0
  /\ db = [c \in Channels |-> destroyed]
  /\ retired = [c \in Channels |-> {}] /\ replica = [c \in Channels |-> {}]
  /\ life = [c \in Channels |-> 0] /\ spent = {}

----------------------------------------------------------------------------
(* Reading the tables *)

role_of(s, a) == IF s.member[a] # None /\ s.member[a].present THEN s.member[a].role ELSE None
is_admin(s, a) == s.row # None /\ s.member[a] # None /\ s.member[a].role = "admin"
is_muted(s, a) == s.member[a] # None /\ s.member[a].muted

(* `counts` *)
members(s) == Cardinality({a \in Accounts : role_of(s, a) # None})
admins(s) == Cardinality({a \in Accounts : s.member[a] # None /\ s.member[a].role = "admin"})

Listed(s) == {a \in Accounts : s.member[a] # None}

is_direct_message(c, s) == Listed(s) = DmPair[c] /\ Cardinality(Listed(s)) = 2

(* `unspoken_full`, over every channel of a store *)
unspoken(store, a) ==
  Cardinality({c \in Channels : role_of(store[c], a) # None /\ ~store[c].member[a].posted})

Blocked(a, by) == <<a, by>> \in Blocks

----------------------------------------------------------------------------
(* Writing them *)

NewMember(role) == [role |-> role, present |-> TRUE, posted |-> FALSE, muted |-> FALSE]

(* INSERT ... ON CONFLICT DO UPDATE SET present = 1 *)
Seat(member, a, role) ==
  [member EXCEPT ![a] = IF @ = None THEN NewMember(role) ELSE [@ EXCEPT !.present = TRUE]]

(* INSERT ... ON CONFLICT DO UPDATE SET present = 1, role = ?3 *)
Appoint(member, a, role) ==
  [member EXCEPT ![a] = IF @ = None THEN NewMember(role)
                        ELSE [@ EXCEPT !.present = TRUE, !.role = role]]

(* `advance_chain`: the next position is taken. *)
advance_chain(chain, d) == [chain EXCEPT ![d] = @ + 1]

(* `next_seq` is taken, and the channel is not abandoned. *)
Advanced(row) == [row EXCEPT !.next = @ + 1, !.since = None]

(* Mutant of Number: numbered after the newest entry still held. *)
NumberAfterHeld(s, d, kind, subject, ttl, epoch, msg) ==
  LET newest == {0} \cup {e.seq : e \in s.entry}
      seq == 1 + CHOOSE n \in newest : \A k \in newest : k <= n
  IN [s EXCEPT !.entry = @ \cup {[seq |-> seq, kind |-> kind, subject |-> subject, dev |-> d,
                                  pos |-> s.chain[d], posted |-> now, ttl |-> ttl,
                                  epoch |-> epoch, msg |-> msg]},
               !.chain = advance_chain(@, d), !.row = Advanced(@)]

(* The entry numbered `next_seq`, at its device's next position *)
Number(s, d, kind, subject, ttl, epoch, msg) ==
  [s EXCEPT !.entry = @ \cup {[seq |-> s.row.next, kind |-> kind, subject |-> subject,
                               dev |-> d, pos |-> s.chain[d], posted |-> now, ttl |-> ttl,
                               epoch |-> epoch, msg |-> msg]},
            !.chain = advance_chain(@, d), !.row = Advanced(@)]

(* `write_system` *)
write_system(s, d, kind, subject) == Number(s, d, kind, subject, 0, 0, 0)

(* Mutant of prune: the byte limit is taken one entry early. *)
prune_off_by_one(row, rows) ==
  LET window(e) == IF e.ttl > 0 /\ e.ttl < row.ret THEN e.ttl ELSE row.ret
      fresh == {e \in rows : now - e.posted < window(e)}
  IN {e \in fresh : Cardinality({f \in fresh : f.seq >= e.seq}) < MAX_HELD}

(* `prune`: by age, by position, by size. *)
prune(row, rows) ==
  LET window(e) == IF e.ttl > 0 /\ e.ttl < row.ret THEN e.ttl ELSE row.ret
      fresh == {e \in rows : now - e.posted < window(e)}
      cap == IF row.cap = 0 \/ row.cap > MAX_ENTRIES THEN MAX_ENTRIES ELSE row.cap
      capped == {e \in fresh : \A f \in fresh : e.seq > f.seq - cap}
  IN {e \in capped : Cardinality({f \in capped : f.seq >= e.seq}) <= MAX_HELD}

(* Mutant of Pruned: the counters are read back from the entries left. *)
PrunedForgetting(s) ==
  LET left == prune(s.row, s.entry)
  IN [s EXCEPT !.entry = left,
               !.high = [d \in Devices |-> [e \in Epoch |->
                  IF \E x \in left : x.kind = "post" /\ x.dev = d /\ x.epoch = e
                  THEN @[d][e] ELSE 0]]]

Pruned(s) == [s EXCEPT !.entry = prune(s.row, @)]

(* A transaction on channel c commits: its tables become t. *)
Statements(c, n, t, rows) ==
  {[chan |-> c, life |-> n, inst |-> t.row.inst, dev |-> e.dev, pos |-> e.pos,
    seq |-> e.seq, post |-> e.kind = "post", epoch |-> e.epoch, msg |-> e.msg] : e \in rows}

Commit(c, t) ==
  /\ t.row # None => t.row.next <= MaxSeq + 1
  /\ db' = [db EXCEPT ![c] = t]
  /\ spent' = spent \cup
       (IF t.row = None THEN {} ELSE Statements(c, life[c], t, t.entry \ db[c].entry))
  /\ UNCHANGED <<now, retired, life>>

----------------------------------------------------------------------------
(* Creating a channel *)

(* `dm_claim`: the caller shows the identifier derives from itself and the *)
(* one account it invites. *)
Claims(c, a, invites) == Len(invites) = 1 /\ DmPair[c] = {a, invites[1].account}
                         /\ invites[1].account # a
Squatted(c, a, invites) == Claims(c, a, invites) /\ ~(Listed(db[c]) \subseteq DmPair[c])

(* The invitees a create seats: those who have not blocked the caller. *)
Seated(a, invites) == {i \in DOMAIN invites : ~Blocked(invites[i].account, a)}

(* The client signs `created` and one `added` per invitee at consecutive   *)
(* positions from 0; a blocked invitee's goes unused, so every later one   *)
(* is then not the next of the chain, and the whole create is refused. *)
ChainHolds(a, invites) ==
  \A i \in Seated(a, invites) : \A j \in 1..i : j \in Seated(a, invites)

(* The rows a fresh create inserts (INSERT OR IGNORE for each invitee). *)
Founded(d, vis, ret, cap, invites, inst) ==
  LET a == AccountOf[d]
      seated == Seated(a, invites)
      first(b) == CHOOSE i \in seated : /\ invites[i].account = b
                                        /\ \A j \in seated : invites[j].account = b => i <= j
  IN [row |-> [vis |-> vis, ret |-> ret, cap |-> cap, epoch |-> 0,
               next |-> 2 + Cardinality(seated), creator |-> a, since |-> None, inst |-> inst],
      member |-> [b \in Accounts |->
                    IF b = a THEN NewMember("admin")
                    ELSE IF \E i \in seated : invites[i].account = b
                         THEN NewMember(invites[first(b)].role) ELSE None],
      entry |-> {[seq |-> i + 1, kind |-> IF i = 0 THEN "created" ELSE "added",
                  subject |-> IF i = 0 THEN a ELSE invites[i].account, dev |-> d, pos |-> i,
                  posted |-> now, ttl |-> 0, epoch |-> 0, msg |-> 0] : i \in {0} \cup seated},
      chain |-> [destroyed.chain EXCEPT ![d] = 1 + Cardinality(seated)],
      high |-> destroyed.high, envelope |-> {}]

(* Mutant of FreshInstance: an incarnation marker may be used again. *)
FreshInstanceUnchecked(c, inst) == TRUE

(* The `retired_instance` check *)
FreshInstance(c, inst) == inst \notin retired[c]

(* What `create` checks before it writes, on the store with a squatted     *)
(* channel already destroyed. *)
MayCreate(c, a, invites, inst) ==
  LET store == [db EXCEPT ![c] = destroyed]
  IN /\ db[c].row # None => role_of(db[c], a) = None /\ Squatted(c, a, invites)
     /\ Cardinality({x \in Channels : store[x].row # None /\ store[x].row.creator = a})
          < MAX_CHANNELS_PER_IDENTITY
     /\ Len(invites) + 1 <= MAX_MEMBERS
     /\ \A i \in Seated(a, invites) : unspoken(store, invites[i].account) < MAX_UNSPOKEN
     /\ FreshInstance(c, inst)

(* `create`, making the channel *)
Create(d, c, vis, ret, cap, invites, inst) ==
  LET a == AccountOf[d]
      t == Founded(d, vis, ret, cap, invites, inst)
  IN /\ MayCreate(c, a, invites, inst) /\ ChainHolds(a, invites)
     /\ t.row.next <= MaxSeq + 1
     /\ db' = [db EXCEPT ![c] = t]
     /\ retired' = [retired EXCEPT ![c] = @ \cup {inst}]
     /\ life' = [life EXCEPT ![c] = @ + 1]
     /\ spent' = spent \cup Statements(c, life[c] + 1, t, t.entry)
     /\ UNCHANGED <<now, replica>>

(* `create` by one of a direct message's two accounts that had left it *)
CreateReturning(d, c, invites) ==
  LET s == db[c] a == AccountOf[d]
  IN /\ s.row # None /\ role_of(s, a) = None
     /\ Claims(c, a, invites) /\ Listed(s) \subseteq DmPair[c]
     /\ Commit(c, write_system([s EXCEPT !.member = Seat(@, a, "admin")], d, "joined", a))
     /\ UNCHANGED replica

----------------------------------------------------------------------------
(* Membership *)

(* `join` *)
Join(d, c) ==
  LET s == db[c] a == AccountOf[d]
  IN /\ s.row # None /\ s.row.vis = "public"
     /\ role_of(s, a) # None \/ members(s) < MAX_MEMBERS
     /\ Commit(c, write_system([s EXCEPT !.member = Seat(@, a, "member")], d, "joined", a))
     /\ UNCHANGED replica

(* The refusals to lose the last administrator *)
LastAdminLeaves(s, a) ==
  s.row.vis = "private" /\ s.member[a].role = "admin" /\ admins(s) = 1 /\ members(s) > 1
LastAdminRemoved(s, a) == s.member[a].role = "admin" /\ admins(s) = 1 /\ members(s) > 1

(* `leave`: an administrator of a public channel keeps the role; the last  *)
(* member of a private one takes the channel with it. *)
Leave(d, c) ==
  LET s == db[c] a == AccountOf[d]
      durable == s.row.vis = "public" /\ s.member[a].role = "admin"
      gone == [s.member EXCEPT ![a] = IF durable THEN [@ EXCEPT !.present = FALSE] ELSE None]
      t == write_system([s EXCEPT !.member = gone], d, "left", a)
  IN /\ s.row # None /\ role_of(s, a) # None
     /\ ~LastAdminLeaves(s, a)
     /\ Commit(c, IF members(s) > 1 THEN t
                  ELSE IF s.row.vis = "public"
                       THEN [t EXCEPT !.row = [@ EXCEPT !.since = now]] ELSE destroyed)
     /\ UNCHANGED replica

(* Mutant of InviteEvent: an event the protocol has no code for. *)
InviteEventUnnamed(was, role) == IF was = None THEN "added" ELSE "changed"

(* The event an invitation is recorded as *)
InviteEvent(was, role) ==
  IF was = None \/ was = role THEN "added" ELSE IF role = "admin" THEN "promoted" ELSE "demoted"

(* Mutant of MayInvite: no quota asked for. *)
MayInviteUnmetered(s, a) == role_of(s, a) = None => members(s) < MAX_MEMBERS

(* What `invite` checks of an account that is not present *)
MayInvite(s, a) ==
  role_of(s, a) = None => members(s) < MAX_MEMBERS /\ unspoken(db, a) < MAX_UNSPOKEN

(* `invite`, which is also how a role is changed *)
Invite(d, c, a, role) ==
  LET s == db[c]
  IN /\ ~Blocked(a, AccountOf[d])
     /\ is_admin(s, AccountOf[d]) /\ ~is_direct_message(c, s)
     /\ MayInvite(s, a)
     /\ Commit(c, write_system([s EXCEPT !.member = Appoint(@, a, role)], d,
                               InviteEvent(role_of(s, a), role), a))
     /\ UNCHANGED replica

(* `mute` and unmute *)
Mute(d, c, a, on) ==
  LET s == db[c]
  IN /\ is_admin(s, AccountOf[d])
     /\ role_of(s, a) # None /\ (on => role_of(s, a) # "admin")
     /\ Commit(c, write_system([s EXCEPT !.member = [@ EXCEPT ![a].muted = on]], d,
                               IF on THEN "muted" ELSE "unmuted", a))
     /\ UNCHANGED replica

(* `remove`: the row goes, and the envelopes addressed to the account's    *)
(* own key. *)
RemoveMember(d, c, a) ==
  LET s == db[c]
  IN /\ is_admin(s, AccountOf[d]) /\ ~is_direct_message(c, s)
     /\ role_of(s, a) # None /\ ~LastAdminRemoved(s, a)
     /\ Commit(c, write_system([s EXCEPT !.member = [@ EXCEPT ![a] = None],
                                         !.envelope = {x \in @ : x[1] # a}], d, "removed", a))
     /\ UNCHANGED replica

----------------------------------------------------------------------------
(* The log, its keys and its retention *)

(* The upsert of `high_water`: MAX of the counter held and the one used. *)
taken(high, d, epoch, msg) == [high EXCEPT ![d][epoch] = IF msg > @ THEN msg ELSE @]

(* `post` *)
Post(d, c, msg, ttl) ==
  LET s == db[c] a == AccountOf[d]
      epoch == IF s.row.vis = "public" THEN 0 ELSE s.row.epoch
      t == Number([s EXCEPT !.high = taken(@, d, epoch, msg),
                            !.member = [@ EXCEPT ![a].posted = TRUE]],
                  d, "post", a, ttl, epoch, msg)
  IN /\ s.row # None /\ role_of(s, a) # None /\ ~is_muted(s, a)
     /\ s.row.vis = "private" => epoch > 0
     /\ msg \in (IF s.row.vis = "public" THEN {0} ELSE 1..MaxMsg)
     /\ ttl <= s.row.ret
     /\ Commit(c, Pruned(t))
     /\ UNCHANGED replica

(* Who may publish envelopes for an epoch: an administrator, a member to   *)
(* its own devices under the epoch in force, a member that revoked one of  *)
(* its devices since the epoch was minted. *)
MayPut(s, a, epoch, to, revoked) ==
  \/ is_admin(s, a)
  \/ epoch = s.row.epoch /\ \A x \in to : AccountOf[x] = a
  \/ epoch # s.row.epoch /\ revoked

(* `put_keys`; a request naming a device that already has an envelope for  *)
(* the epoch is turned away whole. *)
PutKeys(d, c, epoch, to, revoked) ==
  LET s == db[c] a == AccountOf[d]
      t == [s EXCEPT !.envelope = @ \cup (to \X {epoch})]
  IN /\ s.row # None /\ s.row.vis = "private" /\ role_of(s, a) # None
     /\ epoch \in {s.row.epoch, s.row.epoch + 1} /\ epoch <= MAX_EPOCH
     /\ MayPut(s, a, epoch, to, revoked)
     /\ \A x \in to : role_of(s, AccountOf[x]) # None /\ <<x, epoch>> \notin s.envelope
     /\ Commit(c, IF epoch = s.row.epoch THEN t
                  ELSE write_system([t EXCEPT !.row = [@ EXCEPT !.epoch = epoch]],
                                    d, "rotated", a))
     /\ UNCHANGED replica

(* `retain` *)
Retain(d, c, ret, cap) ==
  LET s == db[c]
  IN /\ is_admin(s, AccountOf[d])
     /\ Commit(c, Pruned(write_system([s EXCEPT !.row = [@ EXCEPT !.ret = ret, !.cap = cap]],
                                      d, "retention", AccountOf[d])))
     /\ UNCHANGED replica

(* `set_directory`: a public channel's name and topic *)
SetDirectory(d, c) ==
  LET s == db[c]
  IN /\ is_admin(s, AccountOf[d]) /\ s.row.vis = "public"
     /\ Commit(c, write_system(s, d, "renamed", AccountOf[d]))
     /\ UNCHANGED replica

(* `close` *)
Close(d, c) ==
  /\ is_admin(db[c], AccountOf[d])
  /\ Commit(c, destroyed)
  /\ UNCHANGED replica

(* `replicate`: authorise a peer to copy the channel, or withdraw it *)
Replicate(d, c, p, on) ==
  LET s == db[c]
  IN /\ is_admin(s, AccountOf[d])
     /\ on => p \in replica[c] \/ Cardinality(replica[c]) < MAX_REPLICAS
     /\ Commit(c, write_system(s, d, IF on THEN "replicate" ELSE "unreplicate", p))
     /\ replica' = [replica EXCEPT ![c] = IF on THEN @ \cup {p} ELSE @ \ {p}]

(* What `sweep` makes of one channel: pruned, and a public one that holds  *)
(* nothing and nobody closed once it has been so for ABANDON_SECS. *)
Swept(s) ==
  LET t == Pruned(s)
      empty == members(t) = 0 /\ t.entry = {} /\ t.row.vis = "public"
  IN IF s.row = None THEN s
     ELSE IF ~empty THEN [t EXCEPT !.row = [@ EXCEPT !.since = None]]
     ELSE IF t.row.since = None THEN [t EXCEPT !.row = [@ EXCEPT !.since = now]]
     ELSE IF now - t.row.since >= ABANDON_SECS THEN destroyed
     ELSE t

Sweep ==
  /\ db' = [c \in Channels |-> Swept(db[c])]
  /\ UNCHANGED <<now, retired, replica, life, spent>>

Tick ==
  /\ now < MaxTime /\ now' = now + 1
  /\ UNCHANGED <<db, retired, replica, life, spent>>

Next ==
  \/ \E d \in Devices, c \in Channels :
       \/ \E v \in Visibilities, r \in Retentions, k \in Caps, l \in InviteLists, i \in Instances :
            Create(d, c, v, r, k, l, i)
       \/ \E l \in InviteLists : CreateReturning(d, c, l)
       \/ Join(d, c) \/ Leave(d, c) \/ SetDirectory(d, c) \/ Close(d, c)
       \/ \E a \in Accounts, r \in Roles : Invite(d, c, a, r)
       \/ \E a \in Accounts, on \in BOOLEAN : Mute(d, c, a, on)
       \/ \E a \in Accounts : RemoveMember(d, c, a)
       \/ \E m \in 0..MaxMsg, t \in Ttls : Post(d, c, m, t)
       \/ \E e \in Epoch, to \in Recipients, r \in BOOLEAN : PutKeys(d, c, e, to, r)
       \/ \E r \in Retentions, k \in Caps : Retain(d, c, r, k)
       \/ \E p \in Peers, on \in BOOLEAN : Replicate(d, c, p, on)
  \/ Sweep \/ Tick

Spec == Init /\ [][Next]_vars

----------------------------------------------------------------------------
(* Every row of every table keeps its type through every handler (`SCHEMA`). *)
TypeOK ==
  /\ now \in Nat
  /\ db \in [Channels -> Tables]
  /\ retired \in [Channels -> SUBSET Instances] /\ replica \in [Channels -> SUBSET Peers]
  /\ life \in [Channels -> Nat] /\ spent \subseteq Statement

(* A device's signed statement enters a channel's log at most once and     *)
(* never beside a rival at the same position of its chain -- whatever is   *)
(* pruned, left, destroyed and created again under the same identifier     *)
(* (`advance_chain`, `retired_instance`). *)
NoReplayNoFork ==
  \A x, y \in spent :
    x.chan = y.chan /\ x.inst = y.inst /\ x.dev = y.dev /\ x.pos = y.pos => x = y

(* A position in one incarnation of a log names one statement for good:    *)
(* pruning every entry does not start the numbering again (`next_seq`). *)
NumberedOnce ==
  \A x, y \in spent : x.chan = y.chan /\ x.inst = y.inst /\ x.seq = y.seq => x = y

(* What `info` tells a device to count from is never below a counter it    *)
(* used under that epoch's key, however much of the log is pruned and      *)
(* however often the account left and came back (`high_water`). *)
CounterCoversUse ==
  \A x \in spent :
    LET s == db[x.chan]
    IN x.post /\ s.row # None /\ s.row.inst = x.inst => s.high[x.dev][x.epoch] >= x.msg

(* Other people's invitations never take an account past MAX_UNSPOKEN      *)
(* channels it has not spoken in; only its own joining and creating can,   *)
(* and that leaves a new statement of its own (`unspoken_full`). *)
StrangersBoundedByQuota ==
  [][\A a \in Accounts :
       unspoken(db, a)' > unspoken(db, a) /\ unspoken(db, a)' > MAX_UNSPOKEN =>
         \E x \in spent' \ spent : AccountOf[x.dev] = a]_vars

(* An entry leaves a standing channel only because its time was up or      *)
(* newer entries filled the channel's cap or its bytes (`prune`). *)
KeepsRecent ==
  [][\A c \in Channels :
       LET s == db[c] t == db'[c]
           held == s.entry \cup t.entry
           cap == IF t.row.cap = 0 \/ t.row.cap > MAX_ENTRIES THEN MAX_ENTRIES ELSE t.row.cap
       IN s.row # None /\ t.row # None /\ s.row.inst = t.row.inst =>
            \A e \in s.entry \ t.entry :
              \/ now - e.posted >= t.row.ret
              \/ e.ttl > 0 /\ now - e.posted >= e.ttl
              \/ \E f \in held : f.seq >= e.seq + cap
              \/ Cardinality({f \in held : f.seq > e.seq}) >= MAX_HELD]_vars

(* A private channel somebody shares has an administrator: `leave` and     *)
(* `remove` both refuse to strand the others "with a channel nobody can    *)
(* administer". *)
SharedIsAdministered ==
  \A c \in Channels :
    db[c].row # None /\ db[c].row.vis = "private" /\ members(db[c]) > 1 => admins(db[c]) > 0
=============================================================================
