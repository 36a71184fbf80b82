--------------------------- MODULE ChannelProofs ---------------------------
(***************************************************************************)
(* The log of a channel for any number of channels, devices, instances and *)
(* positions: no statement twice and no two at one place, whatever is      *)
(* pruned, destroyed and created again.                                    *)
(*                                                                         *)
(* A statement is remembered by `spent` for ever while the tables that     *)
(* should refuse it again come and go, so the invariant says of every      *)
(* statement that its instance is retired, and that the tables of the      *)
(* incarnation it belongs to, while they stand, are past it.  What a copy  *)
(* of the log holds is of one incarnation by the same invariant.           *)
(* What leaves a log leaves it by `prune`, and what a handler does to the  *)
(* rows of the members bounds what others can make an account a member of. *)
(* Every change of who reads is in the log, so a copy that applied all of  *)
(* it in order has the origin's readers.                                   *)
(***************************************************************************)
EXTENDS Copy, Induction

(* The tables s are past statement x, if they are of its incarnation. *)
Past(x, s) ==
  s.row # None /\ s.row.inst = x.inst =>
    /\ x.pos < s.chain[x.dev] /\ x.seq < s.row.next
    /\ x.post => s.high[x.dev][x.epoch] >= x.msg

SpentIsPast == \A x \in spent : x.inst \in retired[x.chan] /\ Past(x, db[x.chan])

StandingIsRetired == \A c \in Channels : db[c].row # None => db[c].row.inst \in retired[c]

(* What the tables of a channel that stands hold was said in it.           *)
Said(c, inst, e) ==
  \E x \in spent : x.chan = c /\ x.inst = inst /\ x.seq = e.seq /\ x.dev = e.dev /\ x.pos = e.pos
LogIsSpent ==
  \A c \in Channels : db[c].row # None => \A e \in db[c].entry : Said(c, db[c].row.inst, e)

(* The entries of a log are numbered apart, below the next.                *)
Tidy(s) ==
  s.row # None => /\ \A e, f \in s.entry : e.seq = f.seq => e = f
                  /\ \A e \in s.entry : e.seq < s.row.next
TidyLog == \A c \in Channels : Tidy(db[c])

LogInv ==
  /\ TypeOK /\ SpentIsPast /\ StandingIsRetired /\ NoReplayNoFork /\ NumberedOnce
  /\ LogIsSpent /\ TidyLog

(* The tables t are s further on, or gone. *)
Grows(s, t) ==
  t.row # None =>
    /\ s.row # None /\ t.row.inst = s.row.inst /\ t.row.next >= s.row.next
    /\ \A d \in Devices : t.chain[d] >= s.chain[d]
    /\ \A d \in Devices, e \in Epoch : t.high[d][e] >= s.high[d][e]

(* n is all that t has and s has not, and t is past it. *)
NewIsNext(s, t, n) ==
  /\ t.entry \ s.entry \subseteq {n}
  /\ n.seq = s.row.next /\ n.pos = s.chain[n.dev]
  /\ t.chain[n.dev] > n.pos /\ t.row.next > n.seq
  /\ n.kind = "post" => t.high[n.dev][n.epoch] >= n.msg

(* new is nothing, or an entry at the position s numbers next. *)
NextOnly(s, new) == new = {} \/ \E n \in Entry : new = {n} /\ n.seq = s.row.next

(* t holds all of what s held and at most the next entry, or what `prune`  *)
(* leaves of that. *)
Whole(s, t) == \E new \in SUBSET Entry : NextOnly(s, new) /\ t.entry = s.entry \cup new
Signs(s, t, d) == \E n \in t.entry : n.seq = s.row.next /\ n.dev = d
PruneOnly(s, t) ==
  Whole(s, t) \/ \E new \in SUBSET Entry :
                    NextOnly(s, new) /\ t.entry = prune(t.row, s.entry \cup new)

Appends(s, t) ==
  /\ t \in Tables /\ Grows(s, t) /\ (t.row = None => t = destroyed)
  /\ t.row # None => /\ t.entry \subseteq s.entry \/ \E n \in Entry : NewIsNext(s, t, n)
                     /\ PruneOnly(s, t)

(* u is s with nothing of its log changed, and no counter lowered. *)
SameLog(s, u) ==
  /\ u \in Tables /\ u.row # None /\ u.row.inst = s.row.inst /\ u.row.next = s.row.next
  /\ u.entry = s.entry /\ u.chain = s.chain
  /\ \A d \in Devices, e \in Epoch : u.high[d][e] >= s.high[d][e]

----------------------------------------------------------------------------
LEMMA ConstantFacts ==
  /\ MAX_EPOCH \in Nat /\ Epoch \subseteq Nat /\ 0 \in Epoch
  /\ None \notin Instances /\ None \notin Nat
  /\ AccountOf \in [Devices -> Accounts]
  /\ Roles \subseteq {"admin", "member"} /\ Visibilities \subseteq {"private", "public"}
  /\ Retentions \subseteq Nat \ {0} /\ Caps \subseteq Nat /\ Ttls \subseteq Nat /\ MaxMsg \in Nat
<1>1. MAX_EPOCH \in Nat
  BY ChannelAssumption
<1>2. Epoch \subseteq Nat /\ 0 \in Epoch
  BY <1>1 DEF Epoch
<1>3. None \notin Instances /\ None \notin Nat /\ AccountOf \in [Devices -> Accounts] /\ MaxMsg \in Nat
  BY ChannelAssumption
<1>4. /\ Roles \subseteq {"admin", "member"} /\ Visibilities \subseteq {"private", "public"}
      /\ Retentions \subseteq Nat \ {0} /\ Caps \subseteq Nat /\ Ttls \subseteq Nat
  BY ChannelAssumption
<1> QED
  BY <1>1, <1>2, <1>3, <1>4

(* What is in the tables of a channel. *)
LEMMA TablesFacts ==
  ASSUME NEW s \in Tables
  PROVE  /\ s.row \in Row \cup {None} /\ s.member \in [Accounts -> MemberRow \cup {None}]
         /\ s.entry \subseteq Entry /\ s.chain \in [Devices -> Nat]
         /\ s.high \in [Devices -> [Epoch -> Nat]] /\ s.envelope \subseteq Devices \X Epoch
         /\ s.row # None =>
              /\ s.row.next \in Nat /\ s.row.inst \in Instances /\ s.row.epoch \in Epoch
              /\ s.row.vis \in {"private", "public"}
BY DEF Tables, Row

LEMMA DestroyedFacts ==
  destroyed \in Tables /\ destroyed.row = None /\ \A a \in Accounts : destroyed.member[a] = None
BY ConstantFacts DEF destroyed, Tables

(* The parts of `prune`, which never lets the newest entry go.             *)
Window(row, e) == IF e.ttl > 0 /\ e.ttl < row.ret THEN e.ttl ELSE row.ret
FreshOf(row, rows) == {e \in rows : now - e.posted < Window(row, e)}
CapOf(row) == IF row.cap = 0 \/ row.cap > MAX_ENTRIES THEN MAX_ENTRIES ELSE row.cap
CappedOf(row, rows) == LET fresh == FreshOf(row, rows)
                       IN {e \in fresh : \A f \in fresh : e.seq > f.seq - CapOf(row)}
AtOrAbove(rows, e) == {f \in rows : f.seq >= e.seq}

LEMMA PruneParts ==
  ASSUME NEW row, NEW rows
  PROVE  LET capped == CappedOf(row, rows)
         IN prune(row, rows) = {e \in capped : Cardinality(AtOrAbove(capped, e)) <= MAX_HELD}
BY DEF prune, Window, FreshOf, CapOf, CappedOf, AtOrAbove

LEMMA CapFacts ==
  ASSUME NEW row \in Row
  PROVE  CapOf(row) \in Nat \ {0} /\ MAX_HELD \in Nat \ {0}
<1>1. {MAX_ENTRIES, MAX_HELD} \subseteq Nat \ {0}
  BY ChannelAssumption
<1>2. row.cap \in Nat
  BY DEF Row
<1> QED BY <1>1, <1>2 DEF CapOf

(* The newest entry is never let go while its time lasts. *)
LEMMA NewestIsKept ==
  ASSUME NEW row \in Row, NEW rows \in SUBSET Entry, NEW n \in FreshOf(row, rows),
         \A e \in rows : e # n => e.seq < n.seq
  PROVE  n \in prune(row, rows)
<1> DEFINE capped == CappedOf(row, rows)
<1>1. /\ CapOf(row) \in Nat \ {0} /\ MAX_HELD \in Nat \ {0}
      /\ \A e \in rows : e.seq \in Nat
  BY CapFacts DEF Entry
<1>2. n \in rows /\ FreshOf(row, rows) \subseteq rows
  BY DEF FreshOf
<1>3. n \in capped /\ capped \subseteq rows
  <2>1. \A f \in FreshOf(row, rows) : n.seq > f.seq - CapOf(row)
    BY <1>1, <1>2
  <2> QED BY <1>2, <2>1 DEF CappedOf
<1> HIDE DEF capped
<1>4. AtOrAbove(capped, n) = {n}
  BY <1>1, <1>2, <1>3 DEF AtOrAbove
<1>5. Cardinality(AtOrAbove(capped, n)) <= MAX_HELD
  BY <1>1, <1>4, FS_Singleton
<1> QED BY <1>3, <1>5, PruneParts DEF capped

Rosters == [Accounts -> MemberRow \cup {None}]

(* What an entry says of who may read.                                     *)
Arriving == {"created", "added", "joined", "promoted", "demoted"}
Leaving == {"left", "removed"}
Heard(readers, kind, subject) ==
  IF kind \in Arriving THEN readers \cup ({subject} \cap Accounts)
  ELSE IF kind \in Leaving THEN readers \ {subject} ELSE readers

LEMMA SeatReads ==
  ASSUME NEW m \in Rosters, NEW a, NEW role \in {"admin", "member"}
  PROVE  /\ Seat(m, a, role) \in Rosters /\ Appoint(m, a, role) \in Rosters
         /\ Readers(Seat(m, a, role)) = Readers(m) \cup ({a} \cap Accounts)
         /\ Readers(Appoint(m, a, role)) = Readers(m) \cup ({a} \cap Accounts)
<1>1. CASE a \notin Accounts
  <2>1. Seat(m, a, role) = m /\ Appoint(m, a, role) = m
    BY <1>1 DEF Seat, Appoint, Rosters
  <2> QED
    BY <1>1, <2>1
<1>2. CASE a \in Accounts
  <2> DEFINE x == IF m[a] = None THEN NewMember(role) ELSE [m[a] EXCEPT !.present = TRUE]
             y == IF m[a] = None THEN NewMember(role)
                  ELSE [m[a] EXCEPT !.present = TRUE, !.role = role]
  <2>1. NewMember(role) \in MemberRow /\ NewMember(role).present
    BY DEF NewMember, MemberRow
  <2>2. ASSUME NEW r \in MemberRow
        PROVE  [r EXCEPT !.present = TRUE] \in MemberRow /\ [r EXCEPT !.present = TRUE].present
    BY DEF MemberRow
  <2>3. ASSUME NEW r \in MemberRow
        PROVE  /\ [r EXCEPT !.present = TRUE, !.role = role] \in MemberRow
               /\ [r EXCEPT !.present = TRUE, !.role = role].present
    <3> DEFINE q == [r EXCEPT !.present = TRUE]
    <3>1. q \in MemberRow /\ q.present
      BY <2>2
    <3>2. [q EXCEPT !.role = role] \in MemberRow /\ [q EXCEPT !.role = role].present
      <4> HIDE DEF q
      <4> QED
        BY <3>1 DEF MemberRow
    <3> QED
      BY <3>2
  <2>4. m[a] \in MemberRow \cup {None}
    BY <1>2 DEF Rosters
  <2>5. x \in MemberRow /\ x.present /\ y \in MemberRow /\ y.present
    BY <2>1, <2>2, <2>3, <2>4
  <2>6. Seat(m, a, role) = [m EXCEPT ![a] = x] /\ Appoint(m, a, role) = [m EXCEPT ![a] = y]
    BY DEF Seat, Appoint
  <2> HIDE DEF x, y
  <2>7. ASSUME NEW r \in MemberRow, r.present
        PROVE  /\ [m EXCEPT ![a] = r] \in Rosters
               /\ Readers([m EXCEPT ![a] = r]) = Readers(m) \cup ({a} \cap Accounts)
    <3> DEFINE w == [m EXCEPT ![a] = r]
    <3>1. w \in Rosters /\ w[a] = r /\ \A b \in Accounts \ {a} : w[b] = m[b]
      BY <1>2 DEF Rosters
    <3> HIDE DEF w
    <3>2. Readers(w) = Readers(m) \cup ({a} \cap Accounts)
      BY <1>2, <2>7, <3>1, NoneIsNoRow DEF Readers
    <3> QED
      BY <3>1, <3>2 DEF w
  <2> QED
    BY <2>5, <2>6, <2>7
<1> QED
  BY <1>1, <1>2

LEMMA ReadersFacts ==
  ASSUME NEW m, NEW w, NEW a \in Accounts, \A b \in Accounts \ {a} : w[b] = m[b]
  PROVE  /\ w[a] = None \/ ~w[a].present => Readers(w) = Readers(m) \ {a}
         /\ w[a] # None /\ m[a] # None /\ (w[a].present <=> m[a].present) => Readers(w) = Readers(m)
BY DEF Readers

(* What t did to the roster and the epoch of s is what the one entry it    *)
(* wrote says, if it wrote one. *)
Wrote(s, t, n) ==
  /\ n.seq = s.row.next /\ n.posted = now
  /\ t.row.next = s.row.next + 1 /\ t.entry \subseteq s.entry \cup {n}
  /\ Readers(t.member) = Heard(Readers(s.member), n.kind, n.subject)
  /\ t.row.epoch = s.row.epoch + (IF n.kind = "rotated" THEN 1 ELSE 0)
WroteNothing(s, t) ==
  /\ t.row.next = s.row.next /\ t.entry \subseteq s.entry
  /\ Readers(t.member) = Readers(s.member) /\ t.row.epoch = s.row.epoch
Records(s, t) == t.row # None => WroteNothing(s, t) \/ \E n \in t.entry : Wrote(s, t, n)

LEMMA DestroyedAppends == ASSUME NEW s PROVE Appends(s, destroyed)
BY DestroyedFacts DEF Appends, Grows

(* Setting one field of the tables. *)
LEMMA SetRow ==
  ASSUME NEW s \in Tables, NEW r \in Row \cup {None}
  PROVE  LET t == [s EXCEPT !.row = r]
         IN /\ t \in Tables /\ t.row = r /\ t.member = s.member /\ t.entry = s.entry
            /\ t.chain = s.chain /\ t.high = s.high
BY DEF Tables

LEMMA SetMember ==
  ASSUME NEW s \in Tables, NEW m \in [Accounts -> MemberRow \cup {None}]
  PROVE  LET t == [s EXCEPT !.member = m]
         IN /\ t \in Tables /\ t.row = s.row /\ t.member = m /\ t.entry = s.entry
            /\ t.chain = s.chain /\ t.high = s.high
BY DEF Tables

LEMMA SetEntry ==
  ASSUME NEW s \in Tables, NEW rows \in SUBSET Entry
  PROVE  LET t == [s EXCEPT !.entry = rows]
         IN /\ t \in Tables /\ t.row = s.row /\ t.member = s.member /\ t.entry = rows
            /\ t.chain = s.chain /\ t.high = s.high
BY DEF Tables

LEMMA SetChain ==
  ASSUME NEW s \in Tables, NEW chain \in [Devices -> Nat]
  PROVE  LET t == [s EXCEPT !.chain = chain]
         IN /\ t \in Tables /\ t.row = s.row /\ t.member = s.member /\ t.entry = s.entry
            /\ t.chain = chain /\ t.high = s.high
BY DEF Tables

LEMMA SetHigh ==
  ASSUME NEW s \in Tables, NEW high \in [Devices -> [Epoch -> Nat]]
  PROVE  LET t == [s EXCEPT !.high = high]
         IN /\ t \in Tables /\ t.row = s.row /\ t.member = s.member /\ t.entry = s.entry
            /\ t.chain = s.chain /\ t.high = high
BY DEF Tables

LEMMA SetEnvelope ==
  ASSUME NEW s \in Tables, NEW env \in SUBSET (Devices \X Epoch)
  PROVE  LET t == [s EXCEPT !.envelope = env]
         IN /\ t \in Tables /\ t.row = s.row /\ t.member = s.member /\ t.entry = s.entry
            /\ t.chain = s.chain /\ t.high = s.high
BY DEF Tables

LEMMA AdvancedFacts ==
  ASSUME NEW r \in Row
  PROVE  /\ Advanced(r) \in Row /\ Advanced(r) # None
         /\ Advanced(r).next = r.next + 1 /\ Advanced(r).inst = r.inst /\ Advanced(r).epoch = r.epoch
<1> DEFINE v == [r EXCEPT !.next = @ + 1]
<1>1. v \in Row /\ v.next = r.next + 1 /\ v.inst = r.inst /\ v.epoch = r.epoch
  BY DEF Row
<1>2. /\ [v EXCEPT !.since = None] \in Row /\ [v EXCEPT !.since = None].next = v.next
      /\ [v EXCEPT !.since = None].inst = v.inst /\ [v EXCEPT !.since = None].epoch = v.epoch
  <2> HIDE DEF v
  <2> QED BY <1>1 DEF Row
<1>3. Advanced(r) = [v EXCEPT !.since = None]
  BY DEF Advanced
<1> HIDE DEF v
<1> QED BY <1>1, <1>2, <1>3, NoneIsNoRow

(* The numbering, on tables whose log is that of s *)
LEMMA NumberAppends ==
  ASSUME NEW s \in Tables, s.row # None, NEW u, SameLog(s, u), now \in Nat,
         NEW d \in Devices, NEW kind \in Kinds, NEW subject \in Accounts \cup Peers,
         NEW ttl \in Nat, NEW epoch \in Epoch, NEW msg \in Nat,
         kind = "post" => u.high[d][epoch] >= msg
  PROVE  LET t == Number(u, d, kind, subject, ttl, epoch, msg)
         IN /\ Appends(s, t) /\ Whole(s, t) /\ Signs(s, t, d) /\ t.row # None
            /\ t.member = u.member /\ t.row = Advanced(u.row)
<1> DEFINE n == [seq |-> u.row.next, kind |-> kind, subject |-> subject, dev |-> d,
                 pos |-> u.chain[d], posted |-> now, ttl |-> ttl, epoch |-> epoch, msg |-> msg]
           t == Number(u, d, kind, subject, ttl, epoch, msg)
           row == Advanced(u.row)
           chain == advance_chain(u.chain, d)
           v == [u EXCEPT !.entry = u.entry \cup {n}]
           w == [v EXCEPT !.chain = chain]
<1>1. u \in Tables /\ u.row # None
  BY DEF SameLog
<1>2. /\ u.row \in Row /\ u.row.next \in Nat /\ u.chain \in [Devices -> Nat]
      /\ u.entry \subseteq Entry
  BY <1>1, TablesFacts
<1>3. row \in Row /\ row.next = u.row.next + 1 /\ row.inst = u.row.inst /\ row # None
  BY <1>2, AdvancedFacts
<1>4. chain \in [Devices -> Nat] /\ \A x \in Devices : chain[x] = IF x = d THEN u.chain[x] + 1 ELSE u.chain[x]
  BY <1>2 DEF advance_chain
<1>5. n \in Entry
  BY <1>2 DEF Entry
<1>6. t = [w EXCEPT !.row = row]
  BY DEF Number
<1>7. /\ t \in Tables /\ t.row = row /\ t.chain = chain /\ t.entry = u.entry \cup {n}
      /\ t.high = u.high /\ t.member = u.member
  <2> HIDE DEF n, t, row, chain
  <2>1. /\ v \in Tables /\ v.entry = u.entry \cup {n} /\ v.row = u.row /\ v.chain = u.chain
        /\ v.high = u.high /\ v.member = u.member
    BY <1>1, <1>2, <1>5, SetEntry
  <2> HIDE DEF v
  <2>2. /\ w \in Tables /\ w.entry = v.entry /\ w.chain = chain
        /\ w.high = v.high /\ w.member = v.member
    BY <1>4, <2>1, SetChain
  <2> HIDE DEF w
  <2> QED BY <1>3, <1>6, <2>1, <2>2, SetRow
<1> HIDE DEF t, row, chain, v, w
<1>8. Appends(s, t) /\ Whole(s, t) /\ Signs(s, t, d)
  <2>1. Grows(s, t)
    <3>1. t.row.inst = s.row.inst /\ t.row.next >= s.row.next
      BY <1>2, <1>3, <1>7 DEF SameLog
    <3>2. \A x \in Devices : t.chain[x] >= s.chain[x]
      BY <1>2, <1>4, <1>7 DEF SameLog
    <3>3. \A x \in Devices, e \in Epoch : t.high[x][e] >= s.high[x][e]
      BY <1>7 DEF SameLog
    <3> QED BY <3>1, <3>2, <3>3 DEF Grows
  <2>2. NewIsNext(s, t, n)
    <3>1. t.entry \ s.entry \subseteq {n} /\ n.seq = s.row.next /\ n.pos = s.chain[n.dev]
      BY <1>7 DEF SameLog
    <3>2. t.chain[n.dev] > n.pos /\ t.row.next > n.seq
      BY <1>2, <1>3, <1>4, <1>7
    <3>3. n.kind = "post" => t.high[n.dev][n.epoch] >= n.msg
      BY <1>7
    <3> QED BY <3>1, <3>2, <3>3 DEF NewIsNext
  <2>3. Whole(s, t)
    <3>1. NextOnly(s, {n})
      BY <1>5, <2>2 DEF NextOnly, NewIsNext
    <3>2. t.entry = s.entry \cup {n}
      BY <1>7 DEF SameLog
    <3> QED BY <1>5, <3>1, <3>2 DEF Whole
  <2>4. Signs(s, t, d)
    <3>1. n \in t.entry /\ n.dev = d
      BY <1>7
    <3>2. n.seq = s.row.next
      BY <2>2 DEF NewIsNext
    <3> QED BY <3>1, <3>2 DEF Signs
  <2> QED BY <1>3, <1>5, <1>7, <2>1, <2>2, <2>3, <2>4 DEF Appends, PruneOnly
<1> QED BY <1>3, <1>7, <1>8 DEF SameLog, t, row

LEMMA NumberRecords ==
  ASSUME NEW s \in Tables, s.row # None, NEW u, SameLog(s, u),
         NEW d \in Devices, NEW kind, NEW subject, NEW ttl, NEW epoch, NEW msg,
         Readers(u.member) = Heard(Readers(s.member), kind, subject),
         u.row.epoch = s.row.epoch + (IF kind = "rotated" THEN 1 ELSE 0)
  PROVE  Records(s, Number(u, d, kind, subject, ttl, epoch, msg))
<1> DEFINE n == [seq |-> u.row.next, kind |-> kind, subject |-> subject, dev |-> d,
                 pos |-> u.chain[d], posted |-> now, ttl |-> ttl, epoch |-> epoch, msg |-> msg]
           t == Number(u, d, kind, subject, ttl, epoch, msg)
           row == Advanced(u.row)
           chain == advance_chain(u.chain, d)
<1>1. u \in Tables /\ u.row # None /\ u.row \in Row
  BY TablesFacts DEF SameLog
<1>2. row.next = u.row.next + 1 /\ row.epoch = u.row.epoch
  BY <1>1, AdvancedFacts
<1>3. n.seq = u.row.next /\ n.kind = kind /\ n.subject = subject /\ n.posted = now
  OBVIOUS
<1>4. t = [u EXCEPT !.entry = u.entry \cup {n}, !.chain = chain, !.row = row]
  BY DEF Number
<1> HIDE DEF t, n, row, chain
<1>5. t.row = row /\ t.entry = u.entry \cup {n} /\ t.member = u.member
  BY <1>1, <1>4 DEF Tables
<1>6. Wrote(s, t, n) /\ n \in t.entry
  BY <1>2, <1>3, <1>5 DEF Wrote, SameLog
<1> QED BY <1>6 DEF Records, t

LEMMA WriteAppends ==
  ASSUME NEW s \in Tables, s.row # None, NEW u, SameLog(s, u), now \in Nat,
         NEW d \in Devices, NEW kind \in Kinds \ {"post"}, NEW subject \in Accounts \cup Peers
  PROVE  LET t == write_system(u, d, kind, subject)
         IN /\ Appends(s, t) /\ Whole(s, t) /\ Signs(s, t, d) /\ t.row # None
            /\ t.member = u.member /\ t.row = Advanced(u.row)
BY NumberAppends, ConstantFacts DEF write_system

LEMMA WriteRecords ==
  ASSUME NEW s \in Tables, s.row # None, NEW u, SameLog(s, u),
         NEW d \in Devices, NEW kind \in Kinds \ {"rotated"}, NEW subject,
         Readers(u.member) = Heard(Readers(s.member), kind, subject),
         u.row.epoch = s.row.epoch
  PROVE  Records(s, write_system(u, d, kind, subject))
<1>1. s.row.epoch \in Nat
  BY TablesFacts, ConstantFacts
<1>2. u.row.epoch = s.row.epoch + (IF kind = "rotated" THEN 1 ELSE 0)
  BY <1>1
<1> QED BY <1>2, NumberRecords DEF write_system

(* `prune` only takes entries away. *)
LEMMA PrunedAppends ==
  ASSUME NEW s \in Tables, NEW t, Appends(s, t), Whole(s, t), t.row # None
  PROVE  /\ Appends(s, Pruned(t)) /\ Pruned(t).row = t.row /\ Pruned(t).entry \subseteq t.entry
         /\ Pruned(t).chain = t.chain /\ Pruned(t).high = t.high /\ Pruned(t).member = t.member
<1> DEFINE rows == prune(t.row, t.entry)
<1>1. t \in Tables /\ t.entry \subseteq Entry
  BY TablesFacts DEF Appends
<1>2. rows \subseteq t.entry
  BY DEF prune
<1>3. Pruned(t) = [t EXCEPT !.entry = rows]
  BY DEF Pruned
<1> HIDE DEF rows
<1>4. /\ Pruned(t) \in Tables /\ Pruned(t).row = t.row /\ Pruned(t).entry = rows
      /\ Pruned(t).chain = t.chain /\ Pruned(t).high = t.high /\ Pruned(t).member = t.member
  BY <1>1, <1>2, <1>3, SetEntry
<1>5. Grows(s, Pruned(t))
  BY <1>4 DEF Appends, Grows
<1>6. Pruned(t).entry \subseteq s.entry \/ \E n \in Entry : NewIsNext(s, Pruned(t), n)
  BY <1>2, <1>4 DEF Appends, NewIsNext
<1>7. PruneOnly(s, Pruned(t))
  BY <1>4 DEF PruneOnly, Whole, rows
<1> QED BY <1>2, <1>4, <1>5, <1>6, <1>7 DEF Appends

LEMMA PrunedRecords ==
  ASSUME NEW s \in Tables, s.row # None, Tidy(s), now \in Nat,
         NEW t, Appends(s, t), Whole(s, t), t.row # None, Records(s, t)
  PROVE  Records(s, Pruned(t))
<1>1. /\ t \in Tables /\ t.row \in Row /\ t.entry \subseteq Entry /\ s.row.next \in Nat
  BY TablesFacts DEF Appends
<1>2. /\ Pruned(t).row = t.row /\ Pruned(t).member = t.member /\ Pruned(t).entry \subseteq t.entry
  BY PrunedAppends
<1>3. Pruned(t).entry = prune(t.row, t.entry)
  BY <1>1 DEF Pruned, Tables
<1>4. CASE WroteNothing(s, t)
  BY <1>2, <1>4 DEF Records, WroteNothing
<1>5. ASSUME NEW n \in t.entry, Wrote(s, t, n) PROVE Records(s, Pruned(t))
  <2>1. n \in FreshOf(t.row, t.entry)
    <3>1. t.row.ret \in Nat \ {0} /\ n.ttl \in Nat
      BY <1>1 DEF Row, Entry
    <3> QED BY <1>5, <3>1 DEF FreshOf, Window, Wrote
  <2>2. \A e \in t.entry : e # n => e.seq < n.seq
    BY <1>5 DEF Wrote, Tidy
  <2>3. n \in prune(t.row, t.entry)
    BY <1>1, <2>1, <2>2, NewestIsKept
  <2>4. Wrote(s, Pruned(t), n)
    BY <1>2, <1>5 DEF Wrote
  <2> QED BY <1>3, <2>3, <2>4 DEF Records
<1> QED BY <1>4, <1>5 DEF Records

LEMMA SinceRecords ==
  ASSUME NEW s \in Tables, NEW t \in Tables, t.row # None, Records(s, t), NEW v \in Nat \cup {None}
  PROVE  Records(s, [t EXCEPT !.row = [t.row EXCEPT !.since = v]])
<1> DEFINE r == [t.row EXCEPT !.since = v]
           u == [t EXCEPT !.row = r]
<1>1. t.row \in Row
  BY TablesFacts
<1>2. r \in Row /\ r.next = t.row.next /\ r.epoch = t.row.epoch
  BY <1>1 DEF Row
<1> HIDE DEF r
<1>3. u.row = r /\ u.entry = t.entry /\ u.member = t.member
  BY <1>2, SetRow
<1> HIDE DEF u
<1>4. \A n : Wrote(s, t, n) => Wrote(s, u, n)
  BY <1>2, <1>3 DEF Wrote
<1>5. WroteNothing(s, t) => WroteNothing(s, u)
  BY <1>2, <1>3 DEF WroteNothing
<1> QED BY <1>3, <1>4, <1>5 DEF Records, u, r

(* So does the mark of an abandoned channel. *)
LEMMA SinceAppends ==
  ASSUME NEW s \in Tables, NEW t, Appends(s, t), t.row # None, NEW v \in Nat \cup {None}
  PROVE  /\ Appends(s, [t EXCEPT !.row = [t.row EXCEPT !.since = v]])
         /\ [t EXCEPT !.row = [t.row EXCEPT !.since = v]].member = t.member
<1> DEFINE r == [t.row EXCEPT !.since = v]
           u == [t EXCEPT !.row = r]
<1>1. t \in Tables /\ t.row \in Row
  BY TablesFacts DEF Appends
<1>2. r \in Row /\ r.next = t.row.next /\ r.inst = t.row.inst /\ r.ret = t.row.ret /\ r.cap = t.row.cap
  BY <1>1 DEF Row
<1> HIDE DEF r
<1>3. /\ u \in Tables /\ u.row = r /\ u.row # None /\ u.chain = t.chain /\ u.high = t.high
      /\ u.entry = t.entry /\ u.member = t.member
  BY NoneIsNoRow, <1>1, <1>2, SetRow
<1> HIDE DEF u
<1>4. Grows(s, u)
  BY <1>2, <1>3 DEF Appends, Grows
<1>5. u.entry \subseteq s.entry \/ \E n \in Entry : NewIsNext(s, u, n)
  BY <1>2, <1>3 DEF Appends, NewIsNext
<1>6. \A rows : prune(r, rows) = prune(t.row, rows)
  BY <1>2 DEF prune
<1>7. PruneOnly(s, u)
  BY <1>3, <1>6 DEF Appends, PruneOnly, Whole
<1> QED BY <1>3, <1>4, <1>5, <1>7 DEF Appends, u, r

LEMMA PastGrows ==
  ASSUME NEW s \in Tables, NEW t \in Tables, Grows(s, t), NEW x \in Statement, Past(x, s)
  PROVE  Past(x, t)
<1> SUFFICES ASSUME t.row # None, t.row.inst = x.inst
             PROVE  /\ x.pos < t.chain[x.dev] /\ x.seq < t.row.next
                    /\ x.post => t.high[x.dev][x.epoch] >= x.msg
  BY DEF Past
<1>1. /\ x.dev \in Devices /\ x.epoch \in Epoch /\ x.pos \in Nat /\ x.seq \in Nat /\ x.msg \in Nat
  BY DEF Statement
<1>2. /\ s.row # None /\ t.row.inst = s.row.inst /\ t.row.next >= s.row.next
      /\ t.chain[x.dev] >= s.chain[x.dev] /\ t.high[x.dev][x.epoch] >= s.high[x.dev][x.epoch]
  BY <1>1 DEF Grows
<1>3. /\ s.chain[x.dev] \in Nat /\ t.chain[x.dev] \in Nat /\ s.row.next \in Nat /\ t.row.next \in Nat
      /\ s.high[x.dev][x.epoch] \in Nat /\ t.high[x.dev][x.epoch] \in Nat
  BY <1>1, <1>2, TablesFacts
<1> QED BY <1>1, <1>2, <1>3 DEF Past

(* So a log is finite.                                                     *)
LEMMA TidyIsFinite ==
  ASSUME NEW s \in Tables, s.row # None, Tidy(s)
  PROVE  IsFiniteSet(s.entry)
<1> DEFINE T == 0..s.row.next
           f == [e \in s.entry |-> e.seq]
<1>1. s.row.next \in Nat /\ s.entry \subseteq Entry
  BY TablesFacts
<1>2. \A e \in s.entry : e.seq \in T
  BY <1>1 DEF Tidy, Entry
<1>3. f \in [s.entry -> T] /\ \A e, g \in s.entry : f[e] = f[g] => e = g
  BY <1>2 DEF Tidy
<1>4. f \in Injection(s.entry, T)
  <2> HIDE DEF f, T
  <2> QED BY <1>3 DEF Injection, IsInjective
<1>5. IsFiniteSet(T)
  BY <1>1, FS_Interval
<1> HIDE DEF f, T
<1> QED BY <1>4, <1>5, FS_Injection

LEMMA TidyAppends ==
  ASSUME NEW s \in Tables, NEW t, Appends(s, t), Tidy(s)
  PROVE  Tidy(t)
<1> SUFFICES ASSUME t.row # None PROVE Tidy(t)
  BY DEF Tidy
<1>1. /\ s.row # None /\ s.row.next \in Nat /\ t.row.next \in Nat /\ t.row.next >= s.row.next
      /\ s.entry \subseteq Entry /\ t \in Tables
  BY TablesFacts DEF Appends, Grows
<1>2. PICK new \in SUBSET Entry : NextOnly(s, new) /\ t.entry \subseteq s.entry \cup new
  BY DEF Appends, PruneOnly, Whole, prune
<1>4. \A e \in s.entry : e.seq < s.row.next /\ e.seq \in Nat
  BY <1>1 DEF Tidy, Entry
<1>5. ASSUME NEW e \in t.entry, NEW f \in t.entry, e.seq = f.seq PROVE e = f
  BY <1>1, <1>2, <1>4, <1>5 DEF Tidy, NextOnly
<1>6. ASSUME NEW e \in t.entry PROVE e.seq < t.row.next
  <2>1. CASE e \in s.entry
    BY <1>1, <1>4, <2>1
  <2>2. CASE e \notin s.entry
    BY <1>2, <2>2 DEF Appends, NewIsNext
  <2> QED BY <2>1, <2>2
<1> QED BY <1>5, <1>6 DEF Tidy

(* A transaction that appends at most the next entry keeps the invariant. *)
LEMMA CommitStep ==
  ASSUME LogInv, NEW c \in Channels, NEW t, Appends(db[c], t), Commit(c, t),
         replica' \in [Channels -> SUBSET Peers]
  PROVE  LogInv'
<1> DEFINE s == db[c]
           new == IF t.row = None THEN {} ELSE Statements(c, life[c], t, t.entry \ s.entry)
<1>1. /\ db \in [Channels -> Tables] /\ s \in Tables /\ t \in Tables /\ Grows(s, t)
      /\ life[c] \in Nat /\ retired[c] \subseteq Instances /\ spent \subseteq Statement
  BY DEF LogInv, TypeOK, Appends
<1>2. /\ db' = [db EXCEPT ![c] = t] /\ spent' = spent \cup new
      /\ UNCHANGED <<now, retired, life>>
  BY DEF Commit
<1>3. db'[c] = t /\ \A k \in Channels : k # c => db'[k] = db[k]
  BY <1>1, <1>2
<1>4. ASSUME NEW x \in new
      PROVE  /\ x \in Statement /\ x.chan = c /\ t.row # None /\ s.row # None
             /\ x.inst = t.row.inst /\ x.inst = s.row.inst
             /\ x.pos = s.chain[x.dev] /\ x.seq = s.row.next /\ Past(x, t)
             /\ \A y \in new : y = x
  <2>1. t.row # None /\ s.row # None /\ t.row.inst = s.row.inst /\ t.row.inst \in Instances
    BY <1>1, <1>4, TablesFacts DEF Grows
  <2>2. PICK e \in t.entry \ s.entry :
          x = [chan |-> c, life |-> life[c], inst |-> t.row.inst, dev |-> e.dev, pos |-> e.pos,
               seq |-> e.seq, post |-> e.kind = "post", epoch |-> e.epoch, msg |-> e.msg]
    BY <1>4, <2>1 DEF Statements
  <2>3. e \in Entry
    BY <1>1, TablesFacts
  <2>4. NewIsNext(s, t, e) /\ t.entry \ s.entry = {e}
    BY <2>1, <2>2 DEF Appends, NewIsNext
  <2>5. x \in Statement
    BY <1>1, <2>1, <2>2, <2>3 DEF Statement, Entry
  <2>6. Past(x, t)
    BY <2>2, <2>4 DEF Past, NewIsNext
  <2>7. \A y \in new : y = x
    BY <2>1, <2>2, <2>4 DEF Statements
  <2> QED BY <2>1, <2>2, <2>4, <2>5, <2>6, <2>7 DEF NewIsNext
<1> HIDE DEF new
<1>5. TypeOK'
  BY <1>1, <1>2, <1>4 DEF LogInv, TypeOK
<1>6. StandingIsRetired'
  BY <1>1, <1>2, <1>3 DEF LogInv, StandingIsRetired, Grows
<1>7. SpentIsPast'
  <2> SUFFICES ASSUME NEW x \in spent' PROVE x.inst \in retired'[x.chan] /\ Past(x, db'[x.chan])
    BY DEF SpentIsPast, Past
  <2>1. CASE x \in new
    BY <1>2, <1>3, <1>4, <2>1 DEF LogInv, StandingIsRetired
  <2>2. CASE x \in spent
    <3>1. x \in Statement /\ x.chan \in Channels
      BY <1>1, <2>2 DEF Statement
    <3>2. x.inst \in retired[x.chan] /\ Past(x, db[x.chan])
      BY <2>2 DEF LogInv, SpentIsPast
    <3> QED BY <1>1, <1>2, <1>3, <3>1, <3>2, PastGrows
  <2> QED BY <1>2, <2>1, <2>2
<1>8. ASSUME NEW x \in spent, NEW y \in new, x.chan = y.chan, x.inst = y.inst
      PROVE  x.seq # y.seq /\ ~(x.dev = y.dev /\ x.pos = y.pos)
  <2>1. Past(x, s) /\ x \in Statement
    BY <1>1, <1>4, <1>8 DEF LogInv, SpentIsPast
  <2>2. x.pos < s.chain[x.dev] /\ x.seq < s.row.next
    BY <1>4, <1>8, <2>1 DEF Past
  <2>3. x.pos \in Nat /\ x.seq \in Nat
    BY <2>1 DEF Statement
  <2> QED BY <1>4, <2>2, <2>3
<1>9. NoReplayNoFork' /\ NumberedOnce'
  BY <1>2, <1>4, <1>8 DEF LogInv, NoReplayNoFork, NumberedOnce
<1>10. LogIsSpent'
  <2> SUFFICES ASSUME NEW k \in Channels, db'[k].row # None, NEW e \in db'[k].entry
               PROVE  \E x \in spent' : /\ x.chan = k /\ x.inst = db'[k].row.inst
                                        /\ x.seq = e.seq /\ x.dev = e.dev /\ x.pos = e.pos
    BY DEF LogIsSpent, Said
  <2>1. CASE k # c \/ e \in s.entry
    <3>1. db[k].row # None /\ db[k].row.inst = db'[k].row.inst /\ e \in db[k].entry
      BY <1>1, <1>3, <2>1 DEF Grows
    <3> QED BY <1>2, <3>1 DEF LogInv, LogIsSpent, Said
  <2>2. CASE k = c /\ e \notin s.entry
    <3> DEFINE x == [chan |-> c, life |-> life[c], inst |-> t.row.inst, dev |-> e.dev, pos |-> e.pos,
                     seq |-> e.seq, post |-> e.kind = "post", epoch |-> e.epoch, msg |-> e.msg]
    <3>1. x \in new
      BY <1>3, <2>2 DEF new, Statements
    <3> QED BY <1>2, <1>3, <2>2, <3>1
  <2> QED BY <2>1, <2>2
<1>11. TidyLog'
  <2>1. \A k \in Channels : Tidy(db'[k])
    BY <1>1, <1>3, TidyAppends DEF LogInv, TidyLog
  <2> QED BY <2>1 DEF TidyLog, Tidy
<1> QED BY <1>5, <1>6, <1>7, <1>9, <1>10, <1>11 DEF LogInv

(* The invitees a create seats are the first ones of its list, as many as  *)
(* its chain is advanced by. *)
LEMMA SeatedFacts ==
  ASSUME NEW a \in Accounts, NEW invites \in InviteLists
  PROVE  /\ Seated(a, invites) \subseteq 1..Len(invites) /\ Len(invites) \in Nat
         /\ \A i \in 1..Len(invites) : invites[i] \in [account: Accounts, role: Roles]
         /\ Cardinality(Seated(a, invites)) \in Nat
         /\ ChainHolds(a, invites) =>
              \A i \in Seated(a, invites) : i <= Cardinality(Seated(a, invites))
<1> DEFINE Invitee == [account: Accounts, role: Roles]
<1>1. invites \in Seq(Invitee)
  BY ChannelAssumption
<1>2. /\ Len(invites) \in Nat /\ DOMAIN invites = 1..Len(invites)
      /\ \A i \in 1..Len(invites) : invites[i] \in Invitee
  <2> HIDE DEF Invitee
  <2> QED BY <1>1
<1>3. Seated(a, invites) \subseteq 1..Len(invites)
  BY <1>2 DEF Seated
<1>4. IsFiniteSet(Seated(a, invites))
  <2>1. IsFiniteSet(1..Len(invites))
    BY <1>2, FS_Interval
  <2> QED BY <1>3, <2>1, FS_Subset
<1>5. Cardinality(Seated(a, invites)) \in Nat
  BY <1>4, FS_CardinalityType
<1>6. ASSUME ChainHolds(a, invites), NEW i \in Seated(a, invites)
      PROVE  i <= Cardinality(Seated(a, invites))
  <2>1. i \in Nat /\ i >= 1
    BY <1>2, <1>3
  <2>2. 1..i \subseteq Seated(a, invites)
    BY <1>6 DEF ChainHolds
  <2>3. Cardinality(1..i) = i
    BY <2>1, FS_Interval
  <2> QED BY <1>4, <2>2, <2>3, FS_Subset
<1> QED BY <1>2, <1>3, <1>5, <1>6

LEMMA FoundedFacts ==
  ASSUME NEW d \in Devices, NEW vis \in Visibilities, NEW ret \in Retentions, NEW cap \in Caps,
         NEW invites \in InviteLists, NEW inst \in Instances, now \in Nat
  PROVE  LET t == Founded(d, vis, ret, cap, invites, inst)
             seated == Seated(AccountOf[d], invites)
         IN /\ t \in Tables /\ t.row # None /\ t.row.inst = inst
            /\ t.row.next = 2 + Cardinality(seated) /\ t.chain[d] = 1 + Cardinality(seated)
            /\ \A e \in t.entry : \E i \in {0} \cup seated :
                 e = [seq |-> i + 1, kind |-> IF i = 0 THEN "created" ELSE "added",
                      subject |-> IF i = 0 THEN AccountOf[d] ELSE invites[i].account, dev |-> d,
                      pos |-> i, posted |-> now, ttl |-> 0, epoch |-> 0, msg |-> 0]
<1> DEFINE a == AccountOf[d]
           seated == Seated(a, invites)
           t == Founded(d, vis, ret, cap, invites, inst)
           first(b) == CHOOSE i \in seated : /\ invites[i].account = b
                                             /\ \A j \in seated : invites[j].account = b => i <= j
           row == [vis |-> vis, ret |-> ret, cap |-> cap, epoch |-> 0,
                   next |-> 2 + Cardinality(seated), creator |-> a, since |-> None, inst |-> inst]
           member == [b \in Accounts |->
                        IF b = a THEN NewMember("admin")
                        ELSE IF \E i \in seated : invites[i].account = b
                             THEN NewMember(invites[first(b)].role) ELSE None]
           entry(i) == [seq |-> i + 1, kind |-> IF i = 0 THEN "created" ELSE "added",
                        subject |-> IF i = 0 THEN a ELSE invites[i].account, dev |-> d, pos |-> i,
                        posted |-> now, ttl |-> 0, epoch |-> 0, msg |-> 0]
           chain == [destroyed.chain EXCEPT ![d] = 1 + Cardinality(seated)]
<1>1. a \in Accounts
  BY ConstantFacts
<1>2. /\ seated \subseteq 1..Len(invites) /\ Len(invites) \in Nat /\ Cardinality(seated) \in Nat
      /\ \A i \in seated : invites[i].account \in Accounts /\ invites[i].role \in {"admin", "member"}
  BY <1>1, SeatedFacts, ConstantFacts
<1> HIDE DEF seated, a
<1>3. row \in Row /\ row # None
  BY <1>1, <1>2, ConstantFacts, NoneIsNoRow DEF Row
<1>4. ASSUME NEW b \in Accounts, \E i \in seated : invites[i].account = b
      PROVE  first(b) \in seated
  <2> DEFINE T == {i \in seated : invites[i].account = b}
  <2>1. T \in SUBSET Nat /\ T # {}
    <3>1. T \subseteq seated /\ T # {}
      BY <1>4
    <3>2. 1..Len(invites) \subseteq Nat
      BY <1>2
    <3> HIDE DEF T
    <3> QED BY <1>2, <3>1, <3>2
  <2>2. \E i \in T : \A j \in T : i <= j
    <3> HIDE DEF T
    <3> QED BY <2>1, LeastNumber
  <2> QED BY <2>2
<1>5. member \in [Accounts -> MemberRow \cup {None}]
  <2> HIDE DEF first
  <2> SUFFICES ASSUME NEW b \in Accounts PROVE member[b] \in MemberRow \cup {None}
    OBVIOUS
  <2>1. \A r \in {"admin", "member"} : NewMember(r) \in MemberRow
    BY DEF NewMember, MemberRow
  <2> QED BY <1>2, <1>4, <2>1
<1>6. ASSUME NEW i \in {0} \cup seated PROVE entry(i) \in Entry
  <2> DEFINE kind == IF i = 0 THEN "created" ELSE "added"
             subject == IF i = 0 THEN a ELSE invites[i].account
  <2>1. i \in Nat
    BY <1>2
  <2>2. kind \in Kinds
    BY DEF Kinds
  <2>3. subject \in Accounts
    BY <1>1, <1>2
  <2>4. 0 \in Epoch
    BY ConstantFacts
  <2>5. entry(i) = [seq |-> i + 1, kind |-> kind, subject |-> subject, dev |-> d, pos |-> i,
                    posted |-> now, ttl |-> 0, epoch |-> 0, msg |-> 0]
    OBVIOUS
  <2> HIDE DEF kind, subject, entry
  <2> QED BY <2>1, <2>2, <2>3, <2>4, <2>5 DEF Entry
<1>7. chain \in [Devices -> Nat] /\ chain[d] = 1 + Cardinality(seated)
  BY <1>2 DEF destroyed
<1>8. destroyed.high \in [Devices -> [Epoch -> Nat]]
  BY DEF destroyed
<1>9. t = [row |-> row, member |-> member, entry |-> {entry(i) : i \in {0} \cup seated},
           chain |-> chain, high |-> destroyed.high, envelope |-> {}]
  BY DEF Founded, seated, a
<1> HIDE DEF t, row, member, entry, chain
<1>10. /\ t \in Tables /\ t.row = row /\ t.chain = chain
       /\ t.entry = {entry(i) : i \in {0} \cup seated}
  BY <1>3, <1>5, <1>6, <1>7, <1>8, <1>9 DEF Tables
<1> QED BY <1>3, <1>7, <1>10 DEF t, row, entry, seated, a

(* `create`: the statements of a new incarnation are under an instance no  *)
(* statement was under before. *)
LEMMA CreateStep ==
  ASSUME LogInv, NEW d \in Devices, NEW c \in Channels, NEW vis \in Visibilities,
         NEW ret \in Retentions, NEW cap \in Caps, NEW invites \in InviteLists,
         NEW inst \in Instances, Create(d, c, vis, ret, cap, invites, inst)
  PROVE  LogInv'
<1> DEFINE a == AccountOf[d]
           t == Founded(d, vis, ret, cap, invites, inst)
           seated == Seated(a, invites)
           new == Statements(c, life[c] + 1, t, t.entry)
<1>1. /\ inst \notin retired[c] /\ ChainHolds(a, invites)
      /\ db' = [db EXCEPT ![c] = t] /\ retired' = [retired EXCEPT ![c] = @ \cup {inst}]
      /\ life' = [life EXCEPT ![c] = @ + 1] /\ spent' = spent \cup new
      /\ UNCHANGED <<now, replica>>
  BY DEF Create, MayCreate, FreshInstance
<1>2. /\ now \in Nat /\ db \in [Channels -> Tables] /\ life[c] \in Nat /\ spent \subseteq Statement
      /\ retired \in [Channels -> SUBSET Instances]
  BY DEF LogInv, TypeOK
<1>3. /\ t \in Tables /\ t.row # None /\ t.row.inst = inst
      /\ t.row.next = 2 + Cardinality(seated) /\ t.chain[d] = 1 + Cardinality(seated)
      /\ \A e \in t.entry : \E i \in {0} \cup seated :
           e.seq = i + 1 /\ e.kind # "post" /\ e.dev = d /\ e.pos = i /\ e.epoch = 0 /\ e.msg = 0
  <2>1. /\ t \in Tables /\ t.row # None /\ t.row.inst = inst
        /\ t.row.next = 2 + Cardinality(seated) /\ t.chain[d] = 1 + Cardinality(seated)
    BY <1>2, FoundedFacts
  <2>2. \A e \in t.entry : \E i \in {0} \cup seated :
          e = [seq |-> i + 1, kind |-> IF i = 0 THEN "created" ELSE "added",
               subject |-> IF i = 0 THEN AccountOf[d] ELSE invites[i].account, dev |-> d,
               pos |-> i, posted |-> now, ttl |-> 0, epoch |-> 0, msg |-> 0]
    BY <1>2, FoundedFacts
  <2> HIDE DEF t, seated
  <2>3. ASSUME NEW e \in t.entry
        PROVE  \E i \in {0} \cup seated :
                 e.seq = i + 1 /\ e.kind # "post" /\ e.dev = d /\ e.pos = i /\ e.epoch = 0 /\ e.msg = 0
    <3>1. PICK i \in {0} \cup seated :
            e = [seq |-> i + 1, kind |-> IF i = 0 THEN "created" ELSE "added",
                 subject |-> IF i = 0 THEN AccountOf[d] ELSE invites[i].account, dev |-> d,
                 pos |-> i, posted |-> now, ttl |-> 0, epoch |-> 0, msg |-> 0]
      BY <2>2
    <3> QED BY <3>1
  <2> QED BY <2>1, <2>3
<1>4. /\ seated \subseteq Nat /\ Cardinality(seated) \in Nat
      /\ \A i \in seated : i <= Cardinality(seated)
  <2>1. a \in Accounts
    BY ConstantFacts
  <2> QED BY <1>1, <2>1, SeatedFacts
<1> HIDE DEF t, seated
<1>5. ASSUME NEW x \in new
      PROVE  \E i \in {0} \cup seated :
               x = [chan |-> c, life |-> life[c] + 1, inst |-> inst, dev |-> d, pos |-> i,
                    seq |-> i + 1, post |-> FALSE, epoch |-> 0, msg |-> 0]
  <2>1. PICK e \in t.entry :
          x = [chan |-> c, life |-> life[c] + 1, inst |-> t.row.inst, dev |-> e.dev, pos |-> e.pos,
               seq |-> e.seq, post |-> e.kind = "post", epoch |-> e.epoch, msg |-> e.msg]
    BY <1>5 DEF Statements
  <2>2. PICK i \in {0} \cup seated :
          e.seq = i + 1 /\ e.kind # "post" /\ e.dev = d /\ e.pos = i /\ e.epoch = 0 /\ e.msg = 0
    BY <1>3
  <2>3. (e.kind = "post") = FALSE
    BY <2>2
  <2> QED BY <1>3, <2>1, <2>2, <2>3
<1>15. \A e \in t.entry : \E x \in new : /\ x.chan = c /\ x.inst = t.row.inst
                                         /\ x.seq = e.seq /\ x.dev = e.dev /\ x.pos = e.pos
  <2> TAKE e \in t.entry
  <2> DEFINE x == [chan |-> c, life |-> life[c] + 1, inst |-> t.row.inst, dev |-> e.dev, pos |-> e.pos,
                   seq |-> e.seq, post |-> e.kind = "post", epoch |-> e.epoch, msg |-> e.msg]
  <2>1. x \in new
    BY DEF Statements
  <2> QED BY <2>1
<1> HIDE DEF new
<1>6. ASSUME NEW x \in new
      PROVE  x \in Statement /\ x.chan = c /\ x.inst = inst /\ Past(x, t)
  <2>1. PICK i \in {0} \cup seated :
          x = [chan |-> c, life |-> life[c] + 1, inst |-> inst, dev |-> d, pos |-> i,
               seq |-> i + 1, post |-> FALSE, epoch |-> 0, msg |-> 0]
    BY <1>5
  <2>2. i \in Nat /\ i <= Cardinality(seated)
    BY <1>4
  <2>3. x \in Statement
    BY <1>2, <2>1, <2>2, ConstantFacts DEF Statement
  <2>4. i < t.chain[d] /\ i + 1 < t.row.next
    BY <1>3, <1>4, <2>2
  <2> QED BY <2>1, <2>3, <2>4 DEF Past
<1>7. ASSUME NEW x \in new, NEW y \in new, x.pos = y.pos \/ x.seq = y.seq
      PROVE  x = y
  <2>1. PICK i \in {0} \cup seated :
          x = [chan |-> c, life |-> life[c] + 1, inst |-> inst, dev |-> d, pos |-> i,
               seq |-> i + 1, post |-> FALSE, epoch |-> 0, msg |-> 0]
    BY <1>5
  <2>2. PICK j \in {0} \cup seated :
          y = [chan |-> c, life |-> life[c] + 1, inst |-> inst, dev |-> d, pos |-> j,
               seq |-> j + 1, post |-> FALSE, epoch |-> 0, msg |-> 0]
    BY <1>5
  <2>3. i = j
    BY <1>4, <1>7, <2>1, <2>2
  <2> QED BY <2>1, <2>2, <2>3
<1>8. ASSUME NEW x \in spent, x.chan = c
      PROVE  x.inst # inst
  BY <1>1, <1>8 DEF LogInv, SpentIsPast
<1>9. db'[c] = t /\ \A k \in Channels : k # c => db'[k] = db[k]
  BY <1>1, <1>2
<1>10. retired'[c] = retired[c] \cup {inst} /\ \A k \in Channels : k # c => retired'[k] = retired[k]
  BY <1>1, <1>2
<1>11. TypeOK'
  BY <1>1, <1>2, <1>3, <1>6 DEF LogInv, TypeOK
<1>12. StandingIsRetired'
  BY <1>3, <1>9, <1>10 DEF LogInv, StandingIsRetired
<1>13. SpentIsPast'
  <2> SUFFICES ASSUME NEW x \in spent' PROVE x.inst \in retired'[x.chan] /\ Past(x, db'[x.chan])
    BY DEF SpentIsPast, Past
  <2>1. CASE x \in new
    BY <1>6, <1>9, <1>10, <2>1
  <2>2. CASE x \in spent
    <3>1. x.chan \in Channels
      BY <1>2, <2>2 DEF Statement
    <3>2. x.inst \in retired[x.chan] /\ Past(x, db[x.chan])
      BY <2>2 DEF LogInv, SpentIsPast
    <3>3. CASE x.chan = c
      BY <1>3, <1>8, <1>9, <1>10, <2>2, <3>2, <3>3 DEF Past
    <3>4. CASE x.chan # c
      BY <1>9, <1>10, <3>1, <3>2, <3>4
    <3> QED BY <3>3, <3>4
  <2> QED BY <1>1, <2>1, <2>2
<1>14. NoReplayNoFork' /\ NumberedOnce'
  BY <1>1, <1>6, <1>7, <1>8 DEF LogInv, NoReplayNoFork, NumberedOnce
<1>16. LogIsSpent'
  <2> SUFFICES ASSUME NEW k \in Channels, db'[k].row # None, NEW e \in db'[k].entry
               PROVE  \E x \in spent' : /\ x.chan = k /\ x.inst = db'[k].row.inst
                                        /\ x.seq = e.seq /\ x.dev = e.dev /\ x.pos = e.pos
    BY DEF LogIsSpent, Said
  <2>1. CASE k = c
    BY <1>1, <1>9, <1>15, <2>1
  <2>2. CASE k # c
    BY <1>1, <1>9, <2>2 DEF LogInv, LogIsSpent, Said
  <2> QED BY <2>1, <2>2
<1>17. Tidy(t)
  <2>2. \A e \in t.entry : \E i \in {0} \cup seated :
          e = [seq |-> i + 1, kind |-> IF i = 0 THEN "created" ELSE "added",
               subject |-> IF i = 0 THEN AccountOf[d] ELSE invites[i].account, dev |-> d,
               pos |-> i, posted |-> now, ttl |-> 0, epoch |-> 0, msg |-> 0]
    BY <1>2, FoundedFacts DEF t, seated
  <2> DEFINE made(i) == [seq |-> i + 1, kind |-> IF i = 0 THEN "created" ELSE "added",
                         subject |-> IF i = 0 THEN AccountOf[d] ELSE invites[i].account, dev |-> d,
                         pos |-> i, posted |-> now, ttl |-> 0, epoch |-> 0, msg |-> 0]
  <2>6. \A e, f \in t.entry : e.seq = f.seq => e = f
    <3> TAKE e, f \in t.entry
    <3>1. PICK i \in {0} \cup seated : e = made(i)
      BY <2>2
    <3>2. PICK j \in {0} \cup seated : f = made(j)
      BY <2>2
    <3>3. e.seq = f.seq => i = j
      BY <1>4, <3>1, <3>2
    <3> QED BY <3>1, <3>2, <3>3
  <2>7. \A e \in t.entry : e.seq < t.row.next
    <3> TAKE e \in t.entry
    <3>1. PICK i \in {0} \cup seated : e.seq = i + 1
      BY <1>3
    <3> QED BY <1>3, <1>4, <3>1
  <2> QED BY <2>6, <2>7 DEF Tidy
<1>18. TidyLog'
  <2>1. \A k \in Channels : Tidy(db'[k])
    BY <1>9, <1>17 DEF LogInv, TidyLog
  <2> QED BY <2>1 DEF TidyLog, Tidy
<1> QED BY <1>11, <1>12, <1>13, <1>14, <1>16, <1>18 DEF LogInv

(* `sweep` writes nothing and numbers nothing. *)
LEMMA SweptAppends ==
  ASSUME NEW s \in Tables, now \in Nat
  PROVE  /\ Swept(s) \in Tables /\ Grows(s, Swept(s))
         /\ Swept(s).entry \subseteq s.entry
         /\ s.row # None => Appends(s, Swept(s))
         /\ Swept(s).member = s.member \/ Swept(s) = destroyed
<1>1. CASE s.row = None
  BY <1>1 DEF Swept, Grows
<1>2. CASE s.row # None
  <2> DEFINE t == Pruned(s)
  <2>1. Appends(s, s) /\ Whole(s, s)
    <3>1. Grows(s, s)
      <4>1. s.row.next \in Nat /\ s.chain \in [Devices -> Nat] /\ s.high \in [Devices -> [Epoch -> Nat]]
        BY <1>2, TablesFacts
      <4> QED BY <1>2, <4>1 DEF Grows
    <3>2. Whole(s, s)
      <4>1. s.entry \cup {} = s.entry
        OBVIOUS
      <4> QED BY <4>1 DEF Whole, NextOnly
    <3> QED BY <1>2, <3>1, <3>2 DEF Appends, PruneOnly
  <2>2. Appends(s, t) /\ t.row = s.row /\ t.entry \subseteq s.entry /\ t.member = s.member
    BY <1>2, <2>1, PrunedAppends
  <2> HIDE DEF t
  <2>3. t \in Tables /\ Grows(s, t) /\ s.row \in Row
    BY <1>2, <2>2, TablesFacts DEF Appends
  <2>4. ASSUME NEW v \in Nat \cup {None}
        PROVE  /\ [t EXCEPT !.row = [s.row EXCEPT !.since = v]] \in Tables
               /\ Grows(s, [t EXCEPT !.row = [s.row EXCEPT !.since = v]])
               /\ [t EXCEPT !.row = [s.row EXCEPT !.since = v]].entry = t.entry
               /\ Appends(s, [t EXCEPT !.row = [s.row EXCEPT !.since = v]])
               /\ [t EXCEPT !.row = [s.row EXCEPT !.since = v]].member = s.member
    <3>1. [t EXCEPT !.row = [s.row EXCEPT !.since = v]].entry = t.entry
      BY <2>3 DEF Tables
    <3> DEFINE q == [t EXCEPT !.row = [s.row EXCEPT !.since = v]]
    <3>2. q.member = t.member
      BY <2>3 DEF Tables
    <3>3. t.row # None /\ t.row = s.row
      BY <1>2, <2>2
    <3>4. q = [t EXCEPT !.row = [t.row EXCEPT !.since = v]]
      BY <3>3
    <3>5. q \in Tables /\ Grows(s, q) /\ Appends(s, q)
      <4> HIDE DEF q
      <4> QED BY <2>2, <3>3, <3>4, SinceAppends DEF Appends
    <3> QED BY <2>2, <3>1, <3>2, <3>5
  <2>6. \/ Swept(s) = t \/ Swept(s) = destroyed
        \/ \E v \in Nat \cup {None} : Swept(s) = [t EXCEPT !.row = [s.row EXCEPT !.since = v]]
    BY <1>2, <2>2 DEF Swept, t
  <2>7. Grows(s, destroyed) /\ destroyed.entry = {}
    BY DestroyedFacts DEF Grows, destroyed
  <2> QED BY <1>2, <2>2, <2>3, <2>4, <2>6, <2>7, DestroyedFacts, DestroyedAppends
<1> QED BY <1>1, <1>2

LEMMA SweptRecords ==
  ASSUME NEW s \in Tables, s.row # None, now \in Nat, Swept(s).row # None
  PROVE  WroteNothing(s, Swept(s))
<1> DEFINE t == Pruned(s)
<1>1. t.row = s.row /\ t.member = s.member /\ t.entry \subseteq s.entry /\ t \in Tables
  <2> DEFINE rows == prune(s.row, s.entry)
  <2>1. rows \subseteq s.entry
    BY DEF prune
  <2>2. t = [s EXCEPT !.entry = rows]
    BY DEF Pruned
  <2>3. s.entry \subseteq Entry
    BY TablesFacts
  <2> HIDE DEF rows, t
  <2> QED BY <2>1, <2>2, <2>3, SetEntry
<1>2. s.row \in Row
  BY TablesFacts
<1> HIDE DEF t
<1>3. ASSUME NEW v \in Nat \cup {None}
      PROVE  WroteNothing(s, [t EXCEPT !.row = [t.row EXCEPT !.since = v]])
  <2> DEFINE r == [t.row EXCEPT !.since = v]
  <2>1. r \in Row /\ r.next = s.row.next /\ r.epoch = s.row.epoch
    BY <1>1, <1>2 DEF Row
  <2> HIDE DEF r
  <2> DEFINE q == [t EXCEPT !.row = r]
  <2>2. q.row = r /\ q.entry = t.entry /\ q.member = t.member
    BY <1>1, <2>1, SetRow
  <2> HIDE DEF q
  <2>3. WroteNothing(s, q)
    BY <1>1, <2>1, <2>2 DEF WroteNothing
  <2> QED BY <2>3 DEF q, r
<1>4. WroteNothing(s, t)
  BY <1>1 DEF WroteNothing
<1>5. \/ Swept(s) = t \/ Swept(s) = destroyed
      \/ \E v \in Nat \cup {None} : Swept(s) = [t EXCEPT !.row = [t.row EXCEPT !.since = v]]
  BY DEF Swept, t
<1> QED BY <1>3, <1>4, <1>5, DestroyedFacts

LEMMA SweepStep ==
  ASSUME LogInv, Sweep
  PROVE  LogInv'
<1>1. now \in Nat
  BY DEF LogInv, TypeOK
<1>2. /\ db \in [Channels -> Tables] /\ db' = [c \in Channels |-> Swept(db[c])] /\ spent \subseteq Statement
      /\ UNCHANGED <<now, retired, replica, life, spent>>
  BY DEF LogInv, TypeOK, Sweep
<1>3. \A c \in Channels : db'[c] \in Tables /\ Grows(db[c], db'[c]) /\ db'[c].entry \subseteq db[c].entry
  BY <1>1, <1>2, SweptAppends
<1>4. TypeOK'
  BY <1>1, <1>2, <1>3 DEF LogInv, TypeOK
<1>5. StandingIsRetired'
  BY <1>2, <1>3 DEF LogInv, StandingIsRetired, Grows
<1>6. SpentIsPast'
  <2> SUFFICES ASSUME NEW x \in spent PROVE x.inst \in retired[x.chan] /\ Past(x, db'[x.chan])
    BY <1>2 DEF SpentIsPast, Past
  <2>1. x \in Statement /\ x.chan \in Channels
    BY <1>2 DEF Statement
  <2>2. x.inst \in retired[x.chan] /\ Past(x, db[x.chan])
    BY DEF LogInv, SpentIsPast
  <2> QED BY <1>2, <1>3, <2>1, <2>2, PastGrows
<1>7. LogIsSpent'
  BY <1>2, <1>3 DEF LogInv, LogIsSpent, Said, Grows
<1>8. TidyLog'
  <2>1. \A k \in Channels : Tidy(db'[k])
    <3> TAKE k \in Channels
    <3>1. db[k] \in Tables /\ Tidy(db[k]) /\ db'[k] = Swept(db[k])
      BY <1>2 DEF LogInv, TidyLog
    <3>2. CASE db[k].row = None
      BY <3>1, <3>2 DEF Swept
    <3>3. CASE db[k].row # None
      BY <1>1, <3>1, <3>3, SweptAppends, TidyAppends
    <3> QED BY <3>2, <3>3
  <2> QED BY <2>1 DEF TidyLog, Tidy
<1> QED BY <1>2, <1>4, <1>5, <1>6, <1>7, <1>8 DEF LogInv, NoReplayNoFork, NumberedOnce

----------------------------------------------------------------------------
LEMMA SameLogFacts ==
  ASSUME NEW s \in Tables, s.row # None
  PROVE  /\ SameLog(s, s)
         /\ \A m \in [Accounts -> MemberRow \cup {None}] : SameLog(s, [s EXCEPT !.member = m])
<1>1. s.high \in [Devices -> [Epoch -> Nat]]
  BY TablesFacts
<1>2. \A d \in Devices, e \in Epoch : s.high[d][e] >= s.high[d][e]
  BY <1>1
<1> QED BY <1>2, SetMember DEF SameLog

LEMMA MemberFacts ==
  ASSUME NEW m \in [Accounts -> MemberRow \cup {None}], NEW a \in Accounts
  PROVE  /\ \A role \in {"admin", "member"} :
              /\ Seat(m, a, role) \in [Accounts -> MemberRow \cup {None}]
              /\ Appoint(m, a, role) \in [Accounts -> MemberRow \cup {None}]
         /\ [m EXCEPT ![a] = None] \in [Accounts -> MemberRow \cup {None}]
         /\ m[a] # None => \A on \in BOOLEAN :
              /\ [m EXCEPT ![a] = [m[a] EXCEPT !.present = on]] \in [Accounts -> MemberRow \cup {None}]
              /\ [m EXCEPT ![a].muted = on] \in [Accounts -> MemberRow \cup {None}]
              /\ [m EXCEPT ![a].posted = on] \in [Accounts -> MemberRow \cup {None}]
<1>1. \A role \in {"admin", "member"} : NewMember(role) \in MemberRow
  BY DEF NewMember, MemberRow
<1>2. ASSUME NEW x \in MemberRow, NEW on \in BOOLEAN
      PROVE  /\ [x EXCEPT !.present = on] \in MemberRow /\ [x EXCEPT !.muted = on] \in MemberRow
             /\ [x EXCEPT !.posted = on] \in MemberRow
  BY DEF MemberRow
<1>3. ASSUME NEW x \in MemberRow, NEW role \in {"admin", "member"}
      PROVE  [x EXCEPT !.present = TRUE, !.role = role] \in MemberRow
  <2> DEFINE y == [x EXCEPT !.present = TRUE]
  <2>1. y \in MemberRow
    BY DEF MemberRow
  <2>2. [y EXCEPT !.role = role] \in MemberRow
    <3> HIDE DEF y
    <3> QED BY <2>1 DEF MemberRow
  <2> QED BY <2>2
<1>4. m[a] \in MemberRow \cup {None}
  OBVIOUS
<1>5. \A role \in {"admin", "member"} :
        /\ Seat(m, a, role) \in [Accounts -> MemberRow \cup {None}]
        /\ Appoint(m, a, role) \in [Accounts -> MemberRow \cup {None}]
  BY <1>1, <1>2, <1>3, <1>4 DEF Seat, Appoint
<1> QED BY <1>2, <1>4, <1>5

(* A handler that changes the roster and records it. *)
LEMMA RosterAppends ==
  ASSUME NEW s \in Tables, s.row # None, now \in Nat,
         NEW m \in [Accounts -> MemberRow \cup {None}],
         NEW d \in Devices, NEW kind \in Kinds \ {"post"}, NEW subject \in Accounts \cup Peers
  PROVE  LET t == write_system([s EXCEPT !.member = m], d, kind, subject)
         IN /\ Appends(s, t) /\ Signs(s, t, d) /\ t.row # None /\ t.member = m
            /\ kind # "rotated" /\ Readers(m) = Heard(Readers(s.member), kind, subject) => Records(s, t)
<1> DEFINE u == [s EXCEPT !.member = m]
<1>1. SameLog(s, u) /\ u.member = m /\ u.row = s.row
  BY SameLogFacts, SetMember
<1> HIDE DEF u
<1>2. LET t == write_system(u, d, kind, subject)
      IN Appends(s, t) /\ Signs(s, t, d) /\ t.row # None /\ t.member = u.member
  BY <1>1, WriteAppends
<1>3. ASSUME kind # "rotated", Readers(m) = Heard(Readers(s.member), kind, subject)
      PROVE  Records(s, write_system(u, d, kind, subject))
  BY <1>1, <1>3, WriteRecords
<1> QED BY <1>1, <1>2, <1>3 DEF u

(* Everything a step of a handler is shown to keep from. *)
LEMMA HandlerFacts ==
  ASSUME LogInv, NEW d \in Devices, NEW c \in Channels
  PROVE  /\ db[c] \in Tables /\ AccountOf[d] \in Accounts /\ now \in Nat
         /\ replica \in [Channels -> SUBSET Peers]
         /\ db[c].member \in [Accounts -> MemberRow \cup {None}]
         /\ \A a \in Accounts : role_of(db[c], a) # None => db[c].member[a] # None
BY ConstantFacts, TablesFacts DEF LogInv, TypeOK, role_of

(* a is in the channel and has not spoken in it. *)
Unheard(s, a) == role_of(s, a) # None /\ ~s.member[a].posted

(* Whom the handler adds to those who have not spoken: somebody it asked   *)
(* the quota of, or the account that signs. *)
Admits(d, s, t) ==
  \A a \in Accounts : Unheard(t, a) =>
    Unheard(s, a) \/ unspoken(db, a) < MAX_UNSPOKEN \/ (a = AccountOf[d] /\ Signs(s, t, d))

(* What every handler but `create` comes to *)
Appending(d, c) ==
  /\ replica' \in [Channels -> SUBSET Peers]
  /\ \E t : Appends(db[c], t) /\ Commit(c, t) /\ Admits(d, db[c], t) /\ Records(db[c], t)

LEMMA SameMembersAdmit ==
  ASSUME NEW d, NEW s, NEW t, t.member = s.member \/ t = destroyed
  PROVE  Admits(d, s, t)
BY DestroyedFacts DEF Admits, Unheard, role_of

LEMMA RosterStep ==
  ASSUME LogInv, NEW d \in Devices, NEW c \in Channels,
         \/ \E l \in InviteLists : CreateReturning(d, c, l)
         \/ Join(d, c) \/ Leave(d, c)
         \/ \E a \in Accounts, r \in Roles : Invite(d, c, a, r)
         \/ \E a \in Accounts, on \in BOOLEAN : Mute(d, c, a, on)
         \/ \E a \in Accounts : RemoveMember(d, c, a)
  PROVE  Appending(d, c)
<1> DEFINE s == db[c]
           me == AccountOf[d]
           Roster == [Accounts -> MemberRow \cup {None}]
<1>1. /\ s \in Tables /\ me \in Accounts /\ now \in Nat /\ replica \in [Channels -> SUBSET Peers]
      /\ s.member \in Roster /\ \A a \in Accounts : role_of(s, a) # None => s.member[a] # None
  BY HandlerFacts
<1>2. ASSUME NEW m \in Roster, NEW kind \in Kinds \ {"post"}, NEW a \in Accounts, s.row # None
      PROVE  LET t == write_system([s EXCEPT !.member = m], d, kind, a)
             IN /\ Appends(s, t) /\ Signs(s, t, d) /\ t.row # None /\ t.member = m
                /\ kind # "rotated" /\ Readers(m) = Heard(Readers(s.member), kind, a) => Records(s, t)
  BY <1>1, <1>2, RosterAppends
<1>3. ASSUME NEW l \in InviteLists, CreateReturning(d, c, l) PROVE Appending(d, c)
  <2> DEFINE m == Seat(s.member, me, "admin")
             t == write_system([s EXCEPT !.member = m], d, "joined", me)
  <2>1. m \in Roster /\ \A a \in Accounts \ {me} : m[a] = s.member[a]
    BY <1>1, MemberFacts DEF Seat
  <2>5. Readers(m) = Heard(Readers(s.member), "joined", me)
    BY <1>1, SeatReads DEF Heard, Arriving, Rosters
  <2>2. s.row # None /\ Commit(c, t) /\ UNCHANGED replica
    BY <1>3 DEF CreateReturning
  <2> HIDE DEF m
  <2>3. Appends(s, t) /\ Signs(s, t, d) /\ t.member = m /\ Records(s, t)
    BY <1>1, <1>2, <2>1, <2>2, <2>5 DEF Kinds
  <2> HIDE DEF t
  <2>4. Admits(d, s, t)
    BY <2>1, <2>3 DEF Admits, Unheard, role_of
  <2> QED BY <1>1, <2>2, <2>3, <2>4 DEF Appending
<1>4. CASE Join(d, c)
  <2> DEFINE m == Seat(s.member, me, "member")
             t == write_system([s EXCEPT !.member = m], d, "joined", me)
  <2>1. m \in Roster /\ \A a \in Accounts \ {me} : m[a] = s.member[a]
    BY <1>1, MemberFacts DEF Seat
  <2>5. Readers(m) = Heard(Readers(s.member), "joined", me)
    BY <1>1, SeatReads DEF Heard, Arriving, Rosters
  <2>2. s.row # None /\ Commit(c, t) /\ UNCHANGED replica
    BY <1>4 DEF Join
  <2> HIDE DEF m
  <2>3. Appends(s, t) /\ Signs(s, t, d) /\ t.member = m /\ Records(s, t)
    BY <1>1, <1>2, <2>1, <2>2, <2>5 DEF Kinds
  <2> HIDE DEF t
  <2>4. Admits(d, s, t)
    BY <2>1, <2>3 DEF Admits, Unheard, role_of
  <2> QED BY <1>1, <2>2, <2>3, <2>4 DEF Appending
<1>5. CASE Leave(d, c)
  <2> DEFINE durable == s.row.vis = "public" /\ s.member[me].role = "admin"
             gone == [s.member EXCEPT ![me] = IF durable THEN [s.member[me] EXCEPT !.present = FALSE] ELSE None]
             t == write_system([s EXCEPT !.member = gone], d, "left", me)
             left == IF members(s) > 1 THEN t
                     ELSE IF s.row.vis = "public"
                          THEN [t EXCEPT !.row = [t.row EXCEPT !.since = now]] ELSE destroyed
  <2>1. s.row # None /\ s.member[me] # None /\ Commit(c, left) /\ UNCHANGED replica
    BY <1>1, <1>5 DEF Leave
  <2>2. gone \in Roster /\ \A a \in Accounts \ {me} : gone[a] = s.member[a]
    <3> HIDE DEF durable
    <3>1. gone \in Roster
      BY <1>1, <2>1, MemberFacts
    <3>2. \A a \in Accounts \ {me} : gone[a] = s.member[a]
      BY <1>1
    <3> QED BY <3>1, <3>2
  <2>6. gone[me] = None \/ ~gone[me].present
    <3>1. s.member[me] \in MemberRow
      BY <1>1, <2>1
    <3>2. [s.member[me] EXCEPT !.present = FALSE].present = FALSE
      BY <3>1 DEF MemberRow
    <3> HIDE DEF durable
    <3> QED BY <1>1, <3>2
  <2> HIDE DEF gone
  <2>7. Readers(gone) = Heard(Readers(s.member), "left", me)
    <3>1. Readers(gone) = Readers(s.member) \ {me}
      BY <1>1, <2>2, <2>6, ReadersFacts
    <3> QED BY <3>1 DEF Heard, Arriving, Leaving
  <2>3. Appends(s, t) /\ t.row # None /\ t.member = gone /\ Records(s, t)
    BY <1>1, <1>2, <2>1, <2>2, <2>7 DEF Kinds
  <2> HIDE DEF t
  <2>4. Appends(s, left) /\ (left.member = gone \/ left = destroyed)
    BY <1>1, <2>3, SinceAppends, DestroyedAppends
  <2>8. Records(s, left)
    <3>1. t \in Tables
      BY <2>3 DEF Appends
    <3>2. Records(s, [t EXCEPT !.row = [t.row EXCEPT !.since = now]])
      BY <1>1, <2>3, <3>1, SinceRecords
    <3>3. Records(s, destroyed)
      BY DestroyedFacts DEF Records
    <3> QED BY <2>3, <3>2, <3>3
  <2> HIDE DEF left
  <2>5. Admits(d, s, left)
    <3>1. CASE left.member = gone
      BY <2>2, <2>6, <3>1 DEF Admits, Unheard, role_of
    <3>2. CASE left = destroyed
      BY <3>2, SameMembersAdmit
    <3> QED BY <2>4, <3>1, <3>2
  <2> QED BY <1>1, <2>1, <2>4, <2>5, <2>8 DEF Appending
<1>6. ASSUME NEW a \in Accounts, NEW role \in Roles, Invite(d, c, a, role) PROVE Appending(d, c)
  <2> DEFINE m == Appoint(s.member, a, role)
             kind == InviteEvent(role_of(s, a), role)
             t == write_system([s EXCEPT !.member = m], d, kind, a)
  <2>1. m \in Roster /\ \A b \in Accounts \ {a} : m[b] = s.member[b]
    <3>1. m \in Roster
      BY <1>1, MemberFacts, ConstantFacts
    <3>2. \A b \in Accounts \ {a} : m[b] = s.member[b]
      BY <1>1 DEF Appoint
    <3> QED BY <3>1, <3>2
  <2>2. kind \in Kinds \ {"post", "rotated"} /\ kind \in Arriving /\ s.row # None
    BY <1>6 DEF InviteEvent, Kinds, Invite, is_admin, Arriving
  <2>7. Readers(m) = Heard(Readers(s.member), kind, a)
    <3>1. Readers(m) = Readers(s.member) \cup ({a} \cap Accounts)
      BY <1>1, ConstantFacts, SeatReads DEF Rosters
    <3> HIDE DEF m, kind
    <3> QED BY <2>2, <3>1 DEF Heard
  <2>3. Commit(c, t) /\ UNCHANGED replica /\ MayInvite(s, a)
    BY <1>6 DEF Invite
  <2>4. role_of(s, a) # None => (m[a].posted <=> s.member[a].posted)
    <3> SUFFICES ASSUME role_of(s, a) # None PROVE m[a].posted <=> s.member[a].posted
      OBVIOUS
    <3>1. s.member[a] \in MemberRow /\ s.member[a] # None
      BY <1>1
    <3> DEFINE y == [s.member[a] EXCEPT !.present = TRUE]
    <3>2. y \in MemberRow /\ (y.posted <=> s.member[a].posted)
      BY <3>1 DEF MemberRow
    <3>3. [y EXCEPT !.role = role].posted = y.posted
      <4> HIDE DEF y
      <4> QED BY <3>2 DEF MemberRow
    <3>4. m[a] = [y EXCEPT !.role = role]
      BY <1>1, <3>1 DEF Appoint
    <3> QED BY <3>2, <3>3, <3>4
  <2> HIDE DEF m, kind
  <2>5. Appends(s, t) /\ t.member = m /\ Records(s, t)
    BY <1>2, <2>1, <2>2, <2>7
  <2> HIDE DEF t
  <2>6. Admits(d, s, t)
    <3> SUFFICES ASSUME NEW b \in Accounts, Unheard(t, b)
                 PROVE  Unheard(s, b) \/ unspoken(db, b) < MAX_UNSPOKEN
      BY DEF Admits
    <3>1. CASE b # a
      BY <2>1, <2>5, <3>1 DEF Unheard, role_of
    <3>2. CASE b = a /\ role_of(s, a) # None
      BY <2>4, <2>5, <3>2 DEF Unheard
    <3>3. CASE b = a /\ role_of(s, a) = None
      BY <2>3, <3>3 DEF MayInvite
    <3> QED BY <3>1, <3>2, <3>3
  <2> QED BY <1>1, <2>3, <2>5, <2>6 DEF Appending
<1>7. ASSUME NEW a \in Accounts, NEW on \in BOOLEAN, Mute(d, c, a, on) PROVE Appending(d, c)
  <2> DEFINE m == [s.member EXCEPT ![a].muted = on]
             kind == IF on THEN "muted" ELSE "unmuted"
  <2>1. m \in Roster /\ s.row # None /\ \A b \in Accounts \ {a} : m[b] = s.member[b]
    <3>1. m \in Roster /\ s.row # None
      BY <1>1, <1>7, MemberFacts DEF Mute, is_admin
    <3>2. \A b \in Accounts \ {a} : m[b] = s.member[b]
      BY <1>1
    <3> QED BY <3>1, <3>2
  <2>5. /\ m[a].posted = s.member[a].posted /\ role_of(s, a) # None
        /\ m[a] # None /\ s.member[a] # None /\ (m[a].present <=> s.member[a].present)
    <3>1. s.member[a] \in MemberRow /\ s.member[a] # None
      BY <1>1, <1>7 DEF Mute
    <3>2. /\ [s.member[a] EXCEPT !.muted = on].posted = s.member[a].posted
          /\ [s.member[a] EXCEPT !.muted = on].present = s.member[a].present
          /\ [s.member[a] EXCEPT !.muted = on] \in MemberRow
      BY <3>1 DEF MemberRow
    <3>3. m[a] = [s.member[a] EXCEPT !.muted = on]
      BY <1>1
    <3> HIDE DEF m
    <3> QED BY <1>1, <1>7, <3>1, <3>2, <3>3, NoneIsNoRow DEF Mute
  <2>2. kind \in Kinds \ {"post", "rotated"} /\ kind \notin Arriving /\ kind \notin Leaving
    BY DEF Kinds, Arriving, Leaving
  <2>3. Commit(c, write_system([s EXCEPT !.member = m], d, kind, a)) /\ UNCHANGED replica
    BY <1>7 DEF Mute
  <2> HIDE DEF m, kind
  <2>8. Readers(m) = Heard(Readers(s.member), kind, a)
    <3>1. Readers(m) = Readers(s.member)
      BY <2>1, <2>5, ReadersFacts
    <3> QED BY <2>2, <3>1 DEF Heard
  <2> DEFINE t == write_system([s EXCEPT !.member = m], d, kind, a)
  <2>4. Appends(s, t) /\ t.member = m /\ Records(s, t)
    BY <1>2, <2>1, <2>2, <2>8
  <2>6. Commit(c, t)
    BY <2>3
  <2> HIDE DEF t
  <2>7. Admits(d, s, t)
    BY <2>1, <2>4, <2>5 DEF Admits, Unheard, role_of
  <2> QED BY <1>1, <2>3, <2>4, <2>6, <2>7 DEF Appending
<1>8. ASSUME NEW a \in Accounts, RemoveMember(d, c, a) PROVE Appending(d, c)
  <2> DEFINE m == [s.member EXCEPT ![a] = None]
             env == {x \in s.envelope : x[1] # a}
             u == [s EXCEPT !.member = m]
             w == [u EXCEPT !.envelope = env]
  <2>7. m[a] = None /\ \A b \in Accounts \ {a} : m[b] = s.member[b]
    BY <1>1
  <2>1. m \in Roster /\ s.row # None /\ env \in SUBSET (Devices \X Epoch)
    BY <1>1, <1>8, MemberFacts, TablesFacts DEF RemoveMember, is_admin
  <2>2. Commit(c, write_system(w, d, "removed", a)) /\ UNCHANGED replica
    BY <1>8 DEF RemoveMember
  <2> HIDE DEF m, env
  <2>9. Readers(m) = Heard(Readers(s.member), "removed", a)
    <3>1. \A b \in Accounts : b \in Readers(m) <=> b \in Readers(s.member) /\ b # a
      BY <2>7 DEF Readers
    <3>2. Readers(m) = Readers(s.member) \ {a}
      BY <3>1 DEF Readers
    <3> QED BY <3>2 DEF Heard, Arriving, Leaving
  <2>3. SameLog(s, u) /\ u.member = m /\ u.row = s.row
    BY <1>1, <2>1, SameLogFacts, SetMember
  <2> HIDE DEF u
  <2>4. SameLog(s, w) /\ w.member = m /\ w.row = s.row
    BY <2>1, <2>3, SetEnvelope DEF SameLog
  <2> HIDE DEF w
  <2> DEFINE t == write_system(w, d, "removed", a)
  <2>5. Appends(s, t) /\ t.member = m
    BY <1>1, <2>1, <2>4, WriteAppends DEF Kinds
  <2>10. Records(s, t)
    BY <1>1, <2>1, <2>4, <2>9, WriteRecords DEF Kinds
  <2>6. Commit(c, t)
    BY <2>2
  <2> HIDE DEF t
  <2>8. Admits(d, s, t)
    BY <2>5, <2>7 DEF Admits, Unheard, role_of
  <2> QED BY <1>1, <2>2, <2>5, <2>6, <2>8, <2>10 DEF Appending
<1> QED BY <1>3, <1>4, <1>5, <1>6, <1>7, <1>8

LEMMA TakenFacts ==
  ASSUME NEW high \in [Devices -> [Epoch -> Nat]], NEW d \in Devices, NEW e \in Epoch, NEW msg \in Nat
  PROVE  /\ taken(high, d, e, msg) \in [Devices -> [Epoch -> Nat]]
         /\ taken(high, d, e, msg)[d][e] >= msg
         /\ \A x \in Devices, y \in Epoch : taken(high, d, e, msg)[x][y] >= high[x][y]
<1> DEFINE n == IF msg > high[d][e] THEN msg ELSE high[d][e]
<1>1. n \in Nat /\ n >= msg /\ n >= high[d][e]
  OBVIOUS
<1>2. taken(high, d, e, msg) = [high EXCEPT ![d] = [high[d] EXCEPT ![e] = n]]
  BY DEF taken
<1> HIDE DEF n
<1> QED BY <1>1, <1>2

LEMMA LogStep ==
  ASSUME LogInv, NEW d \in Devices, NEW c \in Channels,
         \/ SetDirectory(d, c) \/ Close(d, c)
         \/ \E m \in 0..MaxMsg, t \in Ttls : Post(d, c, m, t)
         \/ \E e \in Epoch, to \in Recipients, r \in BOOLEAN : PutKeys(d, c, e, to, r)
         \/ \E r \in Retentions, k \in Caps : Retain(d, c, r, k)
         \/ \E p \in Peers, on \in BOOLEAN : Replicate(d, c, p, on)
  PROVE  Appending(d, c)
<1> DEFINE s == db[c]
           me == AccountOf[d]
<1>1. /\ s \in Tables /\ me \in Accounts /\ now \in Nat /\ replica \in [Channels -> SUBSET Peers]
      /\ s.member \in [Accounts -> MemberRow \cup {None}]
      /\ \A a \in Accounts : role_of(s, a) # None => s.member[a] # None
      /\ Tidy(s) /\ (s.row # None => SameLog(s, s))
  BY HandlerFacts, SameLogFacts DEF LogInv, TidyLog
<1>8. \A subject : \A kind \in Kinds \ (Arriving \cup Leaving) :
        Heard(Readers(s.member), kind, subject) = Readers(s.member)
  BY DEF Heard
<1>2. CASE SetDirectory(d, c)
  <2>1. s.row # None
    BY <1>2 DEF SetDirectory, is_admin
  <2> DEFINE t == write_system(s, d, "renamed", me)
  <2>2. Appends(s, t) /\ t.member = s.member
    BY <1>1, <2>1, SameLogFacts, WriteAppends DEF Kinds
  <2>3. Commit(c, t) /\ UNCHANGED replica
    BY <1>2 DEF SetDirectory
  <2>4. Records(s, t)
    <3>1. "renamed" \in Kinds \ {"rotated"} /\ Readers(s.member) = Heard(Readers(s.member), "renamed", me)
      BY <1>8 DEF Kinds, Arriving, Leaving
    <3> QED BY <1>1, <2>1, <3>1, WriteRecords
  <2> HIDE DEF t
  <2> QED BY <1>1, <2>2, <2>3, <2>4, SameMembersAdmit DEF Appending
<1>3. CASE Close(d, c)
  <2>1. Records(s, destroyed)
    BY DestroyedFacts DEF Records
  <2> QED BY <1>1, <1>3, <2>1, DestroyedAppends, SameMembersAdmit DEF Appending, Close
<1>4. ASSUME NEW msg \in 0..MaxMsg, NEW ttl \in Ttls, Post(d, c, msg, ttl) PROVE Appending(d, c)
  <2> DEFINE epoch == IF s.row.vis = "public" THEN 0 ELSE s.row.epoch
             high == taken(s.high, d, epoch, msg)
             m == [s.member EXCEPT ![me].posted = TRUE]
             u == [s EXCEPT !.high = high]
             w == [u EXCEPT !.member = m]
             t == Number(w, d, "post", me, ttl, epoch, msg)
  <2>1. /\ s.row # None /\ s.member[me] # None /\ Commit(c, Pruned(t)) /\ UNCHANGED replica
    BY <1>1, <1>4 DEF Post
  <2>2. epoch \in Epoch /\ msg \in Nat /\ ttl \in Nat /\ s.high \in [Devices -> [Epoch -> Nat]]
    BY <1>1, <2>1, TablesFacts, ConstantFacts
  <2> HIDE DEF epoch
  <2>3. /\ high \in [Devices -> [Epoch -> Nat]] /\ high[d][epoch] >= msg
        /\ \A x \in Devices, y \in Epoch : high[x][y] >= s.high[x][y]
    BY <2>2, TakenFacts
  <2>4. /\ m \in [Accounts -> MemberRow \cup {None}] /\ m[me].posted
        /\ \A b \in Accounts \ {me} : m[b] = s.member[b]
    <3>1. s.member[me] \in MemberRow
      BY <1>1, <2>1
    <3>2. [s.member[me] EXCEPT !.posted = TRUE].posted
      BY <3>1 DEF MemberRow
    <3>3. m \in [Accounts -> MemberRow \cup {None}]
      BY <1>1, <2>1, MemberFacts
    <3>4. m[me].posted /\ \A b \in Accounts \ {me} : m[b] = s.member[b]
      BY <1>1, <3>2
    <3> QED BY <3>3, <3>4
  <2>11. Readers(m) = Readers(s.member)
    <3> DEFINE y == [s.member[me] EXCEPT !.posted = TRUE]
    <3>1. s.member[me] \in MemberRow /\ s.member[me] # None
      BY <1>1, <2>1
    <3>2. y \in MemberRow /\ (y.present <=> s.member[me].present)
      BY <3>1 DEF MemberRow
    <3>3. m[me] = y
      BY <1>1
    <3> HIDE DEF m, y
    <3>4. \A b \in Accounts : b \in Readers(m) <=> b \in Readers(s.member)
      BY <2>4, <3>1, <3>2, <3>3, NoneIsNoRow DEF Readers
    <3> QED BY <3>4 DEF Readers
  <2> HIDE DEF high, m
  <2>5. /\ u \in Tables /\ u.row = s.row /\ u.entry = s.entry /\ u.chain = s.chain /\ u.high = high
    BY <1>1, <2>3, SetHigh
  <2> HIDE DEF u
  <2>6. /\ w \in Tables /\ w.row = s.row /\ w.entry = s.entry /\ w.chain = s.chain /\ w.high = high
        /\ w.member = m
    BY <2>4, <2>5, SetMember
  <2> HIDE DEF w
  <2>7. SameLog(s, w)
    BY <2>1, <2>3, <2>6 DEF SameLog
  <2>8. Appends(s, t) /\ Whole(s, t) /\ t.row # None /\ t.member = w.member
    <3>1. "post" \in Kinds /\ me \in Accounts \cup Peers /\ w.high[d][epoch] >= msg
      BY <1>1, <2>3, <2>6 DEF Kinds
    <3> QED BY <1>1, <2>1, <2>2, <2>7, <3>1, NumberAppends
  <2>12. Records(s, t)
    <3>1. Readers(w.member) = Heard(Readers(s.member), "post", me)
      BY <1>8, <2>6, <2>11 DEF Kinds, Arriving, Leaving
    <3>2. s.row.epoch \in Nat
      BY <1>1, <2>1, TablesFacts, ConstantFacts
    <3>3. w.row.epoch = s.row.epoch + (IF "post" = "rotated" THEN 1 ELSE 0)
      BY <2>6, <3>2
    <3> QED BY <1>1, <2>1, <2>7, <3>1, <3>3, NumberRecords
  <2> HIDE DEF t
  <2>9. Appends(s, Pruned(t)) /\ Pruned(t).member = m
    BY <1>1, <2>6, <2>8, PrunedAppends
  <2>10. Admits(d, s, Pruned(t))
    BY <2>4, <2>9 DEF Admits, Unheard, role_of
  <2>13. Records(s, Pruned(t))
    BY <1>1, <2>1, <2>8, <2>12, PrunedRecords
  <2> QED BY <1>1, <2>1, <2>9, <2>10, <2>13 DEF Appending
<1>5. ASSUME NEW epoch \in Epoch, NEW to \in Recipients, NEW revoked \in BOOLEAN,
             PutKeys(d, c, epoch, to, revoked)
      PROVE  Appending(d, c)
  <2> DEFINE env == s.envelope \cup (to \X {epoch})
             row == [s.row EXCEPT !.epoch = epoch]
             t == [s EXCEPT !.envelope = env]
             w == [t EXCEPT !.row = row]
             put == IF epoch = s.row.epoch THEN t ELSE write_system(w, d, "rotated", me)
  <2>1. s.row # None /\ s.row \in Row /\ UNCHANGED replica /\ epoch \in {s.row.epoch, s.row.epoch + 1}
    BY <1>1, <1>5, TablesFacts DEF PutKeys
  <2>2. t.row = s.row
    BY <1>1 DEF Tables
  <2>3. Commit(c, put)
    BY <1>5, <2>2 DEF PutKeys
  <2>4. env \in SUBSET (Devices \X Epoch)
    BY <1>1, TablesFacts, ChannelAssumption
  <2>5. /\ row \in Row /\ row.next = s.row.next /\ row.inst = s.row.inst /\ row # None
        /\ row.epoch = epoch
    BY <2>1, NoneIsNoRow DEF Row
  <2> HIDE DEF env, row
  <2>6. SameLog(s, s)
    BY <1>1, <2>1, SameLogFacts
  <2>7. /\ t \in Tables /\ t.entry = s.entry /\ t.chain = s.chain /\ t.high = s.high
        /\ t.member = s.member
    BY <1>1, <2>4, SetEnvelope
  <2> HIDE DEF t
  <2>8. /\ w \in Tables /\ w.row = row /\ w.entry = t.entry /\ w.chain = t.chain /\ w.high = t.high
        /\ w.member = s.member
    BY <2>5, <2>7, SetRow
  <2> HIDE DEF w
  <2>9. SameLog(s, w)
    BY <2>5, <2>6, <2>7, <2>8 DEF SameLog
  <2>10. /\ Appends(s, write_system(w, d, "rotated", me))
         /\ write_system(w, d, "rotated", me).member = s.member
    BY <1>1, <2>1, <2>8, <2>9, WriteAppends DEF Kinds
  <2>11. Appends(s, t)
    <3>1. s.row.next \in Nat /\ s.chain \in [Devices -> Nat]
      BY <1>1, <2>1, TablesFacts
    <3>2. Grows(s, t)
      BY <2>1, <2>2, <2>6, <2>7, <3>1 DEF Grows, SameLog
    <3>3. t.entry = s.entry \cup {}
      BY <2>7
    <3>4. Whole(s, t)
      BY <3>3 DEF Whole, NextOnly
    <3> QED BY <2>1, <2>2, <2>7, <3>2, <3>4 DEF Appends, PruneOnly
  <2>12. Appends(s, put) /\ put.member = s.member
    BY <2>7, <2>10, <2>11
  <2>13. Records(s, put)
    <3>1. CASE epoch = s.row.epoch
      <4>1. WroteNothing(s, t)
        BY <2>2, <2>7 DEF WroteNothing
      <4> QED BY <3>1, <4>1 DEF Records
    <3>2. CASE epoch # s.row.epoch
      <4>1. w.row.epoch = s.row.epoch + (IF "rotated" = "rotated" THEN 1 ELSE 0)
        BY <2>1, <2>5, <2>8, <3>2
      <4>2. Readers(w.member) = Heard(Readers(s.member), "rotated", me)
        BY <1>8, <2>8 DEF Kinds, Arriving, Leaving
      <4>3. Records(s, write_system(w, d, "rotated", me))
        BY <1>1, <2>1, <2>9, <4>1, <4>2, NumberRecords DEF write_system
      <4> QED BY <3>2, <4>3
    <3> QED BY <3>1, <3>2
  <2> HIDE DEF put
  <2> QED BY <1>1, <2>1, <2>3, <2>12, <2>13, SameMembersAdmit DEF Appending
<1>6. ASSUME NEW ret \in Retentions, NEW cap \in Caps, Retain(d, c, ret, cap) PROVE Appending(d, c)
  <2> DEFINE once == [s.row EXCEPT !.ret = ret]
             row == [once EXCEPT !.cap = cap]
             u == [s EXCEPT !.row = row]
             t == write_system(u, d, "retention", me)
  <2>1. s.row # None /\ s.row \in Row
    BY <1>1, <1>6, TablesFacts DEF Retain, is_admin
  <2>2. once \in Row /\ once.next = s.row.next /\ once.inst = s.row.inst /\ once.epoch = s.row.epoch
    BY <2>1, ConstantFacts DEF Row
  <2>3. /\ row \in Row /\ row.next = s.row.next /\ row.inst = s.row.inst /\ row # None
        /\ row.epoch = s.row.epoch
    <3> HIDE DEF once
    <3> QED BY <2>2, ConstantFacts, NoneIsNoRow DEF Row
  <2>4. Commit(c, Pruned(t)) /\ UNCHANGED replica
    BY <1>6 DEF Retain
  <2> HIDE DEF row
  <2>5. /\ u \in Tables /\ u.row = row /\ u.entry = s.entry /\ u.chain = s.chain /\ u.high = s.high
        /\ u.member = s.member
    BY <1>1, <2>3, SetRow
  <2> HIDE DEF u
  <2>6. SameLog(s, u)
    BY <1>1, <2>1, <2>3, <2>5, SameLogFacts DEF SameLog
  <2>7. Appends(s, t) /\ Whole(s, t) /\ t.row # None /\ t.member = u.member
    BY <1>1, <2>1, <2>6, WriteAppends DEF Kinds
  <2>9. Records(s, t)
    <3>1. "retention" \in Kinds \ {"rotated"} /\ Readers(u.member) = Heard(Readers(s.member), "retention", me)
      BY <1>8, <2>5 DEF Kinds, Arriving, Leaving
    <3> QED BY <1>1, <2>1, <2>3, <2>5, <2>6, <3>1, WriteRecords
  <2> HIDE DEF t
  <2>8. Appends(s, Pruned(t)) /\ Pruned(t).member = s.member
    BY <1>1, <2>5, <2>7, PrunedAppends
  <2>10. Records(s, Pruned(t))
    BY <1>1, <2>1, <2>7, <2>9, PrunedRecords
  <2> QED BY <1>1, <2>4, <2>8, <2>10, SameMembersAdmit DEF Appending
<1>7. ASSUME NEW p \in Peers, NEW on \in BOOLEAN, Replicate(d, c, p, on) PROVE Appending(d, c)
  <2> DEFINE kind == IF on THEN "replicate" ELSE "unreplicate"
  <2> DEFINE t == write_system(s, d, kind, p)
  <2>1. s.row # None /\ Commit(c, t)
    BY <1>7 DEF Replicate, is_admin
  <2>2. replica' \in [Channels -> SUBSET Peers]
    BY <1>1, <1>7 DEF Replicate
  <2>3. kind \in Kinds \ {"post", "rotated"} /\ kind \notin Arriving \cup Leaving
    BY DEF Kinds, Arriving, Leaving
  <2> HIDE DEF kind
  <2>4. Appends(s, t) /\ t.member = s.member
    BY <1>1, <2>1, <2>3, SameLogFacts, WriteAppends
  <2>5. Records(s, t)
    <3>1. Readers(s.member) = Heard(Readers(s.member), kind, p)
      BY <1>8, <2>3
    <3> QED BY <1>1, <2>1, <2>3, <3>1, WriteRecords
  <2> HIDE DEF t
  <2> QED BY <2>1, <2>2, <2>4, <2>5, SameMembersAdmit DEF Appending
<1> QED BY <1>2, <1>3, <1>4, <1>5, <1>6, <1>7

----------------------------------------------------------------------------
LEMMA LogInvInit == Init => LogInv
<1> SUFFICES ASSUME Init PROVE LogInv
  OBVIOUS
<1>1. TypeOK
  BY DestroyedFacts DEF Init, TypeOK
<1>2. \A c \in Channels : db[c].row = None
  BY DestroyedFacts DEF Init
<1> QED BY <1>1, <1>2 DEF Init, LogInv, SpentIsPast, StandingIsRetired, NoReplayNoFork, NumberedOnce, LogIsSpent,
                      TidyLog, Tidy

LEMMA LogInvNext ==
  ASSUME LogInv, [Next]_vars
  PROVE  LogInv'
<1>2. CASE Tick
  BY <1>2 DEF Tick, LogInv, TypeOK, SpentIsPast, Past, StandingIsRetired, NoReplayNoFork,
              NumberedOnce, LogIsSpent, Said, TidyLog, Tidy
<1>3. CASE UNCHANGED vars
  BY <1>3 DEF vars, LogInv, TypeOK, SpentIsPast, Past, StandingIsRetired, NoReplayNoFork,
              NumberedOnce, LogIsSpent, Said, TidyLog, Tidy
<1>4. CASE \E d \in Devices, c \in Channels :
             \E v \in Visibilities, r \in Retentions, k \in Caps, l \in InviteLists, i \in Instances :
               Create(d, c, v, r, k, l, i)
  BY <1>4, CreateStep
<1>5. CASE \E d \in Devices, c \in Channels :
             \/ \E l \in InviteLists : CreateReturning(d, c, l)
             \/ Join(d, c) \/ Leave(d, c)
             \/ \E a \in Accounts, r \in Roles : Invite(d, c, a, r)
             \/ \E a \in Accounts, on \in BOOLEAN : Mute(d, c, a, on)
             \/ \E a \in Accounts : RemoveMember(d, c, a)
  BY <1>5, RosterStep, CommitStep DEF Appending
<1>6. CASE \E d \in Devices, c \in Channels :
             \/ SetDirectory(d, c) \/ Close(d, c)
             \/ \E m \in 0..MaxMsg, t \in Ttls : Post(d, c, m, t)
             \/ \E e \in Epoch, to \in Recipients, r \in BOOLEAN : PutKeys(d, c, e, to, r)
             \/ \E r \in Retentions, k \in Caps : Retain(d, c, r, k)
             \/ \E p \in Peers, on \in BOOLEAN : Replicate(d, c, p, on)
  BY <1>6, LogStep, CommitStep DEF Appending
<1>7. CASE Sweep
  BY <1>7, SweepStep
<1>8. CASE Next
  BY <1>2, <1>4, <1>5, <1>6, <1>7, <1>8 DEF Next
<1> QED BY <1>3, <1>8

(* The tables, the retired instances and every statement keep their types. *)
THEOREM ChannelTypeCorrect == Spec => []TypeOK
<1>1. LogInv => TypeOK
  BY DEF LogInv
<1> QED BY <1>1, LogInvInit, LogInvNext, PTL DEF Spec

(* A device's statement enters a channel's log at most once and never      *)
(* beside a rival, for any number of channels, devices and incarnations    *)
(* (`advance_chain`, `retired_instance`). *)
THEOREM NoReplayNoForkHolds == Spec => []NoReplayNoFork
<1>1. LogInv => NoReplayNoFork
  BY DEF LogInv
<1> QED BY <1>1, LogInvInit, LogInvNext, PTL DEF Spec

(* A position of an incarnation's log names one statement for good,        *)
(* however the log is pruned (`next_seq`). *)
THEOREM NumberedOnceHolds == Spec => []NumberedOnce
<1>1. LogInv => NumberedOnce
  BY DEF LogInv
<1> QED BY <1>1, LogInvInit, LogInvNext, PTL DEF Spec

(* What a device is told to count from covers every counter it used under  *)
(* the key of an epoch (`high_water`). *)
THEOREM CounterCoversUseHolds == Spec => []CounterCoversUse
<1>1. LogInv => CounterCoversUse
  BY DEF LogInv, SpentIsPast, Past, CounterCoversUse
<1> QED BY <1>1, LogInvInit, LogInvNext, PTL DEF Spec

----------------------------------------------------------------------------
(* What `prune` lets go. *)
LEMMA PruneReasons ==
  ASSUME NEW row \in Row, NEW rows \in SUBSET Entry, IsFiniteSet(rows), now \in Nat,
         \A e, f \in rows : e.seq = f.seq => e = f,
         NEW held, FreshOf(row, rows) \subseteq held, IsFiniteSet(held),
         NEW e \in rows, e \notin prune(row, rows)
  PROVE  \/ now - e.posted >= row.ret
         \/ e.ttl > 0 /\ now - e.posted >= e.ttl
         \/ \E f \in held : f.seq >= e.seq + CapOf(row)
         \/ Cardinality({f \in held : f.seq > e.seq}) >= MAX_HELD
<1> DEFINE capped == CappedOf(row, rows)
           above == AtOrAbove(capped, e)
           newer == {f \in held : f.seq > e.seq}
<1>1. /\ CapOf(row) \in Nat \ {0} /\ MAX_HELD \in Nat \ {0}
      /\ \A f \in rows : f.seq \in Nat
  BY CapFacts DEF Entry
<1>2. e.ttl \in Nat /\ row.ret \in Nat /\ e.posted \in Nat
  BY DEF Entry, Row
<1>3. CASE e \notin FreshOf(row, rows)
  <2>1. ~(now - e.posted < Window(row, e))
    BY <1>3 DEF FreshOf
  <2> QED BY <1>2, <2>1 DEF Window
<1>4. CASE e \in FreshOf(row, rows) /\ e \notin capped
  <2>1. PICK f \in FreshOf(row, rows) : ~(e.seq > f.seq - CapOf(row))
    BY <1>4 DEF CappedOf
  <2>2. f \in rows /\ f \in held
    BY <2>1 DEF FreshOf
  <2>3. f.seq >= e.seq + CapOf(row)
    BY <1>1, <2>1, <2>2
  <2> QED BY <2>2, <2>3
<1>5. CASE e \in capped
  <2>1. ~(Cardinality(above) <= MAX_HELD)
    BY <1>5, PruneParts
  <2>2. capped \subseteq FreshOf(row, rows) /\ capped \subseteq rows
    BY DEF CappedOf, FreshOf
  <2> HIDE DEF capped
  <2>3. above \subseteq rows /\ above \subseteq held /\ e \in above
    BY <1>1, <1>5, <2>2 DEF AtOrAbove
  <2>4. \A f \in above : f # e => f.seq > e.seq
    <3> TAKE f \in above
    <3>1. f.seq >= e.seq /\ f \in rows
      BY <2>3 DEF AtOrAbove
    <3> QED BY <1>1, <3>1
  <2> HIDE DEF above
  <2>5. IsFiniteSet(above) /\ Cardinality(above) \in Nat
    BY <2>3, FS_Subset, FS_CardinalityType
  <2>6. Cardinality(above \ {e}) = Cardinality(above) - 1
    BY <2>3, <2>5, FS_RemoveElement
  <2>7. above \ {e} \subseteq newer
    BY <2>3, <2>4
  <2>8. IsFiniteSet(newer)
    <3>1. newer \subseteq held
      OBVIOUS
    <3> HIDE DEF newer
    <3> QED BY <3>1, FS_Subset
  <2> HIDE DEF newer
  <2>9. Cardinality(above \ {e}) <= Cardinality(newer) /\ Cardinality(newer) \in Nat
    BY <2>7, <2>8, FS_Subset, FS_CardinalityType
  <2>10. Cardinality(newer) >= MAX_HELD
    BY <1>1, <2>1, <2>5, <2>6, <2>9
  <2> QED BY <2>10 DEF newer
<1> QED BY <1>3, <1>4, <1>5

(* What a handler's new tables have lost of the old.                       *)
Excused(s, t, e) ==
  LET held == s.entry \cup t.entry
  IN \/ now - e.posted >= t.row.ret
     \/ e.ttl > 0 /\ now - e.posted >= e.ttl
     \/ \E f \in held : f.seq >= e.seq + CapOf(t.row)
     \/ Cardinality({f \in held : f.seq > e.seq}) >= MAX_HELD

LEMMA LossIsExcused ==
  ASSUME NEW s \in Tables, NEW t, Appends(s, t), Tidy(s), t.row # None, now \in Nat,
         NEW e \in s.entry \ t.entry
  PROVE  Excused(s, t, e)
<1>1. /\ s.row # None /\ s.row.next \in Nat /\ s.entry \subseteq Entry
      /\ t \in Tables /\ t.row \in Row
  BY TablesFacts DEF Appends, Grows
<1>2. PICK new \in SUBSET Entry : NextOnly(s, new) /\ t.entry = prune(t.row, s.entry \cup new)
  BY DEF Appends, PruneOnly, Whole
<1> DEFINE rows == s.entry \cup new
           held == s.entry \cup t.entry
<1>3. \A f \in s.entry : f.seq < s.row.next /\ f.seq \in Nat
  BY <1>1 DEF Tidy, Entry
<1>4. \A f, g \in rows : f.seq = g.seq => f = g
  BY <1>1, <1>2, <1>3 DEF Tidy, NextOnly
<1>5. IsFiniteSet(s.entry) /\ IsFiniteSet(rows)
  <2>1. IsFiniteSet(s.entry)
    BY <1>1, TidyIsFinite
  <2>2. IsFiniteSet(new)
    <3>1. new = {} \/ \E n : new = {n}
      BY <1>2 DEF NextOnly
    <3> QED BY <3>1, FS_EmptySet, FS_Singleton
  <2> QED BY <2>1, <2>2, FS_Union
<1>6. t.entry \subseteq rows
  BY <1>2 DEF prune
<1>7. FreshOf(t.row, rows) \subseteq held
  <2> SUFFICES ASSUME NEW n \in FreshOf(t.row, rows), n \notin s.entry PROVE n \in t.entry
    BY DEF FreshOf
  <2>1. n \in new /\ n.seq = s.row.next /\ new = {n}
    BY <1>2 DEF FreshOf, NextOnly
  <2>2. \A f \in rows : f # n => f.seq < n.seq
    BY <1>3, <2>1
  <2> HIDE DEF rows
  <2>3. rows \subseteq Entry
    BY <1>1, <1>2 DEF rows
  <2>4. n \in prune(t.row, rows)
    BY <1>1, <2>2, <2>3, NewestIsKept
  <2> QED BY <1>2, <2>4 DEF rows
<1>8. IsFiniteSet(held)
  <2>1. held \subseteq rows
    BY <1>6
  <2> HIDE DEF held, rows
  <2> QED BY <1>5, <2>1, FS_Subset
<1>9. rows \in SUBSET Entry /\ e \in rows /\ e \notin prune(t.row, rows)
  BY <1>1, <1>2
<1> HIDE DEF rows, held
<1>10. \/ now - e.posted >= t.row.ret
       \/ e.ttl > 0 /\ now - e.posted >= e.ttl
       \/ \E f \in held : f.seq >= e.seq + CapOf(t.row)
       \/ Cardinality({f \in held : f.seq > e.seq}) >= MAX_HELD
  BY <1>1, <1>4, <1>5, <1>7, <1>8, <1>9, PruneReasons
<1> QED BY <1>10 DEF Excused, held

(* What a step may be: `create`, another handler, the sweep, or nothing to *)
(* any log. *)
LEMMA StepKinds ==
  ASSUME LogInv, [Next]_vars
  PROVE  \/ \E d \in Devices, k \in Channels :
              \E v \in Visibilities, r \in Retentions, cap \in Caps, l \in InviteLists, i \in Instances :
                Create(d, k, v, r, cap, l, i)
         \/ \E d \in Devices, k \in Channels : Appending(d, k)
         \/ Sweep
         \/ UNCHANGED <<db, spent, retired, life>>
<1>5. CASE Tick \/ UNCHANGED vars
  BY <1>5 DEF Tick, vars
<1>6. CASE \E d \in Devices, k \in Channels :
             \E v \in Visibilities, r \in Retentions, cap \in Caps, l \in InviteLists, i \in Instances :
               Create(d, k, v, r, cap, l, i)
  BY <1>6
<1>7. CASE \E d \in Devices, k \in Channels :
             \/ \E l \in InviteLists : CreateReturning(d, k, l)
             \/ Join(d, k) \/ Leave(d, k)
             \/ \E a \in Accounts, r \in Roles : Invite(d, k, a, r)
             \/ \E a \in Accounts, on \in BOOLEAN : Mute(d, k, a, on)
             \/ \E a \in Accounts : RemoveMember(d, k, a)
  BY <1>7, RosterStep
<1>8. CASE \E d \in Devices, k \in Channels :
             \/ SetDirectory(d, k) \/ Close(d, k)
             \/ \E m \in 0..MaxMsg, t \in Ttls : Post(d, k, m, t)
             \/ \E e \in Epoch, to \in Recipients, r \in BOOLEAN : PutKeys(d, k, e, to, r)
             \/ \E r \in Retentions, cap \in Caps : Retain(d, k, r, cap)
             \/ \E p \in Peers, on \in BOOLEAN : Replicate(d, k, p, on)
  BY <1>8, LogStep
<1>9. CASE Next
  BY <1>5, <1>6, <1>7, <1>8, <1>9 DEF Next
<1> QED BY <1>5, <1>9

(* A step leaves each channel's tables alone, appends to them, or founds   *)
(* another incarnation. *)
LEMMA StepOfChannel ==
  ASSUME LogInv, [Next]_vars, NEW c \in Channels, db[c].row # None
  PROVE  \/ db'[c] = db[c] \/ Appends(db[c], db'[c])
         \/ db'[c].row # None /\ db'[c].row.inst # db[c].row.inst
<1>1. db \in [Channels -> Tables] /\ now \in Nat
  BY DEF LogInv, TypeOK
<1>2. ASSUME NEW d \in Devices, NEW k \in Channels, NEW v \in Visibilities, NEW r \in Retentions,
             NEW cap \in Caps, NEW l \in InviteLists, NEW i \in Instances, Create(d, k, v, r, cap, l, i)
      PROVE  \/ db'[c] = db[c]
             \/ db'[c].row # None /\ db'[c].row.inst # db[c].row.inst
  <2> DEFINE t == Founded(d, v, r, cap, l, i)
  <2>1. db' = [db EXCEPT ![k] = t] /\ i \notin retired[k]
    BY <1>2 DEF Create, MayCreate, FreshInstance
  <2>2. t.row # None /\ t.row.inst = i
    BY <1>1, FoundedFacts
  <2> HIDE DEF t
  <2>3. db'[k] = t /\ (k # c => db'[c] = db[c])
    BY <1>1, <2>1
  <2>4. db[c].row.inst \in retired[c]
    BY DEF LogInv, StandingIsRetired
  <2> QED BY <2>1, <2>2, <2>3, <2>4
<1>3. ASSUME NEW d \in Devices, NEW k \in Channels, Appending(d, k)
      PROVE  db'[c] = db[c] \/ Appends(db[c], db'[c])
  <2>1. PICK t : Appends(db[k], t) /\ Commit(k, t)
    BY <1>3 DEF Appending
  <2> QED BY <1>1, <2>1 DEF Commit
<1>4. CASE Sweep
  <2>1. db'[c] = Swept(db[c])
    BY <1>4 DEF Sweep
  <2> QED BY <1>1, <2>1, SweptAppends
<1>5. CASE UNCHANGED <<db, spent>>
  BY <1>5
<1> QED BY <1>2, <1>3, <1>4, <1>5, StepKinds

(* An entry leaves a standing channel only because its time was up or      *)
(* newer entries filled the channel's cap or its bytes (`prune`), whatever *)
(* the retention, the cap and the order of handlers. *)
THEOREM KeepsRecentAlways == Spec => KeepsRecent
<1> DEFINE Lost(c) ==
       LET s == db[c] t == db'[c]
           held == s.entry \cup t.entry
           cap == IF t.row.cap = 0 \/ t.row.cap > MAX_ENTRIES THEN MAX_ENTRIES ELSE t.row.cap
       IN s.row # None /\ t.row # None /\ s.row.inst = t.row.inst =>
            \A e \in s.entry \ t.entry :
              \/ now - e.posted >= t.row.ret
              \/ e.ttl > 0 /\ now - e.posted >= e.ttl
              \/ \E f \in held : f.seq >= e.seq + cap
              \/ Cardinality({f \in held : f.seq > e.seq}) >= MAX_HELD
<1>1. ASSUME LogInv, [Next]_vars, NEW c \in Channels PROVE Lost(c)
  <2> SUFFICES ASSUME db[c].row # None, db'[c].row # None, db[c].row.inst = db'[c].row.inst,
                      NEW e \in db[c].entry \ db'[c].entry
               PROVE  Excused(db[c], db'[c], e)
    BY DEF Excused, CapOf
  <2>1. Appends(db[c], db'[c])
    BY <1>1, StepOfChannel
  <2>2. db[c] \in Tables /\ Tidy(db[c]) /\ now \in Nat
    BY <1>1 DEF LogInv, TypeOK, TidyLog
  <2> QED BY <2>1, <2>2, LossIsExcused
<1>2. LogInv /\ [Next]_vars => [\A c \in Channels : Lost(c)]_vars
  BY <1>1
<1> QED
  BY <1>2, LogInvInit, LogInvNext, PTL DEF Spec, KeepsRecent

----------------------------------------------------------------------------
(* The channels that stand are few: as many as were created. The tables of *)
(* the others are empty, so nobody is in them.                             *)
Standing == {c \in Channels : db[c].row # None}
QuotaInv ==
  LogInv /\ IsFiniteSet(Standing) /\ \A c \in Channels : db[c].row = None => db[c] = destroyed

LEMMA QuotaInvInit == Init => QuotaInv
<1> SUFFICES ASSUME Init PROVE QuotaInv
  OBVIOUS
<1>1. \A c \in Channels : db[c] = destroyed
  BY DEF Init
<1>2. Standing = {}
  BY <1>1, DestroyedFacts DEF Standing
<1> QED BY <1>1, <1>2, LogInvInit, FS_EmptySet DEF QuotaInv

LEMMA QuotaInvNext ==
  ASSUME QuotaInv, [Next]_vars
  PROVE  QuotaInv'
<1>1. LogInv /\ LogInv' /\ db \in [Channels -> Tables] /\ now \in Nat
  BY LogInvNext DEF QuotaInv, LogInv, TypeOK
<1>2. ASSUME NEW k \in Channels, NEW t, db' = [db EXCEPT ![k] = t], t.row = None => t = destroyed
      PROVE  QuotaInv'
  <2>1. db'[k] = t /\ \A c \in Channels \ {k} : db'[c] = db[c]
    BY <1>1, <1>2
  <2>2. Standing' \subseteq Standing \cup {k}
    BY <2>1 DEF Standing
  <2>3. IsFiniteSet(Standing \cup {k})
    BY FS_AddElement DEF QuotaInv
  <2>4. IsFiniteSet(Standing')
    BY <2>2, <2>3, FS_Subset
  <2>5. \A c \in Channels : db'[c].row = None => db'[c] = destroyed
    BY <1>2, <2>1 DEF QuotaInv
  <2> QED BY <1>1, <2>4, <2>5 DEF QuotaInv, destroyed
<1>3. CASE Sweep
  <2>1. \A c \in Channels : db'[c] = Swept(db[c])
    BY <1>3 DEF Sweep
  <2>2. ASSUME NEW c \in Channels PROVE db'[c].row # None => db[c].row # None
    BY <2>1, <2>2 DEF Swept
  <2>3. Standing' \subseteq Standing
    BY <2>2 DEF Standing
  <2>4. IsFiniteSet(Standing')
    BY <2>3, FS_Subset DEF QuotaInv
  <2>5. ASSUME NEW c \in Channels, db'[c].row = None PROVE db'[c] = destroyed
    <3>1. CASE db[c].row = None
      <4>1. db[c] = destroyed
        BY <3>1 DEF QuotaInv
      <4>2. Swept(db[c]) = db[c]
        BY <3>1 DEF Swept
      <4> QED BY <2>1, <4>1, <4>2
    <3>2. CASE db[c].row # None
      <4>1. db[c] \in Tables
        BY <1>1
      <4>2. Appends(db[c], Swept(db[c]))
        BY <1>1, <3>2, <4>1, SweptAppends
      <4> QED BY <2>1, <2>5, <4>2 DEF Appends
    <3> QED BY <3>1, <3>2
  <2> QED BY <1>1, <2>4, <2>5 DEF QuotaInv, destroyed
<1>4. CASE UNCHANGED <<db, spent>>
  <2>1. Standing' = Standing
    BY <1>4 DEF Standing
  <2> QED BY <1>1, <1>4, <2>1 DEF QuotaInv, destroyed
<1>5. ASSUME NEW d \in Devices, NEW k \in Channels, NEW v \in Visibilities, NEW r \in Retentions,
             NEW cap \in Caps, NEW l \in InviteLists, NEW i \in Instances, Create(d, k, v, r, cap, l, i)
      PROVE  QuotaInv'
  <2> DEFINE t == Founded(d, v, r, cap, l, i)
  <2>1. db' = [db EXCEPT ![k] = t]
    BY <1>5 DEF Create
  <2>2. t.row # None
    BY <1>1, FoundedFacts
  <2> HIDE DEF t
  <2> QED BY <1>2, <2>1, <2>2
<1>6. ASSUME NEW d \in Devices, NEW k \in Channels, Appending(d, k) PROVE QuotaInv'
  BY <1>2, <1>6 DEF Appending, Appends, Commit
<1> QED BY <1>1, <1>3, <1>4, <1>5, <1>6, StepKinds

LEMMA UnspokenIsUnheard ==
  ASSUME NEW a \in Accounts
  PROVE  /\ \A store : unspoken(store, a) = Cardinality({c \in Channels : Unheard(store[c], a)})
         /\ unspoken(db, a)' = Cardinality({c \in Channels : Unheard(db'[c], a)})
BY DEF unspoken, Unheard, role_of

(* Where nobody new was added, the count does not rise. *)
LEMMA NoneNewNoMore ==
  ASSUME QuotaInv, NEW a \in Accounts,
         NEW U, U = {c \in Channels : Unheard(db[c], a)}, NEW V, V \subseteq U
  PROVE  /\ IsFiniteSet(U) /\ Cardinality(U) \in Nat
         /\ IsFiniteSet(V) /\ Cardinality(V) \in Nat /\ Cardinality(V) <= Cardinality(U)
<1>1. U \subseteq Standing
  <2> SUFFICES ASSUME NEW c \in U PROVE c \in Standing
    OBVIOUS
  <2>1. db[c].row = None => db[c] = destroyed
    BY DEF QuotaInv
  <2> QED BY <2>1, DestroyedFacts DEF Unheard, role_of, Standing
<1>2. IsFiniteSet(U)
  BY <1>1, FS_Subset DEF QuotaInv
<1>3. IsFiniteSet(V) /\ Cardinality(V) <= Cardinality(U)
  BY <1>2, FS_Subset
<1> QED BY <1>2, <1>3, FS_CardinalityType

(* A statement signed by d at the next position is new to the history. *)
LEMMA SignsAnew ==
  ASSUME LogInv, NEW d \in Devices, NEW k \in Channels, NEW t, Appends(db[k], t), Commit(k, t),
         Signs(db[k], t, d)
  PROVE  \E x \in spent' \ spent : x.dev = d
<1> DEFINE s == db[k]
<1>1. s \in Tables /\ Tidy(s)
  BY DEF LogInv, TypeOK, TidyLog
<1>2. PICK n \in t.entry : n.seq = s.row.next /\ n.dev = d
  BY DEF Signs
<1>3. t.row # None
  BY <1>2 DEF Appends, destroyed
<1>4. s.row # None /\ t.row.inst = s.row.inst /\ s.row.next \in Nat
  BY <1>1, <1>3, TablesFacts DEF Appends, Grows
<1>5. n \notin s.entry
  BY <1>1, <1>2, <1>4 DEF Tidy
<1> DEFINE x == [chan |-> k, life |-> life[k], inst |-> t.row.inst, dev |-> n.dev, pos |-> n.pos,
                 seq |-> n.seq, post |-> n.kind = "post", epoch |-> n.epoch, msg |-> n.msg]
<1>6. x \in spent'
  BY <1>2, <1>3, <1>5 DEF Commit, Statements
<1>7. x.chan = k /\ x.inst = t.row.inst /\ x.dev = d /\ x.seq = s.row.next
  BY <1>2
<1> HIDE DEF x
<1>8. x \notin spent
  BY <1>4, <1>7 DEF LogInv, SpentIsPast, Past
<1> QED BY <1>6, <1>7, <1>8

LEMMA QuotaStep ==
  ASSUME QuotaInv, [Next]_vars, NEW a \in Accounts,
         unspoken(db, a)' > unspoken(db, a), unspoken(db, a)' > MAX_UNSPOKEN
  PROVE  \E x \in spent' \ spent : AccountOf[x.dev] = a
<1> DEFINE U == {c \in Channels : Unheard(db[c], a)}
           V == {c \in Channels : Unheard(db'[c], a)}
<1>1. LogInv /\ db \in [Channels -> Tables] /\ now \in Nat /\ MAX_UNSPOKEN \in Nat
  BY ChannelAssumption DEF QuotaInv, LogInv, TypeOK
<1>2. /\ Cardinality(V) > Cardinality(U) /\ Cardinality(V) > MAX_UNSPOKEN
      /\ unspoken(db, a) = Cardinality(U)
  BY UnspokenIsUnheard
<1>3. ~(V \subseteq U)
  <2>1. V \subseteq U => Cardinality(V) <= Cardinality(U) /\ Cardinality(V) \in Nat /\ Cardinality(U) \in Nat
    BY NoneNewNoMore
  <2> QED BY <1>2, <2>1
<1>4. ASSUME NEW k \in Channels, NEW W, W \subseteq U, V \subseteq W \cup {k}, Cardinality(W) < MAX_UNSPOKEN
      PROVE  FALSE
  <2>1. IsFiniteSet(W) /\ Cardinality(W) \in Nat
    BY <1>4, NoneNewNoMore
  <2> HIDE DEF U, V
  <2>2. IsFiniteSet(W \cup {k}) /\ Cardinality(W \cup {k}) <= Cardinality(W) + 1
    BY <2>1, FS_AddElement
  <2>3. IsFiniteSet(V) /\ Cardinality(V) <= Cardinality(W \cup {k})
    BY <1>4, <2>2, FS_Subset
  <2>4. Cardinality(V) \in Nat /\ Cardinality(W \cup {k}) \in Nat
    BY <2>2, <2>3, FS_CardinalityType
  <2> QED BY <1>1, <1>2, <1>4, <2>1, <2>2, <2>3, <2>4
<1>5. CASE Sweep
  <2>1. ASSUME NEW c \in Channels, Unheard(db'[c], a) PROVE Unheard(db[c], a)
    <3>1. db'[c] = Swept(db[c]) /\ db[c] \in Tables
      BY <1>1, <1>5 DEF Sweep
    <3>2. db'[c].member = db[c].member \/ db'[c] = destroyed
      BY <1>1, <3>1, SweptAppends
    <3> QED BY <2>1, <3>2, DestroyedFacts DEF Unheard, role_of
  <2> QED BY <1>3, <2>1
<1>6. CASE UNCHANGED <<db, spent>>
  BY <1>3, <1>6
<1>7. ASSUME NEW d \in Devices, NEW k \in Channels, Appending(d, k)
      PROVE  \E x \in spent' \ spent : AccountOf[x.dev] = a
  <2>1. PICK t : Appends(db[k], t) /\ Commit(k, t) /\ Admits(d, db[k], t)
    BY <1>7 DEF Appending
  <2>2. db'[k] = t /\ \A c \in Channels \ {k} : db'[c] = db[c]
    BY <1>1, <2>1 DEF Commit
  <2>3. V \subseteq U \cup {k}
    BY <2>2
  <2>4. Unheard(t, a) /\ ~Unheard(db[k], a)
    BY <1>3, <2>2
  <2>5. ~(unspoken(db, a) < MAX_UNSPOKEN)
    BY <1>2, <1>4, <2>3
  <2>6. a = AccountOf[d] /\ Signs(db[k], t, d)
    BY <2>1, <2>4, <2>5 DEF Admits
  <2> QED BY <1>1, <2>1, <2>6, SignsAnew
<1>8. ASSUME NEW d \in Devices, NEW k \in Channels, NEW v \in Visibilities, NEW r \in Retentions,
             NEW cap \in Caps, NEW l \in InviteLists, NEW i \in Instances, Create(d, k, v, r, cap, l, i)
      PROVE  \E x \in spent' \ spent : AccountOf[x.dev] = a
  <2> DEFINE t == Founded(d, v, r, cap, l, i)
             store == [db EXCEPT ![k] = destroyed]
             W == {c \in Channels : Unheard(store[c], a)}
             seated == Seated(AccountOf[d], l)
  <2>1. /\ db' = [db EXCEPT ![k] = t] /\ i \notin retired[k]
        /\ spent' = spent \cup Statements(k, life[k] + 1, t, t.entry)
        /\ \A j \in seated : unspoken(store, l[j].account) < MAX_UNSPOKEN
    BY <1>8 DEF Create, MayCreate, FreshInstance
  <2>2. db'[k] = t /\ \A c \in Channels \ {k} : db'[c] = db[c]
    BY <1>1, <2>1
  <2>3. store[k] = destroyed /\ \A c \in Channels \ {k} : store[c] = db[c]
    BY <1>1
  <2>4. W \subseteq U /\ V \subseteq W \cup {k}
    <3> HIDE DEF store, t
    <3>1. W \subseteq U
      BY <2>3, DestroyedFacts DEF Unheard, role_of
    <3>2. V \subseteq W \cup {k}
      BY <2>2, <2>3
    <3> QED BY <3>1, <3>2
  <2>5. ~(unspoken(store, a) < MAX_UNSPOKEN)
    <3>1. unspoken(store, a) = Cardinality(W)
      BY UnspokenIsUnheard
    <3> HIDE DEF W, U, V
    <3> QED BY <1>4, <2>4, <3>1
  <2>6. Unheard(t, a)
    <3> HIDE DEF store, t
    <3> QED BY <1>3, <2>2
  <2>7. a = AccountOf[d]
    <3>1. a = AccountOf[d] \/ \E j \in seated : l[j].account = a
      BY <2>6 DEF Founded, Unheard, role_of
    <3> HIDE DEF store
    <3> QED BY <2>1, <2>5, <3>1
  <2>8. \E x \in Statements(k, life[k] + 1, t, t.entry) : x.chan = k /\ x.inst = i /\ x.dev = d
    <3> DEFINE e == [seq |-> 0 + 1, kind |-> "created", subject |-> AccountOf[d], dev |-> d, pos |-> 0,
                     posted |-> now, ttl |-> 0, epoch |-> 0, msg |-> 0]
               x == [chan |-> k, life |-> life[k] + 1, inst |-> t.row.inst, dev |-> e.dev, pos |-> e.pos,
                     seq |-> e.seq, post |-> e.kind = "post", epoch |-> e.epoch, msg |-> e.msg]
    <3>1. t.row.inst = i
      BY <1>1, FoundedFacts
    <3>2. e \in t.entry
      BY DEF Founded
    <3> HIDE DEF t
    <3>3. x \in Statements(k, life[k] + 1, t, t.entry)
      BY <3>2 DEF Statements
    <3>4. x.chan = k /\ x.inst = i /\ x.dev = d
      BY <3>1
    <3> QED BY <3>3, <3>4
  <2>9. \A x \in spent : x.chan = k => x.inst # i
    BY <1>1, <2>1 DEF LogInv, SpentIsPast
  <2> HIDE DEF t
  <2> QED BY <2>1, <2>7, <2>8, <2>9
<1> QED BY <1>1, <1>5, <1>6, <1>7, <1>8, StepKinds

(* Other people's invitations never take an account past MAX_UNSPOKEN      *)
(* channels it has not spoken in (`unspoken_full`), for any number of      *)
(* channels, accounts and invitations. *)
THEOREM StrangersBoundedByQuotaAlways == Spec => StrangersBoundedByQuota
<1>1. QuotaInv /\ [Next]_vars =>
        [\A a \in Accounts :
           unspoken(db, a)' > unspoken(db, a) /\ unspoken(db, a)' > MAX_UNSPOKEN =>
             \E x \in spent' \ spent : AccountOf[x.dev] = a]_vars
  BY QuotaStep
<1> QED
  BY <1>1, QuotaInvInit, QuotaInvNext, PTL DEF Spec, StrangersBoundedByQuota

----------------------------------------------------------------------------
(* A copy holds what was said in the incarnation it says it holds.         *)
IsCopy(k) ==
  k = [inst |-> k.inst, held |-> k.held, member |-> k.member, epoch |-> k.epoch,
       derivable |-> k.derivable]
OfOneLife(c, k) == IsCopy(k) /\ \A e \in k.held : Said(c, k.inst, e)

CopyInv ==
  /\ LogInv
  /\ copy = [c \in Channels |-> copy[c]]
  /\ \A c \in Channels : OfOneLife(c, copy[c])
  /\ pulling # None => pulling.chan \in Channels

LEMMA FreshFacts ==
  ASSUME NEW i
  PROVE  IsCopy(Fresh(i)) /\ Fresh(i).held = {} /\ Fresh(i).inst = i
BY DEF IsCopy, Fresh

LEMMA AppliedFacts ==
  ASSUME NEW k, IsCopy(k), NEW rows
  PROVE  IsCopy(Applied(k, rows)) /\ Applied(k, rows).held = k.held \cup rows /\ Applied(k, rows).inst = k.inst
<1> DEFINE member == RosterAfter(k.member, rows)
           epoch == k.epoch + Cardinality({e \in rows : e.kind = "rotated"})
           derivable == k.derivable \/ \E e \in rows : e.kind = "created"
<1>1. Applied(k, rows) = [k EXCEPT !.held = k.held \cup rows, !.member = member, !.epoch = epoch,
                                   !.derivable = derivable]
  BY DEF Applied
<1> HIDE DEF member, epoch, derivable
<1>2. Applied(k, rows) = [inst |-> k.inst, held |-> k.held \cup rows, member |-> member, epoch |-> epoch,
                          derivable |-> derivable]
  BY <1>1 DEF IsCopy
<1> QED BY <1>2 DEF IsCopy

LEMMA RederiveFacts ==
  ASSUME NEW k
  PROVE  IsCopy(rederive(k)) /\ rederive(k).held = k.held /\ rederive(k).inst = k.inst
<1>1. IsCopy(Fresh(k.inst)) /\ Fresh(k.inst).held = {} /\ Fresh(k.inst).inst = k.inst
  BY FreshFacts
<1>2. /\ IsCopy(Applied(Fresh(k.inst), k.held))
      /\ Applied(Fresh(k.inst), k.held).held = Fresh(k.inst).held \cup k.held
      /\ Applied(Fresh(k.inst), k.held).inst = Fresh(k.inst).inst
  BY <1>1, AppliedFacts
<1>3. {} \cup k.held = k.held
  OBVIOUS
<1> QED BY <1>1, <1>2, <1>3 DEF rederive

(* What a page of the origin's log makes of a copy, whatever it refuses.   *)
LEMMA TakeFacts ==
  ASSUME CopyInv, NEW c \in Channels, MayPull(c), NEW since, NEW knew
  PROVE  /\ OfOneLife(c, take_under(c, Page(c, since), knew))
         /\ OfOneLife(c, rederive(take_under(c, Page(c, since), knew)))
<1> DEFINE inst == db[c].row.inst
           page == Page(c, since)
           k == adopt(copy[c], inst)
           rows == {e \in {f \in page : Verifies(c, f, knew)} : e.seq \notin Seqs(k.held)}
           t == take_under(c, page, knew)
<1>1. page \subseteq db[c].entry
  BY DEF Page
<1>2. \A e \in page : Said(c, inst, e)
  BY <1>1 DEF MayPull, CopyInv, LogInv, LogIsSpent
<1>3. OfOneLife(c, k) /\ k.inst = inst
  BY FreshFacts DEF adopt, CopyInv, OfOneLife
<1>4. t = Applied(k, rows) /\ rows \subseteq page
  BY DEF take_under, store_pulled
<1> HIDE DEF t, rows, k, page, inst
<1>5. OfOneLife(c, t)
  <2>1. IsCopy(t) /\ t.held = k.held \cup rows /\ t.inst = k.inst
    BY <1>3, <1>4, AppliedFacts DEF OfOneLife
  <2> QED BY <1>2, <1>3, <1>4, <2>1 DEF OfOneLife
<1>6. OfOneLife(c, rederive(t))
  <2>1. IsCopy(rederive(t)) /\ rederive(t).held = t.held /\ rederive(t).inst = t.inst
    BY RederiveFacts
  <2> QED BY <1>5, <2>1 DEF OfOneLife
<1> QED BY <1>5, <1>6 DEF t, page

LEMMA CopyInvInit == CopyInit => CopyInv
<1> SUFFICES ASSUME CopyInit PROVE CopyInv
  OBVIOUS
<1>1. LogInv
  BY LogInvInit DEF CopyInit
<1>2. copy = [c \in Channels |-> Fresh(None)] /\ pulling = None
  BY DEF CopyInit
<1>3. \A c \in Channels : OfOneLife(c, copy[c])
  BY <1>2, FreshFacts DEF OfOneLife
<1> QED BY <1>1, <1>2, <1>3 DEF CopyInv

LEMMA SaidGoesOn ==
  ASSUME spent \subseteq spent'
  PROVE  \A c, inst, e : Said(c, inst, e) => Said(c, inst, e)'
BY DEF Said

(* The log of the origin only ever adds to what was said.                  *)
LEMMA SpentGrows ==
  ASSUME [Next]_vars
  PROVE  spent \subseteq spent'
<1>1. \A c \in Channels : \A t : Commit(c, t) => spent \subseteq spent'
  BY DEF Commit
<1>2. ASSUME NEW d \in Devices, NEW c \in Channels,
             \/ \E v \in Visibilities, r \in Retentions, k \in Caps, l \in InviteLists, i \in Instances :
                  Create(d, c, v, r, k, l, i)
             \/ \E l \in InviteLists : CreateReturning(d, c, l)
             \/ Join(d, c) \/ Leave(d, c) \/ SetDirectory(d, c) \/ Close(d, c)
      PROVE  spent \subseteq spent'
  <2>1. ASSUME NEW v \in Visibilities, NEW r \in Retentions, NEW k \in Caps, NEW l \in InviteLists,
               NEW i \in Instances, Create(d, c, v, r, k, l, i)
        PROVE  spent \subseteq spent'
    BY <1>1, <2>1 DEF Create
  <2>2. ASSUME NEW l \in InviteLists, CreateReturning(d, c, l) PROVE spent \subseteq spent'
    BY <1>1, <2>2 DEF CreateReturning
  <2>3. CASE Join(d, c) \/ Leave(d, c) \/ SetDirectory(d, c) \/ Close(d, c)
    BY <1>1, <2>3 DEF Join, Leave, SetDirectory, Close
  <2> QED
    BY <1>2, <2>1, <2>2, <2>3
<1>3. ASSUME NEW d \in Devices, NEW c \in Channels,
             \/ \E a \in Accounts, r \in Roles : Invite(d, c, a, r)
             \/ \E a \in Accounts, on \in BOOLEAN : Mute(d, c, a, on)
             \/ \E a \in Accounts : RemoveMember(d, c, a)
      PROVE  spent \subseteq spent'
  BY <1>1, <1>3 DEF Invite, Mute, RemoveMember
<1>4. ASSUME NEW d \in Devices, NEW c \in Channels,
             \/ \E m \in 0..MaxMsg, t \in Ttls : Post(d, c, m, t)
             \/ \E e \in Epoch, to \in Recipients, r \in BOOLEAN : PutKeys(d, c, e, to, r)
             \/ \E r \in Retentions, k \in Caps : Retain(d, c, r, k)
             \/ \E p \in Peers, on \in BOOLEAN : Replicate(d, c, p, on)
      PROVE  spent \subseteq spent'
  BY <1>1, <1>4 DEF Post, PutKeys, Retain, Replicate
<1>5. CASE Sweep \/ Tick \/ UNCHANGED vars
  BY <1>5 DEF Sweep, Tick, vars
<1> QED BY <1>2, <1>3, <1>4, <1>5 DEF Next

LEMMA CopyInvNext ==
  ASSUME CopyInv, [CopyNext]_allVars
  PROVE  CopyInv'
<1>1. CASE [Next]_vars /\ UNCHANGED <<copy, pulling>>
  <2>1. LogInv'
    BY <1>1, LogInvNext DEF CopyInv
  <2>2. \A c \in Channels : OfOneLife(c, copy[c])'
    BY <1>1, SpentGrows, SaidGoesOn DEF CopyInv, OfOneLife
  <2> QED BY <1>1, <2>1, <2>2 DEF CopyInv
<1>2. ASSUME UNCHANGED vars, NEW c \in Channels, NEW k, OfOneLife(c, k), copy' = [copy EXCEPT ![c] = k],
             pulling' = None \/ pulling'.chan = c
      PROVE  CopyInv'
  <2>1. LogInv' /\ spent' = spent
    BY <1>2, LogInvNext DEF CopyInv, vars
  <2>2. copy' = [d \in Channels |-> IF d = c THEN k ELSE copy[d]]
    BY <1>2 DEF CopyInv
  <2>3. \A d \in Channels : OfOneLife(d, copy'[d])
    BY <1>2, <2>2 DEF CopyInv
  <2>4. \A d \in Channels : OfOneLife(d, copy[d])'
    BY <2>1, <2>3, SaidGoesOn DEF OfOneLife
  <2> QED BY <1>2, <2>1, <2>2, <2>4 DEF CopyInv
<1>3. ASSUME NEW c \in Channels, PullOnce(c) PROVE CopyInv'
  <2> DEFINE k == copy[c]
             since == IF hole[c] = None THEN highest(k) ELSE Min({highest(k), hole[c].at})
             t == take_under(c, Page(c, since), known)
  <2>1. MayPull(c) /\ UNCHANGED vars /\ copy' = [copy EXCEPT ![c] = t] /\ pulling'.chan = c
    BY <1>3 DEF PullOnce
  <2>2. OfOneLife(c, t)
    BY <2>1, TakeFacts
  <2> HIDE DEF t
  <2> QED BY <1>2, <2>1, <2>2
<1>4. CASE PullBelow
  <2> DEFINE p == pulling
             c == p.chan
             t == take_under(c, Page(c, p.first - 1), p.knew)
             grew == Grew(c, t)
             k == IF grew THEN rederive(t) ELSE t
  <2>1. c \in Channels /\ MayPull(c) /\ UNCHANGED vars /\ copy' = [copy EXCEPT ![c] = k] /\ pulling' = None
    BY <1>4 DEF PullBelow, CopyInv
  <2>2. OfOneLife(c, t) /\ OfOneLife(c, rederive(t))
    BY <2>1, TakeFacts
  <2>3. OfOneLife(c, k)
    BY <2>2
  <2> HIDE DEF k, c
  <2> QED BY <1>2, <2>1, <2>3
<1>5. CASE PullEnds \/ LearnLineage \/ Restart \/ NewOriginKey
  <2>1. UNCHANGED <<copy, vars>> /\ (pulling' = None \/ pulling' = pulling)
    BY <1>5 DEF PullEnds, LearnLineage, Restart, NewOriginKey
  <2>2. LogInv' /\ spent' = spent
    BY <2>1, LogInvNext DEF CopyInv, vars
  <2>3. \A c \in Channels : OfOneLife(c, copy[c])'
    BY <2>1, <2>2, SaidGoesOn DEF CopyInv, OfOneLife
  <2> QED BY <2>1, <2>2, <2>3 DEF CopyInv
<1>6. CASE UNCHANGED allVars
  BY <1>1, <1>6 DEF allVars, copyVars
<1>7. CASE Next /\ UNCHANGED copyVars
  BY <1>1, <1>7 DEF copyVars
<1> QED BY <1>3, <1>4, <1>5, <1>6, <1>7 DEF CopyNext

(* A copy never mixes incarnations of a channel (`adopt`), whatever is     *)
(* pulled in whatever order, refused and pulled again, destroyed and       *)
(* created again at the origin meanwhile.                                  *)
THEOREM HoldsOneLifeAlways == CopySpec => []HoldsOneLife
<1>1. CopyInv => HoldsOneLife
  BY DEF CopyInv, OfOneLife, Said, HoldsOneLife
<1> QED BY <1>1, CopyInvInit, CopyInvNext, PTL DEF CopySpec

----------------------------------------------------------------------------
(* A copy's roster: the fold of the entries it holds.                      *)
NoOne == [a \in Accounts |-> None]

(* Entries of one log: one to a position.                                  *)
Numbered(rows) ==
  /\ \A e, f \in rows : e.seq = f.seq => e = f
  /\ \A e \in rows : e.seq \in 1..MaxSeq

(* The fold, entry by entry.                                               *)
RosterAt(rows, m, n) ==
  IF n \notin Seqs(rows) THEN m ELSE derive_membership(m, CHOOSE e \in rows : e.seq = n)

RosterFolding(rows, m, g, k) ==
  g = [n \in 0..k |-> IF n = 0 THEN m ELSE RosterAt(rows, g[n - 1], n)]

RosterRun(rows, m, g) == g[0] = m /\ \A n \in 1..MaxSeq : g[n] = RosterAt(rows, g[n - 1], n)

LEMMA RosterFoldingEnds == ASSUME NEW rows, NEW m, NEW k \in Nat PROVE \E g : RosterFolding(rows, m, g, k)
<1> DEFINE Good == {j \in Nat : \E g : RosterFolding(rows, m, g, j)}
<1>1. 0 \in Good
  <2> DEFINE g == [n \in 0..0 |-> m]
  <2>1. RosterFolding(rows, m, g, 0)
    BY DEF RosterFolding
  <2> QED
    BY <2>1
<1>2. ASSUME NEW j \in Nat, j \in Good PROVE j + 1 \in Good
  <2>1. PICK g : RosterFolding(rows, m, g, j)
    BY <1>2
  <2> DEFINE next == RosterAt(rows, g[j], j + 1)
             h == [n \in 0..(j + 1) |-> IF n = j + 1 THEN next ELSE g[n]]
  <2>2. ASSUME NEW n \in 0..(j + 1)
        PROVE  h[n] = IF n = 0 THEN m ELSE RosterAt(rows, h[n - 1], n)
    <3>1. CASE n = j + 1
      <4>1. h[n] = next /\ n # 0 /\ n - 1 \in 0..(j + 1) /\ n - 1 # j + 1 /\ n - 1 = j
        BY <3>1
      <4>2. h[n - 1] = g[j]
        BY <4>1
      <4> QED
        BY <3>1, <4>1, <4>2
    <3>2. CASE n = 0
      <4>1. g[0] = m
        BY <2>1 DEF RosterFolding
      <4> QED
        BY <3>2, <4>1
    <3>3. CASE n # j + 1 /\ n # 0
      <4>1. h[n] = g[n] /\ n \in 0..j /\ n - 1 \in 0..(j + 1) /\ n - 1 # j + 1
        BY <3>3
      <4>2. h[n - 1] = g[n - 1]
        BY <4>1
      <4>3. g[n] = RosterAt(rows, g[n - 1], n)
        BY <2>1, <3>3, <4>1 DEF RosterFolding
      <4> QED
        BY <3>3, <4>1, <4>2, <4>3
    <3> QED
      BY <3>1, <3>2, <3>3
  <2>3. h = [n \in 0..(j + 1) |-> h[n]]
    OBVIOUS
  <2> HIDE DEF h
  <2>4. RosterFolding(rows, m, h, j + 1)
    BY <2>2, <2>3 DEF RosterFolding
  <2> QED
    BY <2>4
<1> HIDE DEF Good
<1>3. Nat \subseteq Good
  BY <1>1, <1>2, NumberInduction
<1> QED
  BY <1>3 DEF Good

LEMMA RosterSteps ==
  ASSUME NEW rows, NEW m
  PROVE  \E g : RosterRun(rows, m, g) /\ RosterAfter(m, rows) = g[MaxSeq]
<1> DEFINE g == CHOOSE f : RosterFolding(rows, m, f, MaxSeq)
<1>0. MaxSeq \in Nat
  BY ChannelAssumption
<1>1. RosterFolding(rows, m, g, MaxSeq)
  BY <1>0, RosterFoldingEnds
<1>2. RosterAfter(m, rows) = g[MaxSeq]
  BY DEF RosterAfter, RosterFolding, RosterAt
<1> HIDE DEF g
<1>3. RosterRun(rows, m, g)
  BY <1>0, <1>1 DEF RosterFolding, RosterRun
<1> QED
  BY <1>2, <1>3

LEMMA AtEntry ==
  ASSUME NEW rows, Numbered(rows), NEW e \in rows, NEW m
  PROVE  RosterAt(rows, m, e.seq) = derive_membership(m, e)
<1>1. (CHOOSE f \in rows : f.seq = e.seq) = e
  BY DEF Numbered
<1>2. e.seq \in Seqs(rows)
  BY DEF Seqs
<1> QED
  BY <1>1, <1>2 DEF RosterAt

LEMMA NumberedSubset ==
  ASSUME NEW rows, Numbered(rows), NEW fewer \in SUBSET rows
  PROVE  Numbered(fewer)
BY DEF Numbered

(* Where there are no entries the roster stays as it is.                   *)
LEMMA RunIsLevel ==
  ASSUME NEW rows, NEW m, NEW g, RosterRun(rows, m, g), NEW lo \in 0..MaxSeq, NEW hi \in lo..MaxSeq,
         \A n \in (lo + 1)..hi : n \notin Seqs(rows)
  PROVE  g[hi] = g[lo]
<1>0. MaxSeq \in Nat
  BY ChannelAssumption
<1> DEFINE S == {j \in Nat : lo + j <= hi => g[lo + j] = g[lo]}
<1>1. 0 \in S
  BY <1>0
<1>2. ASSUME NEW j \in Nat, j \in S PROVE j + 1 \in S
  <2> SUFFICES ASSUME lo + (j + 1) <= hi PROVE g[lo + (j + 1)] = g[lo]
    OBVIOUS
  <2> DEFINE n == lo + (j + 1)
  <2>1. n \in 1..MaxSeq /\ n \in (lo + 1)..hi /\ n - 1 = lo + j /\ lo + j <= hi
    BY <1>0
  <2>2. g[n] = RosterAt(rows, g[n - 1], n) /\ n \notin Seqs(rows)
    BY <2>1 DEF RosterRun
  <2>3. g[n] = g[n - 1]
    BY <2>2 DEF RosterAt
  <2>4. g[lo + j] = g[lo]
    BY <1>2, <2>1
  <2> QED
    BY <2>1, <2>3, <2>4
<1> HIDE DEF S
<1>3. Nat \subseteq S
  BY <1>1, <1>2, NumberInduction
<1>4. hi - lo \in Nat /\ lo + (hi - lo) = hi
  BY <1>0
<1>5. hi - lo \in S
  BY <1>3, <1>4
<1> QED
  BY <1>4, <1>5 DEF S

(* Entries above those applied may be applied after them.                  *)
LEMMA FoldAppends ==
  ASSUME NEW m, NEW old, NEW new, Numbered(old \cup new),
         \A e \in old, f \in new : e.seq < f.seq
  PROVE  RosterAfter(RosterAfter(m, old), new) = RosterAfter(m, old \cup new)
<1>0. MaxSeq \in Nat
  BY ChannelAssumption
<1> DEFINE all == old \cup new
           mid == RosterAfter(m, old)
           Before(n) == \A r \in new : n < r.seq
<1>1. PICK g : RosterRun(old, m, g) /\ mid = g[MaxSeq]
  BY RosterSteps
<1>2. PICK h : RosterRun(new, mid, h) /\ RosterAfter(mid, new) = h[MaxSeq]
  BY RosterSteps
<1>3. PICK f : RosterRun(all, m, f) /\ RosterAfter(m, all) = f[MaxSeq]
  BY RosterSteps
<1>4. /\ Numbered(old) /\ Numbered(new) /\ Numbered(all)
      /\ \A e \in all : e.seq \in 1..MaxSeq
  BY NumberedSubset DEF Numbered
<1>5. Seqs(all) = Seqs(old) \cup Seqs(new)
  BY DEF Seqs
<1> HIDE DEF all, mid
<1>6. \A e \in old : e \in all
  BY DEF all
<1>7. \A e \in new : e \in all
  BY DEF all
<1> DEFINE S == {n \in Nat : n <= MaxSeq => IF Before(n) THEN f[n] = g[n] ELSE f[n] = h[n]}
<1>8. 0 \in S
  <2>1. Before(0)
    BY <1>4, <1>7
  <2> QED
    BY <1>1, <1>3, <2>1 DEF RosterRun
<1>9. ASSUME NEW n \in Nat, n \in S PROVE n + 1 \in S
  <2> SUFFICES ASSUME n + 1 <= MaxSeq PROVE IF Before(n + 1) THEN f[n + 1] = g[n + 1] ELSE f[n + 1] = h[n + 1]
    OBVIOUS
  <2>1. /\ n + 1 \in 1..MaxSeq /\ (n + 1) - 1 = n /\ n \in 0..MaxSeq
        /\ IF Before(n) THEN f[n] = g[n] ELSE f[n] = h[n]
    BY <1>0, <1>9
  <2>2. /\ f[n + 1] = RosterAt(all, f[n], n + 1)
        /\ g[n + 1] = RosterAt(old, g[n], n + 1)
        /\ h[n + 1] = RosterAt(new, h[n], n + 1)
    BY <1>1, <1>2, <1>3, <2>1 DEF RosterRun
  <2> HIDE DEF S
  <2>3. CASE Before(n + 1)
    <3>1. Before(n) /\ n + 1 \notin Seqs(new)
      <4>1. \A r \in new : r.seq \in Nat /\ n + 1 < r.seq
        BY <1>4, <1>7, <2>3
      <4> QED
        BY <4>1 DEF Seqs
    <3>2. CASE n + 1 \in Seqs(old)
      <4>1. PICK e \in old : e.seq = n + 1
        BY <3>2 DEF Seqs
      <4>2. f[n + 1] = derive_membership(f[n], e)
        BY <1>4, <1>6, <2>2, <4>1, AtEntry
      <4>3. g[n + 1] = derive_membership(g[n], e)
        BY <1>4, <2>2, <4>1, AtEntry
      <4> QED
        BY <2>1, <2>3, <3>1, <4>2, <4>3
    <3>3. CASE n + 1 \notin Seqs(old)
      BY <1>5, <2>1, <2>2, <2>3, <3>1, <3>3 DEF RosterAt
    <3> QED
      BY <3>2, <3>3
  <2>4. CASE ~Before(n + 1) /\ Before(n)
    <3>1. PICK r \in new : r.seq = n + 1
      <4>1. PICK r \in new : ~(n + 1 < r.seq)
        BY <2>4
      <4>2. n < r.seq /\ r.seq \in Nat
        BY <1>4, <1>7, <2>4
      <4> QED
        BY <4>1, <4>2
    <3>2. f[n + 1] = derive_membership(f[n], r)
      BY <1>4, <1>7, <2>2, <3>1, AtEntry
    <3>3. h[n + 1] = derive_membership(h[n], r)
      BY <1>4, <2>2, <3>1, AtEntry
    <3>4. h[n] = h[0]
      <4>1. \A k \in (0 + 1)..n : k \notin Seqs(new)
        BY <1>4, <1>7, <2>4 DEF Seqs
      <4>2. 0 \in 0..MaxSeq /\ n \in 0..MaxSeq
        BY <1>0, <2>1
      <4> QED
        BY <1>2, <4>1, <4>2, RunIsLevel
    <3>5. g[MaxSeq] = g[n]
      <4>1. \A e \in old : e.seq \in Nat /\ e.seq < n + 1
        BY <1>4, <1>6, <3>1
      <4>2. \A k \in (n + 1)..MaxSeq : k \notin Seqs(old)
        BY <4>1 DEF Seqs
      <4>3. MaxSeq \in n..MaxSeq
        BY <1>0, <2>1
      <4> QED
        BY <1>1, <2>1, <4>2, <4>3, RunIsLevel
    <3>6. h[0] = g[MaxSeq]
      BY <1>1, <1>2 DEF RosterRun
    <3> QED
      BY <2>1, <2>4, <3>2, <3>3, <3>4, <3>5, <3>6
  <2>5. CASE ~Before(n)
    <3>1. PICK r \in new : ~(n < r.seq)
      BY <2>5
    <3>2. r.seq \in Nat /\ r.seq <= n /\ ~Before(n + 1)
      BY <1>4, <1>7, <3>1
    <3>3. n + 1 \notin Seqs(old)
      <4>1. \A e \in old : e.seq \in Nat /\ e.seq < r.seq
        BY <1>4, <1>6
      <4> QED
        BY <3>2, <4>1 DEF Seqs
    <3>4. CASE n + 1 \in Seqs(new)
      <4>1. PICK e \in new : e.seq = n + 1
        BY <3>4 DEF Seqs
      <4>2. f[n + 1] = derive_membership(f[n], e)
        BY <1>4, <1>7, <2>2, <4>1, AtEntry
      <4>3. h[n + 1] = derive_membership(h[n], e)
        BY <1>4, <2>2, <4>1, AtEntry
      <4> QED
        BY <2>1, <2>5, <3>2, <4>2, <4>3
    <3>5. CASE n + 1 \notin Seqs(new)
      BY <1>5, <2>1, <2>2, <2>5, <3>2, <3>3, <3>5 DEF RosterAt
    <3> QED
      BY <3>4, <3>5
  <2> QED
    BY <2>3, <2>4, <2>5
<1> HIDE DEF S
<1>10. MaxSeq \in S
  <2>1. Nat \subseteq S
    BY <1>8, <1>9, NumberInduction
  <2> QED
    BY <1>0, <2>1
<1>11. CASE Before(MaxSeq)
  <2>1. \A k \in (0 + 1)..MaxSeq : k \notin Seqs(new)
    BY <1>0, <1>4, <1>7, <1>11 DEF Seqs
  <2>2. h[MaxSeq] = h[0]
    <3>1. 0 \in 0..MaxSeq /\ MaxSeq \in 0..MaxSeq
      BY <1>0
    <3> QED
      BY <1>2, <2>1, <3>1, RunIsLevel
  <2>3. h[0] = g[MaxSeq]
    BY <1>1, <1>2 DEF RosterRun
  <2>4. f[MaxSeq] = g[MaxSeq]
    BY <1>0, <1>10, <1>11 DEF S
  <2> QED
    BY <1>2, <1>3, <2>2, <2>3, <2>4 DEF mid, all
<1>12. CASE ~Before(MaxSeq)
  <2>1. f[MaxSeq] = h[MaxSeq]
    BY <1>0, <1>10, <1>12 DEF S
  <2> QED
    BY <1>2, <1>3, <2>1 DEF mid, all
<1> QED
  BY <1>11, <1>12

LEMMA FoldOfNothing == ASSUME NEW m PROVE RosterAfter(m, {}) = m
<1>0. MaxSeq \in Nat /\ 0 \in 0..MaxSeq /\ MaxSeq \in 0..MaxSeq
  BY ChannelAssumption
<1>1. PICK g : RosterRun({}, m, g) /\ RosterAfter(m, {}) = g[MaxSeq]
  BY RosterSteps
<1>2. \A n \in (0 + 1)..MaxSeq : n \notin Seqs({})
  BY DEF Seqs
<1>3. g[MaxSeq] = g[0]
  BY <1>0, <1>1, <1>2, RunIsLevel
<1> QED
  BY <1>1, <1>3 DEF RosterRun

LEMMA FoldOfOne ==
  ASSUME NEW m, NEW e, NEW at \in 1..MaxSeq, e.seq = at
  PROVE  RosterAfter(m, {e}) = derive_membership(m, e)
<1> DEFINE one == {e}
<1>0. MaxSeq \in Nat
  BY ChannelAssumption
<1>1. PICK g : RosterRun(one, m, g) /\ RosterAfter(m, one) = g[MaxSeq]
  BY RosterSteps
<1>2. Numbered(one) /\ \A n : n \in Seqs(one) => n = at
  BY DEF Numbered, Seqs
<1>8. e \in one
  OBVIOUS
<1> HIDE DEF one
<1>3. at - 1 \in 0..MaxSeq /\ at \in 0..MaxSeq /\ 0 \in 0..MaxSeq
  BY <1>0
<1>4. g[at - 1] = g[0]
  <2>1. \A n \in (0 + 1)..(at - 1) : n \notin Seqs(one)
    BY <1>0, <1>2
  <2>2. at - 1 \in 0..MaxSeq
    BY <1>3
  <2> QED
    BY <1>1, <1>3, <2>1, <2>2, RunIsLevel
<1>5. g[MaxSeq] = g[at]
  <2>1. \A n \in (at + 1)..MaxSeq : n \notin Seqs(one)
    BY <1>0, <1>2
  <2>2. MaxSeq \in at..MaxSeq
    BY <1>0
  <2> QED
    BY <1>1, <1>3, <2>1, <2>2, RunIsLevel
<1>6. g[at] = RosterAt(one, g[at - 1], at)
  BY <1>1 DEF RosterRun
<1>7. RosterAt(one, g[at - 1], at) = derive_membership(g[at - 1], e)
  BY <1>2, <1>8, AtEntry
<1> QED
  BY <1>1, <1>4, <1>5, <1>6, <1>7 DEF RosterRun, one

Absent(m, a) == Update(m, a, LAMBDA r : [r EXCEPT !.present = FALSE, !.muted = FALSE])
Marked(m, a, on) == Update(m, a, LAMBDA r : [r EXCEPT !.muted = on])

LEMMA MarkReads ==
  ASSUME NEW m \in Rosters, NEW a, NEW on \in BOOLEAN
  PROVE  /\ Absent(m, a) \in Rosters /\ Readers(Absent(m, a)) = Readers(m) \ {a}
         /\ Marked(m, a, on) \in Rosters /\ Readers(Marked(m, a, on)) = Readers(m)
<1> DEFINE x == IF m[a] = None THEN m[a] ELSE [m[a] EXCEPT !.present = FALSE, !.muted = FALSE]
           y == IF m[a] = None THEN m[a] ELSE [m[a] EXCEPT !.muted = on]
           gone == [m EXCEPT ![a] = x]
           told == [m EXCEPT ![a] = y]
<1>1. Absent(m, a) = gone /\ Marked(m, a, on) = told
  BY DEF Absent, Marked, Update
<1>2. CASE a \notin Accounts
  <2>1. gone = m /\ told = m
    BY <1>2 DEF Rosters
  <2>2. Readers(m) \ {a} = Readers(m)
    BY <1>2 DEF Readers
  <2> HIDE DEF gone, told
  <2> QED
    BY <1>1, <2>1, <2>2
<1>3. CASE a \in Accounts
  <2>1. m[a] \in MemberRow \cup {None}
    BY <1>3 DEF Rosters
  <2>2. y \in MemberRow \cup {None} /\ (m[a] = None <=> y = None) /\ (m[a] # None => y.present = m[a].present)
    <3>1. ASSUME NEW r \in MemberRow
          PROVE  [r EXCEPT !.muted = on] \in MemberRow /\ [r EXCEPT !.muted = on].present = r.present
      BY DEF MemberRow
    <3> QED
      BY <2>1, <3>1, NoneIsNoRow
  <2>3. x \in MemberRow \cup {None} /\ (x = None \/ ~x.present)
    <3>1. ASSUME NEW r \in MemberRow
          PROVE  /\ [r EXCEPT !.present = FALSE, !.muted = FALSE] \in MemberRow
                 /\ ~[r EXCEPT !.present = FALSE, !.muted = FALSE].present
      <4> DEFINE q == [r EXCEPT !.present = FALSE]
      <4>1. q \in MemberRow /\ ~q.present
        BY DEF MemberRow
      <4>2. [q EXCEPT !.muted = FALSE] \in MemberRow /\ ~[q EXCEPT !.muted = FALSE].present
        <5> HIDE DEF q
        <5> QED
          BY <4>1 DEF MemberRow
      <4> QED
        BY <4>2
    <3> QED
      BY <2>1, <3>1
  <2> HIDE DEF x, y
  <2>4. gone \in Rosters /\ gone[a] = x /\ \A b \in Accounts \ {a} : gone[b] = m[b]
    BY <1>3, <2>3 DEF Rosters
  <2>5. told \in Rosters /\ told[a] = y /\ \A b \in Accounts \ {a} : told[b] = m[b]
    BY <1>3, <2>2 DEF Rosters
  <2> HIDE DEF gone, told
  <2>6. Readers(gone) = Readers(m) \ {a}
    BY <2>3, <2>4 DEF Readers
  <2>7. Readers(told) = Readers(m)
    BY <1>3, <2>2, <2>5 DEF Readers
  <2> QED
    BY <1>1, <2>4, <2>5, <2>6, <2>7
<1> QED
  BY <1>2, <1>3

LEMMA DeriveReads ==
  ASSUME NEW m \in Rosters, NEW e
  PROVE  /\ derive_membership(m, e) \in Rosters
         /\ Readers(derive_membership(m, e)) = Heard(Readers(m), e.kind, e.subject)
<1> DEFINE d == derive_membership(m, e)
           a == e.subject
<1>1. CASE e.kind = "created"
  <2>1. d = Appoint(m, a, "admin")
    BY <1>1 DEF derive_membership
  <2> QED
    BY <1>1, <2>1, SeatReads DEF Heard, Arriving
<1>2. CASE e.kind \in {"added", "joined"}
  <2> DEFINE s == Seat(m, a, "member")
  <2>1. d = Marked(s, a, FALSE)
    BY <1>2 DEF derive_membership, Marked
  <2>2. s \in Rosters /\ Readers(s) = Readers(m) \cup ({a} \cap Accounts)
    BY SeatReads
  <2> HIDE DEF s
  <2>3. Marked(s, a, FALSE) \in Rosters /\ Readers(Marked(s, a, FALSE)) = Readers(s)
    BY <2>2, MarkReads
  <2> QED
    BY <1>2, <2>1, <2>2, <2>3 DEF Heard, Arriving
<1>3. CASE e.kind \in {"muted", "unmuted"}
  <2> DEFINE on == e.kind = "muted"
  <2>1. d = Marked(m, a, on)
    BY <1>3 DEF derive_membership, Marked
  <2>2. on \in BOOLEAN
    OBVIOUS
  <2> HIDE DEF on
  <2>3. Marked(m, a, on) \in Rosters /\ Readers(Marked(m, a, on)) = Readers(m)
    BY <2>2, MarkReads
  <2> QED
    BY <1>3, <2>1, <2>3 DEF Heard, Arriving, Leaving
<1>4. CASE e.kind = "promoted"
  <2>1. d = Seat(m, a, "admin")
    BY <1>4 DEF derive_membership
  <2> QED
    BY <1>4, <2>1, SeatReads DEF Heard, Arriving
<1>5. CASE e.kind = "demoted"
  <2>1. d = Seat(m, a, "member")
    BY <1>5 DEF derive_membership
  <2> QED
    BY <1>5, <2>1, SeatReads DEF Heard, Arriving
<1>6. CASE e.kind \in {"left", "removed"}
  <2>1. d = Absent(m, a)
    BY <1>6 DEF derive_membership, Absent
  <2>2. Absent(m, a) \in Rosters /\ Readers(Absent(m, a)) = Readers(m) \ {a}
    BY MarkReads
  <2> QED
    BY <1>6, <2>1, <2>2 DEF Heard, Arriving, Leaving
<1>7. CASE e.kind \notin Arriving \cup Leaving \cup {"muted", "unmuted"}
  <2>1. d = m
    BY <1>7 DEF derive_membership, Arriving, Leaving
  <2> QED
    BY <1>7, <2>1 DEF Heard
<1> QED
  BY <1>1, <1>2, <1>3, <1>4, <1>5, <1>6, <1>7 DEF Arriving, Leaving

LEMMA FoldIsRoster == ASSUME NEW m \in Rosters, NEW rows PROVE RosterAfter(m, rows) \in Rosters
<1>0. MaxSeq \in Nat
  BY ChannelAssumption
<1>1. PICK g : RosterRun(rows, m, g) /\ RosterAfter(m, rows) = g[MaxSeq]
  BY RosterSteps
<1> DEFINE S == {n \in Nat : n <= MaxSeq => g[n] \in Rosters}
<1>2. 0 \in S
  BY <1>1 DEF RosterRun
<1>3. ASSUME NEW n \in Nat, n \in S PROVE n + 1 \in S
  <2> SUFFICES ASSUME n + 1 <= MaxSeq PROVE g[n + 1] \in Rosters
    OBVIOUS
  <2>1. n + 1 \in 1..MaxSeq /\ (n + 1) - 1 = n /\ g[n] \in Rosters
    BY <1>0, <1>3
  <2>2. g[n + 1] = RosterAt(rows, g[n], n + 1)
    BY <1>1, <2>1 DEF RosterRun
  <2> QED
    BY <2>1, <2>2, DeriveReads DEF RosterAt
<1> HIDE DEF S
<1>4. Nat \subseteq S
  BY <1>2, <1>3, NumberInduction
<1> QED
  BY <1>0, <1>1, <1>4 DEF S

(* Where everybody only arrives, the readers are who arrived.              *)
LEMMA Arrivals ==
  ASSUME NEW m \in Rosters, NEW rows, Numbered(rows),
         \A e \in rows : e.kind \in Arriving /\ e.subject \in Accounts
  PROVE  Readers(RosterAfter(m, rows)) = Readers(m) \cup {e.subject : e \in rows}
<1>0. MaxSeq \in Nat
  BY ChannelAssumption
<1>1. PICK g : RosterRun(rows, m, g) /\ RosterAfter(m, rows) = g[MaxSeq]
  BY RosterSteps
<1> DEFINE Upto(n) == {e \in rows : e.seq <= n}
           Came(n) == {e.subject : e \in Upto(n)}
           S == {n \in Nat : n <= MaxSeq => g[n] \in Rosters /\ Readers(g[n]) = Readers(m) \cup Came(n)}
<1>2. 0 \in S
  <2>1. Upto(0) = {}
    BY DEF Numbered
  <2>2. Came(0) = {}
    BY <2>1
  <2>3. g[0] = m
    BY <1>1 DEF RosterRun
  <2> HIDE DEF Came
  <2> QED
    BY <2>2, <2>3
<1>3. ASSUME NEW n \in Nat, n \in S PROVE n + 1 \in S
  <2> SUFFICES ASSUME n + 1 <= MaxSeq
               PROVE  g[n + 1] \in Rosters /\ Readers(g[n + 1]) = Readers(m) \cup Came(n + 1)
    OBVIOUS
  <2>1. n + 1 \in 1..MaxSeq /\ (n + 1) - 1 = n /\ g[n] \in Rosters /\ Readers(g[n]) = Readers(m) \cup Came(n)
    BY <1>0, <1>3
  <2>2. g[n + 1] = RosterAt(rows, g[n], n + 1)
    BY <1>1, <2>1 DEF RosterRun
  <2>3. \A e \in rows : e.seq \in Nat
    BY DEF Numbered
  <2>4. CASE n + 1 \in Seqs(rows)
    <3>1. PICK e \in rows : e.seq = n + 1
      BY <2>4 DEF Seqs
    <3>2. g[n + 1] = derive_membership(g[n], e)
      BY <2>2, <3>1, AtEntry
    <3>3. g[n + 1] \in Rosters /\ Readers(g[n + 1]) = Readers(g[n]) \cup {e.subject}
      BY <2>1, <3>2, DeriveReads DEF Heard
    <3>4. Came(n + 1) = Came(n) \cup {e.subject}
      <4>1. Upto(n + 1) = Upto(n) \cup {e}
        BY <2>3, <3>1 DEF Numbered
      <4> HIDE DEF Upto
      <4> QED
        BY <4>1
    <3> HIDE DEF Came
    <3> QED
      BY <2>1, <3>3, <3>4
  <2>5. CASE n + 1 \notin Seqs(rows)
    <3>1. g[n + 1] = g[n]
      BY <2>2, <2>5 DEF RosterAt
    <3>2. Upto(n + 1) = Upto(n)
      BY <2>3, <2>5 DEF Seqs
    <3> HIDE DEF Upto
    <3> QED
      BY <2>1, <3>1, <3>2
  <2> QED
    BY <2>4, <2>5
<1>4. MaxSeq \in S
  <2> HIDE DEF S
  <2>1. Nat \subseteq S
    BY <1>2, <1>3, NumberInduction
  <2> QED
    BY <1>0, <2>1
<1>5. Upto(MaxSeq) = rows
  BY <1>0 DEF Numbered
<1>6. Came(MaxSeq) = {e.subject : e \in rows}
  BY <1>5
<1> HIDE DEF Came
<1> QED
  BY <1>0, <1>1, <1>4, <1>6

LEMMA MinFacts ==
  ASSUME NEW T, T \subseteq Nat, T # {}
  PROVE  Min(T) \in T /\ \A x \in T : Min(T) <= x
<1>1. PICK x \in T : \A y \in T : x <= y
  BY LeastNumber
<1> QED
  BY <1>1 DEF Min

LEMMA NumberedFacts ==
  ASSUME NEW rows, Numbered(rows)
  PROVE  /\ MaxSeq \in Nat /\ Seqs(rows) \subseteq Nat /\ Seqs(rows) \subseteq 1..MaxSeq
         /\ IsFiniteSet(rows)
<1>1. MaxSeq \in Nat
  BY ChannelAssumption
<1>2. Seqs(rows) \subseteq 1..MaxSeq
  BY DEF Numbered, Seqs
<1> DEFINE f == [e \in rows |-> e.seq]
           T == 1..MaxSeq
<1>3. f \in [rows -> T] /\ \A e, g \in rows : f[e] = f[g] => e = g
  BY DEF Numbered
<1>4. f \in Injection(rows, T)
  <2> HIDE DEF f, T
  <2> QED
    BY <1>3 DEF Injection, IsInjective
<1>5. IsFiniteSet(T)
  BY <1>1, FS_Interval
<1>6. IsFiniteSet(rows)
  <2> HIDE DEF f, T
  <2> QED
    BY <1>4, <1>5, FS_Injection
<1>7. Seqs(rows) \subseteq Nat
  BY <1>1, <1>2
<1> QED
  BY <1>1, <1>2, <1>6, <1>7

LEMMA HighestFacts ==
  ASSUME NEW k, Numbered(k.held)
  PROVE  /\ highest(k) \in Nat /\ (\A e \in k.held : e.seq <= highest(k))
         /\ k.held = {} => highest(k) = 0
         /\ k.held # {} => \E e \in k.held : e.seq = highest(k)
<1> DEFINE T == {0} \cup Seqs(k.held)
<1>1. MaxSeq \in Nat /\ Seqs(k.held) \subseteq Nat /\ Seqs(k.held) \subseteq 1..MaxSeq
  BY NumberedFacts
<1>2. T \subseteq Nat /\ T # {} /\ \A x \in T : x <= MaxSeq
  BY <1>1
<1>3. \A e \in k.held : e.seq \in T
  BY DEF Seqs
<1>4. k.held = {} => T = {0}
  BY DEF Seqs
<1>5. highest(k) = Max(T)
  BY DEF highest
<1> HIDE DEF T
<1>6. PICK x \in T : \A y \in T : y <= x
  BY <1>1, <1>2, GreatestBelow
<1>7. Max(T) \in T /\ \A y \in T : y <= Max(T)
  BY <1>2, <1>6 DEF Max
<1>8. k.held # {} => highest(k) # 0
  BY <1>2, <1>3, <1>5, <1>7 DEF Numbered
<1>9. highest(k) # 0 => \E e \in k.held : e.seq = highest(k)
  BY <1>5, <1>7 DEF T, Seqs
<1> QED
  BY <1>2, <1>3, <1>4, <1>5, <1>7, <1>8, <1>9

LEMMA LowestFacts ==
  ASSUME NEW k, Numbered(k.held)
  PROVE  /\ k.held # {} => lowest(k) \in Nat /\ \A e \in k.held : lowest(k) <= e.seq
         /\ k.held = {} => lowest(k) = 0
<1>1. CASE k.held = {}
  BY <1>1 DEF lowest
<1>2. CASE k.held # {}
  <2>1. Seqs(k.held) \subseteq Nat /\ Seqs(k.held) # {}
    BY <1>2, NumberedFacts DEF Seqs
  <2>2. Min(Seqs(k.held)) \in Seqs(k.held) /\ \A x \in Seqs(k.held) : Min(Seqs(k.held)) <= x
    BY <2>1, MinFacts
  <2>3. lowest(k) = Min(Seqs(k.held))
    BY <1>2 DEF lowest
  <2>4. \A e \in k.held : e.seq \in Seqs(k.held)
    BY DEF Seqs
  <2> QED
    BY <1>2, <2>1, <2>2, <2>3, <2>4
<1> QED
  BY <1>1, <1>2

(* One page holds a whole log.                                             *)
OnePage == MaxSeq <= MAX_PULL

(* A page is a stretch of the log.                                         *)
LEMMA PageFacts ==
  ASSUME NEW c, Numbered(db[c].entry), NEW since \in Int
  PROVE  /\ Page(c, since) \subseteq db[c].entry /\ \A e \in Page(c, since) : e.seq > since
         /\ \A e \in db[c].entry \ Page(c, since), f \in Page(c, since) : e.seq > since => e.seq > f.seq
         /\ OnePage => \A e \in db[c].entry : e.seq > since => e \in Page(c, since)
         /\ \A e \in db[c].entry :
              e.seq > since /\ (\A f \in db[c].entry : f.seq > since => e.seq <= f.seq)
                => e \in Page(c, since)
<1> DEFINE after == {e \in db[c].entry : e.seq > since}
           upto(e) == {f \in after : f.seq <= e.seq}
           page == Page(c, since)
<1>0. MAX_PULL \in Nat \ {0} /\ MaxSeq \in Nat
  BY ChannelAssumption, CopyAssumption
<1>1. page = {e \in after : Cardinality(upto(e)) <= MAX_PULL}
  BY DEF Page
<1>2. after \subseteq db[c].entry /\ \A e \in db[c].entry : e.seq \in Nat /\ (e \in after <=> e.seq > since)
  BY <1>0 DEF Numbered
<1>3. Numbered(after) /\ \A e : upto(e) \subseteq after /\ Numbered(upto(e))
  BY NumberedSubset
<1>4. IsFiniteSet(after) /\ \A e : IsFiniteSet(upto(e)) /\ Cardinality(upto(e)) \in Nat
  <2>1. IsFiniteSet(after)
    BY <1>3, NumberedFacts
  <2> QED
    BY <1>3, <2>1, FS_Subset, FS_CardinalityType
<1>5. \A e, f \in after : e.seq <= f.seq => upto(e) \subseteq upto(f)
  BY <1>2
<1>6. \A e \in after : (\A f \in after : e.seq <= f.seq) => upto(e) = {e}
  BY <1>2 DEF Numbered
<1> HIDE DEF page, after, upto
<1>7. page \subseteq db[c].entry /\ \A e \in page : e.seq > since
  BY <1>1, <1>2
<1>8. ASSUME NEW e \in db[c].entry \ page, NEW f \in page, e.seq > since PROVE e.seq > f.seq
  <2> SUFFICES ASSUME e.seq <= f.seq PROVE FALSE
    BY <1>2, <1>7
  <2>1. e \in after /\ f \in after
    BY <1>1, <1>2, <1>8
  <2>2. upto(e) \subseteq upto(f)
    BY <1>5, <2>1
  <2>3. Cardinality(upto(e)) <= Cardinality(upto(f))
    BY <1>4, <2>2, FS_Subset
  <2> QED
    BY <1>0, <1>1, <1>4, <1>8, <2>1, <2>3
<1>9. ASSUME OnePage, NEW e \in db[c].entry, e.seq > since PROVE e \in page
  <2> DEFINE T == 1..MaxSeq
             g == [f \in upto(e) |-> f.seq]
  <2>1. g \in [upto(e) -> T] /\ \A x, y \in upto(e) : g[x] = g[y] => x = y
    BY <1>3 DEF Numbered
  <2>2. IsFiniteSet(T) /\ Cardinality(T) = MaxSeq
    BY <1>0, FS_Interval
  <2> HIDE DEF g, T
  <2>3. g \in Injection(upto(e), T)
    BY <2>1 DEF Injection, IsInjective
  <2>4. Cardinality(upto(e)) <= Cardinality(T)
    BY <2>2, <2>3, FS_Injection
  <2>5. e \in after
    BY <1>2, <1>9
  <2> QED
    BY <1>0, <1>1, <1>4, <1>9, <2>2, <2>4, <2>5 DEF OnePage
<1>10. ASSUME NEW e \in db[c].entry, e.seq > since,
              \A f \in db[c].entry : f.seq > since => e.seq <= f.seq
       PROVE  e \in page
  <2>1. e \in after /\ upto(e) = {e}
    BY <1>2, <1>6, <1>10
  <2>2. Cardinality(upto(e)) = 1
    BY <2>1, FS_Singleton
  <2> QED
    BY <1>0, <1>1, <2>1, <2>2
<1> QED
  BY <1>7, <1>8, <1>9, <1>10 DEF page

----------------------------------------------------------------------------
(* What the rows of a log say of the tables s, when they are all of it.    *)
Rotations(rows) == {e \in rows : e.kind = "rotated"}
Tells(s, rows) ==
  /\ s.row.next \in 1..(MaxSeq + 1) /\ Numbered(rows) /\ \A e \in rows : e.seq < s.row.next
  /\ Seqs(rows) = 1..(s.row.next - 1) =>
       /\ Readers(RosterAfter(NoOne, rows)) = Readers(s.member)
       /\ s.row.epoch = Cardinality(Rotations(rows))

LEMMA TellsLess ==
  ASSUME NEW s, NEW rows, Tells(s, rows), NEW fewer \in SUBSET rows
  PROVE  Tells(s, fewer)
<1>1. Numbered(fewer) /\ \A e \in fewer : e.seq < s.row.next
  BY NumberedSubset DEF Tells
<1>2. Seqs(fewer) = 1..(s.row.next - 1) => fewer = rows
  <2> SUFFICES ASSUME Seqs(fewer) = 1..(s.row.next - 1), NEW e \in rows PROVE e \in fewer
    OBVIOUS
  <2>1. MaxSeq \in Nat
    BY ChannelAssumption
  <2>2. e.seq \in 1..(s.row.next - 1)
    BY <2>1 DEF Tells, Numbered
  <2>3. PICK f \in fewer : f.seq = e.seq
    BY <2>2 DEF Seqs
  <2> QED
    BY <2>3 DEF Tells, Numbered
<1> QED
  BY <1>1, <1>2 DEF Tells

LEMMA RotationsFacts ==
  ASSUME NEW rows, Numbered(rows)
  PROVE  IsFiniteSet(Rotations(rows)) /\ Cardinality(Rotations(rows)) \in Nat
<1>1. IsFiniteSet(rows) /\ Rotations(rows) \subseteq rows
  BY NumberedFacts DEF Rotations
<1> QED
  BY <1>1, FS_Subset, FS_CardinalityType

LEMMA NoOneFacts == NoOne \in Rosters /\ Readers(NoOne) = {}
BY DEF NoOne, Rosters, Readers

(* One more entry tells what it did.                                       *)
LEMMA TellsOn ==
  ASSUME NEW s \in Tables, NEW t \in Tables, s.row # None, t.row # None, Records(s, t),
         t.row.next <= MaxSeq + 1 \/ t.row.next = s.row.next,
         NEW rows, Tells(s, rows), s.entry \subseteq rows
  PROVE  Tells(t, rows \cup t.entry)
<1>0. MaxSeq \in Nat /\ s.row.next \in 1..(MaxSeq + 1) /\ Numbered(rows)
  BY ChannelAssumption DEF Tells
<1>1. CASE WroteNothing(s, t)
  <2>1. rows \cup t.entry = rows
    BY <1>1 DEF WroteNothing
  <2> QED
    BY <1>1, <2>1 DEF WroteNothing, Tells
<1>2. ASSUME NEW n \in t.entry, Wrote(s, t, n) PROVE Tells(t, rows \cup t.entry)
  <2> DEFINE at == n.seq
             one == {n}
             all == rows \cup one
             m == RosterAfter(NoOne, rows)
  <2>1. /\ at = s.row.next /\ t.row.next = at + 1 /\ at \in 1..MaxSeq
        /\ rows \cup t.entry = all
    BY <1>0, <1>2 DEF Wrote
  <2>2. \A e \in rows : e.seq < at /\ e.seq \in 1..MaxSeq
    BY <2>1 DEF Tells, Numbered
  <2>3. n \notin rows
    BY <2>1, <2>2
  <2>4. Numbered(all) /\ \A e \in all : e.seq < t.row.next
    BY <1>0, <2>1, <2>2 DEF Numbered
  <2>5. Seqs(all) = Seqs(rows) \cup {at}
    BY DEF Seqs
  <2>6. Seqs(rows) \subseteq 1..(at - 1)
    BY <2>1, <2>2 DEF Seqs
  <2>7. Seqs(all) = 1..at => Seqs(rows) = 1..(at - 1)
    <3> SUFFICES ASSUME Seqs(all) = 1..at PROVE 1..(at - 1) \subseteq Seqs(rows)
      BY <2>6
    <3> HIDE DEF all, at
    <3>1. ASSUME NEW x \in 1..(at - 1) PROVE x \in Seqs(all) /\ x # at
      BY <1>0, <2>1
    <3> QED
      BY <2>5, <3>1
  <2>8. m \in Rosters
    BY NoOneFacts, FoldIsRoster
  <2>9. RosterAfter(m, one) = derive_membership(m, n)
    BY <2>1, FoldOfOne
  <2>10. RosterAfter(m, one) = RosterAfter(NoOne, all)
    <3>1. \A e \in rows, f \in one : e.seq < f.seq
      BY <2>2
    <3> HIDE DEF one
    <3> QED
      BY <2>4, <3>1, FoldAppends DEF all, m
  <2>11. Readers(derive_membership(m, n)) = Heard(Readers(m), n.kind, n.subject)
    BY <2>8, DeriveReads
  <2>12. IsFiniteSet(Rotations(rows)) /\ Cardinality(Rotations(rows)) \in Nat
    BY <1>0, RotationsFacts
  <2>13. Cardinality(Rotations(all)) = Cardinality(Rotations(rows)) + (IF n.kind = "rotated" THEN 1 ELSE 0)
    <3>1. CASE n.kind = "rotated"
      <4>1. Rotations(all) = Rotations(rows) \cup {n} /\ n \notin Rotations(rows)
        BY <2>3, <3>1 DEF Rotations
      <4>2. Cardinality(Rotations(rows) \cup {n}) = Cardinality(Rotations(rows)) + 1
        BY <2>12, <4>1, FS_AddElement
      <4> QED
        BY <3>1, <4>1, <4>2
    <3>2. CASE n.kind # "rotated"
      <4>1. Rotations(all) = Rotations(rows)
        BY <3>2 DEF Rotations
      <4> QED
        BY <2>12, <3>2, <4>1
    <3> QED
      BY <3>1, <3>2
  <2> HIDE DEF all, m, at, one
  <2>14. ASSUME Seqs(all) = 1..at
         PROVE  /\ Readers(RosterAfter(NoOne, all)) = Readers(t.member)
                /\ t.row.epoch = Cardinality(Rotations(all))
    <3>1. Readers(m) = Readers(s.member) /\ s.row.epoch = Cardinality(Rotations(rows))
      BY <2>1, <2>7, <2>14 DEF Tells, m
    <3>2. /\ Readers(t.member) = Heard(Readers(s.member), n.kind, n.subject)
          /\ t.row.epoch = s.row.epoch + (IF n.kind = "rotated" THEN 1 ELSE 0)
      BY <1>2 DEF Wrote
    <3> QED
      BY <2>9, <2>10, <2>11, <2>13, <3>1, <3>2
  <2>15. t.row.next \in 1..(MaxSeq + 1) /\ t.row.next - 1 = at
    BY <1>0, <2>1
  <2>16. Tells(t, all)
    BY <2>4, <2>14, <2>15 DEF Tells
  <2> QED
    BY <2>1, <2>16
<1> QED
  BY <1>1, <1>2 DEF Records

(* A chain of signatures with no gap seats the first invitees.             *)
LEMMA SeatedIsPrefix ==
  ASSUME NEW a \in Accounts, NEW invites \in InviteLists, ChainHolds(a, invites)
  PROVE  1..Cardinality(Seated(a, invites)) \subseteq Seated(a, invites)
<1> DEFINE seated == Seated(a, invites)
           size == Cardinality(seated)
<1>1. seated \subseteq 1..Len(invites) /\ Len(invites) \in Nat /\ size \in Nat
  BY SeatedFacts
<1>2. \A i \in seated : \A j \in 1..i : j \in seated
  BY DEF ChainHolds
<1> HIDE DEF seated
<1> SUFFICES ASSUME NEW n \in 1..size, n \notin seated PROVE FALSE
  BY DEF seated
<1>3. seated \subseteq 1..(n - 1)
  <2> SUFFICES ASSUME NEW i \in seated PROVE i \in 1..(n - 1)
    OBVIOUS
  <2>1. i \in Nat /\ i >= 1 /\ n \in Nat /\ n >= 1
    BY <1>1
  <2>2. n <= i => n \in 1..i
    BY <2>1
  <2>3. ~(n <= i)
    BY <1>2, <2>2
  <2> QED
    BY <2>1, <2>3
<1>4. IsFiniteSet(1..(n - 1)) /\ Cardinality(1..(n - 1)) = n - 1
  <2> DEFINE b == n - 1
  <2>1. b \in Nat
    BY <1>1
  <2> HIDE DEF b
  <2>2. IsFiniteSet(1..b) /\ Cardinality(1..b) = b
    BY <2>1, FS_Interval
  <2> QED
    BY <2>2 DEF b
<1>5. size <= n - 1
  BY <1>3, <1>4, FS_Subset
<1> QED
  BY <1>1, <1>5

(* The log of a new channel tells its roster. *)
LEMMA FoundedTells ==
  ASSUME NEW d \in Devices, NEW vis \in Visibilities, NEW ret \in Retentions, NEW cap \in Caps,
         NEW invites \in InviteLists, NEW inst \in Instances, now \in Nat,
         ChainHolds(AccountOf[d], invites),
         Founded(d, vis, ret, cap, invites, inst).row.next <= MaxSeq + 1
  PROVE  LET t == Founded(d, vis, ret, cap, invites, inst)
         IN Tells(t, t.entry) /\ \A n \in 1..(t.row.next - 1) : \E e \in t.entry : e.seq = n
<1> DEFINE a == AccountOf[d]
           seated == Seated(a, invites)
           size == Cardinality(seated)
           t == Founded(d, vis, ret, cap, invites, inst)
           subject(i) == IF i = 0 THEN a ELSE invites[i].account
           entry(i) == [seq |-> i + 1, kind |-> IF i = 0 THEN "created" ELSE "added",
                        subject |-> subject(i), dev |-> d, pos |-> i,
                        posted |-> now, ttl |-> 0, epoch |-> 0, msg |-> 0]
           first(b) == CHOOSE i \in seated : /\ invites[i].account = b
                                             /\ \A j \in seated : invites[j].account = b => i <= j
           member == [b \in Accounts |->
                        IF b = a THEN NewMember("admin")
                        ELSE IF \E i \in seated : invites[i].account = b
                             THEN NewMember(invites[first(b)].role) ELSE None]
<1>0. a \in Accounts /\ MaxSeq \in Nat
  BY ConstantFacts, ChannelAssumption
<1>1. /\ seated \subseteq 1..Len(invites) /\ Len(invites) \in Nat /\ size \in Nat
      /\ \A i \in seated : invites[i].account \in Accounts
      /\ \A i \in seated : i <= size
      /\ 1..size \subseteq seated
  BY <1>0, SeatedFacts, SeatedIsPrefix
<1>2. /\ t.row.next = 2 + size /\ t.row.epoch = 0 /\ t.member = member
      /\ t.entry = {entry(i) : i \in {0} \cup seated}
  BY DEF Founded
<1>3. \A i \in {0} \cup seated :
        /\ i \in Nat /\ i <= size /\ entry(i) \in t.entry /\ subject(i) \in Accounts
        /\ entry(i).seq = i + 1 /\ entry(i).kind \in Arriving /\ entry(i).kind # "rotated"
        /\ entry(i).subject = subject(i)
  <2> TAKE i \in {0} \cup seated
  <2>1. i \in Nat /\ i <= size /\ subject(i) \in Accounts
    <3> HIDE DEF seated
    <3> QED
      BY <1>0, <1>1
  <2>2. entry(i) \in t.entry
    <3> HIDE DEF t, entry
    <3> QED
      BY <1>2
  <2>3. entry(i).seq = i + 1 /\ entry(i).kind = (IF i = 0 THEN "created" ELSE "added") /\ entry(i).subject = subject(i)
    OBVIOUS
  <2> HIDE DEF entry, t, subject
  <2> QED
    BY <2>1, <2>2, <2>3 DEF Arriving
<1>4. \A e \in t.entry : \E i \in {0} \cup seated : e = entry(i)
  BY <1>2
<1>5. Readers(member) = {subject(i) : i \in {0} \cup seated}
  <2>1. \A b \in Accounts : member[b] # None /\ member[b].present <=> \E i \in {0} \cup seated : b = subject(i)
    <3> TAKE b \in Accounts
    <3>1. \A r : NewMember(r).present
      BY DEF NewMember
    <3>2. b = a \/ (\E i \in seated : invites[i].account = b) <=> \E i \in {0} \cup seated : b = subject(i)
      BY <1>1
    <3>3. b # a /\ ~(\E i \in seated : invites[i].account = b) => member[b] = None
      OBVIOUS
    <3>4. b = a => member[b] = NewMember("admin")
      OBVIOUS
    <3>5. b # a /\ (\E i \in seated : invites[i].account = b) =>
            \E r \in {"admin", "member"} : member[b] = NewMember(r)
      <4> SUFFICES ASSUME b # a, \E i \in seated : invites[i].account = b
                   PROVE  \E r \in {"admin", "member"} : member[b] = NewMember(r)
        OBVIOUS
      <4> DEFINE T == {i \in seated : invites[i].account = b}
      <4>1. T \subseteq Nat /\ T # {}
        BY <1>1
      <4>2. \E i \in T : \A j \in T : i <= j
        <5> HIDE DEF T
        <5> QED
          BY <4>1, LeastNumber
      <4>3. first(b) \in seated
        BY <4>2
      <4> HIDE DEF first
      <4>4. invites[first(b)].role \in {"admin", "member"}
        BY <1>0, <4>3, SeatedFacts, ConstantFacts
      <4>5. member[b] = NewMember(invites[first(b)].role)
        OBVIOUS
      <4> HIDE DEF member
      <4> QED
        BY <4>4, <4>5
    <3>6. \A r \in {"admin", "member"} : NewMember(r) # None
      <4>1. \A r \in {"admin", "member"} : NewMember(r) \in MemberRow
        BY DEF NewMember, MemberRow
      <4> QED
        BY <4>1, NoneIsNoRow
    <3> HIDE DEF member
    <3> QED
      BY <3>1, <3>2, <3>3, <3>4, <3>5, <3>6
  <2>2. \A i \in {0} \cup seated : subject(i) \in Accounts
    BY <1>3
  <2> DEFINE S == {subject(i) : i \in {0} \cup seated}
  <2>3. \A b : b \in S <=> \E i \in {0} \cup seated : b = subject(i)
    OBVIOUS
  <2>4. \A b \in S : b \in Accounts
    BY <2>2, <2>3
  <2> HIDE DEF S
  <2>5. \A b \in Accounts : b \in S <=> member[b] # None /\ member[b].present
    BY <2>1, <2>3
  <2> HIDE DEF member, subject, seated
  <2>6. Readers(member) = S
    BY <2>4, <2>5 DEF Readers
  <2> QED
    BY <2>6 DEF S
<1> HIDE DEF entry, subject, member, t, seated
<1>6. \A e \in t.entry : \E i \in {0} \cup seated : e.seq = i + 1 /\ e = entry(i)
  BY <1>3, <1>4
<1>7. Numbered(t.entry) /\ \A e \in t.entry : e.seq < t.row.next
  <2>1. 2 + size <= MaxSeq + 1
    BY <1>2 DEF t
  <2>2. ASSUME NEW e \in t.entry PROVE e.seq \in 1..MaxSeq /\ e.seq < t.row.next
    <3>1. PICK i \in {0} \cup seated : e.seq = i + 1 /\ e = entry(i)
      BY <1>6
    <3>2. i \in Nat /\ i <= size
      BY <1>3
    <3> HIDE DEF size
    <3> QED
      BY <1>0, <1>1, <1>2, <2>1, <3>1, <3>2
  <2>3. ASSUME NEW e \in t.entry, NEW f \in t.entry, e.seq = f.seq PROVE e = f
    <3>1. PICK i \in {0} \cup seated : e.seq = i + 1 /\ e = entry(i)
      BY <1>6
    <3>2. PICK j \in {0} \cup seated : f.seq = j + 1 /\ f = entry(j)
      BY <1>6
    <3>3. i \in Nat /\ j \in Nat /\ i + 1 = j + 1
      BY <1>3, <2>3, <3>1, <3>2
    <3>4. i = j
      BY <3>3
    <3> QED
      BY <3>1, <3>2, <3>4
  <2> QED
    BY <2>2, <2>3 DEF Numbered
<1>8. Readers(RosterAfter(NoOne, t.entry)) = Readers(t.member)
  <2>1. \A e \in t.entry : e.kind \in Arriving /\ e.subject \in Accounts
    BY <1>3, <1>6
  <2>2. Readers(RosterAfter(NoOne, t.entry)) = Readers(NoOne) \cup {e.subject : e \in t.entry}
    BY <1>7, <2>1, NoOneFacts, Arrivals
  <2>3. {e.subject : e \in t.entry} = {subject(i) : i \in {0} \cup seated}
    BY <1>3, <1>6
  <2> QED
    BY <1>2, <1>5, <2>2, <2>3, NoOneFacts
<1>9. Cardinality(Rotations(t.entry)) = 0
  <2>1. Rotations(t.entry) = {}
    BY <1>3, <1>6 DEF Rotations
  <2> QED
    BY <2>1, FS_EmptySet
<1>10. ASSUME NEW n \in 1..(t.row.next - 1) PROVE \E e \in t.entry : e.seq = n
  <2>1. n - 1 \in {0} \cup seated
    BY <1>1, <1>2
  <2> QED
    BY <1>3, <2>1
<1>11. t.row.next \in 1..(MaxSeq + 1)
  BY <1>0, <1>1, <1>2 DEF t
<1>12. Tells(t, t.entry)
  BY <1>2, <1>7, <1>8, <1>9, <1>11 DEF Tells
<1> QED
  BY <1>10, <1>12 DEF t

(* What a step of the origin does to a channel that stands after it: it is *)
(* another incarnation, or the one that stood and what was done is in its  *)
(* log. *)
Founds(c) ==
  /\ db'[c].row # None /\ db'[c].row.inst \in Instances \ retired[c]
  /\ Tells(db'[c], db'[c].entry) /\ \A n \in 1..(db'[c].row.next - 1) : n \in Ever(c)'
GoesOn(c) ==
  /\ db[c].row # None /\ db'[c].row # None /\ db'[c].row.inst = db[c].row.inst
  /\ Records(db[c], db'[c])
  /\ db'[c].row.next <= MaxSeq + 1 \/ db'[c].row.next = db[c].row.next
  /\ Ever(c) \subseteq Ever(c)'
  /\ \A n \in 1..(db'[c].row.next - 1) : n < db[c].row.next \/ n \in Ever(c)'

LEMMA AloneGoesOn ==
  ASSUME NEW c \in Channels, db[c] \in Tables, db[c].row # None, db'[c] = db[c],
         spent \subseteq spent', life'[c] = life[c]
  PROVE  GoesOn(c)
<1>1. db[c].row.next \in Nat
  BY TablesFacts
<1>2. WroteNothing(db[c], db'[c])
  BY DEF WroteNothing
<1>3. Ever(c) \subseteq Ever(c)'
  BY DEF Ever
<1> QED
  BY <1>1, <1>2, <1>3 DEF GoesOn, Records

LEMMA OriginStep ==
  ASSUME LogInv, [Next]_vars, NEW c \in Channels
  PROVE  db'[c].row = None \/ Founds(c) \/ GoesOn(c)
<1>1. /\ db \in [Channels -> Tables] /\ db[c] \in Tables /\ now \in Nat /\ spent \subseteq spent'
      /\ life \in [Channels -> Nat] /\ Tidy(db[c])
  BY SpentGrows DEF LogInv, TypeOK, TidyLog
<1>2. db'[c].row # None /\ db'[c] = db[c] /\ life'[c] = life[c] => GoesOn(c)
  BY <1>1, AloneGoesOn
<1>3. ASSUME NEW d \in Devices, NEW k \in Channels, NEW vis \in Visibilities, NEW ret \in Retentions,
             NEW cap \in Caps, NEW invites \in InviteLists, NEW inst \in Instances,
             Create(d, k, vis, ret, cap, invites, inst)
      PROVE  db'[c].row = None \/ Founds(c) \/ GoesOn(c)
  <2> DEFINE t == Founded(d, vis, ret, cap, invites, inst)
  <2>1. /\ db' = [db EXCEPT ![k] = t] /\ inst \notin retired[k] /\ ChainHolds(AccountOf[d], invites)
        /\ t.row.next <= MaxSeq + 1 /\ life' = [life EXCEPT ![k] = life[k] + 1]
        /\ spent' = spent \cup Statements(k, life[k] + 1, t, t.entry)
    BY <1>3 DEF Create, MayCreate, FreshInstance
  <2>2. t.row # None /\ t.row.inst = inst
    BY <1>1, FoundedFacts
  <2>3. Tells(t, t.entry) /\ \A n \in 1..(t.row.next - 1) : \E e \in t.entry : e.seq = n
    BY <1>1, <2>1, FoundedTells
  <2> HIDE DEF t
  <2>4. CASE k = c
    <3>1. db'[c] = t /\ life'[c] = life[c] + 1
      BY <1>1, <2>1, <2>4
    <3>2. ASSUME NEW n \in 1..(t.row.next - 1) PROVE n \in Ever(c)'
      <4>1. PICK e \in t.entry : e.seq = n
        BY <2>3
      <4> DEFINE x == [chan |-> c, life |-> life[c] + 1, inst |-> t.row.inst, dev |-> e.dev, pos |-> e.pos,
                       seq |-> e.seq, post |-> e.kind = "post", epoch |-> e.epoch, msg |-> e.msg]
      <4>2. x \in spent'
        BY <2>1, <2>4 DEF Statements
      <4>3. x.chan = c /\ x.life = life'[c] /\ x.seq = n
        BY <3>1, <4>1
      <4> HIDE DEF x
      <4> QED
        BY <4>2, <4>3 DEF Ever
    <3> QED
      BY <2>1, <2>2, <2>3, <2>4, <3>1, <3>2 DEF Founds
  <2>5. CASE k # c
    <3>1. db'[c] = db[c] /\ life'[c] = life[c]
      BY <1>1, <2>1, <2>5
    <3> QED
      BY <1>2, <3>1
  <2> QED
    BY <2>4, <2>5
<1>4. ASSUME NEW d \in Devices, NEW k \in Channels, Appending(d, k)
      PROVE  db'[c].row = None \/ GoesOn(c)
  <2>1. PICK t : Appends(db[k], t) /\ Commit(k, t) /\ Records(db[k], t)
    BY <1>4 DEF Appending
  <2>2. /\ db' = [db EXCEPT ![k] = t] /\ life' = life
        /\ t.row # None => t.row.next <= MaxSeq + 1
                           /\ spent' = spent \cup Statements(k, life[k], t, t.entry \ db[k].entry)
    BY <2>1 DEF Commit
  <2>3. CASE k # c
    BY <1>1, <1>2, <2>2, <2>3
  <2>4. CASE k = c /\ t.row # None
    <3>1. db'[c] = t /\ db[c].row # None /\ t.row.inst = db[c].row.inst /\ db[c].row.next \in Nat
      BY <1>1, <2>1, <2>2, <2>4, TablesFacts DEF Appends, Grows
    <3>2. Ever(c) \subseteq Ever(c)'
      BY <1>1, <2>2 DEF Ever
    <3>3. ASSUME NEW n \in 1..(t.row.next - 1), ~(n < db[c].row.next) PROVE n \in Ever(c)'
      <4>1. ~WroteNothing(db[c], t)
        BY <3>1, <3>3 DEF WroteNothing
      <4>2. PICK e \in t.entry : Wrote(db[c], t, e)
        BY <2>1, <2>4, <4>1 DEF Records
      <4>3. e.seq = n
        BY <3>1, <3>3, <4>2 DEF Wrote
      <4>4. e \notin db[c].entry
        BY <1>1, <3>1, <4>2 DEF Tidy, Wrote
      <4> DEFINE x == [chan |-> c, life |-> life[c], inst |-> t.row.inst, dev |-> e.dev, pos |-> e.pos,
                       seq |-> e.seq, post |-> e.kind = "post", epoch |-> e.epoch, msg |-> e.msg]
      <4>5. x \in spent'
        BY <2>2, <2>4, <4>4 DEF Statements
      <4>6. x.chan = c /\ x.life = life'[c] /\ x.seq = n
        BY <2>2, <4>3
      <4> HIDE DEF x
      <4> QED
        BY <4>5, <4>6 DEF Ever
    <3> QED
      BY <2>1, <2>2, <2>4, <3>1, <3>2, <3>3 DEF GoesOn
  <2>5. CASE k = c /\ t.row = None
    BY <1>1, <2>2, <2>5
  <2> QED
    BY <2>3, <2>4, <2>5
<1>5. CASE Sweep
  <2>1. db'[c] = Swept(db[c]) /\ life' = life /\ spent' = spent
    BY <1>5 DEF Sweep
  <2>2. Grows(db[c], Swept(db[c]))
    BY <1>1, SweptAppends
  <2>3. ASSUME db'[c].row # None PROVE GoesOn(c)
    <3>1. db[c].row # None /\ db'[c].row.inst = db[c].row.inst /\ db[c].row.next \in Nat
      BY <1>1, <2>1, <2>2, <2>3, TablesFacts DEF Grows
    <3>2. WroteNothing(db[c], db'[c])
      BY <1>1, <2>1, <2>3, <3>1, SweptRecords
    <3>3. Ever(c) \subseteq Ever(c)'
      BY <2>1 DEF Ever
    <3>4. db'[c].row.next = db[c].row.next
      BY <3>2 DEF WroteNothing
    <3> QED
      BY <2>3, <3>1, <3>2, <3>3, <3>4 DEF GoesOn, Records
  <2> QED
    BY <2>3
<1>6. CASE UNCHANGED <<db, spent, retired, life>>
  BY <1>2, <1>6
<1> QED
  BY <1>3, <1>4, <1>5, <1>6, StepKinds

(* Where the rows an entry is beside lie in the log.                       *)
Above(e, rows) == \A f \in rows : f.seq < e.seq
Below(e, rows) == \A f \in rows : e.seq < f.seq

(* The copy is of the incarnation that stands.                             *)
Same(c) == db[c].row # None /\ copy[c].inst = db[c].row.inst
Both(c) == db[c].entry \cup (IF copy[c].inst = db[c].row.inst THEN copy[c].held ELSE {})

(* What the origin still has of a log and what the copy kept of it tell,   *)
(* together, what the origin's tables say. *)
Told(c) ==
  db[c].row # None => Tells(db[c], Both(c)) /\ \A n \in 1..(db[c].row.next - 1) : n \in Ever(c)
Kept(c) == copy[c].inst \in retired[c] \cup {None} /\ Numbered(copy[c].held)

(* The entries a copy holds were applied in the order of the log: what it  *)
(* has not is above or below all it has, and is asked for from above       *)
(* unless the roster is derived again. *)
Derived(k) == k.member = RosterAfter(NoOne, k.held) /\ k.epoch = Cardinality(Rotations(k.held))
InOrder(c) ==
  Same(c) => \A e \in db[c].entry \ copy[c].held : Above(e, copy[c].held) \/ Below(e, copy[c].held)
PullOf(c) == pulling # None /\ pulling.chan = c
(* Where a page may be less than the log, nothing is missing below.        *)
NeverBelow(c) ==
  ~OnePage /\ Same(c) =>
    /\ \A e \in db[c].entry \ copy[c].held : Above(e, copy[c].held)
    /\ PullOf(c) /\ pulling.first > 0 /\ copy[c].held # {} => \E f \in copy[c].held : f.seq <= pulling.first
(* A hole is not below all that is held, unless this pull brought that.    *)
HoleIsAbove(c) ==
  hole[c] # None =>
    /\ hole[c].at \in Nat
    /\ copy[c].held # {} => (\E f \in copy[c].held : f.seq <= hole[c].at) \/ (PullOf(c) /\ pulling.stored)
NoneRefused(c) == PullOf(c) => pulling.refused = {}
Ordered(c) == Derived(copy[c]) /\ InOrder(c) /\ NeverBelow(c) /\ HoleIsAbove(c) /\ NoneRefused(c)

(* The invariant: origin and copy tell the same, and the copy applied it   *)
(* in order, as long as no entry has to wait for the earlier key.          *)
TellOf(c) == Kept(c) /\ Told(c) /\ (cut[c] = {} => Ordered(c))
TellInv ==
  /\ CopyInv /\ known \in BOOLEAN /\ pulling \in Pull \cup {None}
  /\ hole = [c \in Channels |-> hole[c]]
  /\ \A c \in Channels : TellOf(c)

LEMMA RetiredGrows ==
  ASSUME LogInv, [Next]_vars, NEW c \in Channels
  PROVE  retired[c] \subseteq retired'[c]
<1>1. retired \in [Channels -> SUBSET Instances]
  BY DEF LogInv, TypeOK
<1>2. ASSUME NEW d \in Devices, NEW k \in Channels, NEW vis \in Visibilities, NEW ret \in Retentions,
             NEW cap \in Caps, NEW l \in InviteLists, NEW i \in Instances,
             Create(d, k, vis, ret, cap, l, i)
      PROVE  retired[c] \subseteq retired'[c]
  BY <1>1, <1>2 DEF Create
<1>3. ASSUME NEW d \in Devices, NEW k \in Channels, Appending(d, k) PROVE retired[c] \subseteq retired'[c]
  BY <1>3 DEF Appending, Commit
<1>4. CASE Sweep
  BY <1>4 DEF Sweep
<1> QED
  BY <1>2, <1>3, <1>4, StepKinds

(* A step of the origin.                                                   *)
LEMMA OriginTold ==
  ASSUME TellInv, [Next]_vars, UNCHANGED copyVars, NEW c \in Channels
  PROVE  /\ Told(c)'
         /\ Same(c)' => /\ Same(c)
                        /\ \A e \in db'[c].entry : e \in db[c].entry \/ Above(e, copy[c].held)
<1>1. /\ LogInv /\ copy' = copy /\ Kept(c) /\ Told(c)
      /\ db \in [Channels -> Tables] /\ db[c] \in Tables
      /\ retired \in [Channels -> SUBSET Instances] /\ None \notin Instances
  BY ConstantFacts DEF TellInv, TellOf, CopyInv, LogInv, TypeOK, copyVars
<1>2. LogInv'
  BY <1>1, LogInvNext
<1>3. CASE db'[c].row = None
  BY <1>3 DEF Told, Same
<1>4. CASE Founds(c)
  <2>1. copy'[c].inst # db'[c].row.inst
    BY <1>1, <1>4 DEF Founds, Kept
  <2>2. Both(c)' = db'[c].entry
    BY <2>1 DEF Both
  <2> QED
    BY <1>4, <2>1, <2>2 DEF Founds, Told, Same
<1>5. CASE GoesOn(c)
  <2> DEFINE s == db[c]
             t == db'[c]
  <2>1. s \in Tables /\ t \in Tables /\ s.row # None /\ t.row # None /\ t.row.inst = s.row.inst
    BY <1>1, <1>2, <1>5 DEF GoesOn, LogInv, TypeOK
  <2>2. Tells(s, Both(c)) /\ s.entry \subseteq Both(c)
    BY <1>1, <2>1 DEF Told, Both
  <2>3. Records(s, t) /\ (t.row.next <= MaxSeq + 1 \/ t.row.next = s.row.next)
    BY <1>5 DEF GoesOn
  <2> HIDE DEF s, t
  <2>4. Tells(t, Both(c) \cup t.entry)
    BY <2>1, <2>2, <2>3, TellsOn
  <2>5. Both(c)' \subseteq Both(c) \cup t.entry
    BY <1>1, <2>1 DEF Both, s, t
  <2>6. Tells(t, Both(c)')
    BY <2>4, <2>5, TellsLess
  <2>7. \A n \in 1..(t.row.next - 1) : n \in Ever(c)'
    <3> TAKE n \in 1..(t.row.next - 1)
    <3>1. s.row.next \in Nat /\ t.row.next \in Nat
      BY <2>1, TablesFacts
    <3>2. n < s.row.next => n \in Ever(c)
      BY <1>1, <2>1, <3>1 DEF Told, s
    <3> QED
      BY <1>5, <3>2 DEF GoesOn, s, t
  <2>8. ASSUME Same(c)' PROVE Same(c) /\ \A e \in t.entry : e \in s.entry \/ Above(e, copy[c].held)
    <3>1. Same(c)
      BY <1>1, <2>1, <2>8 DEF Same, s, t
    <3>2. copy[c].held \subseteq Both(c)
      BY <3>1 DEF Same, Both
    <3>3. ASSUME NEW e \in t.entry, e \notin s.entry PROVE Above(e, copy[c].held)
      <4>1. e.seq = s.row.next
        BY <2>1, <2>3, <3>3 DEF Records, Wrote, WroteNothing
      <4> QED
        BY <2>2, <3>2, <4>1 DEF Tells, Above
    <3> QED
      BY <3>1, <3>3
  <2> QED
    BY <2>1, <2>6, <2>7, <2>8 DEF Told, s, t
<1> QED
  BY <1>1, <1>3, <1>4, <1>5, OriginStep

(* A step of the origin leaves a copy in order.                            *)
LEMMA OriginTell ==
  ASSUME TellInv, [Next]_vars, UNCHANGED copyVars
  PROVE  TellInv'
<1>1. CopyInv'
  <2>1. [CopyNext]_allVars
    BY DEF CopyNext, allVars
  <2> QED
    BY <2>1, CopyInvNext DEF TellInv
<1>2. UNCHANGED <<copy, hole, pulling, cut, known>>
  BY DEF copyVars
<1>3. ASSUME NEW c \in Channels PROVE TellOf(c)'
  <2>1. LogInv /\ Kept(c) /\ Told(c) /\ (cut[c] = {} => Ordered(c))
    BY DEF TellInv, TellOf, CopyInv
  <2>2. Kept(c)'
    BY <1>2, <2>1, RetiredGrows DEF Kept
  <2>3. /\ Told(c)'
        /\ Same(c)' => /\ Same(c)
                       /\ \A e \in db'[c].entry : e \in db[c].entry \/ Above(e, copy[c].held)
    BY OriginTold
  <2>4. ASSUME cut[c] = {} PROVE Ordered(c)'
    <3>1. Derived(copy[c])' /\ HoleIsAbove(c)' /\ NoneRefused(c)'
      <4>1. Derived(copy[c]) /\ HoleIsAbove(c) /\ NoneRefused(c)
        BY <2>1, <2>4 DEF Ordered
      <4> QED
        BY <1>2, <4>1 DEF Derived, HoleIsAbove, NoneRefused, PullOf
    <3>2. InOrder(c) /\ NeverBelow(c)
      BY <2>1, <2>4 DEF Ordered
    <3>3. InOrder(c)'
      BY <1>2, <2>3, <3>2 DEF InOrder, Above, Below
    <3>4. NeverBelow(c)'
      <4> SUFFICES ASSUME ~OnePage, Same(c)'
                   PROVE  /\ \A e \in db'[c].entry \ copy[c].held : Above(e, copy[c].held)
                          /\ PullOf(c) /\ pulling.first > 0 /\ copy[c].held # {} =>
                               \E f \in copy[c].held : f.seq <= pulling.first
        BY <1>2 DEF NeverBelow, PullOf, Above, OnePage
      <4> QED
        BY <2>3, <3>2 DEF NeverBelow
    <3> QED
      BY <3>1, <3>3, <3>4 DEF Ordered
  <2> QED
    BY <1>2, <2>2, <2>3, <2>4 DEF TellOf
<1> QED
  BY <1>1, <1>2, <1>3 DEF TellInv

(* The channels a step of the copy is not about.                           *)
LEMMA OtherChannels ==
  ASSUME TellInv, UNCHANGED <<cut, vars>>, NEW c \in Channels, NEW d \in Channels, d # c,
         copy'[d] = copy[d], hole'[d] = hole[d],
         pulling = None \/ pulling.chan = c, pulling' = None \/ pulling'.chan = c
  PROVE  TellOf(d)'
<1>1. TellOf(d) /\ ~PullOf(d) /\ ~PullOf(d)' /\ UNCHANGED <<db, retired, spent, life>>
  BY DEF TellInv, PullOf, vars
<1>2. Kept(d)' /\ Told(d)'
  BY <1>1 DEF TellOf, Kept, Told, Both, Ever
<1>3. ASSUME cut[d] = {} PROVE Ordered(d)'
  <2>1. Ordered(d)
    BY <1>1, <1>3 DEF TellOf
  <2>2. Derived(copy[d])' /\ InOrder(d)' /\ NoneRefused(d)'
    BY <1>1, <2>1 DEF Ordered, Derived, InOrder, Same, NoneRefused
  <2>3. NeverBelow(d)'
    BY <1>1, <2>1 DEF Ordered, NeverBelow, Same, OnePage
  <2>4. HoleIsAbove(d)'
    BY <1>1, <2>1 DEF Ordered, HoleIsAbove
  <2> QED
    BY <2>2, <2>3, <2>4 DEF Ordered
<1> QED
  BY <1>2, <1>3 DEF TellOf

----------------------------------------------------------------------------
(* What the copy derives.                                                  *)
LEMMA AppliedReads ==
  ASSUME NEW k, IsCopy(k), NEW rows
  PROVE  /\ Applied(k, rows).member = RosterAfter(k.member, rows)
         /\ Applied(k, rows).epoch = k.epoch + Cardinality(Rotations(rows))
<1> DEFINE member == RosterAfter(k.member, rows)
           epoch == k.epoch + Cardinality({e \in rows : e.kind = "rotated"})
           derivable == k.derivable \/ \E e \in rows : e.kind = "created"
<1>1. Applied(k, rows) = [k EXCEPT !.held = k.held \cup rows, !.member = member, !.epoch = epoch,
                                   !.derivable = derivable]
  BY DEF Applied
<1> HIDE DEF member, epoch, derivable
<1>2. Applied(k, rows) = [inst |-> k.inst, held |-> k.held \cup rows, member |-> member, epoch |-> epoch,
                          derivable |-> derivable]
  BY <1>1 DEF IsCopy
<1> QED
  BY <1>2 DEF member, epoch, Rotations

(* A roster derived from the top is the fold of what is held.              *)
LEMMA FreshIsDerived == ASSUME NEW i PROVE Derived(Fresh(i)) /\ Fresh(i).member = NoOne /\ Fresh(i).epoch = 0
<1>1. Fresh(i).held = {} /\ Fresh(i).member = NoOne /\ Fresh(i).epoch = 0
  BY DEF Fresh, NoOne
<1>2. Cardinality(Rotations({})) = 0
  BY FS_EmptySet DEF Rotations
<1>3. RosterAfter(NoOne, {}) = NoOne
  BY FoldOfNothing
<1> QED
  BY <1>1, <1>2, <1>3 DEF Derived

LEMMA RederivedIsDerived ==
  ASSUME NEW k, Numbered(k.held)
  PROVE  Derived(rederive(k))
<1>1. IsCopy(Fresh(k.inst)) /\ Fresh(k.inst).member = NoOne /\ Fresh(k.inst).epoch = 0
  BY FreshFacts, FreshIsDerived
<1>2. /\ rederive(k).member = RosterAfter(NoOne, k.held)
      /\ rederive(k).epoch = 0 + Cardinality(Rotations(k.held))
  BY <1>1, AppliedReads DEF rederive
<1>3. rederive(k).held = k.held
  BY RederiveFacts
<1>4. Cardinality(Rotations(k.held)) \in Nat
  BY RotationsFacts
<1> QED
  BY <1>2, <1>3, <1>4 DEF Derived

(* So does applying, after them, entries above those held.                 *)
LEMMA AppliedIsDerived ==
  ASSUME NEW k, IsCopy(k), Derived(k), NEW rows, Numbered(k.held \cup rows),
         \A e \in k.held, f \in rows : e.seq < f.seq
  PROVE  Derived(Applied(k, rows))
<1> DEFINE t == Applied(k, rows)
           all == k.held \cup rows
<1>1. t.held = all /\ t.member = RosterAfter(k.member, rows) /\ t.epoch = k.epoch + Cardinality(Rotations(rows))
  BY AppliedFacts, AppliedReads
<1>2. t.member = RosterAfter(NoOne, all)
  BY <1>1, FoldAppends DEF Derived
<1>3. Numbered(k.held) /\ Numbered(rows)
  BY NumberedSubset
<1>4. k.held \cap rows = {}
  <2>1. \A e \in k.held : e.seq \in Nat
    BY <1>3, ChannelAssumption DEF Numbered
  <2> QED
    BY <2>1
<1>5. Rotations(all) = Rotations(k.held) \cup Rotations(rows) /\ Rotations(k.held) \cap Rotations(rows) = {}
  BY <1>4 DEF Rotations
<1>6. /\ IsFiniteSet(Rotations(k.held)) /\ Cardinality(Rotations(k.held)) \in Nat
      /\ IsFiniteSet(Rotations(rows)) /\ Cardinality(Rotations(rows)) \in Nat
  BY <1>3, RotationsFacts
<1> HIDE DEF t, all
<1>7. Cardinality(Rotations(all)) = Cardinality(Rotations(k.held)) + Cardinality(Rotations(rows))
  <2> DEFINE A == Rotations(k.held)
             B == Rotations(rows)
  <2>1. IsFiniteSet(A) /\ IsFiniteSet(B) /\ A \cap B = {} /\ Rotations(all) = A \cup B
        /\ Cardinality(A) \in Nat /\ Cardinality(B) \in Nat
    BY <1>5, <1>6
  <2> HIDE DEF A, B
  <2>2. Cardinality(A \cup B) = Cardinality(A) + Cardinality(B) - Cardinality(A \cap B)
    BY <2>1, FS_Union
  <2>3. Cardinality(A \cap B) = 0
    BY <2>1, FS_EmptySet
  <2> QED
    BY <2>1, <2>2, <2>3 DEF A, B
<1> QED
  BY <1>1, <1>2, <1>7 DEF Derived, t, all

(* What a pull takes, whatever it asked from.                              *)
LEMMA Taken ==
  ASSUME TellInv, NEW c \in Channels, MayPull(c), NEW since, NEW knew
  PROVE  \E rows \in SUBSET Page(c, since) :
           LET k == adopt(copy[c], db[c].row.inst)
               t == take_under(c, Page(c, since), knew)
           IN /\ IsCopy(k) /\ k.inst = db[c].row.inst /\ t = Applied(k, rows)
              /\ t.held = k.held \cup rows /\ t.inst = db[c].row.inst
              /\ Numbered(db[c].entry) /\ Numbered(t.held) /\ Both(c) = db[c].entry \cup t.held
              /\ t.inst \in retired[c] /\ t.inst # None
              /\ \A e \in rows : e \notin k.held
              /\ cut[c] = {} => rows = Page(c, since) \ k.held
<1> DEFINE inst == db[c].row.inst
           page == Page(c, since)
           k == adopt(copy[c], inst)
           some == {f \in page : Verifies(c, f, knew)}
           rows == {e \in some : e.seq \notin Seqs(k.held)}
           t == take_under(c, page, knew)
<1>1. /\ LogInv /\ Told(c) /\ db[c].row # None /\ IsCopy(copy[c])
  BY DEF TellInv, TellOf, CopyInv, OfOneLife, MayPull
<1>2. inst \in retired[c] /\ inst \in Instances /\ None \notin Instances
  BY <1>1, ConstantFacts DEF LogInv, TypeOK, StandingIsRetired
<1>3. page \subseteq db[c].entry
  BY DEF Page
<1>4. IsCopy(k) /\ k.inst = inst /\ Both(c) = db[c].entry \cup k.held
  <2>1. CASE copy[c].inst = inst
    BY <1>1, <2>1 DEF adopt, Both
  <2>2. CASE copy[c].inst # inst
    <3>1. k = Fresh(inst)
      BY <2>2 DEF adopt
    <3> HIDE DEF k, inst
    <3> QED
      BY <2>2, <3>1, FreshFacts DEF Both, inst
  <2> QED
    BY <2>1, <2>2
<1>5. Numbered(Both(c))
  BY <1>1 DEF Told, Tells
<1>6. t = Applied(k, rows) /\ rows \subseteq page
  BY DEF take_under, store_pulled
<1>7. \A e \in rows : e \notin k.held
  BY DEF Seqs
<1>8. cut[c] = {} => rows = page \ k.held
  <2> SUFFICES ASSUME cut[c] = {} PROVE rows = page \ k.held
    OBVIOUS
  <2>1. \A e \in page : Verifies(c, e, knew)
    BY DEF Verifies
  <2>2. \A e \in page : e.seq \notin Seqs(k.held) <=> e \notin k.held
    <3> TAKE e \in page
    <3>1. e \in Both(c) /\ \A f \in k.held : f \in Both(c)
      BY <1>3, <1>4
    <3>2. \A f \in k.held : f.seq = e.seq => f = e
      BY <1>5, <3>1 DEF Numbered
    <3> HIDE DEF k
    <3> QED
      BY <3>2 DEF Seqs
  <2> HIDE DEF page, k
  <2> QED
    BY <2>1, <2>2
<1> HIDE DEF t, rows, k, page
<1>9. t.held = k.held \cup rows /\ t.inst = inst
  BY <1>4, <1>6, AppliedFacts
<1>10. Both(c) = db[c].entry \cup t.held
  BY <1>3, <1>4, <1>6, <1>9
<1>11. Numbered(db[c].entry) /\ Numbered(t.held)
  BY <1>5, <1>10, NumberedSubset
<1> QED
  BY <1>2, <1>4, <1>6, <1>7, <1>8, <1>9, <1>10, <1>11 DEF t, rows, k, page

LEMMA TakenKept ==
  ASSUME TellInv, NEW c \in Channels, UNCHANGED vars, db[c].row # None,
         copy'[c].inst = db[c].row.inst, copy'[c].inst \in retired[c], Numbered(copy'[c].held),
         Both(c) = db[c].entry \cup copy'[c].held
  PROVE  Kept(c)' /\ Told(c)'
<1>1. Told(c) /\ UNCHANGED <<db, retired, spent, life>>
  BY DEF TellInv, TellOf, vars
<1>2. Both(c)' = Both(c) /\ Ever(c)' = Ever(c)
  BY <1>1 DEF Both, Ever
<1> QED
  BY <1>1, <1>2 DEF Told, Kept

LEMMA FirstFacts ==
  ASSUME NEW c, Numbered(db[c].entry)
  PROVE  /\ First(c) \in Nat
         /\ First(c) > 0 => \E e \in db[c].entry : e.seq = First(c)
<1>1. CASE db[c].entry = {}
  BY <1>1 DEF First
<1>2. CASE db[c].entry # {}
  <2>1. Seqs(db[c].entry) \subseteq Nat /\ Seqs(db[c].entry) # {}
    BY <1>2, NumberedFacts DEF Seqs
  <2>2. First(c) \in Seqs(db[c].entry)
    BY <1>2, <2>1, MinFacts DEF First
  <2> QED
    BY <2>1, <2>2 DEF Seqs
<1> QED
  BY <1>1, <1>2

(* Before it has adopted anything a copy holds nothing.                    *)
LEMMA NothingAdopted ==
  ASSUME TellInv, NEW c \in Channels, copy[c].inst = None
  PROVE  copy[c].held = {}
<1>1. OfOneLife(c, copy[c]) /\ spent \subseteq Statement /\ None \notin Instances
  BY ConstantFacts DEF TellInv, CopyInv, LogInv, TypeOK
<1> SUFFICES ASSUME NEW e \in copy[c].held PROVE FALSE
  OBVIOUS
<1>2. PICK x \in spent : x.inst = None
  BY <1>1 DEF OfOneLife, Said
<1> QED
  BY <1>1, <1>2 DEF Statement

(* Everything is asked for in one page, or no channel is made twice.       *)
OnceOrWhole == OnePage \/ \A i, j \in Instances : i = j

LEMMA AnotherLife ==
  ASSUME TellInv, OnceOrWhole, NEW c \in Channels, db[c].row # None, copy[c].inst # db[c].row.inst
  PROVE  OnePage \/ copy[c].held = {}
<1>1. db[c].row.inst \in Instances /\ copy[c].inst \in Instances \cup {None}
  BY TablesFacts DEF TellInv, TellOf, Kept, CopyInv, LogInv, TypeOK
<1> QED
  BY <1>1, NothingAdopted DEF OnceOrWhole

(* From where a pull asks.                                                 *)
From(c) == IF hole[c] = None THEN highest(copy[c]) ELSE Min({highest(copy[c]), hole[c].at})

LEMMA FromFacts ==
  ASSUME NEW c, Numbered(copy[c].held), HoleIsAbove(c), ~PullOf(c)
  PROVE  /\ From(c) \in Nat
         /\ copy[c].held = {} => From(c) = 0
         /\ copy[c].held # {} => \E e \in copy[c].held : e.seq <= From(c)
         /\ \A e : copy[c].held # {} /\ e.seq \in Nat /\ Above(e, copy[c].held) => e.seq > From(c)
<1> DEFINE top == highest(copy[c])
           held == copy[c].held
<1>1. /\ top \in Nat /\ (\A e \in held : e.seq <= top) /\ (held = {} => top = 0)
      /\ held # {} => \E e \in held : e.seq = top
  BY HighestFacts
<1>2. \A e \in held : e.seq \in Nat
  BY ChannelAssumption DEF Numbered
<1>3. CASE hole[c] = None
  <2>1. From(c) = top
    BY <1>3 DEF From
  <2> HIDE DEF top
  <2> QED
    BY <1>1, <1>2, <2>1 DEF Above
<1>4. CASE hole[c] # None
  <2> DEFINE at == hole[c].at
             T == {top, at}
  <2>1. at \in Nat /\ (held # {} => \E f \in held : f.seq <= at)
    BY <1>4 DEF HoleIsAbove
  <2>2. Min(T) \in T /\ \A x \in T : Min(T) <= x
    <3>1. T \subseteq Nat /\ T # {}
      BY <1>1, <2>1
    <3> HIDE DEF T
    <3> QED
      BY <3>1, MinFacts
  <2>3. From(c) = Min(T)
    BY <1>4 DEF From
  <2> HIDE DEF top, at
  <2>4. From(c) \in Nat /\ From(c) <= top /\ From(c) <= at /\ (From(c) = top \/ From(c) = at)
    BY <1>1, <2>1, <2>2, <2>3
  <2> HIDE DEF T
  <2>5. held = {} => From(c) = 0
    BY <1>1, <2>4
  <2>6. held # {} => \E e \in held : e.seq <= From(c)
    BY <1>1, <2>1, <2>4
  <2>7. \A e : held # {} /\ e.seq \in Nat /\ Above(e, held) => e.seq > From(c)
    BY <1>1, <1>2, <2>4 DEF Above
  <2> QED
    BY <2>4, <2>5, <2>6, <2>7
<1> QED
  BY <1>3, <1>4

(* What a first request leaves the copy with, nothing refused.             *)
LEMMA AskedInOrder ==
  ASSUME TellInv, OnceOrWhole, NEW c \in Channels, MayPull(c), cut[c] = {}, pulling = None
  PROVE  LET k == adopt(copy[c], db[c].row.inst)
             t == take_under(c, Page(c, From(c)), known)
         IN /\ Derived(t)
            /\ \A e \in db[c].entry \ t.held :
                 Above(e, t.held) \/ (Below(e, t.held) /\ (OnePage \/ (Below(e, k.held) /\ k.held # {})))
            /\ k.held # {} => Same(c) /\ k.held = copy[c].held
<1> DEFINE inst == db[c].row.inst
           k == adopt(copy[c], inst)
           since == From(c)
           page == Page(c, since)
           t == take_under(c, page, known)
           held == copy[c].held
<1>1. Ordered(c) /\ Kept(c) /\ db[c].row # None /\ ~PullOf(c) /\ IsCopy(copy[c])
  BY DEF TellInv, TellOf, MayPull, PullOf, CopyInv, OfOneLife
<1>2. PICK rows \in SUBSET page :
        /\ IsCopy(k) /\ k.inst = inst /\ t = Applied(k, rows) /\ t.held = k.held \cup rows
        /\ Numbered(db[c].entry) /\ Numbered(t.held) /\ rows = page \ k.held
  BY Taken
<1>3. /\ since \in Nat /\ (held = {} => since = 0)
      /\ held # {} => \E e \in held : e.seq <= since
      /\ \A e : held # {} /\ e.seq \in Nat /\ Above(e, held) => e.seq > since
  BY <1>1, FromFacts DEF Kept, Ordered
<1>4. /\ page \subseteq db[c].entry /\ \A e \in page : e.seq > since
      /\ \A e \in db[c].entry \ page, f \in page : e.seq > since => e.seq > f.seq
      /\ OnePage => \A e \in db[c].entry : e.seq > since => e \in page
  BY <1>2, <1>3, PageFacts
<1>5. /\ \A e \in db[c].entry : e.seq \in Nat /\ e.seq > 0
      /\ \A e \in t.held : e.seq \in Nat
  BY <1>2, ChannelAssumption DEF Numbered
<1>6. copy[c].inst = inst => k = copy[c]
  BY DEF adopt
<1>7. copy[c].inst # inst => k = Fresh(inst) /\ k.held = {} /\ (OnePage \/ held = {})
  BY <1>1, AnotherLife, FreshFacts DEF adopt
<1>8. Derived(k)
  BY <1>1, <1>6, <1>7, FreshIsDerived DEF Ordered
<1> HIDE DEF k, t, page, since, held, inst
<1>9. copy[c].inst = inst => InOrder(c) /\ k.held = held /\ Same(c)
  BY <1>1, <1>6 DEF Ordered, held, Same, inst
<1>10. \A f \in rows : Above(f, k.held)
  <2> SUFFICES ASSUME NEW f \in rows, k.held # {} PROVE Above(f, k.held)
    BY DEF Above
  <2>1. copy[c].inst = inst
    BY <1>7
  <2>2. f \in db[c].entry \ held /\ f.seq > since
    BY <1>2, <1>4, <1>9, <2>1
  <2>3. Above(f, held) \/ Below(f, held)
    BY <1>9, <2>1, <2>2 DEF InOrder, held
  <2>4. PICK g \in held : g.seq <= since
    BY <1>3, <1>9, <2>1
  <2>5. ~Below(f, held)
    <3>1. g \in t.held /\ g.seq \in Nat
      BY <1>2, <1>5, <1>9, <2>1
    <3> QED
      BY <1>3, <1>5, <2>2, <2>4, <3>1 DEF Below
  <2> QED
    BY <1>9, <2>1, <2>3, <2>5
<1>11. Derived(t)
  BY <1>2, <1>8, <1>10, AppliedIsDerived DEF Above
<1>12. ASSUME NEW e \in db[c].entry \ t.held
       PROVE  Above(e, t.held) \/ (Below(e, t.held) /\ (OnePage \/ (Below(e, k.held) /\ k.held # {})))
  <2>1. e \in db[c].entry /\ e \notin k.held /\ e \notin page
    BY <1>2
  <2>2. e.seq > since => \A f \in rows : e.seq > f.seq
    BY <1>4, <2>1
  <2>3. CASE copy[c].inst = inst /\ held # {}
    <3>1. Above(e, held) \/ Below(e, held)
      BY <1>9, <2>1, <2>3 DEF InOrder, held
    <3>2. CASE Above(e, held)
      <4>1. e.seq > since
        BY <1>3, <1>5, <2>1, <2>3, <3>2
      <4> QED
        BY <1>2, <1>9, <2>2, <2>3, <3>2, <4>1 DEF Above
    <3>3. CASE Below(e, held)
      <4>1. PICK g \in held : TRUE
        BY <2>3
      <4>2. g \in k.held /\ g \in t.held /\ e.seq < g.seq
        BY <1>2, <1>9, <2>3, <3>3 DEF Below
      <4>3. ASSUME NEW f \in rows PROVE e.seq < f.seq
        <5>1. g.seq < f.seq /\ f \in t.held
          BY <1>2, <1>10, <4>2 DEF Above
        <5> QED
          BY <1>5, <2>1, <4>2, <5>1
      <4> QED
        BY <1>2, <1>9, <2>3, <3>3, <4>3 DEF Below
    <3> QED
      BY <3>1, <3>2, <3>3
  <2>4. CASE held = {} /\ k.held = {}
    <3>1. e.seq > since
      BY <1>3, <1>5, <2>1, <2>4
    <3> QED
      BY <1>2, <2>2, <2>4, <3>1 DEF Above
  <2>5. CASE copy[c].inst # inst /\ OnePage
    <3>1. ~(e.seq > since)
      BY <1>4, <2>1, <2>5
    <3>2. Below(e, t.held)
      <4> SUFFICES ASSUME NEW f \in t.held PROVE e.seq < f.seq
        BY DEF Below
      <4>1. k.held = {}
        BY <1>7, <2>5
      <4>2. f \in page
        BY <1>2, <4>1
      <4>3. f.seq > since
        BY <1>4, <4>2
      <4>4. e.seq \in Nat /\ f.seq \in Nat /\ since \in Nat
        BY <1>3, <1>5, <2>1
      <4> QED
        BY <3>1, <4>3, <4>4
    <3>3. OnePage
      BY <2>5
    <3> QED
      BY <3>2, <3>3 DEF Above, Below
  <2> QED
    BY <1>7, <1>9, <2>3, <2>4, <2>5
<1>13. k.held # {} => Same(c) /\ k.held = held
  BY <1>7, <1>9
<1> QED
  BY <1>11, <1>12, <1>13 DEF k, t, page, since, held, inst

LEMMA PullOnceTell ==
  ASSUME TellInv, OnceOrWhole, NEW c \in Channels, PullOnce(c)
  PROVE  TellInv'
<1> DEFINE inst == db[c].row.inst
           k == adopt(copy[c], inst)
           page == Page(c, From(c))
           t == take_under(c, page, known)
           p == [chan |-> c, first |-> First(c), knew |-> known, refused |-> Refused(c, page, known),
                 stored |-> Grew(c, t)]
<1>1. /\ pulling = None /\ MayPull(c) /\ UNCHANGED <<hole, cut, known, vars>>
      /\ copy' = [copy EXCEPT ![c] = t] /\ pulling' = p
  BY DEF PullOnce, From
<1>2. CopyInv'
  <2>1. [CopyNext]_allVars
    BY DEF CopyNext
  <2> QED
    BY <2>1, CopyInvNext DEF TellInv
<1>3. /\ db[c].row # None /\ copy = [d \in Channels |-> copy[d]] /\ known \in BOOLEAN /\ TellOf(c)
  BY <1>1 DEF MayPull, TellInv, CopyInv
<1>4. PICK rows \in SUBSET page :
        /\ t = Applied(k, rows) /\ t.held = k.held \cup rows /\ t.inst = inst
        /\ Numbered(db[c].entry) /\ Numbered(t.held) /\ Both(c) = db[c].entry \cup t.held
        /\ t.inst \in retired[c]
  BY <1>1, Taken
<1>5. cut[c] = {} =>
        /\ Derived(t)
        /\ \A e \in db[c].entry \ t.held :
             Above(e, t.held) \/ (Below(e, t.held) /\ (OnePage \/ (Below(e, k.held) /\ k.held # {})))
        /\ k.held # {} => Same(c) /\ k.held = copy[c].held
  BY <1>1, AskedInOrder
<1>6. p \in Pull /\ p.chan = c /\ p.first = First(c) /\ p.refused = Refused(c, page, known)
      /\ p.stored = (t.held # k.held)
  <2>1. First(c) \in Nat
    BY <1>4, FirstFacts
  <2>2. Refused(c, page, known) \subseteq Nat
    <3>1. page \subseteq db[c].entry
      BY DEF Page
    <3>2. \A e \in page : e.seq \in Nat
      BY <1>4, <3>1, ChannelAssumption DEF Numbered
    <3> HIDE DEF page
    <3> QED
      BY <3>2 DEF Refused, Seqs
  <2>3. Grew(c, t) \in BOOLEAN /\ Grew(c, t) = (t.held # k.held)
    BY DEF Grew
  <2> HIDE DEF t, page
  <2> QED
    BY <1>3, <2>1, <2>2, <2>3 DEF Pull
<1>7. cut[c] = {} => Refused(c, page, known) = {}
  BY DEF Refused, Verifies, Seqs
<1> HIDE DEF t, p, page, k, inst
<1>8. copy'[c] = t /\ \A d \in Channels : d # c => copy'[d] = copy[d]
  BY <1>1, <1>3
<1>9. pulling' \in Pull /\ pulling' # None /\ PullOf(c)'
  BY <1>1, <1>6, NoneIsNoPull DEF PullOf
<1>10. Kept(c)' /\ Told(c)'
  BY <1>1, <1>3, <1>4, <1>8, TakenKept DEF inst
<1>11. ASSUME cut[c] = {} PROVE Ordered(c)'
  <2>1. Ordered(c) /\ ~PullOf(c) /\ db' = db /\ hole' = hole
    BY <1>1, <1>3, <1>11 DEF TellOf, PullOf, vars
  <2>2. Derived(copy[c])' /\ NoneRefused(c)'
    BY <1>1, <1>5, <1>6, <1>7, <1>8, <1>11 DEF Derived, NoneRefused
  <2>3. InOrder(c)'
    BY <1>5, <1>8, <1>11, <2>1 DEF InOrder, Above, Below
  <2>4. ASSUME ~OnePage, NEW e \in db[c].entry \ t.held PROVE Above(e, t.held)
    <3> SUFFICES ASSUME Below(e, k.held), k.held # {} PROVE FALSE
      BY <1>5, <1>11, <2>4
    <3>1. Same(c) /\ k.held = copy[c].held /\ e \in db[c].entry \ copy[c].held
      BY <1>4, <1>5, <1>11
    <3>2. Above(e, k.held)
      BY <2>1, <2>4, <3>1 DEF Ordered, NeverBelow
    <3>3. PICK g \in k.held : TRUE
      OBVIOUS
    <3>4. e.seq < g.seq /\ g.seq < e.seq /\ e.seq \in Nat /\ g.seq \in Nat
      BY <1>4, <3>2, <3>3, ChannelAssumption DEF Above, Below, Numbered
    <3> QED
      BY <3>4
  <2>5. NeverBelow(c)'
    <3>1. ASSUME ~OnePage, First(c) > 0, t.held # {} PROVE \E f \in t.held : f.seq <= First(c)
      <4>1. PICK m \in db[c].entry : m.seq = First(c)
        BY <1>4, <3>1, FirstFacts
      <4>2. PICK f \in t.held : TRUE
        BY <3>1
      <4>3. First(c) \in Nat /\ f.seq \in Nat
        BY <1>4, <4>1, ChannelAssumption, FirstFacts DEF Numbered
      <4>4. m \in t.held \/ f.seq < m.seq
        BY <2>4, <3>1, <4>1, <4>2 DEF Above
      <4> QED
        BY <4>1, <4>2, <4>3, <4>4
    <3>2. pulling'.first = First(c)
      BY <1>1, <1>6
    <3> QED
      BY <1>8, <2>1, <2>4, <3>1, <3>2 DEF NeverBelow, Above, OnePage
  <2>6. HoleIsAbove(c)'
    <3> SUFFICES ASSUME hole[c] # None
                 PROVE  /\ hole[c].at \in Nat
                        /\ t.held # {} => (\E f \in t.held : f.seq <= hole[c].at) \/ pulling'.stored
      BY <1>8, <1>9, <2>1 DEF HoleIsAbove
    <3>1. /\ hole[c].at \in Nat
          /\ copy[c].held # {} => \E f \in copy[c].held : f.seq <= hole[c].at
      BY <2>1 DEF Ordered, HoleIsAbove
    <3>2. pulling'.stored = (t.held # k.held)
      BY <1>1, <1>6
    <3>3. CASE k.held = {}
      BY <3>1, <3>2, <3>3
    <3>4. CASE k.held # {}
      <4>1. k.held = copy[c].held
        BY <1>5, <1>11, <3>4
      <4> QED
        BY <1>4, <3>1, <3>4, <4>1
    <3> QED
      BY <3>3, <3>4
  <2> QED
    BY <2>2, <2>3, <2>5, <2>6 DEF Ordered
<1>12. TellOf(c)'
  BY <1>1, <1>10, <1>11 DEF TellOf
<1>13. ASSUME NEW d \in Channels, d # c PROVE TellOf(d)'
  <2>1. copy'[d] = copy[d] /\ hole'[d] = hole[d] /\ UNCHANGED <<cut, vars>>
    BY <1>1, <1>8, <1>13
  <2>2. pulling = None /\ pulling'.chan = c
    BY <1>1, <1>6
  <2> QED
    BY <1>13, <2>1, <2>2, OtherChannels
<1>14. hole' = hole /\ known' = known
  BY <1>1
<1> QED
  BY <1>2, <1>3, <1>9, <1>12, <1>13, <1>14 DEF TellInv

(* What is left to ask for when nothing was refused.                       *)
LEMMA HolesNoted ==
  ASSUME NEW h, NEW stored
  PROVE  note_holes(h, {}, stored) = IF stored THEN None ELSE h
BY DEF note_holes

LEMMA NothingRefused ==
  ASSUME NEW c, NEW page, NEW knew, cut[c] = {}
  PROVE  Refused(c, page, knew) = {}
BY DEF Refused, Verifies, Seqs

(* A second request brings all that is above where it asks from.           *)
LEMMA BroughtBelow ==
  ASSUME TellInv, OnceOrWhole, NEW c \in Channels, PullOf(c), pulling.first \in Nat,
         StartsLater(copy[c], pulling.first), MayPull(c), cut[c] = {}, NEW knew
  PROVE  LET k == adopt(copy[c], db[c].row.inst)
             t == take_under(c, Page(c, pulling.first - 1), knew)
         IN /\ OnePage
            /\ t.held = k.held => Derived(t) /\ (k.held = {} \/ k.held = copy[c].held)
            /\ \A e \in db[c].entry \ t.held : Below(e, t.held)
<1> DEFINE inst == db[c].row.inst
           k == adopt(copy[c], inst)
           first == pulling.first
           since == first - 1
           page == Page(c, since)
           t == take_under(c, page, knew)
           held == copy[c].held
<1>1. Ordered(c) /\ Kept(c) /\ db[c].row # None /\ IsCopy(copy[c])
  BY DEF TellInv, TellOf, MayPull, CopyInv, OfOneLife
<1>2. PICK rows \in SUBSET page :
        /\ IsCopy(k) /\ t = Applied(k, rows) /\ t.held = k.held \cup rows
        /\ Numbered(db[c].entry) /\ Numbered(t.held) /\ rows = page \ k.held
  BY Taken
<1>3. first > 0 /\ first \in Nat /\ held # {} /\ \A e \in held : e.seq > first
  <2>1. lowest(copy[c]) > first /\ first > 0
    BY DEF StartsLater
  <2>2. /\ held # {} => lowest(copy[c]) \in Nat /\ \A e \in held : lowest(copy[c]) <= e.seq
        /\ held = {} => lowest(copy[c]) = 0
    BY <1>1, LowestFacts DEF Kept
  <2>3. \A e \in held : e.seq \in Nat
    BY <1>1, ChannelAssumption DEF Kept, Numbered
  <2> QED
    BY <2>1, <2>2, <2>3
<1>4. OnePage
  <2> SUFFICES ASSUME ~OnePage PROVE FALSE
    OBVIOUS
  <2>1. Same(c)
    BY <1>1, <1>3, AnotherLife DEF Same
  <2>2. \E f \in held : f.seq <= first
    BY <1>1, <1>3, <2>1 DEF Ordered, NeverBelow
  <2>3. \A e \in held : e.seq \in Nat
    BY <1>1, ChannelAssumption DEF Kept, Numbered
  <2> QED
    BY <1>3, <2>2, <2>3
<1>5. /\ page \subseteq db[c].entry /\ \A e \in page : e.seq > since
      /\ \A e \in db[c].entry : e.seq > since => e \in page
  <2>1. since \in Int
    BY <1>3
  <2> HIDE DEF since
  <2> QED
    BY <1>2, <1>4, <2>1, PageFacts
<1>6. /\ \A e \in db[c].entry : e.seq \in Nat
      /\ \A e \in t.held : e.seq \in Nat
  BY <1>2, ChannelAssumption DEF Numbered
<1>7. copy[c].inst = inst => k = copy[c] /\ k.held = held
  BY DEF adopt
<1>8. copy[c].inst # inst => k = Fresh(inst) /\ k.held = {}
  BY FreshFacts DEF adopt
<1>9. Derived(k)
  BY <1>1, <1>7, <1>8, FreshIsDerived DEF Ordered
<1> HIDE DEF k, t, page, since, held, inst, first
<1>10. ASSUME t.held = k.held PROVE Derived(t) /\ (k.held = {} \/ k.held = held)
  <2>1. rows = {}
    BY <1>2, <1>10
  <2>2. Numbered(k.held \cup rows)
    BY <1>2
  <2>3. Derived(Applied(k, rows))
    BY <1>2, <1>9, <2>1, <2>2, AppliedIsDerived
  <2> QED
    BY <1>2, <1>7, <1>8, <2>3
<1>11. ASSUME NEW e \in db[c].entry \ t.held PROVE Below(e, t.held)
  <2> SUFFICES ASSUME NEW f \in t.held PROVE e.seq < f.seq
    BY DEF Below
  <2>1. e \in db[c].entry /\ e \notin page
    BY <1>2
  <2>2. since \in Int /\ since < first
    BY <1>3 DEF since
  <2>3. e.seq \in Nat /\ f.seq \in Nat /\ first \in Nat
    BY <1>3, <1>6, <2>1
  <2>4. ~(e.seq > since)
    BY <1>5, <2>1
  <2>5. f.seq > since
    <3>1. f \in page \/ f \in k.held
      BY <1>2
    <3>2. CASE f \in page
      BY <1>5, <3>2
    <3>3. CASE f \in k.held
      <4>1. f \in held
        BY <1>7, <1>8, <3>3
      <4> QED
        BY <1>3, <2>2, <2>3, <4>1
    <3> QED
      BY <3>1, <3>2, <3>3
  <2> QED
    BY <2>2, <2>3, <2>4, <2>5
<1> QED
  BY <1>4, <1>10, <1>11 DEF k, t, page, since, held, inst, first

LEMMA PullBelowTell ==
  ASSUME TellInv, OnceOrWhole, PullBelow, NEW c \in Channels, c = pulling.chan
  PROVE  TellInv'
<1> DEFINE p == pulling
           k == adopt(copy[c], db[c].row.inst)
           page == Page(c, p.first - 1)
           t == take_under(c, page, p.knew)
           grew == Grew(c, t)
           u == IF grew THEN rederive(t) ELSE t
           refused == p.refused \cup Refused(c, page, p.knew)
           h == note_holes(hole[c], refused, p.stored \/ grew)
<1>1. /\ p # None /\ StartsLater(copy[c], p.first) /\ MayPull(c)
      /\ pulling' = None /\ UNCHANGED <<cut, known, vars>>
      /\ copy' = [copy EXCEPT ![c] = u] /\ hole' = [hole EXCEPT ![c] = h]
  BY DEF PullBelow
<1>2. CopyInv'
  <2>1. [CopyNext]_allVars
    BY DEF CopyNext
  <2> QED
    BY <2>1, CopyInvNext DEF TellInv
<1>3. /\ c \in Channels /\ p.first \in Nat /\ PullOf(c) /\ p.stored \in BOOLEAN
  BY <1>1 DEF TellInv, Pull, PullOf
<1>4. /\ db[c].row # None /\ copy = [d \in Channels |-> copy[d]] /\ known \in BOOLEAN /\ TellOf(c)
      /\ hole = [d \in Channels |-> hole[d]]
  BY <1>1, <1>3 DEF MayPull, TellInv, CopyInv
<1>5. /\ Numbered(db[c].entry) /\ Numbered(t.held) /\ Both(c) = db[c].entry \cup t.held
      /\ t.inst \in retired[c] /\ t.inst = db[c].row.inst
  BY <1>1, <1>3, Taken
<1>6. cut[c] = {} =>
        /\ OnePage
        /\ t.held = k.held => Derived(t) /\ (k.held = {} \/ k.held = copy[c].held)
        /\ \A e \in db[c].entry \ t.held : Below(e, t.held)
  BY <1>1, <1>3, BroughtBelow
<1>7. grew = (t.held # k.held)
  BY DEF Grew
<1>8. cut[c] = {} => Refused(c, page, p.knew) = {}
  BY NothingRefused
<1>9. u.held = t.held /\ u.inst = t.inst
  BY RederiveFacts
<1>10. grew => Derived(u)
  BY <1>5, RederivedIsDerived
<1>11. ~grew => u = t
  OBVIOUS
<1> HIDE DEF u, t, k, page, grew, h
<1>12. copy'[c] = u /\ hole'[c] = h /\ (\A d \in Channels : d # c => copy'[d] = copy[d] /\ hole'[d] = hole[d])
       /\ hole' = [d \in Channels |-> hole'[d]]
  BY <1>1, <1>3, <1>4
<1>13. Kept(c)' /\ Told(c)'
  BY <1>1, <1>3, <1>4, <1>5, <1>9, <1>12, TakenKept
<1>14. ASSUME cut[c] = {} PROVE Ordered(c)'
  <2>1. Ordered(c) /\ db' = db /\ ~PullOf(c)'
    BY <1>1, <1>4, <1>14 DEF TellOf, PullOf, vars
  <2>2. Derived(copy[c])'
    <3>1. Derived(u)
      BY <1>6, <1>7, <1>10, <1>11, <1>14
    <3> QED
      BY <1>12, <3>1 DEF Derived
  <2>3. InOrder(c)' /\ NeverBelow(c)'
    BY <1>6, <1>9, <1>12, <1>14, <2>1 DEF InOrder, NeverBelow, Above, Below, OnePage
  <2>4. HoleIsAbove(c)'
    <3>1. refused = {}
      BY <1>3, <1>8, <1>14, <2>1 DEF Ordered, NoneRefused
    <3>2. h = IF p.stored \/ grew THEN None ELSE hole[c]
      BY <3>1, HolesNoted DEF h
    <3>3. CASE p.stored \/ grew
      BY <1>12, <3>2, <3>3 DEF HoleIsAbove
    <3>4. CASE ~(p.stored \/ grew)
      <4>1. h = hole[c] /\ u.held = t.held /\ (t.held = {} \/ t.held = copy[c].held)
        BY <1>6, <1>7, <1>9, <1>14, <3>2, <3>4
      <4>2. hole[c] # None =>
              /\ hole[c].at \in Nat
              /\ copy[c].held # {} => \E f \in copy[c].held : f.seq <= hole[c].at
        BY <2>1, <3>4 DEF Ordered, HoleIsAbove
      <4> HIDE DEF p
      <4> QED
        BY <1>12, <4>1, <4>2 DEF HoleIsAbove
    <3> QED
      BY <3>3, <3>4
  <2>5. NoneRefused(c)'
    BY <2>1 DEF NoneRefused
  <2> QED
    BY <2>2, <2>3, <2>4, <2>5 DEF Ordered
<1>15. TellOf(c)'
  BY <1>1, <1>13, <1>14 DEF TellOf
<1>16. ASSUME NEW d \in Channels, d # c PROVE TellOf(d)'
  <2>1. copy'[d] = copy[d] /\ hole'[d] = hole[d] /\ UNCHANGED <<cut, vars>>
    BY <1>1, <1>12, <1>16
  <2>2. pulling.chan = c /\ pulling' = None
    BY <1>1
  <2> QED
    BY <1>3, <1>16, <2>1, <2>2, OtherChannels
<1> QED
  BY <1>1, <1>2, <1>4, <1>12, <1>15, <1>16 DEF TellInv

(* A step that leaves the copy's rows alone.                               *)
LEMMA RowsStand ==
  ASSUME TellInv, UNCHANGED <<copy, vars>>, NEW c \in Channels, pulling' = None,
         cut'[c] = {} => cut[c] = {} /\ HoleIsAbove(c)'
  PROVE  TellOf(c)'
<1>1. TellOf(c) /\ UNCHANGED <<copy, db, retired, spent, life>> /\ ~PullOf(c)'
  BY DEF TellInv, vars, PullOf
<1>2. Kept(c)' /\ Told(c)'
  BY <1>1 DEF TellOf, Kept, Told, Both, Ever
<1>3. ASSUME cut'[c] = {} PROVE Ordered(c)'
  <2>1. Ordered(c) /\ HoleIsAbove(c)'
    BY <1>1, <1>3 DEF TellOf
  <2>2. Derived(copy[c])' /\ InOrder(c)' /\ NoneRefused(c)'
    BY <1>1, <2>1 DEF Ordered, Derived, InOrder, Same, NoneRefused
  <2>3. NeverBelow(c)'
    BY <1>1, <2>1 DEF Ordered, NeverBelow, Same, OnePage
  <2> QED
    BY <2>1, <2>2, <2>3 DEF Ordered
<1> QED
  BY <1>2, <1>3 DEF TellOf

LEMMA PullEndsTell ==
  ASSUME TellInv, PullEnds
  PROVE  TellInv'
<1>1. /\ pulling # None /\ pulling' = None /\ UNCHANGED <<copy, cut, known, vars>>
      /\ hole' = [hole EXCEPT ![pulling.chan] = note_holes(@, pulling.refused, pulling.stored)]
  BY DEF PullEnds
<1>2. CopyInv'
  <2>1. [CopyNext]_allVars
    BY DEF CopyNext
  <2> QED
    BY <2>1, CopyInvNext DEF TellInv
<1>3. hole = [d \in Channels |-> hole[d]] /\ known \in BOOLEAN
  BY DEF TellInv
<1>4. ASSUME NEW c \in Channels PROVE TellOf(c)'
  <2>1. ASSUME cut'[c] = {} PROVE cut[c] = {} /\ HoleIsAbove(c)'
    <3>1. cut[c] = {} /\ Ordered(c) /\ ~PullOf(c)'
      BY <1>1, <2>1 DEF TellInv, TellOf, PullOf
    <3>2. CASE pulling.chan = c
      <4>1. pulling.refused = {} /\ PullOf(c)
        BY <1>1, <3>1, <3>2 DEF Ordered, NoneRefused, PullOf
      <4>2. hole'[c] = note_holes(hole[c], {}, pulling.stored)
        BY <1>1, <1>3, <3>2, <4>1
      <4>3. hole'[c] = IF pulling.stored THEN None ELSE hole[c]
        BY <4>2, HolesNoted
      <4> QED
        BY <1>1, <3>1, <4>1, <4>3 DEF Ordered, HoleIsAbove
    <3>3. CASE pulling.chan # c
      <4>1. hole'[c] = hole[c]
        BY <1>1, <1>3, <3>3
      <4> QED
        BY <1>1, <3>1, <3>3, <4>1 DEF Ordered, HoleIsAbove, PullOf
    <3> QED
      BY <3>2, <3>3
  <2> QED
    BY <1>1, <2>1, RowsStand
<1> QED
  BY <1>1, <1>2, <1>3, <1>4 DEF TellInv

LEMMA GapFacts ==
  ASSUME NEW k, Numbered(k.held), lowest_gap(k) # None
  PROVE  lowest_gap(k).at \in Nat /\ \E f \in k.held : f.seq <= lowest_gap(k).at
<1> DEFINE before == {n \in Seqs(k.held) : n < highest(k) /\ n + 1 \notin Seqs(k.held)}
           at == Min(before)
<1>1. before # {} /\ lowest_gap(k) = [at |-> at, tries |-> 0]
  BY DEF lowest_gap
<1>2. before \subseteq Seqs(k.held) /\ Seqs(k.held) \subseteq Nat
  BY NumberedFacts
<1> HIDE DEF before
<1>3. at \in before
  BY <1>1, <1>2, MinFacts
<1>4. at \in Nat /\ at \in Seqs(k.held)
  BY <1>2, <1>3
<1> HIDE DEF at
<1>5. PICK f \in k.held : f.seq = at
  BY <1>4 DEF Seqs
<1>6. f.seq <= at
  BY <1>4, <1>5
<1> QED
  BY <1>1, <1>4, <1>6

LEMMA RestartTell ==
  ASSUME TellInv, Restart
  PROVE  TellInv'
<1>1. pulling' = None /\ hole' = [c \in Channels |-> lowest_gap(copy[c])] /\ UNCHANGED <<copy, cut, known, vars>>
  BY DEF Restart
<1>2. CopyInv'
  <2>1. [CopyNext]_allVars
    BY DEF CopyNext
  <2> QED
    BY <2>1, CopyInvNext DEF TellInv
<1>3. ASSUME NEW c \in Channels PROVE TellOf(c)'
  <2>1. Numbered(copy[c].held) /\ hole'[c] = lowest_gap(copy[c]) /\ copy'[c] = copy[c]
    BY <1>1 DEF TellInv, TellOf, Kept
  <2>2. HoleIsAbove(c)'
    <3>1. hole'[c] # None =>
            /\ hole'[c].at \in Nat
            /\ \E f \in copy[c].held : f.seq <= hole'[c].at
      BY <2>1, GapFacts
    <3> QED
      BY <2>1, <3>1 DEF HoleIsAbove
  <2> QED
    BY <1>1, <2>2, RowsStand
<1>4. hole' = [c \in Channels |-> hole'[c]] /\ known' \in BOOLEAN
  BY <1>1 DEF TellInv
<1> QED
  BY <1>1, <1>2, <1>3, <1>4 DEF TellInv

LEMMA KeysTell ==
  ASSUME TellInv, LearnLineage \/ NewOriginKey
  PROVE  TellInv'
<1>1. /\ pulling = None /\ UNCHANGED <<copy, hole, pulling, vars>> /\ known' \in BOOLEAN
      /\ \A c \in Channels : cut'[c] = {} => cut[c] = {}
  <2>1. CASE LearnLineage
    BY <2>1 DEF LearnLineage
  <2>2. CASE NewOriginKey
    <3>1. pulling = None /\ UNCHANGED <<copy, hole, pulling, known, vars>> /\ \A c \in Channels : cut[c] = {}
      BY <2>2 DEF NewOriginKey
    <3> QED
      BY <3>1 DEF TellInv
  <2> QED
    BY <2>1, <2>2
<1>2. CopyInv'
  <2>1. [CopyNext]_allVars
    BY DEF CopyNext
  <2> QED
    BY <2>1, CopyInvNext DEF TellInv
<1>3. ASSUME NEW c \in Channels PROVE TellOf(c)'
  <2>1. ASSUME cut'[c] = {} PROVE cut[c] = {} /\ HoleIsAbove(c)'
    <3>1. cut[c] = {} /\ Ordered(c)
      BY <1>1, <2>1 DEF TellInv, TellOf
    <3> QED
      BY <1>1, <3>1 DEF Ordered, HoleIsAbove, PullOf
  <2> QED
    BY <1>1, <2>1, RowsStand
<1> QED
  BY <1>1, <1>2, <1>3 DEF TellInv

LEMMA TellInvInit ==
  ASSUME CopyInit
  PROVE  TellInv
<1>1. /\ Init /\ copy = [c \in Channels |-> Fresh(None)] /\ hole = [c \in Channels |-> None]
      /\ pulling = None /\ known = ~LateLineage
  BY DEF CopyInit
<1>2. CopyInv
  BY CopyInvInit
<1>3. ASSUME NEW c \in Channels PROVE TellOf(c)
  <2>1. copy[c] = Fresh(None) /\ hole[c] = None /\ db[c].row = None
    BY <1>1, DestroyedFacts DEF Init
  <2>2. copy[c].inst = None /\ copy[c].held = {} /\ Derived(copy[c])
    BY <2>1, FreshFacts, FreshIsDerived
  <2>3. Kept(c)
    BY <2>2 DEF Kept, Numbered
  <2>4. Told(c) /\ ~Same(c) /\ ~PullOf(c)
    BY <1>1, <2>1 DEF Told, Same, PullOf
  <2>5. Ordered(c)
    BY <2>1, <2>2, <2>4 DEF Ordered, InOrder, NeverBelow, HoleIsAbove, NoneRefused
  <2> QED
    BY <2>3, <2>4, <2>5 DEF TellOf
<1>4. hole = [c \in Channels |-> hole[c]] /\ known \in BOOLEAN
  BY <1>1
<1> QED
  BY <1>1, <1>2, <1>3, <1>4 DEF TellInv

LEMMA TellInvNext ==
  ASSUME TellInv, OnceOrWhole, [CopyNext]_allVars
  PROVE  TellInv'
<1>1. CASE Next /\ UNCHANGED copyVars
  BY <1>1, OriginTell
<1>2. CASE UNCHANGED allVars
  <2>1. [Next]_vars /\ UNCHANGED copyVars
    BY <1>2 DEF allVars
  <2> QED
    BY <2>1, OriginTell
<1>3. ASSUME NEW c \in Channels, PullOnce(c) PROVE TellInv'
  BY <1>3, PullOnceTell
<1>4. CASE PullBelow
  <2>1. pulling \in Pull
    BY <1>4 DEF PullBelow, TellInv
  <2>2. pulling.chan \in Channels
    BY <2>1 DEF Pull
  <2> QED
    BY <1>4, <2>2, PullBelowTell
<1>5. CASE PullEnds
  BY <1>5, PullEndsTell
<1>6. CASE LearnLineage \/ NewOriginKey
  BY <1>6, KeysTell
<1>7. CASE Restart
  BY <1>7, RestartTell
<1> QED
  BY <1>1, <1>2, <1>3, <1>4, <1>5, <1>6, <1>7 DEF CopyNext

LEMMA TellServes ==
  ASSUME TellInv
  PROVE  ServesMembers
<1> SUFFICES ASSUME NEW c \in Channels, Complete(c), cut[c] = {}
             PROVE  /\ Readers(copy[c].member) = Readers(db[c].member)
                    /\ copy[c].epoch = db[c].row.epoch
  BY DEF ServesMembers
<1> DEFINE held == copy[c].held
           upto == db[c].row.next - 1
<1>1. /\ db[c].row # None /\ copy[c].inst = db[c].row.inst /\ Seqs(held) = Ever(c)
      /\ Told(c) /\ Ordered(c)
  BY DEF Complete, TellInv, TellOf
<1>2. /\ Tells(db[c], Both(c)) /\ Both(c) = db[c].entry \cup held
      /\ \A n \in 1..upto : n \in Seqs(held)
  BY <1>1 DEF Told, Both
<1>3. Both(c) = held
  <2> SUFFICES ASSUME NEW e \in Both(c) PROVE e \in held
    BY <1>2
  <2>1. e.seq \in 1..MaxSeq /\ e.seq < db[c].row.next /\ db[c].row.next \in 1..(MaxSeq + 1) /\ MaxSeq \in Nat
    BY <1>2, ChannelAssumption DEF Tells, Numbered
  <2>2. e.seq \in 1..upto
    BY <2>1
  <2>3. PICK f \in held : f.seq = e.seq
    BY <1>2, <2>2 DEF Seqs
  <2> QED
    BY <1>2, <2>3 DEF Tells, Numbered
<1>4. Seqs(held) = 1..upto
  <2>1. ASSUME NEW n \in Seqs(held) PROVE n \in 1..upto
    <3>1. PICK f \in held : f.seq = n
      BY DEF Seqs
    <3>2. f.seq \in 1..MaxSeq /\ f.seq < db[c].row.next /\ db[c].row.next \in 1..(MaxSeq + 1) /\ MaxSeq \in Nat
      BY <1>2, <1>3, ChannelAssumption DEF Tells, Numbered
    <3> QED
      BY <3>1, <3>2
  <2> QED
    BY <1>2, <2>1
<1>5. /\ Readers(RosterAfter(NoOne, held)) = Readers(db[c].member)
      /\ db[c].row.epoch = Cardinality(Rotations(held))
  BY <1>2, <1>3, <1>4 DEF Tells
<1> QED
  BY <1>1, <1>5 DEF Ordered, Derived

(* A copy with the whole log, of which no entry had to wait for the        *)
(* origin's earlier key, serves the accounts the origin would and reports  *)
(* the epoch in force, through destruction and recreation, whatever the    *)
(* origin prunes: where a page holds the whole log, or each channel is     *)
(* made once.  (`pull_once_from`, `store_pulled`, `derive_membership`.)    *)
THEOREM ServesMembersAlways ==
  ASSUME OnceOrWhole
  PROVE  CopySpec => []ServesMembers
<1>1. CopyInit => TellInv
  BY TellInvInit
<1>2. TellInv /\ [CopyNext]_allVars => TellInv'
  BY TellInvNext
<1>3. TellInv => ServesMembers
  BY TellServes
<1> QED
  BY <1>1, <1>2, <1>3, PTL DEF CopySpec
=============================================================================
