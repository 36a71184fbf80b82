------------------------------- MODULE Rehome -------------------------------
(***************************************************************************)
(* Which exchange orders a channel (sqexd/src/channel.rs: rehome,          *)
(* adopt_rehome, store_pulled, my_rehome, record_origin; replica.rs:       *)
(* pull_once_from, take_under, note_holes).  The origin hands a channel    *)
(* over by ordering a rehome entry and closing itself; a replica whose     *)
(* origin has been out of reach takes it over by ordering a rehome entry   *)
(* of its own, which is carried to the others by its task or by a client.  *)
(* An exchange that is out of reach may well be running, so any replica    *)
(* may take over at any time here.                                         *)
(*                                                                         *)
(* A receipt is [by, seq, nth]: the nth entry `by` put at a position.  It  *)
(* stands for the entry's hash and, since a head commits to what came      *)
(* before, for the head after it; `after` is the receipt of the entry      *)
(* before it.  Left out: membership (one admin), pruning, the rotation of  *)
(* an exchange's key, and who may pull.                                    *)
(***************************************************************************)
EXTENDS Naturals, FiniteSets, FiniteSetsExt, SequencesExt

CONSTANTS
  Exchanges,       \* numbers, for keys are compared
  Creator,         \* the exchange the channel was created at
  Watches,         \* the pairs <<replica, origin>> of the replicas' configurations
  REHOME_MIN,      \* REHOME_MIN_SECS
  MaxEntries, MaxClock, MaxSaid, MaxMoves, MaxTakeOvers   \* bounds

Positions == 1..MaxEntries

VARIABLES
  clock,
  olog,        \* table entry: exchange |-> position |-> entry, or NoEntry
  next_seq,    \* channel.next_seq
  origin,      \* table replicated: whom it copies from, itself for no row
  domain,      \* ... and whether it knows the origin's domain
  hist,        \* table origin_history: from position |-> [origin, at], or NoMove
  stranded,    \* table stranded: position |-> receipt, or NoReceipt
  holes,       \* the lowest position a pull was refused, 0 for none
  caught,      \* table equivocation: the exchange holds a proof against an origin
  issued       \* history: what kinds of entry an exchange put at a position, in turn

rehomeVars == <<clock, olog, next_seq, origin, domain, hist, stranded, holes, caught, issued>>

VARIABLES said, moves, takeOvers   \* history: how many messages, and rehomes of each kind
boundVars == <<said, moves, takeOvers>>

NoReceipt == [by |-> 0, seq |-> 0, nth |-> 0]
NoEntry == [r |-> NoReceipt, is |-> "none", to |-> 0, at |-> 0, after |-> NoReceipt]
NoMove == [origin |-> 0, at |-> 0]

Created == [NoEntry EXCEPT !.r = [by |-> Creator, seq |-> 1, nth |-> 1], !.is = "created"]

(* The replicas have the channel's first entry. *)
RehomeInit ==
  /\ clock = 0
  /\ olog = [x \in Exchanges |-> [s \in Positions |-> IF s = 1 THEN Created ELSE NoEntry]]
  /\ next_seq = [x \in Exchanges |-> 2]
  /\ origin = [x \in Exchanges |-> Creator]
  /\ domain = [x \in Exchanges |-> FALSE]
  /\ hist = [x \in Exchanges |-> [f \in 1..(MaxEntries + 1) |-> NoMove]]
  /\ stranded = [x \in Exchanges |-> [s \in Positions |-> NoReceipt]]
  /\ holes = [x \in Exchanges |-> 0]
  /\ caught = [x \in Exchanges |-> FALSE]
  /\ issued = [x \in Exchanges |->
                 [s \in Positions |-> IF x = Creator /\ s = 1 THEN <<"created">> ELSE <<>>]]
  /\ said = 0 /\ moves = 0 /\ takeOvers = 0

HeldAt(x) == {s \in Positions : olog[x][s] # NoEntry}
Highest(x) == Max(HeldAt(x) \cup {0})
Orders(x) == origin[x] = x

----------------------------------------------------------------------------
(* origin_history *)

(* `record_origin`: the first move also names who ordered until then. *)
record_origin(h, from, to, outgoing, at) ==
  [h EXCEPT ![1] = IF @ = NoMove THEN [origin |-> outgoing, at |-> 0] ELSE @,
            ![from] = [origin |-> to, at |-> at]]

Moves(h) == {f \in DOMAIN h : h[f] # NoMove}

(* `last_rehome`: the position after it, 0 for none *)
LastMove(h) == Max((Moves(h) \ {1}) \cup {0})

TooSoon(x) == LastMove(hist[x]) > 0 /\ clock - hist[x][LastMove(hist[x])].at < REHOME_MIN

----------------------------------------------------------------------------
(* Ordering an entry: numbered next, receipted by the exchange, on top of  *)
(* what it has. *)
Entry(x, is, to) ==
  LET s == next_seq[x]
  IN [r |-> [by |-> x, seq |-> s, nth |-> Len(issued[x][s]) + 1], is |-> is, to |-> to, at |-> clock,
      after |-> olog[x][s - 1].r]

Ordered(x, e) ==
  /\ next_seq[x] \in Positions
  /\ olog' = [olog EXCEPT ![x][next_seq[x]] = e]
  /\ next_seq' = [next_seq EXCEPT ![x] = @ + 1]
  /\ issued' = [issued EXCEPT ![x][next_seq[x]] = Append(@, e.is)]

(* A member's message, at an exchange that is not read-only (`post`) *)
Say(x) ==
  /\ Orders(x)
  /\ said < MaxSaid
  /\ Ordered(x, Entry(x, "said", 0))
  /\ said' = said + 1
  /\ UNCHANGED <<clock, origin, domain, hist, stranded, holes, caught, moves, takeOvers>>

(* Mutant of HandOver: the origin stays open. *)
HandOverOpen(x, y) ==
  /\ Orders(x) /\ y # x /\ ~TooSoon(x) /\ moves < MaxMoves
  /\ Ordered(x, Entry(x, "rehomed", y))
  /\ hist' = [hist EXCEPT ![x] = record_origin(@, next_seq[x] + 1, y, x, clock)]
  /\ moves' = moves + 1
  /\ UNCHANGED <<clock, origin, domain, stranded, holes, caught, said, takeOvers>>

(* `rehome` at the origin: a planned move, and closed to writes from there *)
HandOver(x, y) ==
  /\ Orders(x) /\ y # x /\ ~TooSoon(x) /\ moves < MaxMoves
  /\ Ordered(x, Entry(x, "rehomed", y))
  /\ origin' = [origin EXCEPT ![x] = y]
  /\ domain' = [domain EXCEPT ![x] = TRUE]
  /\ hist' = [hist EXCEPT ![x] = record_origin(@, next_seq[x] + 1, y, x, clock)]
  /\ moves' = moves + 1
  /\ UNCHANGED <<clock, stranded, holes, caught, said, takeOvers>>

(* `rehome` at a replica, to itself: on top of what it holds *)
TakeOver(x) ==
  /\ ~Orders(x) /\ ~TooSoon(x) /\ takeOvers < MaxTakeOvers
  /\ Ordered(x, Entry(x, "rehomed", x))
  /\ origin' = [origin EXCEPT ![x] = x]
  /\ hist' = [hist EXCEPT ![x] = record_origin(@, next_seq[x] + 1, x, origin[x], clock)]
  /\ takeOvers' = takeOvers + 1
  /\ UNCHANGED <<clock, domain, stranded, holes, caught, said, moves>>

----------------------------------------------------------------------------
(* adopt_rehome: a rehome entry carried here, receipted by the new origin *)

Chains(x, e) ==
  LET before == olog[x][e.r.seq - 1] IN before # NoEntry => e.after = before.r

Before(a, b) == a[1] < b[1] \/ (a[1] = b[1] /\ a[2] <= b[2])

(* Another rehome for the same fork is held, and stands. *)
Stands(x, e) ==
  /\ LastMove(hist[x]) = e.r.seq + 1
  /\ Before(<<hist[x][e.r.seq + 1].at, origin[x]>>, <<e.at, e.to>>)

Adoptable(x, e) ==
  /\ e.is = "rehomed" /\ origin[x] # e.to /\ x # e.to
  /\ e.r.by = e.to /\ Chains(x, e) /\ ~Stands(x, e)

(* Mutant of Strand: what is at the fork itself is let go. *)
StrandPast(x, e) ==
  [s \in Positions |-> IF s > e.r.seq /\ olog[x][s].is = "said" /\ stranded[x][s] = NoReceipt
                       THEN olog[x][s].r ELSE stranded[x][s]]

(* What was ordered past the fork is kept for its authors. *)
Strand(x, e) ==
  [s \in Positions |-> IF s >= e.r.seq /\ olog[x][s].is = "said" /\ stranded[x][s] = NoReceipt
                       THEN olog[x][s].r ELSE stranded[x][s]]

adopt_rehome(x, e, known) ==
  /\ Adoptable(x, e)
  /\ stranded' = [stranded EXCEPT ![x] = Strand(x, e)]
  /\ olog' = [olog EXCEPT ![x] = [s \in Positions |-> IF s < e.r.seq THEN @[s]
                                                    ELSE IF s = e.r.seq THEN e ELSE NoEntry]]
  /\ next_seq' = [next_seq EXCEPT ![x] = e.r.seq + 1]
  /\ origin' = [origin EXCEPT ![x] = e.to]
  /\ domain' = [domain EXCEPT ![x] = known]
  /\ hist' = [hist EXCEPT ![x] = record_origin(@, e.r.seq + 1, e.to, origin[x], clock)]
  /\ UNCHANGED <<clock, holes, caught, issued, boundVars>>

(* A client that read the entry somewhere carries it here. *)
Carry(y, s, x, known) ==
  /\ s \in HeldAt(y)
  /\ adopt_rehome(x, olog[y][s], known)

(* The task of the exchange that took over tells the origin it copied from *)
(* (`my_rehome`), without a domain. *)
Tell(x, o) ==
  LET f == LastMove(hist[x])
  IN /\ <<x, o>> \in Watches /\ Orders(x)
     /\ f > 0 /\ hist[x][f].origin = x /\ f - 1 \in HeldAt(x)
     /\ adopt_rehome(o, olog[x][f - 1], FALSE)

----------------------------------------------------------------------------
(* Pulling: what a copy makes of its origin's entries, one by one *)

Copied(x) ==
  [log |-> olog[x], next |-> next_seq[x], origin |-> origin[x], domain |-> domain[x], hist |-> hist[x],
   last |-> olog[x][Highest(x)], refused |-> {}, stored |-> 0, caught |-> FALSE]

(* `store_pulled`: held already, or stored, and a rehome followed *)
store_pulled(st, x, e) ==
  LET s == e.r.seq
      put == [st EXCEPT !.log[s] = e, !.next = Max({@, s + 1}), !.stored = @ + 1, !.last = e]
  IN IF st.log[s] # NoEntry THEN [st EXCEPT !.last = e]
     ELSE IF e.is = "rehomed"
     THEN [put EXCEPT !.origin = IF @ = x THEN x ELSE e.to, !.domain = FALSE,
                      !.hist = record_origin(@, s + 1, e.to, st.origin, e.at)]
     ELSE put

(* `conflicting`: two receipts of one exchange for one position *)
Conflicts(st, e) ==
  LET mine == st.log[e.r.seq] IN mine # NoEntry /\ mine.r.by = e.r.by /\ mine # e

(* `take_under`: receipted by one that ordered the channel, and not on top *)
(* of something else *)
TakeOne(st, x, under, e) ==
  IF st.caught THEN st
  ELSE IF e.r.by \in under /\ Conflicts(st, e) THEN [st EXCEPT !.caught = TRUE]
  ELSE IF e.r.by \notin under \/ (st.last.r.seq + 1 = e.r.seq /\ e.after # st.last.r)
  THEN [st EXCEPT !.refused = @ \cup {e.r.seq}]
  ELSE store_pulled(st, x, e)

take_under(x, o, upto) ==
  LET since == IF holes[x] > 0 THEN Min({holes[x] - 1, Highest(x)}) ELSE Highest(x)
      page == SetToSortSeq({s \in HeldAt(o) : s > since /\ s <= upto}, <)
      under == {o} \cup {hist[x][f].origin : f \in Moves(hist[x])}
  IN FoldLeft(LAMBDA st, s : TakeOne(st, x, under, olog[o][s]), Copied(x), page)

(* `note_holes`; what was refused HOLE_TRIES times is left behind. *)
NotedHole(x, st, tired) ==
  IF st.refused # {}
  THEN IF tired THEN 0 ELSE Min(st.refused \cup (IF holes[x] = 0 THEN {} ELSE {holes[x]}))
  ELSE IF st.stored > 0 THEN 0 ELSE holes[x]

(* Where the channel went, if the origin knows (`standing_moved`) *)
Located(x, o, st) ==
  IF st.origin = o THEN st.domain
  ELSE \/ st.domain
       \/ /\ st.origin = origin[o] /\ domain[o]
          /\ \E f \in Moves(hist[o]) : hist[o][f].origin = st.origin

(* `pull_once_from`, a page up to some position; a channel with a proof of *)
(* equivocation is not pulled any more. *)
Pull(x, upto, tired) ==
  LET o == origin[x]
      st == take_under(x, o, upto)
  IN /\ ~Orders(x) /\ (<<x, o>> \in Watches \/ domain[x])
     /\ ~caught[x] /\ upto \in HeldAt(o)
     /\ tired => st.refused # {}
     /\ olog' = [olog EXCEPT ![x] = st.log]
     /\ next_seq' = [next_seq EXCEPT ![x] = st.next]
     /\ origin' = [origin EXCEPT ![x] = st.origin]
     /\ domain' = [domain EXCEPT ![x] = Located(x, o, st)]
     /\ hist' = [hist EXCEPT ![x] = st.hist]
     /\ holes' = [holes EXCEPT ![x] = NotedHole(x, st, tired)]
     /\ caught' = [caught EXCEPT ![x] = st.caught]
     /\ UNCHANGED <<clock, stranded, issued, boundVars>>

Passes ==
  /\ clock < MaxClock
  /\ clock' = clock + 1
  /\ UNCHANGED <<olog, next_seq, origin, domain, hist, stranded, holes, caught, issued, boundVars>>

RehomeNext ==
  \/ \E x \in Exchanges : Say(x) \/ TakeOver(x)
  \/ \E x, y \in Exchanges : HandOver(x, y) \/ Tell(x, y)
  \/ \E x, y \in Exchanges, s \in Positions, known \in BOOLEAN : Carry(y, s, x, known)
  \/ \E x \in Exchanges, s \in Positions, tired \in BOOLEAN : Pull(x, s, tired)
  \/ Passes

----------------------------------------------------------------------------
(* PROPERTIES *)

(* A channel that moved only by its origin's own hand, and at most twice,  *)
(* has one origin: no two exchanges order it, no two logs differ at a      *)
(* position, and the one that orders has every entry that was ever         *)
(* receipted, whatever order the pulls and the carried entries came in     *)
(* (channel.rs rehome, store_pulled; SIP-53's planned move strands         *)
(* nothing).  A page is checked under the origins known before it, so a    *)
(* copy that learns of three moves at once may be left with a hole. *)
HandedOver ==
  takeOvers = 0 /\ moves <= 2 =>
    /\ Cardinality({x \in Exchanges : Orders(x)}) <= 1
    /\ \A x, y \in Exchanges : \A s \in HeldAt(x) \cap HeldAt(y) : olog[x][s] = olog[y][s]
    /\ \A x, y \in Exchanges, s \in Positions :
         Orders(x) /\ issued[y][s] # <<>> => olog[x][s].r.by = y

(* A message an exchange receipted and later gave up to another's fork is  *)
(* still there for its author to post again: it is in that exchange's log  *)
(* or among what is stranded there (channel.rs adopt_rehome, stranded),    *)
(* unless the exchange numbered the position a second time. *)
ForkIsKept ==
  \A x \in Exchanges, s \in Positions :
    issued[x][s] = <<"said">> =>
      [by |-> x, seq |-> s, nth |-> 1] \in {olog[x][s].r, stranded[x][s]}

RehomeSpec == RehomeInit /\ [][RehomeNext]_<<rehomeVars, boundVars>>
=============================================================================
