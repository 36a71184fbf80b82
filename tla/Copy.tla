-------------------------------- MODULE Copy --------------------------------
(***************************************************************************)
(* A copy of another exchange's channels: the puller (sqexd/src/replica.rs)*)
(* and the rows it keeps (channel.rs: adopt, store_pulled, rederive).  The *)
(* origin is module Channel; this module adds the replica beside it.       *)
(*                                                                         *)
(* A pull asks the origin for a page of its log from some position, checks *)
(* every entry and stores it, then asks once more when the copy starts     *)
(* later than the origin does.  The roster is never sent: the copy derives *)
(* it from the system entries it stores.  An entry may be refused for the  *)
(* moment, here because its receipt was made under a key the origin held   *)
(* before its present one and the copy has not been told of yet; what was  *)
(* refused is remembered as a hole and asked for again.                    *)
(*                                                                         *)
(* Left out: equivocation, rehoming, successions, envelopes, blobs, and    *)
(* the copy's own sweep, whose retention is the longest the protocol has.  *)
(***************************************************************************)
EXTENDS Channel, FiniteSetsExt

CONSTANTS
  Me,           \* the peer that keeps the copy
  ActsFor,      \* the accounts it acts for at the origin (configured, or homed there)
  MAX_PULL,     \* entries in one page
  HOLE_TRIES,   \* pulls a refused entry is asked for again
  LateLineage   \* the origin may have changed keys before the copy began

ASSUME CopyAssumption ==
  /\ ActsFor \subseteq Accounts
  /\ {MAX_PULL, HOLE_TRIES} \subseteq Nat \ {0} /\ LateLineage \in BOOLEAN

(* A pull between its two requests *)
Pull == [chan: Channels, first: Nat, knew: BOOLEAN, refused: SUBSET Nat, stored: BOOLEAN]

ASSUME NoneIsNoPull == None \notin Pull

VARIABLES
  copy,      \* channel |-> what the copy holds of it
  hole,      \* channel |-> where to pull from again and how often it was tried, or None
  pulling,   \* the pull in progress, or None
  cut,       \* channel |-> the entries receipted under the origin's earlier key
  known      \* the copy has been told the origin's earlier key

copyVars == <<copy, hole, pulling, cut, known>>
allVars == <<vars, copyVars>>

(* The copy's rows: nothing, or what `adopt` inserts. *)
Fresh(inst) ==
  [inst |-> inst, held |-> {}, member |-> [a \in Accounts |-> None], epoch |-> 0,
   derivable |-> FALSE]

CopyInit ==
  /\ Init
  /\ copy = [c \in Channels |-> Fresh(None)] /\ hole = [c \in Channels |-> None]
  /\ pulling = None /\ cut = [c \in Channels |-> {}] /\ known = ~LateLineage

----------------------------------------------------------------------------
(* Deriving the roster *)

Seqs(rows) == {e.seq : e \in rows}
highest(k) == Max({0} \cup Seqs(k.held))
lowest(k) == IF k.held = {} THEN 0 ELSE Min(Seqs(k.held))

Update(member, a, new(_)) == [member EXCEPT ![a] = IF @ = None THEN @ ELSE new(@)]

(* Mutant of derive_membership: a removal is not applied. *)
derive_without_removal(member, e) ==
  CASE e.kind = "created" -> Appoint(member, e.subject, "admin")
    [] e.kind \in {"added", "joined"} -> Seat(member, e.subject, "member")
    [] e.kind = "left" ->
         Update(member, e.subject, LAMBDA m : [m EXCEPT !.present = FALSE, !.muted = FALSE])
    [] OTHER -> member

(* `derive_membership`.  The role an entry grants is in its signature and  *)
(* not in what is served, so an addition seats a plain member; a row that  *)
(* exists keeps the role it has. *)
derive_membership(member, e) ==
  CASE e.kind = "created" -> Appoint(member, e.subject, "admin")
    [] e.kind \in {"added", "joined"} ->
         Update(Seat(member, e.subject, "member"), e.subject,
                LAMBDA m : [m EXCEPT !.muted = FALSE])
    [] e.kind \in {"muted", "unmuted"} ->
         Update(member, e.subject, LAMBDA m : [m EXCEPT !.muted = (e.kind = "muted")])
    [] e.kind = "promoted" -> Seat(member, e.subject, "admin")
    [] e.kind = "demoted" -> Seat(member, e.subject, "member")
    [] e.kind \in {"left", "removed"} ->
         Update(member, e.subject, LAMBDA m : [m EXCEPT !.present = FALSE, !.muted = FALSE])
    [] OTHER -> member

(* The roster after applying rows of a log, oldest first. *)
RosterAfter(member, rows) ==
  LET roster[n \in 0..MaxSeq] ==
        IF n = 0 THEN member
        ELSE IF n \notin Seqs(rows) THEN roster[n - 1]
        ELSE derive_membership(roster[n - 1], CHOOSE e \in rows : e.seq = n)
  IN roster[MaxSeq]

(* Entries new to the copy are stored and applied. *)
Applied(k, rows) ==
  [k EXCEPT !.held = @ \cup rows,
            !.member = RosterAfter(@, rows),
            !.epoch = @ + Cardinality({e \in rows : e.kind = "rotated"}),
            !.derivable = @ \/ \E e \in rows : e.kind = "created"]

(* `store_pulled`, for each entry of a page: one held already is not       *)
(* applied again. *)
store_pulled(k, page) == Applied(k, {e \in page : e.seq \notin Seqs(k.held)})

(* `rederive`: the roster from the top.  (The visibility the origin states *)
(* makes a public channel derivable whatever is held; it is not asked for  *)
(* here.) *)
rederive(k) == Applied(Fresh(k.inst), k.held)

(* Mutant of adopt: the rows of the incarnation before are kept. *)
adopt_keeping(k, inst) == [k EXCEPT !.inst = inst]

(* `adopt`: another incarnation's copy is destroyed. *)
adopt(k, inst) == IF k.inst = inst THEN k ELSE Fresh(inst)

----------------------------------------------------------------------------
(* Pulling *)

(* `may_pull` at the origin *)
MayPull(c) ==
  /\ db[c].row # None
  /\ Me \in replica[c] \/ \E a \in ActsFor : role_of(db[c], a) # None

(* `pull` at the origin: the entries after `since`, a page of them *)
Page(c, since) ==
  LET after == {e \in db[c].entry : e.seq > since}
  IN {e \in after : Cardinality({f \in after : f.seq <= e.seq}) <= MAX_PULL}

First(c) == IF db[c].entry = {} THEN 0 ELSE Min(Seqs(db[c].entry))

(* The receipt of e verifies under a key the copy knows. *)
Verifies(c, e, knew) == knew \/ [inst |-> db[c].row.inst, seq |-> e.seq] \notin cut[c]

(* `take_under`: adopt the incarnation, store what verifies, in order. *)
take_under(c, page, knew) ==
  store_pulled(adopt(copy[c], db[c].row.inst), {e \in page : Verifies(c, e, knew)})

(* Entries were inserted into what was held, or into another incarnation's *)
(* rows. *)
Grew(c, t) == t.held # adopt(copy[c], db[c].row.inst).held

Refused(c, page, knew) == Seqs({e \in page : ~Verifies(c, e, knew)})

(* `note_holes` *)
note_holes(h, refused, stored) ==
  IF refused # {}
  THEN LET at == Min(refused) - 1
           n == IF h = None THEN [at |-> at, tries |-> 1]
                ELSE [at |-> Min({h.at, at}), tries |-> h.tries + 1]
       IN IF n.tries >= HOLE_TRIES THEN None ELSE n
  ELSE IF stored THEN None ELSE h

(* `holes_in`, when the process starts: the lowest gap in what is held *)
lowest_gap(k) ==
  LET before == {n \in Seqs(k.held) : n < highest(k) /\ n + 1 \notin Seqs(k.held)}
  IN IF before = {} THEN None ELSE [at |-> Min(before), tries |-> 0]

(* `pull_once_from`: the first request, from the highest entry held or     *)
(* from the hole, and what is taken of the answer. *)
PullOnce(c) ==
  LET k == copy[c]
      since == IF hole[c] = None THEN highest(k) ELSE Min({highest(k), hole[c].at})
      page == Page(c, since)
      t == take_under(c, page, known)
  IN /\ pulling = None /\ MayPull(c)
     /\ UNCHANGED <<hole, cut, known, vars>>
     /\ copy' = [copy EXCEPT ![c] = t]
     /\ pulling' = [chan |-> c, first |-> First(c), knew |-> known,
                    refused |-> Refused(c, page, known), stored |-> Grew(c, t)]

(* Mutant of StartsLater: the test the wrong way round. *)
StartsLaterReversed(k, first) == lowest(k) > 0 /\ lowest(k) < first

(* The copy starts later than the origin did when it answered. *)
StartsLater(k, first) == first > 0 /\ lowest(k) > first

(* `pull_once_from`: the second request, for what is below the lowest      *)
(* entry held; the roster is derived again when it brought anything. *)
PullBelow ==
  LET p == pulling
      c == p.chan
      page == Page(c, p.first - 1)
      t == take_under(c, page, p.knew)
      grew == Grew(c, t)
  IN /\ p # None /\ StartsLater(copy[c], p.first) /\ MayPull(c)
     /\ pulling' = None /\ UNCHANGED <<cut, known, vars>>
     /\ copy' = [copy EXCEPT ![c] = IF grew THEN rederive(t) ELSE t]
     /\ hole' = [hole EXCEPT ![c] =
                   note_holes(@, p.refused \cup Refused(c, page, p.knew), p.stored \/ grew)]

(* The pull ends: no second request, or the origin answers it no more. *)
PullEnds ==
  LET p == pulling c == p.chan
  IN /\ p # None /\ ~(StartsLater(copy[c], p.first) /\ MayPull(c))
     /\ pulling' = None /\ UNCHANGED <<copy, cut, known, vars>>
     /\ hole' = [hole EXCEPT ![c] = note_holes(@, p.refused, p.stored)]

(* `learn_lineage`, between pulls: the origin's earlier keys *)
LearnLineage ==
  /\ pulling = None /\ ~known /\ known' = TRUE
  /\ UNCHANGED <<copy, hole, pulling, cut, vars>>

(* The copying exchange restarts: a pull in progress is lost, the holes    *)
(* are read again from what is held. *)
Restart ==
  /\ pulling' = None /\ hole' = [c \in Channels |-> lowest_gap(copy[c])]
  /\ UNCHANGED <<copy, cut, known, vars>>

(* The origin takes a new key (SIP-40).  A copy that already holds entries *)
(* of its channels remembers the old key, so this is said of one that does *)
(* not yet. *)
NewOriginKey ==
  /\ LateLineage /\ ~known /\ pulling = None
  /\ \A c \in Channels : copy[c].inst = None /\ cut[c] = {}
  /\ cut' = [c \in Channels |->
               IF db[c].row = None THEN {}
               ELSE {[inst |-> db[c].row.inst, seq |-> n] : n \in 1..(db[c].row.next - 1)}]
  /\ UNCHANGED <<copy, hole, pulling, known, vars>>

CopyNext ==
  \/ Next /\ UNCHANGED copyVars
  \/ \E c \in Channels : PullOnce(c)
  \/ PullBelow \/ PullEnds \/ LearnLineage \/ Restart \/ NewOriginKey

CopySpec == CopyInit /\ [][CopyNext]_allVars

(* The pull task is a loop that sleeps at most one interval, and the       *)
(* lineage is asked for on every pull that refused something, between two  *)
(* pulls; restarts may go on for ever but do not all fall inside a pull. *)
CopyLiveSpec ==
  /\ CopySpec
  /\ SF_allVars(\E c \in Channels : PullOnce(c)) /\ SF_allVars(PullBelow \/ PullEnds)
  /\ SF_allVars(LearnLineage)

----------------------------------------------------------------------------

(* The entries of the incarnation that stands, pruned ones included *)
Ever(c) == {x.seq : x \in {y \in spent : y.chan = c /\ y.life = life[c]}}

(* The copy has the whole log of the channel that stands. *)
Complete(c) ==
  /\ pulling = None /\ db[c].row # None /\ copy[c].inst = db[c].row.inst
  /\ Seqs(copy[c].held) = Ever(c)

(* It has everything up to the newest entry the origin has. *)
UpToDate(c) ==
  /\ pulling = None /\ db[c].row # None /\ copy[c].inst = db[c].row.inst
  /\ highest(copy[c]) = db[c].row.next - 1

Readers(member) == {a \in Accounts : member[a] # None /\ member[a].present}
Admins(member) == {a \in Accounts : member[a] # None /\ member[a].role = "admin"}
Muted(member) == {a \in Accounts : member[a] # None /\ member[a].muted}

(* A copy with the whole log, of which no entry had to wait for the        *)
(* origin's earlier key, serves exactly the accounts the origin would and  *)
(* reports the epoch in force, through leaving, returning, removal,        *)
(* destruction and recreation (`derive_membership`). *)
ServesMembers ==
  \A c \in Channels : Complete(c) /\ cut[c] = {} =>
    /\ Readers(copy[c].member) = Readers(db[c].member)
    /\ copy[c].epoch = db[c].row.epoch

(* The copy never mixes incarnations: each entry it holds is a statement   *)
(* of the incarnation it says it holds (`adopt`). *)
HoldsOneLife ==
  \A c \in Channels : \A e \in copy[c].held :
    \E x \in spent : /\ x.chan = c /\ x.inst = copy[c].inst
                     /\ x.seq = e.seq /\ x.dev = e.dev /\ x.pos = e.pos

(* Once the origin is quiet, the copy comes to hold every entry it may     *)
(* pull, the ones it refused at first included (`pull_once_from`). *)
CatchesUp ==
  \A c \in Channels :
    <>[](MayPull(c) => copy[c].inst = db[c].row.inst /\ db[c].entry \subseteq copy[c].held)

(* "The rules mirror the origin's own, because they are the same rules     *)
(* read from the same events": with the whole log, the copy names the      *)
(* origin's administrators, of whom `rehome` asks, and no other, and the   *)
(* origin's muted members (`derive_membership`). *)
RosterMirrorsOrigin ==
  \A c \in Channels : Complete(c) =>
    /\ Admins(copy[c].member) = Admins(db[c].member)
    /\ Muted(copy[c].member) = Muted(db[c].member)

(* "A replica whose history is too short to derive membership refuses the  *)
(* channel": what is served is served to members. *)
TooShortIsRefused ==
  \A c \in Channels : UpToDate(c) /\ copy[c].derivable =>
    Readers(copy[c].member) \subseteq Readers(db[c].member)
=============================================================================
