------------------------------ MODULE Timeline ------------------------------
(***************************************************************************)
(* How a channel's entries become a conversation (sqex-proto/src/          *)
(* timeline.rs): posts, edits, redactions, reactions, the channel's name   *)
(* and its calls, folded in the order they are given.  The exchange checks *)
(* none of this, so who may edit, delete or name is decided here.          *)
(*                                                                         *)
(* An entry is [by, is, target, epoch, timed, late]: `late` says that an   *)
(* edit came after EDIT_WINDOW.  The words of a post or of an edit are the *)
(* number of the entry that carries them, 0 for none, and there is one     *)
(* emoji.  `admins` are the accounts the exchange lists as administrators. *)
(* A timeline's maps are functions whose domain grows.                     *)
(***************************************************************************)
EXTENDS Naturals

Put(f, s, x) == [y \in DOMAIN f \cup {s} |-> IF y = s THEN x ELSE f[y]]
Drop(f, s) == [x \in DOMAIN f \ {s} |-> f[x]]

EmptyTimeline ==
  [msgs |-> <<>>, unreadable |-> <<>>, events |-> {}, forged |-> {}, meta |-> 0, calls |-> <<>>]

Shows(account, words, gone, asked) ==
  [by |-> account, words |-> words, edit |-> 0, redacted |-> gone, asked |-> asked, reacts |-> {}]

With(t, s, m) == [t EXCEPT !.msgs = Put(@, s, m)]

(* Mutant of MayDelete: whoever asks. *)
MayDeleteAnybody(author, account, admins) == TRUE

MayDelete(author, account, admins) == author = account \/ account \in admins

(* `Body::Post` *)
ApplyPost(t, s, e) == With(t, s, Shows(e.by, s, FALSE, FALSE))

(* `Body::Edit`: the author's, in time, and not older than the edit shown *)
Edits(m, s, e) == m.by = e.by /\ ~e.late /\ m.edit <= s

ApplyEdit(t, s, e) ==
  IF e.target \in DOMAIN t.msgs /\ Edits(t.msgs[e.target], s, e)
  THEN With(t, e.target, [t.msgs[e.target] EXCEPT !.words = s, !.edit = s])
  ELSE t

(* The words go; that there was a message stays. *)
Redacted(m) == [by |-> m.by, words |-> 0, edit |-> m.edit, redacted |-> TRUE, asked |-> TRUE, reacts |-> m.reacts]

(* `Body::Redact`: of a message, or of one that was never understood *)
ApplyRedact(t, s, e, admins) ==
  IF e.target \in DOMAIN t.msgs
  THEN IF MayDelete(t.msgs[e.target].by, e.by, admins)
       THEN With(t, e.target, Redacted(t.msgs[e.target]))
       ELSE t
  ELSE IF e.target \in DOMAIN t.unreadable /\ MayDelete(t.unreadable[e.target], e.by, admins)
       THEN With([t EXCEPT !.unreadable = Drop(@, e.target)], e.target,
                 Shows(t.unreadable[e.target], 0, TRUE, TRUE))
       ELSE t

(* `Body::Reaction`, added or taken back: once an account *)
ApplyReaction(t, s, e) ==
  IF e.target \in DOMAIN t.msgs
  THEN With(t, e.target, [t.msgs[e.target] EXCEPT
         !.reacts = IF e.is = "react" THEN @ \cup {e.by} ELSE @ \ {e.by}])
  ELSE t

(* `Body::Metadata`: an administrator's, and the newest *)
ApplyMetadata(t, s, e, admins) ==
  IF e.by \in admins /\ s >= t.meta THEN [t EXCEPT !.meta = s] ELSE t

(* `Body::Call` and `Body::CallEnd`: the first end counts *)
ApplyCall(t, s, e) == [t EXCEPT !.calls = Put(@, s, 0)]

ApplyCallEnd(t, s, e) ==
  IF e.target \in DOMAIN t.calls /\ t.calls[e.target] = 0
  THEN [t EXCEPT !.calls = Put(@, e.target, s)]
  ELSE t

ApplyBody(t, s, e, admins) ==
  CASE e.is = "post" -> ApplyPost(t, s, e)
    [] e.is = "edit" -> ApplyEdit(t, s, e)
    [] e.is = "redact" -> ApplyRedact(t, s, e, admins)
    [] e.is \in {"react", "unreact"} -> ApplyReaction(t, s, e)
    [] e.is = "meta" -> ApplyMetadata(t, s, e, admins)
    [] e.is = "call" -> ApplyCall(t, s, e)
    [] e.is = "end" -> ApplyCallEnd(t, s, e)

(* `apply`: `how` is what the reader has of the entry -- its words, a      *)
(* tombstone, a body it has no key for, or nobody's word that it is real. *)
apply(t, s, e, how, admins) ==
  CASE how = "forged" -> [t EXCEPT !.forged = @ \cup {s}]
    [] how # "forged" /\ e.is = "system" -> [t EXCEPT !.events = @ \cup {s}]
    [] how = "tombstone" /\ e.is # "system" -> With(t, s, Shows(e.by, 0, TRUE, FALSE))
    [] how = "sealed" /\ e.is # "system" -> [t EXCEPT !.unreadable = Put(@, s, e.by)]
    [] how = "words" /\ e.is # "system" -> ApplyBody(t, s, e, admins)

(* Mutant of forget: the timeline is left as it is. *)
forgetNothing(t, gone) == t

(* `forget`: a message whose time has run out *)
forget(t, gone) == [t EXCEPT !.msgs = [s \in DOMAIN @ \ gone |-> @[s]]]

(* What a reader sees of the messages, the name and the calls. *)
Shown(t) ==
  [msgs |-> [s \in DOMAIN t.msgs |->
               IF t.msgs[s].redacted THEN <<>>
               ELSE <<t.msgs[s].words, t.msgs[s].edit, t.msgs[s].reacts>>],
   meta |-> t.meta, calls |-> t.calls]
=============================================================================
