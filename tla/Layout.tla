------------------------------- MODULE Layout -------------------------------
(***************************************************************************)
(* How the messages of sqex-proto are written to bytes and read back.      *)
(*                                                                         *)
(* Every encoder writes fields one after another; a list or a text is      *)
(* preceded by its length in one, two or four bytes, written with `as u8`  *)
(* or the like, which drops what does not fit. Every decoder checks that   *)
(* there are bytes enough, that a length is within its limit and, mostly,  *)
(* that nothing is left over. The bytes themselves are left out: a layout  *)
(* is the fields in order, and what matters of a value is how many of each *)
(* list it holds. A decoder that has read a wrong length reads on in bytes *)
(* meant for other fields. The values of a byte that names a kind, a flag  *)
(* or a role are left out too: a writer writes none the reader refuses.    *)
(***************************************************************************)
EXTENDS Integers, Sequences, FiniteSetsExt, Functions

(* The fields of a layout. *)
Fixed(n) == [is |-> "fixed", n |-> n]
U8 == Fixed(1)
U16 == Fixed(2)
U32 == Fixed(4)
U64 == Fixed(8)
Key == Fixed(32)
Sig == Fixed(64)

(* Nothing holds the writer back but the size of a request: MAX_BODY. *)
Free == 65536

(* The most a length of `w` bytes can say; four say more than any message. *)
Widest(w) == IF w > 2 THEN 2 ^ 21 ELSE 256 ^ w - 1

(* A length of `w` bytes, at most `max` of it accepted, then the rows. *)
Rows(w, max, row) ==
    [is |-> "rows", w |-> w, max |-> max, upto |-> Free, clip |-> 2 ^ 21, row |-> row,
     text |-> FALSE, sure |-> FALSE]
Bytes(w, max) == Rows(w, max, <<U8>>)
Text(w, max) == [Bytes(w, max) EXCEPT !.text = TRUE]

(* What is there or not, after a byte that says which. *)
Maybe(fields) == [Rows(1, 1, fields) EXCEPT !.upto = 1, !.sure = TRUE]

(* What the writer makes sure of: it holds at most so much, or cuts it to  *)
(* so much; and what it does not: a text bounded in characters, when the   *)
(* reader counts bytes.                                                    *)
Sent(upto, field) == [field EXCEPT !.upto = upto, !.sure = TRUE]
Cut(to, field) == [field EXCEPT !.clip = to]
Typed(upto, field) == [field EXCEPT !.upto = upto]

(* A message inside the message, after its length; all that is left of the *)
(* message; and fields written, at the end, only where there are any.      *)
Box(w, max, fields) == [is |-> "box", w |-> w, max |-> max, row |-> fields]
Rest(max) == [Bytes(0, max) EXCEPT !.is = "rest"]
Opt(fields) == [Maybe(fields) EXCEPT !.is = "opt", !.w = 0]

(* A decoder that refuses what is left over, and one that does not look.   *)
Exactly(fields) == [fields |-> fields, exact |-> TRUE]
AtLeast(fields) == [fields |-> fields, exact |-> FALSE]
-----------------------------------------------------------------------------
(* The places of a layout where something is counted. *)
RECURSIVE Places(_)
Places(fields) ==
    LET Here(i) == IF fields[i].is \in {"rows", "rest", "opt"} THEN {<<i>>} ELSE {}
        Under(i) == IF fields[i].is \in {"rows", "opt", "box"} THEN Places(fields[i].row) ELSE {}
    IN  UNION {Here(i) \cup {<<i>> \o p : p \in Under(i)} : i \in DOMAIN fields}

RECURSIVE FieldAt(_, _)
FieldAt(fields, place) ==
    IF Len(place) = 1 THEN fields[place[1]] ELSE FieldAt(fields[place[1]].row, Tail(place))

(* What the reader takes of a field, where the writer holds as much. *)
Bound(f) == Min({f.max, f.upto, f.clip} \cup IF f.is = "rows" THEN {Widest(f.w)} ELSE {})

(* A value holds `probe.n` at `probe.at` and one of everything else; or    *)
(* all that everything may hold.                                           *)
Least == [at |-> <<>>, n |-> 1]
Full == [at |-> <<>>, n |-> 2]
Given(f, place, probe) ==
    IF probe = Full THEN Bound(f) ELSE IF place = probe.at THEN probe.n ELSE 1

(* Mutant of Count: every text and list is written as long as it is. *)
CountUncut(f, place, probe) == Given(f, place, probe)

(* An encoder that cuts writes the first of what it was given. *)
Count(f, place, probe) == Min({f.clip, Given(f, place, probe)})

RECURSIVE Size(_, _, _)
Size(fields, under, probe) ==
    LET Of(i) ==
        LET f == fields[i]  here == under \o <<i>> IN
        CASE f.is = "fixed" -> f.n
          [] f.is = "box" -> f.w + Size(f.row, here, probe)
          [] OTHER -> f.w + Count(f, here, probe) * Size(f.row, here, probe)
    IN  SumFunction([i \in DOMAIN fields |-> Of(i)])

Written(layout, probe) == Size(layout.fields, <<>>, probe)
-----------------------------------------------------------------------------
(* A reader: how far it is, and whether it is still where the writer was:  *)
(* "astray" once it took a wrong length and reads on in what is left of a  *)
(* text, "adrift" in what is left of something else, "loose" once it took  *)
(* a length from there and is anywhere from `at` to `most`.                *)
Refused == [how |-> "refused", at |-> 0, most |-> 0]
At(n) == [how |-> "in step", at |-> n, most |-> n]
Past(r, n) == [r EXCEPT !.at = @ + n, !.most = @ + n]

(* Mutant of Takes: the bytes are not counted before they are taken. *)
TakesUnchecked(r, n, have) == IF r.at + n > have THEN [r EXCEPT !.at = have, !.most = have] ELSE Past(r, n)

Takes(r, n, have) == IF r.at + n > have THEN Refused ELSE Past(r, n)

(* The most bytes a reader may take for some fields. *)
Huge == 2 ^ 24
RECURSIVE Most(_)
Most(fields) ==
    LET Of(f) ==
        IF f.is = "fixed" THEN f.n
        ELSE LET n == IF f.is = "box" THEN 1 ELSE Most(f.row) IN
             IF n > Huge \div f.max THEN Huge ELSE f.w + f.max * n
    IN  Min({Huge, SumFunction([i \in DOMAIN fields |-> Of(fields[i])])})

(* What a width says of a length. *)
Prefix(count, w) == IF w > 2 THEN count ELSE count % 256 ^ w

(* The least length a reader astray in a text finds there: a text has no   *)
(* byte below a space.                                                     *)
Stray(w) == IF w > 2 THEN 2 ^ 29 ELSE IF w = 2 THEN 32 * 257 ELSE 32

(* Mutant of Allowed: a length is taken whatever it says. *)
AllowedAny(f, length) == TRUE

Allowed(f, length) == length <= f.max

RECURSIVE Reads(_, _, _, _, _)
Reads(fields, under, probe, have, r0) ==
    LET Loose(f, from) == [from EXCEPT !.how = "loose", !.most = Min({Huge, @ + Most(<<f>>) - f.w})]
        Lost(f, from) ==
          IF ~Allowed(f, Stray(f.w)) \/ from.at + Stray(f.w) > have THEN Refused ELSE Loose(f, from)
        Counted(f, here, from) ==
          LET count == Count(f, here, probe)
              got == Prefix(count, f.w)
              first == IF got = 0 THEN from ELSE Reads(f.row, here, probe, have, from)
          IN  CASE ~Allowed(f, got) -> Refused
                [] got # count ->
                     Takes([from EXCEPT !.how = IF f.text THEN "astray" ELSE "adrift"],
                           got * Size(f.row, here, Least), have)
                [] first.how # "in step" -> first
                [] OTHER -> Takes(from, got * Size(f.row, here, probe), have)
        Boxed(f, here, from) ==
          LET size == Size(f.row, here, probe)
              got == Prefix(size, f.w)
              end == from.at + size
              inner == Reads(f.row, here, probe, end, from)
          IN  IF ~Allowed(f, got) \/ from.at + got > have THEN Refused
              ELSE IF got # size THEN Past([from EXCEPT !.how = "adrift"], got)
              ELSE IF end \notin inner.at..inner.most THEN Refused
              ELSE [inner EXCEPT !.at = end, !.most = end]
        Lengthy(f, here, r) ==
          LET from == Takes(r, f.w, have) IN
          CASE from = Refused -> from
            [] r.how = "astray" -> Lost(f, from)
            [] r.how \in {"adrift", "loose"} -> Loose(f, from)
            [] OTHER -> IF f.is = "box" THEN Boxed(f, here, from) ELSE Counted(f, here, from)
        Step(i, r) ==
          LET f == fields[i]  here == under \o <<i>> IN
          CASE r.how = "refused" -> r
            [] f.is = "fixed" -> Takes(r, f.n, have)
            [] f.is = "rest" -> IF ~Allowed(f, have - r.at) THEN Refused ELSE Past(r, have - r.at)
            [] f.is = "opt" -> IF r.at = have THEN r ELSE Reads(f.row, here, probe, have, r)
            [] OTHER -> Lengthy(f, here, r)
        Upto[i \in 0..Len(fields)] == IF i = 0 THEN r0 ELSE Step(i, Upto[i - 1])
    IN  Upto[Len(fields)]

(* Whether a value loses something to an encoder that cuts. *)
Shortened(layout, probe) ==
    probe.at # <<>> /\ FieldAt(layout.fields, probe.at).clip < probe.n

(* What the decoder makes of `have` bytes of a value that was written. *)
Outcome(layout, probe, have) ==
    LET r == Reads(layout.fields, <<>>, probe, have, At(0))
        over == layout.exact /\ have \notin r.at..r.most
    IN  IF r.how = "refused" \/ over THEN "refused"
        ELSE IF r.how # "in step" THEN "another"
        ELSE IF have # Written(layout, probe) THEN "part"
        ELSE IF Shortened(layout, probe) THEN "cut" ELSE "same"

(* A text cut inside a character is no text, and its message is refused. *)
Outcomes(layout, probe, have) ==
    LET out == Outcome(layout, probe, have) IN
    {out} \cup IF out = "cut" /\ FieldAt(layout.fields, probe.at).text THEN {"refused"} ELSE {}
=============================================================================
