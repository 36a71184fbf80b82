-------------------------------- MODULE Wire --------------------------------
(***************************************************************************)
(* A message of sqex-proto is written, some of its bytes arrive, and they  *)
(* are read: over the layouts of the modules Wire<part>, at the sizes      *)
(* around every limit a length, a reader or a writer has.                  *)
(***************************************************************************)
EXTENDS Layout

CONSTANT Layouts

VARIABLES
    sent,       \* the layout of the message, and what it holds
    bytes,      \* how many of its bytes arrive; -1 before any do
    read        \* what the reader made of them

wireVars == <<sent, bytes, read>>

(* What is worth trying of a field: nothing, one, and around every limit.  *)
Sizes(f) ==
    {n \in {0, 1} \cup UNION {{m - 1, m, m + 1} : m \in {f.max, f.clip, f.upto, Widest(f.w)} \ {0}}
        : n <= f.upto}

Boxed(layout) == \E i \in DOMAIN layout.fields :
    LET f == layout.fields[i] IN
    f.is = "box" \/ (f.is = "rows" /\ \E j \in DOMAIN f.row : f.row[j].is = "box")

Probes(layout) ==
    {Least} \cup (IF Boxed(layout) THEN {Full} ELSE {})
    \cup UNION {{[at |-> p, n |-> n] : n \in Sizes(FieldAt(layout.fields, p))} : p \in Places(layout.fields)}

(* A field the writer knows no bound of is bounded by the request. *)
Fits(layout, probe) ==
    \/ probe.at = <<>>
    \/ FieldAt(layout.fields, probe.at).upto < Free
    \/ Written(layout, probe) <= Free

WireInit ==
    /\ \E layout \in Layouts : \E probe \in {p \in Probes(layout) : Fits(layout, p)} :
          sent = [layout |-> layout, probe |-> probe]
    /\ bytes = -1 /\ read = "unread"

All == Written(sent.layout, sent.probe)

Arrives(n) ==
    /\ bytes = -1 /\ n >= 0
    /\ bytes' = n
    /\ UNCHANGED <<sent, read>>

Decode ==
    /\ bytes # -1 /\ read = "unread"
    /\ read' \in Outcomes(sent.layout, sent.probe, bytes)
    /\ UNCHANGED <<sent, bytes>>

WireNext ==
    \/ Arrives(All)
    \/ \E k \in 1..4 : Arrives(All - k)
    \/ Arrives(All \div 2)
    \/ Decode

WireSpec == WireInit /\ [][WireNext]_wireVars
-----------------------------------------------------------------------------
(* What a value may hold and be read. *)
Within(layout, probe) ==
    probe.at # <<>> => LET f == FieldAt(layout.fields, probe.at) IN probe.n <= (IF f.sure THEN f.upto ELSE Bound(f))

(* What is read of a message is what was written. One that arrives whole   *)
(* is read as it was sent, whatever its lists and texts hold within the    *)
(* limits, all at once too; one that holds more than a length can say, or  *)
(* than the reader allows, is cut by its writer or refused, never taken    *)
(* for another message. One cut short on its way is refused, whatever it   *)
(* was cut in, except where what is missing is the end of a body that      *)
(* fills the message (every encode and decode of sqex-proto).              *)
Tails(layout) == \E i \in DOMAIN layout.fields : layout.fields[i].is \in {"rest", "opt"}
ReadAsWritten ==
    read # "unread" =>
        /\ read # "another"
        /\ bytes = All /\ Within(sent.layout, sent.probe) => read \in {"same", "cut"}
        /\ bytes # All /\ ~Tails(sent.layout) => read = "refused"
=============================================================================
