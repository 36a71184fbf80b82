----------------------------- MODULE HintStream -----------------------------
(***************************************************************************)
(* What an event stream promises its subscriber (sqexd/src/events.rs, the  *)
(* comment at its head): a hint that something changed is never lost in    *)
(* silence. While a stream is open, every hint published to it is owed to  *)
(* the reader until the exchange has written that hint, or has written     *)
(* something that tells the reader to fetch everything again.              *)
(***************************************************************************)
CONSTANTS HSlots,  \* the streams
          HHints   \* the hints that may be published

VARIABLES hOpen,   \* the streams that are open
          hOwed    \* hOwed[s]: the hints published to s the reader does not know of

hVars == <<hOpen, hOwed>>

HInit ==
    /\ hOpen = {}
    /\ hOwed = [s \in HSlots |-> {}]

HOpenStream(s) ==
    /\ s \notin hOpen
    /\ hOpen' = hOpen \cup {s}
    /\ UNCHANGED hOwed

HPublish(s, h) ==
    /\ s \in hOpen
    /\ hOwed' = [hOwed EXCEPT ![s] = @ \cup {h}]
    /\ UNCHANGED hOpen

(* One hint is written. *)
HDeliver(s, h) ==
    /\ h \in hOwed[s]
    /\ hOwed' = [hOwed EXCEPT ![s] = @ \ {h}]
    /\ UNCHANGED hOpen

(* Some of the hints are replaced by the request to fetch again. *)
HResync(s) ==
    /\ \E rest \in SUBSET hOwed[s]: hOwed' = [hOwed EXCEPT ![s] = rest]
    /\ UNCHANGED hOpen

(* The stream ends; its reader reconnects and fetches. *)
HClose(s) ==
    /\ s \in hOpen
    /\ hOpen' = hOpen \ {s}
    /\ hOwed' = [hOwed EXCEPT ![s] = {}]

HNext ==
    \E s \in HSlots:
        \/ HOpenStream(s)
        \/ \E h \in HHints: HPublish(s, h) \/ HDeliver(s, h)
        \/ HResync(s)
        \/ HClose(s)

HSafeSpec == HInit /\ [][HNext]_hVars

(* Every hint owed is told, or the stream ends. *)
HNothingLost == \A s \in HSlots: \A h \in HHints: h \in hOwed[s] ~> h \notin hOwed[s]

HSpec == HSafeSpec /\ HNothingLost
=============================================================================
