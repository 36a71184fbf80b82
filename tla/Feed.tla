-------------------------------- MODULE Feed --------------------------------
(***************************************************************************)
(* One account's feed: sqexd/src/feed.rs and the /feed routes of           *)
(* server.rs, the author's devices and a follower (sqex-chat/src/feed.rs). *)
(*                                                                         *)
(* The statements of an append commit one by one, so it may stop after the *)
(* row of the post is in and before the head is updated.                   *)
(***************************************************************************)
EXTENDS Integers, FiniteSets, FiniteSetsExt, Sequences, SequencesExt

CONSTANTS
    FeedDevices,      \* devices of the account that publish
    MAX_FEED_POSTS,   \* the most posts a feed may ask to keep
    MAX_FEED_BYTES,
    Retentions,       \* the retentions a feed may ask for; the longest is the default
    PageSize,         \* posts in one page
    MaxSerial,        \* bound: posts of the feed
    MaxFeedTime,      \* bound: the clock
    MaxTorn           \* bound: appends that stop half way

ASSUME FeedAssumption ==
    /\ MAX_FEED_POSTS \in Nat \ {0} /\ MAX_FEED_BYTES \in Nat /\ PageSize \in Nat \ {0}
    /\ MaxSerial \in Nat /\ MaxFeedTime \in Nat /\ MaxTorn \in Nat
    /\ Retentions \subseteq Nat \ {0} /\ \E r \in Retentions : \A q \in Retentions : q <= r

(* A body is words, a Redact that names a serial, or gone. *)
Gone == 0
Words == -1
Bodies == {Words} \cup 1..MaxSerial
SizeOf(body) == IF body = Gone THEN 1 ELSE 3
Never == MaxFeedTime + MaxFeedTime + 1

(* The link of a post hashes its predecessor's link with what it commits   *)
(* to: here the sequence of all that was committed to.                     *)
LinkOf(post) == Append(post.prev, <<post.device, post.commits>>)

VARIABLES
    feed,      \* the head row
    rows,      \* serial -> the post held
    feedClock,
    author,    \* author[d]: what device d is publishing
    follower,  \* the serial the follower has read to
    acked,     \* history: serial -> link of the post whose append was answered
    torn,      \* history: appends that stopped half way
    redacted   \* history: serials withdrawn by the author whose Redact was accepted

feedVars == <<feed, rows, feedClock, author, follower, acked, torn, redacted>>

NothingToSay == [at |-> "idle"]
Serials == 1..MaxSerial
Spoken(held) == {n \in DOMAIN held : held[n].body # Gone}
BytesOf(held) ==
    SizeOf(Gone) * Cardinality(DOMAIN held) + (SizeOf(Words) - SizeOf(Gone)) * Cardinality(Spoken(held))
Without(held, gone) == [n \in DOMAIN held \ gone |-> held[n]]

NoFeed == [found |-> FALSE, oldest |-> 0, newest |-> 0, head |-> <<>>, posts |-> 0,
           bytes |-> 0, retention |-> Max(Retentions), max |-> MAX_FEED_POSTS]

FeedInit ==
    /\ feed = NoFeed /\ rows = <<>>
    /\ feedClock = 1
    /\ author = [d \in FeedDevices |-> NothingToSay]
    /\ follower = 0
    /\ acked = <<>> /\ torn = 0 /\ redacted = {}
-----------------------------------------------------------------------------
(* expire: a post past its timer loses its body and keeps its place. *)
Due == {n \in DOMAIN rows : rows[n].expires <= feedClock /\ rows[n].body # Gone}
Stones(held, which) ==
    [n \in DOMAIN held |-> IF n \in which THEN [held[n] EXCEPT !.body = Gone, !.expires = Never] ELSE held[n]]
Freed(which) == (SizeOf(Words) - SizeOf(Gone)) * Cardinality(which)
Less(f, freed) == [f EXCEPT !.bytes = IF @ > freed THEN @ - freed ELSE 0]

Expire ==
    /\ rows' = Stones(rows, Due)
    /\ feed' = Less(feed, Freed(Due))

(* feed_head and head: the author's device learns where the feed has got   *)
(* to, and signs at the serial after it.                                   *)
SignsAt(d, body, retry, timer) ==
    /\ Expire
    /\ author' = [author EXCEPT ![d] = [at |-> "signed", body |-> body, retry |-> retry,
                     timer |-> timer, serial |-> feed.newest + 1, prev |-> feed.head]]
    /\ UNCHANGED <<feedClock, follower, acked, torn, redacted>>

(* publish, with or without a timer on the post. *)
Publish(d, timer) ==
    /\ author[d].at = "idle" /\ feed.newest < MaxSerial
    /\ SignsAt(d, Words, TRUE, timer)

(* The head is read again, or for the first time for a Redact. *)
ReadHead(d) ==
    /\ author[d].at = "wants"
    /\ SignsAt(d, author[d].body, author[d].retry, author[d].timer)

(* What the loop of append evicts: from the oldest end, while there are    *)
(* too many posts or bytes, and never the post just accepted.              *)
Fits(f, held) == Cardinality(DOMAIN held) <= f.max /\ BytesOf(held) <= MAX_FEED_BYTES
EvictedMutant(f, held, serial) ==
    IF Fits(f, held) THEN {} ELSE {n \in DOMAIN held : n # serial /\ n = Max(DOMAIN held \ {serial})}
Evicted(f, held, serial) ==
    LET below(k) == {n \in DOMAIN held : n < k}
        enough == {k \in DOMAIN held : k = serial \/ Fits(f, Without(held, below(k)))} IN
    below(Min(enough))

(* The row of an accepted post. *)
RowOf(post, timer) ==
    [device |-> post.device, prev |-> post.prev, commits |-> post.body, body |-> post.body,
     received |-> feedClock, expires |-> IF timer THEN feedClock + 1 ELSE Never]

Accepts(a) == a.serial = feed.newest + 1 /\ a.prev = feed.head

(* append: the post continues the feed, and the head follows it. The       *)
(* counters go on from what the head row says; they are exact whenever a   *)
(* post is accepted (HeadSaysWhatIsHeld).                                  *)
AppendPost(d) ==
    LET a == author[d]
        n == a.serial
        row == RowOf([device |-> d, prev |-> a.prev, body |-> a.body], a.timer)
        held == [m \in DOMAIN rows \cup {n} |-> IF m = n THEN row ELSE rows[m]]
        out == Evicted(feed, held, n) IN
    /\ a.at = "signed" /\ Accepts(a) /\ n \notin DOMAIN rows /\ n \in Serials
    /\ rows' = Without(held, out)
    /\ feed' = [feed EXCEPT !.found = TRUE, !.newest = n, !.head = LinkOf(row),
                   !.oldest = IF out # {} THEN Max(out) + 1 ELSE IF @ = 0 THEN n ELSE @,
                   !.posts = @ + 1 - Cardinality(out),
                   !.bytes = @ + SizeOf(a.body) - BytesOf([m \in out |-> held[m]])]
    /\ acked' = [m \in DOMAIN acked \cup {n} |-> IF m = n THEN LinkOf(row) ELSE acked[m]]
    /\ redacted' = redacted \cup ({a.body} \cap Serials)
    /\ author' = [author EXCEPT ![d] = NothingToSay]
    /\ UNCHANGED <<feedClock, follower, torn>>

(* The row is in, and a statement after it is not: one of the evictions,   *)
(* with those before it done, or the update of the head. The caller is     *)
(* answered an error, and the head says what it said.                      *)
AppendStops(d) ==
    LET a == author[d]
        n == a.serial
        row == RowOf([device |-> d, prev |-> a.prev, body |-> a.body], a.timer)
        held == [m \in DOMAIN rows \cup {n} |-> IF m = n THEN row ELSE rows[m]]
        out == Evicted(feed, held, n) IN
    /\ a.at = "signed" /\ Accepts(a) /\ n \notin DOMAIN rows /\ n \in Serials
    /\ torn < MaxTorn
    /\ torn' = torn + 1
    /\ \E stop \in out \cup {n}: rows' = Without(held, {m \in out: m < stop})
    /\ author' = [author EXCEPT ![d] = NothingToSay]
    /\ UNCHANGED <<feed, feedClock, follower, acked, redacted>>

(* Refused. Another device got there first: read the head again, once. A   *)
(* row in the way of the insert is an error of the storage.                *)
AppendRefused(d) ==
    LET a == author[d] IN
    /\ a.at = "signed"
    /\ ~Accepts(a) \/ a.serial \in DOMAIN rows
    /\ author' = [author EXCEPT ![d] =
                    IF ~Accepts(a) /\ a.retry
                    THEN [at |-> "wants", body |-> a.body, retry |-> FALSE, timer |-> a.timer]
                    ELSE NothingToSay]
    /\ UNCHANGED <<feed, rows, feedClock, follower, acked, torn, redacted>>

(* withdraw: the body goes, and the client publishes the Redact that says  *)
(* it was the author's act. It is publish again: it may fail.              *)
Withdraw(d, n) ==
    /\ author[d].at = "idle" /\ feed.newest < MaxSerial
    /\ n \in DOMAIN rows /\ rows[n].body # Gone /\ n \notin Due
    /\ rows' = Stones(rows, Due \cup {n})
    /\ feed' = Less(feed, Freed(Due \cup {n}))
    /\ author' = [author EXCEPT ![d] = [at |-> "wants", body |-> n, retry |-> TRUE, timer |-> FALSE]]
    /\ UNCHANGED <<feedClock, follower, acked, torn, redacted>>

(* set: the policy, whole. A feed that was never written to gets its row. *)
SetPolicy(retention, max) ==
    /\ feed' = [feed EXCEPT !.found = TRUE, !.retention = retention, !.max = max]
    /\ UNCHANGED <<rows, feedClock, author, follower, acked, torn, redacted>>

(* sweep: retention, by the time a post was received. `oldest` follows     *)
(* what is left; `newest` and the head never go back.                      *)
SweptHeadMutant(f, held) ==
    IF held = <<>> THEN [NoFeed EXCEPT !.retention = f.retention, !.max = f.max, !.found = TRUE]
    ELSE [f EXCEPT !.oldest = Min(DOMAIN held), !.posts = Cardinality(DOMAIN held), !.bytes = BytesOf(held)]

SweptHead(f, held) == [f EXCEPT !.oldest = IF held = <<>> THEN 0 ELSE Min(DOMAIN held),
                          !.posts = Cardinality(DOMAIN held), !.bytes = BytesOf(held)]

FeedSweep ==
    LET stoned == Stones(rows, Due)
        old == {n \in DOMAIN rows : rows[n].received + feed.retention < feedClock}
        left == Without(stoned, old) IN
    /\ feed.found
    /\ rows' = left
    /\ feed' = IF old = {} THEN Less(feed, Freed(Due)) ELSE SweptHead(feed, left)
    /\ UNCHANGED <<feedClock, author, follower, acked, torn, redacted>>

FeedTick ==
    /\ feedClock < MaxFeedTime
    /\ feedClock' = feedClock + 1
    /\ UNCHANGED <<feed, rows, author, follower, acked, torn, redacted>>
-----------------------------------------------------------------------------
(* The follower. A page forward, and read_to the last post of it. *)
PageAfter(since) ==
    LET above == {n \in DOMAIN rows : n > since} IN
    {n \in above : Cardinality({m \in above : m <= n}) <= PageSize}

FollowerReads ==
    LET page == PageAfter(follower) IN
    /\ page # {}
    /\ Expire
    /\ follower' = Max(page)
    /\ UNCHANGED <<feedClock, author, acked, torn, redacted>>

(* What /feed/since says of the feed to one who has read to `held`. *)
SinceState(held) ==
    IF ~feed.found THEN "gone"
    ELSE IF feed.newest > held THEN "moved"
    ELSE IF feed.newest < held THEN "reset"
    ELSE IF held > 0 /\ feed.oldest > held THEN "truncated"
    ELSE "unchanged"

(* resolve_quote on a serial of this feed, its device bound to the account: *)
(* which of the two tombstones it is turns on the Redact being found.       *)
WhoTookItOffMutant(n) ==
    IF \E m \in DOMAIN rows : m > n + 1 /\ m <= feed.newest /\ rows[m].body = n
    THEN "withdrawn" ELSE "removed"

WhoTookItOff(n) ==
    IF \E m \in DOMAIN rows : m > n /\ m <= feed.newest /\ rows[m].body = n
    THEN "withdrawn" ELSE "removed"

Resolve(n) ==
    IF ~feed.found THEN "nofeed"
    ELSE IF n < feed.oldest THEN "evicted"
    ELSE IF n \notin DOMAIN rows THEN IF n <= feed.newest THEN "forged" ELSE "unresolved"
    ELSE IF rows[n].body = Gone THEN WhoTookItOff(n)
    ELSE "got"

FeedNext ==
    \/ \E d \in FeedDevices:
          \/ \E timer \in BOOLEAN: Publish(d, timer)
          \/ ReadHead(d) \/ AppendPost(d) \/ AppendStops(d) \/ AppendRefused(d)
          \/ \E n \in Serials: Withdraw(d, n)
    \/ \E retention \in Retentions, max \in 1..MAX_FEED_POSTS: SetPolicy(retention, max)
    \/ FeedSweep \/ FeedTick \/ FollowerReads

FeedSpec == FeedInit /\ [][FeedNext]_feedVars
-----------------------------------------------------------------------------
(* A serial belongs to one post for ever: what is held at a serial whose   *)
(* append was answered is the post it was answered for, with or without    *)
(* its body, and the head is the last one's -- after every post was        *)
(* evicted, withdrawn or swept, and after an append that stopped half way  *)
(* (append and sweep, feed.rs).                                            *)
OneLog ==
    /\ DOMAIN acked = 1..feed.newest
    /\ feed.head = IF feed.newest = 0 THEN <<>> ELSE acked[feed.newest]
    /\ \A n \in DOMAIN rows: n <= feed.newest => LinkOf(rows[n]) = acked[n]
    /\ \A n \in DOMAIN acked: n > 1 => Front(acked[n]) = acked[n - 1]

(* The head row says what is held: the counters that the caps are read     *)
(* from, and one unbroken run of serials from `oldest` to `newest`, so a   *)
(* citation in it is never answered as a forgery (read, resolve_quote) --  *)
(* but for the row of an append that stopped half way, while it stays.     *)
HeadSaysWhatIsHeld ==
    feed.newest + 1 \notin DOMAIN rows =>
        /\ DOMAIN rows = IF feed.oldest = 0 THEN {} ELSE feed.oldest..feed.newest
        /\ feed.posts = Cardinality(DOMAIN rows)
        /\ feed.bytes = BytesOf(rows)

(* The two together: a feed is one chain, and its head row says where it *)
(* ends and what of it is held (append, withdraw, expire and sweep,      *)
(* feed.rs).                                                             *)
FeedIsOneChain == OneLog /\ HeadSaysWhatIsHeld

(* A post its author withdrew is never laid to the exchange once the       *)
(* Redact is in: what is pruned goes from the oldest end, so the Redact    *)
(* outlives the tombstone it explains -- unless it was withdrawn itself    *)
(* (who_took_it_off, sqex-chat/src/feed.rs).                               *)
WithdrawalIsTheAuthors ==
    \A n \in redacted:
        Resolve(n) = "removed" => \E m \in DOMAIN rows: rows[m].commits = n /\ rows[m].body = Gone

(* VIOLATED. One who has read to a serial below the oldest one held is     *)
(* told that there is a gap (STATE_TRUNCATED and the comment of `Caught`). *)
TruncatedIsTold ==
    follower > 0 /\ feed.oldest > follower + 1 => SinceState(follower) = "truncated"
=============================================================================
