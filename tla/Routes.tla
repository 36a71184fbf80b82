------------------------------- MODULE Routes -------------------------------
(***************************************************************************)
(* The requests an exchange takes, and one of them on its way.             *)
(*                                                                         *)
(* The table (sqexd server.rs, route): who may ask a request, which rate   *)
(* limit it takes from, whether it changes what the exchange keeps,        *)
(* whether it is carried to the origin of the channel it is about when     *)
(* that is another exchange, and what follows once it is done: who is      *)
(* told, which task is woken. An action carried to the origin comes out of *)
(* another arm there, one written beside the member's own: Carriages is    *)
(* that second table.                                                      *)
(*                                                                         *)
(* The request (route, forward_action, carry_blob; replica.rs              *)
(* Forwarder::action and forward), from the gates before its arm to the    *)
(* answer. The exchange asked is the origin of the channel, or keeps a     *)
(* copy of it: then the action is carried over a connection that may fail  *)
(* before the origin has it or before its answer is back.                  *)
(*                                                                         *)
(* What the change itself is, what a store refuses, and whether a limit    *)
(* has a token left are left to the modules of the stores and the limiter. *)
(***************************************************************************)
EXTENDS Naturals, FiniteSets

(* needs: "nobody" no identity at all, "identity" a caller with a key,     *)
(* "peer" an exchange this one is peered with, "puller" one that may pull  *)
(* the channel named, "home" the home of the account named, "carrier" one  *)
(* that may act for the account, by its configuration or as its home.      *)
(* carried: "no", "first" (before anything is done here), "after" (once it *)
(* is done here, whatever comes of it), "spread" (by a task of its own, to  *)
(* every origin of the account), "elsewhere" (at the exchange the request  *)
(* names) or "forwards" (a post).                                          *)
(* askedAs: the request it is at the origin.                               *)
Asked(path) ==
    [path |-> path, needs |-> "identity", writes |-> FALSE, limit |-> "none", carried |-> "no",
     askedAs |-> path, follows |-> {}]

Queries(paths) == {Asked(p) : p \in paths}
Changes(paths, follows) == {[Asked(p) EXCEPT !.writes = TRUE, !.follows = follows] : p \in paths}
Needing(who, rows) == {[r EXCEPT !.needs = who] : r \in rows}
LimitedBy(kind, rows) == {[r EXCEPT !.limit = kind] : r \in rows}
CarriedOn(how, rows) == {[r EXCEPT !.carried = how] : r \in rows}

DoorRoutes ==
    Needing("nobody", Queries({"/health", "/status"})
                      \cup Changes({"/admin/challenge", "/admin/command"}, {}))
    \cup Changes({"/beacon/beat"}, {"refresh endpoints", "renew names"})

MeetRoutes ==
    Changes({"/rendezvous/introduce"}, {})
    \cup Needing("nobody", Changes({"/attest/lodge"}, {}) \cup Queries({"/attest/read"}))

ResolveRoutes == Changes({"/resolve/publish"}, {"renew names"}) \cup Queries({"/resolve/get"})

AccountRoutes ==
    Changes({"/account/succeed", "/account/move"}, {}) \cup Queries({"/account/locate"})
    \cup CarriedOn("elsewhere",
                   {[r EXCEPT !.askedAs = "/channel/create"] : r \in
                       Changes({"/channel/create_at"}, {"hint home", "wake home task"})})

HomeRoutes ==
    Changes({"/account/hint"}, {"wake home task"})
    \cup Changes({"/account/handover", "/account/lodge"}, {})
    \cup Queries({"/account/home", "/account/succession", "/account/lodged"})

KeepingRoutes ==
    Changes({"/backup/write", "/backup/drop", "/wake/register", "/wake/forget"}, {})
    \cup Queries({"/backup/read"})

AdmissionRoutes ==
    Changes({"/resolve/successor"}, {}) \cup Needing("nobody", Queries({"/beacon/read"}))
    \cup Changes({"/admission/request"}, {"tell exchange's admins"})

ProfileRoutes ==
    Changes({"/profile/put"}, {"tell neighbours"}) \cup Changes({"/block/set"}, {})
    \cup Queries({"/profile/get", "/block/list"})

FeedRoutes ==
    LimitedBy("FeedAppends", Changes({"/feed/append"}, {})) \cup LimitedBy("FeedSets", Changes({"/feed/set"}, {}))
    \cup Changes({"/feed/withdraw"}, {}) \cup Queries({"/feed/read", "/feed/head", "/feed/listed"})

FeedSinceRoute == LimitedBy("FeedRows", Queries({"/feed/since"}))

DeviceRoutes ==
    Changes({"/device/register"}, {"resync transport"})
    \cup CarriedOn("spread", Changes({"/device/revoke"}, {"resync transport"}))
    \cup Queries({"/device/account"}) \cup Needing("nobody", Queries({"/device/list"}))

NameRoutes ==
    Changes({"/name/claim", "/name/release"}, {})
    \cup Needing("nobody", Queries({"/name/resolve", "/name/reverse"}))

BlobRoutes == Needing("nobody", Queries({"/blob/limits"})) \cup Queries({"/blob/head", "/blob/get"})

(* An upload begun for a channel of another exchange has a number of its   *)
(* own here, and what is asked under that number goes where it was begun.  *)
(* What is attached to a feed stays where it is asked.                     *)
BlobWrites ==
    LimitedBy("Uploads", CarriedOn("first", Changes({"/blob/begin"}, {})))
    \cup CarriedOn("first", Changes({"/blob/put", "/blob/commit", "/blob/abort",
                                     "/blob/attach", "/blob/detach"}, {}))
    \cup Changes({"/blob/begin-feed", "/blob/attach-feed", "/blob/detach-feed"}, {})

(* A prekey of a device that lives elsewhere is taken at its home.         *)
PrekeyRoutes == Changes({"/prekey/publish", "/prekey/take", "/prekey/clear"}, {}) \cup Queries({"/prekey/count"})

ComingRoutes ==
    LimitedBy("Creates", Changes({"/channel/create"}, {"tell members", "tell home of guests"}))
    \cup LimitedBy("Joins", CarriedOn("first", Changes({"/channel/join"}, {"tell members"})))
    \cup CarriedOn("first", Changes({"/channel/leave"}, {"tell members", "tell who left"}))

PostRoute == LimitedBy("Posts", CarriedOn("forwards", Changes({"/channel/post"}, {"tell members"})))

RehomeRoutes ==
    Changes({"/channel/rehome"}, {"tell others"}) \cup Changes({"/channel/rehomed"}, {})
    \cup Queries({"/channel/stranded"})

WhereRoutes == Queries({"/channel/chain", "/channel/folded", "/channel/home", "/channel/info"})

UpkeepRoutes ==
    Changes({"/channel/retain", "/channel/directory", "/channel/close", "/channel/dismiss"}, {})
    \cup CarriedOn("first", Changes({"/channel/mute", "/channel/unmute"}, {"tell members"}))
    \cup LimitedBy("Reports", CarriedOn("first", Changes({"/channel/report"}, {"tell admins"})))
    \cup Queries({"/channel/mine", "/channel/reports"})

InviteRoutes ==
    Needing("nobody", Queries({"/channel/search", "/channel/list"}))
    \cup Changes({"/channel/invite"}, {"tell members", "tell home of guests"})
    \cup Changes({"/channel/replicate", "/channel/unreplicate"}, {"tell members"})
    \cup Changes({"/channel/remove"}, {"tell members", "tell who left"})

KeyRoutes ==
    CarriedOn("first", Changes({"/channel/key/put"}, {"tell members"}))
    \cup Queries({"/channel/key/get", "/channel/key/missing"})

MarkRoutes ==
    CarriedOn("after", Changes({"/channel/cursor"}, {"tell others"})
                       \cup LimitedBy("Signals", Changes({"/channel/signal"}, {"tell others"})))
    \cup CarriedOn("first", Changes({"/channel/redact"}, {"tell members"}))
    \cup Queries({"/channel/cursors"})

PullRoutes ==
    Needing("peer", Queries({"/peer/hello"}))
    \cup Needing("puller", Queries({"/peer/pull", "/peer/channel", "/peer/standing", "/peer/cursors",
                                  "/peer/signals", "/peer/tombstones"}))

RehomedRoute == LimitedBy("Peering", Needing("peer", Changes({"/peer/rehomed"}, {})))

PeerMailRoutes ==
    Needing("carrier", Queries({"/peer/mine"}))
    \cup Needing("home", Queries({"/peer/mailbox"}) \cup Changes({"/peer/mailbox/took"}, {}))

PeerBackupRoutes ==
    Needing("home", Queries({"/peer/backup", "/peer/backup/blob", "/peer/wakes"})
                    \cup Changes({"/peer/backup/took"}, {}))

NewsRoutes ==
    LimitedBy("Peering", Needing("peer", Changes({"/peer/moved"}, {})
        \cup Changes({"/peer/folded"}, {"wake home task", "wake replicas"})
        \cup Changes({"/peer/invited"}, {"wake home task"})))
    \cup Needing("peer", Queries({"/peer/wait"}))

ProofRoutes ==
    Queries({"/channel/equivocation"}) \cup Needing("peer", Queries({"/peer/records"}))
    \cup Needing("puller", Queries({"/peer/envelopes", "/peer/blobs"}))

CatchUpRoutes == Queries({"/channel/catchup", "/channel/fetch"})

RoomRoutes == Changes({"/room/join", "/room/leave"}, {})

MailRoutes == Changes({"/mailbox/send", "/mailbox/delete"}, {}) \cup Queries({"/mailbox/list", "/mailbox/fetch", "/mailbox/status"})

SessionRoutes ==
    Changes({"/session/open", "/session/call", "/session/decline", "/session/send", "/session/recv",
            "/session/close"}, {})

ExchangeRoutes == Needing("nobody", Queries({"/exchange/lineage", "/exchange/peers", "/exchange/ping"}))

RouteTable ==
    DoorRoutes \cup MeetRoutes \cup ResolveRoutes \cup AccountRoutes \cup HomeRoutes \cup KeepingRoutes
    \cup AdmissionRoutes \cup ProfileRoutes \cup FeedRoutes \cup FeedSinceRoute \cup DeviceRoutes
    \cup NameRoutes \cup BlobRoutes \cup BlobWrites \cup PrekeyRoutes \cup ComingRoutes \cup PostRoute \cup RehomeRoutes
    \cup WhereRoutes \cup UpkeepRoutes \cup InviteRoutes \cup KeyRoutes \cup MarkRoutes \cup PullRoutes
    \cup RehomedRoute \cup PeerMailRoutes \cup PeerBackupRoutes \cup NewsRoutes \cup ProofRoutes
    \cup CatchUpRoutes \cup RoomRoutes \cup MailRoutes \cup SessionRoutes \cup ExchangeRoutes

-----------------------------------------------------------------------------

(* The second table: what a carried action does where it arrives.          *)

CarriedPost == LimitedBy("Posts", Changes({"/channel/post"}, {"tell members"}))

CarriedMembershipMutant ==
    LimitedBy("Joins", Changes({"/channel/join"}, {"tell members"}))
    \cup Changes({"/channel/leave", "/channel/mute", "/channel/unmute"}, {"tell members"})

CarriedMembership ==
    LimitedBy("Joins", Changes({"/channel/join"}, {"tell members"}))
    \cup Changes({"/channel/leave"}, {"tell members", "tell who left"})
    \cup Changes({"/channel/mute", "/channel/unmute"}, {"tell members"})

CarriedMarks ==
    LimitedBy("Reports", Changes({"/channel/report"}, {"tell admins"}))
    \cup Changes({"/channel/redact"}, {"tell members"})
    \cup Changes({"/channel/cursor"}, {"tell others"})
    \cup LimitedBy("Signals", Changes({"/channel/signal"}, {"tell others"}))

CarriedStores ==
    LimitedBy("Uploads", Changes({"/blob/begin"}, {}))
    \cup Changes({"/blob/put", "/blob/commit", "/blob/abort", "/blob/attach", "/blob/detach", "/channel/key/put"}, {})

CarriedCreate ==
    LimitedBy("Creates", Changes({"/channel/create"},
                                {"tell members", "tell home of guests", "tell home of the creator"}))

CarriedRevoke == Changes({"/device/revoke"}, {"resync transport"})

Carriages ==
    Needing("carrier", CarriedPost \cup CarriedMembership \cup CarriedMarks \cup CarriedStores
                       \cup CarriedCreate \cup CarriedRevoke)
-----------------------------------------------------------------------------

VARIABLES
    request,        \* the row of the request
    caller,         \* who asks: see Callers
    atCopy,         \* whether the channel it is about has its origin elsewhere
    step,           \* "off", "asked", "admitted", "counted", "acted", "carried", "answered"
    here,           \* what it did at the exchange request: times done, limits taken from, what followed
    there,          \* the same at the origin
    answer          \* "none", "ok" or why not

routeVars == <<request, caller, atCopy, step, here, there, answer>>

Untouched == [done |-> 0, took |-> {}, followed |-> {}]
Answers == {"none", "ok", "NotWhitelisted", "Succeeded", "Moved", "Identity", "Peering", "RateLimited",
            "Refused", "Replicated", "OriginAway", "OriginRefused"}

(* Somebody without a key, a key the whitelist does not have, accounts     *)
(* that were succeeded or have moved away, and one nothing is held against *)
(* -- all of them possibly an exchange.                                    *)
Callers == {"nobody", "unlisted", "succeeded", "moved", "member"}

RoutesInit ==
    /\ request \in RouteTable /\ caller \in Callers /\ atCopy \in BOOLEAN
    /\ step = "asked" /\ here = Untouched /\ there = Untouched /\ answer = "none"

(* No request.                                                             *)
NoRequest ==
    /\ request = Asked("none") /\ caller = "nobody" /\ atCopy = FALSE
    /\ step = "off" /\ here = Untouched /\ there = Untouched /\ answer = "none"

Answered(a) == answer' = a /\ step' = "answered"
RefuseWith(a) == Answered(a) /\ UNCHANGED <<request, caller, atCopy, here, there>>

-----------------------------------------------------------------------------

(* Before the arms.                                                        *)

OpenPaths ==
    {r.path : r \in {s \in RouteTable : s.needs \in {"peer", "puller", "home", "carrier"}}}
        \cup {"/health", "/status", "/admission/request", "/admin/challenge", "/admin/command"}
OpenRegardless(path) == path \in OpenPaths

AboutAccounts == {r.path : r \in AccountRoutes \cup HomeRoutes} \ {"/channel/create_at"}

(* The services of an account's home, that its former home gives no more.  *)
OfTheHome ==
    {"/prekey/publish", "/prekey/count", "/prekey/clear", "/wake/register", "/backup/write",
     "/resolve/publish", "/device/register", "/device/revoke", "/feed/append", "/feed/withdraw", "/feed/set"}

NotListed == caller \in {"nobody", "unlisted"} /\ ~OpenRegardless(request.path)
Inherited == caller = "succeeded" /\ ~OpenRegardless(request.path) /\ request.path \notin AboutAccounts
LivesElsewhere == caller = "moved" /\ request.path \in OfTheHome

(* A whitelist that is off admits whoever asks. An account let through is  *)
(* put in the channel that welcomes newcomers, where there is one.         *)
Gate ==
    /\ step = "asked"
    /\ \/ NotListed /\ RefuseWith("NotWhitelisted")
       \/ Inherited /\ RefuseWith("Succeeded")
       \/ LivesElsewhere /\ RefuseWith("Moved")
       \/ /\ ~Inherited /\ ~LivesElsewhere
          /\ step' = "admitted"
          /\ \/ UNCHANGED here
             \/ caller # "nobody" /\ here' = [here EXCEPT !.followed = {"welcome"}]
          /\ UNCHANGED <<request, caller, atCopy, there, answer>>

(* The arm asks who it is talking to: exchanges are refused alike whatever *)
(* it is they lack.                                                        *)
KnowsCaller ==
    /\ step = "admitted"
    /\ \/ request.needs = "identity" /\ caller = "nobody" /\ RefuseWith("Identity")
       \/ request.needs \notin {"nobody", "identity"} /\ RefuseWith("Peering")
       \/ /\ request.needs # "nobody" => caller # "nobody"
          /\ step' = "counted"
          /\ UNCHANGED <<request, caller, atCopy, here, there, answer>>

-----------------------------------------------------------------------------

(* What follows once it is done.                                           *)
Done(at, row) == [at EXCEPT !.done = @ + 1, !.followed = @ \cup row.follows]
Took(at, row) == IF row.limit = "none" THEN at ELSE [at EXCEPT !.took = @ \cup {row.limit}]

(* What an account keeps elsewhere is not answered about here.             *)
AboutOthers == {"/resolve/get", "/feed/read", "/feed/head", "/mailbox/send"}

Beside == request.carried \in {"after", "spread"}
CarriedAway ==
    \/ atCopy /\ request.carried \in {"first", "forwards"}
    \/ request.carried = "elsewhere"

(* The member's own arm of what is done here or at the origin: a create    *)
(* that names this very exchange goes to it.                               *)
OwnArm == CHOOSE r \in RouteTable : r.path = request.askedAs

ActHere ==
    /\ step = "counted" /\ (CarriedAway => request.carried = "elsewhere")
    /\ \/ OwnArm.limit # "none" /\ RefuseWith("RateLimited")
       \/ request.path \in AboutOthers /\ RefuseWith("Moved")
       \/ /\ here' = Took(here, OwnArm)
          /\ Answered("Refused")
          /\ UNCHANGED <<request, caller, atCopy, there>>
       \/ /\ here' = (IF request.writes THEN Done(Took(here, OwnArm), OwnArm) ELSE Took(here, OwnArm))
          /\ IF Beside /\ atCopy
             THEN step' = "acted" /\ UNCHANGED answer
             ELSE Answered("ok")
          /\ UNCHANGED <<request, caller, atCopy, there>>

(* Nobody to carry to; or a copy that knows the member is muted, which     *)
(* refuses a post as the origin would.                                     *)
NotCarried ==
    /\ step = "counted" /\ CarriedAway
    /\ \/ request.carried = "elsewhere" /\ RefuseWith("OriginAway")
       \/ request.carried # "elsewhere" /\ RefuseWith("Replicated")
       \/ request.carried = "forwards" /\ RefuseWith("Refused")

(* What is done here whatever comes of the carrying answers for itself.    *)
Settled(a) == Answered(IF Beside THEN "ok" ELSE a)

Carriage == CHOOSE r \in Carriages : r.path = request.askedAs

Carrying ==
    \/ step = "counted" /\ CarriedAway
    \/ step = "acted"

(* The connection cannot be made, or is lost before the origin has it.     *)
LostOnTheWay ==
    /\ Carrying
    /\ Settled("OriginAway")
    /\ UNCHANGED <<request, caller, atCopy, here, there>>

(* The exchange may not carry for the account here, or the device's        *)
(* credential is not taken, or peer_write is out of tokens; or the limit   *)
(* of the action itself is: its refusal is the member's answer.            *)
OriginRefuses ==
    /\ Carrying
    /\ \/ Settled("OriginRefused") /\ UNCHANGED there
       \/ Carriage.limit # "none" /\ Settled("RateLimited") /\ UNCHANGED there
       \/ there' = Took(there, Carriage) /\ Settled("Refused")
    /\ UNCHANGED <<request, caller, atCopy, here>>

OriginTakes ==
    /\ Carrying
    /\ there' = Done(Took(there, Carriage), Carriage)
    /\ step' = "carried"
    /\ UNCHANGED <<request, caller, atCopy, here, answer>>

(* The origin's answer comes back, and the task that pulls is woken; a     *)
(* create is hinted to its account's home. Or it does not come back.       *)
AfterCarrying ==
    CASE request.carried = "elsewhere" -> request.follows
      [] request.carried = "spread" -> {}
      [] OTHER -> {"wake home task"}

AnswerCarriedTwice ==
    /\ step = "carried"
    /\ \/ Settled("ok")
       \/ Settled("OriginAway")
    /\ here' = (IF request.carried = "first" THEN Done(here, request) ELSE here)
    /\ UNCHANGED <<request, caller, atCopy, there>>

AnswerCarried ==
    /\ step = "carried"
    /\ \/ /\ Settled("ok")
          /\ here' = [here EXCEPT !.followed = @ \cup AfterCarrying]
       \/ Settled("OriginAway") /\ UNCHANGED here
    /\ UNCHANGED <<request, caller, atCopy, there>>

RoutesNext ==
    \/ Gate \/ KnowsCaller \/ ActHere \/ NotCarried
    \/ LostOnTheWay \/ OriginRefuses \/ OriginTakes \/ AnswerCarried

RoutesSpec == RoutesInit /\ [][RoutesNext]_routeVars

-----------------------------------------------------------------------------

Counted(row) == IF row.limit = "none" THEN {} ELSE {row.limit}

(* What the member's own arm at the origin would have done. Two carried    *)
(* actions differ by what the code says of them: a creator is told at its  *)
(* home, where it asked; and an envelope put through a copy tells nobody.  *)
AsAskedThere ==
    [done |-> 1, took |-> Counted(OwnArm),
     followed |-> CASE request.askedAs = "/channel/key/put" -> {}
                    [] request.askedAs = "/channel/create" ->
                          OwnArm.follows \cup {"tell home of the creator"}
                    [] OTHER -> OwnArm.follows]

(* An action carried to a channel's origin is there what it would be had   *)
(* the member asked the origin itself: done once, counted against the same *)
(* limit, told to the same people (server.rs blob_here's comment: "a       *)
(* carried one must get exactly what a direct one would"); and it is done  *)
(* in one place. The answer says which: after a yes it is done, after a no *)
(* it is not, and after "the origin does not answer" it is done whole or   *)
(* not at all -- the member cannot know. Nothing a gate refused is done.   *)
CarriedAsAsked ==
    /\ there.done > 0 => there = AsAskedThere
    /\ there.done > 0 /\ ~Beside => here.done = 0
    /\ step = "answered" =>
          /\ answer = "ok" /\ (request.writes \/ request.carried # "no") => here.done + there.done >= 1
          /\ answer \notin {"ok", "OriginAway"} => here.done + there.done = 0
    /\ here.done + there.done > 0 => ~Inherited /\ ~LivesElsewhere
=============================================================================
