-------------------------------- MODULE Blobs --------------------------------
(***************************************************************************)
(* The blob store of one exchange (sqexd/src/channel.rs, SIP-18, 60, 88):  *)
(* uploads, the attachments that hold a blob -- to a channel, to a folded  *)
(* direct message, to a feed -- who may fetch it, and the four ways its    *)
(* last holder goes: detached, aged out, folded, destroyed.                *)
(*                                                                         *)
(* Every operation is one transaction. That channels come and go is Create *)
(* and Destroy: a freed identifier may be made again, public or private;   *)
(* its members are the same each time. A blob's bytes are one unit, and an *)
(* upload's chunks either all there or not.                                *)
(***************************************************************************)
EXTENDS Naturals, FiniteSets

CONSTANTS
    Blobs, Accounts,
    AllChannels,       \* channel identifiers
    DirectMessages,    \* those of direct messages, which may be folded
    MembersOf,         \* MembersOf[c]: the accounts in channel c
    AdminsOf,          \* AdminsOf[c]
    Stranger,          \* an account in no channel
    Timers,            \* expires_after; 0 is none
    Retention, UPLOAD_TTL, FOLDED_SECS,
    BlobQuota,         \* MAX_CHANNEL_BLOB_BYTES and MAX_FEED_BLOB_BYTES
    MAX_UPLOADS, MAX_BLOB_CHANNELS,
    MaxBlobTime        \* bound: the clock

ASSUME BlobsAssumption ==
    /\ DirectMessages \subseteq AllChannels
    /\ \A c \in AllChannels : AdminsOf[c] \subseteq MembersOf[c] /\ Stranger \notin MembersOf[c]
    /\ Timers \subseteq Nat /\ MaxBlobTime \in Nat

VARIABLES
    standing,   \* the channels that exist
    inPublic,   \* those of them that are public
    uploads,    \* uploads begun and not committed
    blobs,      \* the blobs stored
    attached,   \* attachment rows
    folded,     \* folded_attachment rows
    onFeed,     \* feed_attachment rows
    blobClock,
    published,  \* history: blobs brought to a channel then public, or to a feed
    resurfaced, \* history: blobs brought to a channel that was not, and is public now
    overlooked  \* history: blobs whose folded attachment some step did not count

channelVars == <<standing, inPublic>>
historyVars == <<published, resurfaced, overlooked>>
blobVars == <<channelVars, uploads, blobs, attached, folded, onFeed, blobClock, historyVars>>

BlobsInit ==
    /\ standing = {} /\ inPublic = {}
    /\ uploads = {} /\ blobs = {} /\ attached = {} /\ folded = {} /\ onFeed = {}
    /\ blobClock = 1 /\ published = {} /\ resurfaced = {} /\ overlooked = {}
-----------------------------------------------------------------------------
Names(rowSet) == {r.blob : r \in rowSet}
HeldBy(c) == {r \in attached : r.channel = c}

(* collect_blob, for the blobs `gone` has just lost a holder of. *)
CollectBlobMutant(gone, att, fold, feed) == blobs \ {b \in gone : b \notin Names(att) \cup Names(fold)}
CollectBlob(gone, att, fold, feed) == blobs \ {b \in gone : b \notin Names(att) \cup Names(fold) \cup Names(feed)}

(* may_fetch: a member of a channel that holds it, one of a folded pair,   *)
(* or anyone where what is public holds it and nothing private does.       *)
FoldsOf(b) == {f \in folded : f.blob = b /\ f.at + FOLDED_SECS > blobClock}
MayFetch(who, b) ==
    LET rows == {r \in attached : r.blob = b}
        member == \/ \E r \in rows : r.channel \in standing /\ who \in MembersOf[r.channel]
                  \/ \E f \in FoldsOf(b) : who \in MembersOf[f.channel]
        public == \/ \E r \in rows : r.channel \in inPublic
                  \/ b \in Names(onFeed)
        private == \/ \E r \in rows : r.channel \in standing \ inPublic
                   \/ FoldsOf(b) # {}
    IN member \/ (public /\ ~private)

(* attached_privately: a row whose channel is gone counts as private. *)
AttachedPrivatelyMutant(b) == FALSE
AttachedPrivately(b) == \E r \in attached : r.blob = b /\ r.channel \notin inPublic

(* attach: a new channel counts against the cap, an old one's row is       *)
(* refreshed, its uploader kept.                                           *)
RoomFor(c, b) ==
    \/ \E r \in attached : r.channel = c /\ r.blob = b
    \/ Cardinality({r \in attached : r.blob = b}) < MAX_BLOB_CHANNELS
Attach(c, b, who, timer) ==
    LET old == {r \in attached : r.channel = c /\ r.blob = b}
        by == IF old = {} THEN who ELSE (CHOOSE r \in old : TRUE).by
    IN (attached \ old) \cup {[channel |-> c, blob |-> b, at |-> blobClock, timer |-> timer, by |-> by]}
AttachToFeed(who, b) == {r \in onFeed : ~(r.account = who /\ r.blob = b)} \cup {[account |-> who, blob |-> b]}
-----------------------------------------------------------------------------
(* begin_upload and begin_feed_upload: membership, or the account's own    *)
(* feed; stale uploads go; then the caps and the quota.                    *)
Live(us) == {u \in us : blobClock - u.started < UPLOAD_TTL}
Begin(u, held) ==
    /\ Cardinality({v \in Live(uploads) : v.by = u.by}) < MAX_UPLOADS
    /\ Cardinality(held) + 1 <= BlobQuota
    /\ u \notin uploads
    /\ uploads' = Live(uploads) \cup {u}
    /\ UNCHANGED <<channelVars, blobs, attached, folded, onFeed, blobClock, historyVars>>

BeginUpload(who, c, b, timer) ==
    /\ c \in standing /\ who \in MembersOf[c]
    /\ Begin([channel |-> c, feed |-> FALSE, by |-> who, blob |-> b, timer |-> timer,
              started |-> blobClock, whole |-> FALSE, openly |-> c \in inPublic], HeldBy(c))

BeginFeedUpload(who, b) ==
    Begin([feed |-> TRUE, by |-> who, blob |-> b, started |-> blobClock, whole |-> FALSE],
          {r \in onFeed : r.account = who})

(* put_chunk, the last of them; commit refuses an upload without it. *)
PutChunks(u) ==
    /\ u \in uploads /\ ~u.whole
    /\ uploads' = (uploads \ {u}) \cup {[u EXCEPT !.whole = TRUE]}
    /\ UNCHANGED <<channelVars, blobs, attached, folded, onFeed, blobClock, historyVars>>

(* What comes to a channel that was public when the upload or the pull     *)
(* began is published; under an identifier made again as a public channel  *)
(* since, it surfaces.                                                     *)
Surfaces(c, b, openly) ==
    /\ published' = IF openly THEN published \cup {b} ELSE published
    /\ resurfaced' = IF ~openly /\ c \in inPublic THEN resurfaced \cup {b} ELSE resurfaced

(* commit_upload asks after the upload only: not again whether the channel *)
(* stands and is the one begun for, the uploader is in it, or the quota    *)
(* has room.                                                               *)
CommitUpload(u) ==
    /\ u \in uploads /\ u.whole
    /\ uploads' = uploads \ {u}
    /\ blobs' = blobs \cup {u.blob}
    /\ \/ /\ u.feed /\ onFeed' = AttachToFeed(u.by, u.blob)
          /\ published' = published \cup {u.blob} /\ UNCHANGED <<attached, resurfaced>>
       \/ /\ ~u.feed /\ RoomFor(u.channel, u.blob)
          /\ attached' = Attach(u.channel, u.blob, u.by, u.timer)
          /\ Surfaces(u.channel, u.blob, u.openly) /\ UNCHANGED onFeed
    /\ UNCHANGED <<channelVars, folded, blobClock, overlooked>>

AbortUpload(u) ==
    /\ u \in uploads /\ uploads' = uploads \ {u}
    /\ UNCHANGED <<channelVars, blobs, attached, folded, onFeed, blobClock, historyVars>>
-----------------------------------------------------------------------------
(* attach_blob and attach_feed_blob: what one may fetch, and never what a  *)
(* private channel holds into what is public. attached_privately does not  *)
(* count a folded attachment.                                              *)
Unseen(b) == {b} \cap Names(folded)
AttachBlob(who, c, b, timer) ==
    /\ c \in standing /\ who \in MembersOf[c] /\ MayFetch(who, b)
    /\ c \in inPublic => ~AttachedPrivately(b)
    /\ RoomFor(c, b)
    /\ attached' = Attach(c, b, who, timer)
    /\ overlooked' = IF c \in inPublic THEN overlooked \cup Unseen(b) ELSE overlooked
    /\ UNCHANGED <<channelVars, uploads, blobs, folded, onFeed, blobClock, published, resurfaced>>

AttachFeedBlob(who, b) ==
    /\ MayFetch(who, b) /\ ~AttachedPrivately(b)
    /\ Cardinality({r \in onFeed : r.account = who}) <= BlobQuota
    /\ onFeed' = AttachToFeed(who, b)
    /\ overlooked' = overlooked \cup Unseen(b)
    /\ UNCHANGED <<channelVars, uploads, blobs, attached, folded, blobClock, published, resurfaced>>

(* detach_blob answers to the uploader or an admin of that channel,        *)
(* detach_feed_blob to the account alone.                                  *)
DetachBlob(who, r) ==
    /\ r \in attached /\ r.channel \in standing
    /\ who = r.by \/ who \in AdminsOf[r.channel]
    /\ attached' = attached \ {r}
    /\ blobs' = CollectBlob({r.blob}, attached', folded, onFeed)
    /\ UNCHANGED <<channelVars, uploads, folded, onFeed, blobClock, historyVars>>

DetachFeedBlob(who, b) ==
    /\ [account |-> who, blob |-> b] \in onFeed
    /\ onFeed' = onFeed \ {[account |-> who, blob |-> b]}
    /\ blobs' = CollectBlob({b}, attached, folded, onFeed')
    /\ UNCHANGED <<channelVars, uploads, attached, folded, blobClock, historyVars>>

(* store_blob: what a copy's pull brought, attached with no uploader and   *)
(* no timer. The pull asks for chunk after chunk, and nothing is asked of  *)
(* the channel when they are stored: `openly` is whether it was public     *)
(* when the pull began.                                                    *)
StoreBlob(c, b, openly) ==
    /\ blobs' = blobs \cup {b}
    /\ attached' = IF \E r \in HeldBy(c) : r.blob = b THEN attached
                   ELSE attached \cup {[channel |-> c, blob |-> b, at |-> blobClock, timer |-> 0, by |-> Stranger]}
    /\ Surfaces(c, b, openly)
    /\ UNCHANGED <<channelVars, uploads, folded, onFeed, blobClock, overlooked>>
-----------------------------------------------------------------------------
(* destroy: the channel's rows go, and each blob they held is collected    *)
(* unless something else holds it. Uploads begun for it are left.          *)
DestroyedMutant(c, fold) == blobs
Destroyed(c, fold) == CollectBlob(Names(HeldBy(c)), attached \ HeldBy(c), fold, onFeed)

Destroy(c) ==
    /\ c \in standing /\ standing' = standing \ {c} /\ inPublic' = inPublic \ {c}
    /\ attached' = attached \ HeldBy(c)
    /\ blobs' = Destroyed(c, folded)
    /\ UNCHANGED <<uploads, folded, onFeed, blobClock, historyVars>>

(* create takes the visibility from the request, whatever the identifier   *)
(* was before; what was committed under it since it was freed is there.    *)
Create(c, openly) ==
    /\ c \notin standing /\ standing' = standing \cup {c}
    /\ inPublic' = IF openly THEN inPublic \cup {c} ELSE inPublic
    /\ resurfaced' = IF openly THEN resurfaced \cup Names(HeldBy(c)) ELSE resurfaced
    /\ UNCHANGED <<uploads, blobs, attached, folded, onFeed, blobClock, published, overlooked>>

(* fold: a direct message's attachments are kept with its log, an older    *)
(* fold's replaced -- and what only that one held not collected here --    *)
(* and the channel destroyed.                                              *)
Fold(c) ==
    /\ c \in standing \cap DirectMessages
    /\ standing' = standing \ {c} /\ inPublic' = inPublic \ {c}
    /\ folded' = {f \in folded : f.channel # c}
                    \cup {[channel |-> c, blob |-> r.blob, at |-> blobClock] : r \in HeldBy(c)}
    /\ attached' = attached \ HeldBy(c)
    /\ blobs' = Destroyed(c, folded')
    /\ overlooked' = overlooked \cup Names({f \in folded : f.channel = c})
    /\ UNCHANGED <<uploads, onFeed, blobClock, published, resurfaced>>

(* sweep: uploads, folded rows and attachments past their windows, each    *)
(* attachment by the shorter of retention and its own timer; last, every   *)
(* blob that neither an attachment nor a feed names.                       *)
AgedOut(r) ==
    /\ r.channel \in standing
    /\ blobClock - r.at >= (IF r.timer > 0 /\ r.timer < Retention THEN r.timer ELSE Retention)
SweptBlobs(att, feed) == blobs \cap (Names(att) \cup Names(feed))
Sweep ==
    /\ uploads' = Live(uploads)
    /\ folded' = {f \in folded : f.at + FOLDED_SECS > blobClock}
    /\ attached' = {r \in attached : ~AgedOut(r)}
    /\ blobs' = SweptBlobs(attached', onFeed)
    /\ overlooked' = overlooked \cup (Names(folded') \cap (blobs \ blobs'))
    /\ UNCHANGED <<channelVars, onFeed, blobClock, published, resurfaced>>

BlobTick ==
    /\ blobClock < MaxBlobTime /\ blobClock' = blobClock + 1
    /\ UNCHANGED <<channelVars, uploads, blobs, attached, folded, onFeed, historyVars>>

BlobsNext ==
    \/ \E who \in Accounts, b \in Blobs :
          \/ BeginFeedUpload(who, b) \/ AttachFeedBlob(who, b) \/ DetachFeedBlob(who, b)
          \/ \E c \in AllChannels, timer \in Timers : BeginUpload(who, c, b, timer) \/ AttachBlob(who, c, b, timer)
    \/ \E u \in uploads : PutChunks(u) \/ CommitUpload(u) \/ AbortUpload(u)
    \/ \E who \in Accounts, r \in attached : DetachBlob(who, r)
    \/ \E c \in AllChannels :
          \/ Destroy(c) \/ Fold(c)
          \/ \E openly \in BOOLEAN : Create(c, openly) \/ \E b \in Blobs : StoreBlob(c, b, openly)
    \/ Sweep \/ BlobTick

BlobsSpec == BlobsInit /\ [][BlobsNext]_blobVars
-----------------------------------------------------------------------------
(* A blob stays as long as a channel or a feed holds it: detaching it      *)
(* elsewhere, ageing out, folding or destroying another channel takes no   *)
(* picture out of this one (collect_blob, sweep). The exception is a blob  *)
(* the sweep took while only a fold held it, attached again since.         *)
HeldIsStored == Names(attached) \cup Names(onFeed) \subseteq blobs \cup overlooked

(* And no longer: whatever removed a blob's last holder removed the blob,  *)
(* so that nothing is kept that nobody can name. The exception is a fold   *)
(* replaced by a later one, which leaves its blobs to the sweep.           *)
UnheldIsGone == blobs \subseteq Names(attached) \cup Names(onFeed) \cup Names(folded) \cup overlooked

(* A blob is stored exactly while something names it (collect_blob and   *)
(* everything that removes a holder).                                    *)
StoredWhileHeld == HeldIsStored /\ UnheldIsGone

(* Attaching never widens an audience: an account in no channel may fetch  *)
(* a blob only where somebody who had its bytes brought it into the open,  *)
(* whatever is attached, detached, destroyed and made again around it. The *)
(* exceptions are a blob attached in public out of a fold, and one that    *)
(* was on its way to a channel not public when the channel's identifier    *)
(* was freed, and is public now.                                           *)
NotWidened == \A b \in Blobs : MayFetch(Stranger, b) => b \in published \cup overlooked \cup resurfaced

(* What names a blob decides how long it is kept and who may have it:      *)
(* through uploads, attaching, folding and sweeps it is stored exactly     *)
(* while something names it, and no audience widens (channel.rs            *)
(* collect_blob, attached_privately).                                      *)
HoldersDecide == StoredWhileHeld /\ NotWidened

(* The promise of the folded_attachment table: `A blob lives while any     *)
(* attachment or folded attachment names it`. The sweep's last statement   *)
(* counts attachments and feeds only.                                      *)
FoldedIsStored == \A f \in folded : f.at + FOLDED_SECS > blobClock => f.blob \in blobs
=============================================================================
