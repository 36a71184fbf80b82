---------------------------- MODULE StoresProofs ----------------------------
(***************************************************************************)
(* Proofs about what is stored for an account.  At the exchange:           *)
(* attachments (Blobs), backups (Backup), feeds (Feed) and prekeys         *)
(* (Prekeys), for any number of blobs, channels, devices and posts.  On a  *)
(* device: what its client has read of a conversation (Reading), for any   *)
(* number of entries.                                                      *)
(***************************************************************************)
EXTENDS Feed, Blobs, Backup, Prekeys, Reading, Induction, SequenceTheorems, TLAPS

(* Attachments (Blobs).                                                    *)

(* A fold holds its blobs too, as far as the exchange counts it.           *)
FoldedIsHeld == Names(folded) \subseteq blobs \cup overlooked

(* What anybody may fetch was published, or attached in public out of a    *)
(* fold, or surfaced under an identifier made again: also while a private  *)
(* channel hides it.                                                       *)
InPublic(b) == (\E r \in attached : r.channel \in inPublic /\ r.blob = b) \/ b \in Names(onFeed)
PublicWasPublished == \A b : InPublic(b) => b \in published \cup overlooked \cup resurfaced

ChannelsAreKnown ==
    inPublic \subseteq standing /\ standing \subseteq AllChannels /\ \A f \in folded : f.channel \in AllChannels

BlobsInv == HeldIsStored /\ FoldedIsHeld /\ UnheldIsGone /\ PublicWasPublished /\ ChannelsAreKnown

LEMMA BlobsInvInit == BlobsInit => BlobsInv
  BY DEF BlobsInit, BlobsInv, HeldIsStored, FoldedIsHeld, UnheldIsGone, PublicWasPublished, InPublic,
         ChannelsAreKnown, Names

(* Who may fetch a blob finds it held.                                     *)
LEMMA FetchedIsHeld ==
    ASSUME NEW who, NEW b, MayFetch(who, b)
    PROVE  b \in Names(attached) \cup Names(onFeed) \cup Names(folded)
  BY DEF MayFetch, Names, FoldsOf

LEMMA AttachNames ==
    ASSUME NEW c, NEW b, NEW who, NEW timer
    PROVE  /\ Names(Attach(c, b, who, timer)) = Names(attached) \cup {b}
           /\ \A r \in Attach(c, b, who, timer) : r \in attached \/ (r.channel = c /\ r.blob = b)
<1> DEFINE old == {r \in attached : r.channel = c /\ r.blob = b}
           by == IF old = {} THEN who ELSE (CHOOSE r \in old : TRUE).by
           new == [channel |-> c, blob |-> b, at |-> blobClock, timer |-> timer, by |-> by]
<1>1. Attach(c, b, who, timer) = (attached \ old) \cup {new}
  BY DEF Attach
<1>2. new.channel = c /\ new.blob = b
  OBVIOUS
<1>3. \A r \in old : r.blob = b
  OBVIOUS
<1> HIDE DEF old, new
<1> QED
  BY <1>1, <1>2, <1>3 DEF Names

LEMMA AttachToFeedNames ==
    ASSUME NEW who, NEW b
    PROVE  Names(AttachToFeed(who, b)) = Names(onFeed) \cup {b}
<1> DEFINE new == [account |-> who, blob |-> b]
<1>1. new.blob = b
  OBVIOUS
<1>2. AttachToFeed(who, b) = {r \in onFeed : ~(r.account = who /\ r.blob = b)} \cup {new}
  BY DEF AttachToFeed
<1> HIDE DEF new
<1> QED
  BY <1>1, <1>2 DEF Names

(* Attaching what is held, in public only what was published or overlooked *)
(* already.                                                                *)
LEMMA AttachingKeeps ==
    ASSUME BlobsInv, NEW b, b \in blobs' \cup overlooked',
           blobs' \in {blobs, blobs \cup {b}},
           overlooked \subseteq overlooked', published \subseteq published', resurfaced \subseteq resurfaced',
           UNCHANGED <<channelVars, folded>>,
           \/ /\ Names(attached') = Names(attached) \cup {b} /\ UNCHANGED onFeed
              /\ \/ b \in published' \cup overlooked' \cup resurfaced'
                 \/ \A r \in attached' : r \in attached \/ r.channel \notin inPublic
           \/ /\ Names(onFeed') = Names(onFeed) \cup {b} /\ UNCHANGED attached
              /\ b \in published' \cup overlooked' \cup resurfaced',
           \A r \in attached' : r \in attached \/ r.blob = b
    PROVE  BlobsInv'
<1>0. UNCHANGED <<standing, inPublic, folded>>
  BY DEF channelVars
<1>1. HeldIsStored' /\ FoldedIsHeld'
  BY <1>0 DEF BlobsInv, HeldIsStored, FoldedIsHeld, Names
<1>2. UnheldIsGone'
  BY DEF BlobsInv, UnheldIsGone
<1>3. PublicWasPublished'
  <2> SUFFICES ASSUME NEW x, InPublic(x)' PROVE x \in published' \cup overlooked' \cup resurfaced'
    BY DEF PublicWasPublished
  <2>1. CASE InPublic(x)
    BY <2>1 DEF BlobsInv, PublicWasPublished
  <2>2. CASE x = b /\ b \in published' \cup overlooked' \cup resurfaced'
    BY <2>2
  <2> QED
    BY <1>0, <2>1, <2>2 DEF InPublic
<1>4. ChannelsAreKnown'
  BY <1>0 DEF BlobsInv, ChannelsAreKnown
<1> QED
  BY <1>1, <1>2, <1>3, <1>4 DEF BlobsInv

LEMMA UploadsKeep ==
    ASSUME BlobsInv, UNCHANGED <<channelVars, blobs, attached, folded, onFeed, historyVars>>
    PROVE  BlobsInv'
  BY DEF channelVars, historyVars, BlobsInv, HeldIsStored, FoldedIsHeld, UnheldIsGone, PublicWasPublished, InPublic,
         ChannelsAreKnown, Names

LEMMA CommitKeeps ==
    ASSUME BlobsInv, NEW u \in uploads, CommitUpload(u)
    PROVE  BlobsInv'
<1>0. /\ blobs' = blobs \cup {u.blob} /\ UNCHANGED <<channelVars, folded, overlooked>>
      /\ published \subseteq published' /\ resurfaced \subseteq resurfaced'
  BY DEF CommitUpload, Surfaces
<1>1. CASE u.feed
  <2>1. Names(onFeed') = Names(onFeed) \cup {u.blob} /\ UNCHANGED attached /\ u.blob \in published'
    BY <1>1, AttachToFeedNames DEF CommitUpload
  <2> QED
    BY <1>0, <2>1, AttachingKeeps
<1>2. CASE ~u.feed
  <2>1. attached' = Attach(u.channel, u.blob, u.by, u.timer) /\ UNCHANGED onFeed
    BY <1>2 DEF CommitUpload
  <2>2. u.channel \in inPublic => u.blob \in published' \cup resurfaced'
    BY <1>2 DEF CommitUpload, Surfaces
  <2>3. /\ Names(attached') = Names(attached) \cup {u.blob}
        /\ \A r \in attached' : r \in attached \/ (r.channel = u.channel /\ r.blob = u.blob)
    BY <2>1, AttachNames
  <2> QED
    BY <1>0, <2>1, <2>2, <2>3, AttachingKeeps
<1> QED
  BY <1>1, <1>2

(* A blob with only public rows, or on a feed, was published; one with no  *)
(* row of either is fetched out of a fold.                                 *)
LEMMA SharedIsPublished ==
    ASSUME BlobsInv, NEW who, NEW b, MayFetch(who, b), ~AttachedPrivately(b)
    PROVE  b \in published \cup overlooked \cup resurfaced \cup Unseen(b)
<1>1. CASE b \in Names(folded)
  BY <1>1 DEF Unseen
<1>2. CASE b \notin Names(folded)
  <2>1. b \in Names(attached) \cup Names(onFeed)
    BY <1>2, FetchedIsHeld
  <2>2. InPublic(b)
    BY <2>1 DEF InPublic, AttachedPrivately, Names
  <2> QED
    BY <2>2 DEF BlobsInv, PublicWasPublished
<1> QED
  BY <1>1, <1>2

LEMMA AttachBlobKeeps ==
    ASSUME BlobsInv, NEW who, NEW c, NEW b, NEW timer, AttachBlob(who, c, b, timer)
    PROVE  BlobsInv'
<1>0. /\ UNCHANGED <<channelVars, blobs, folded, onFeed, published, resurfaced>> /\ overlooked \subseteq overlooked'
      /\ attached' = Attach(c, b, who, timer) /\ MayFetch(who, b)
  BY DEF AttachBlob
<1>1. /\ Names(attached') = Names(attached) \cup {b}
      /\ \A r \in attached' : r \in attached \/ (r.channel = c /\ r.blob = b)
  BY <1>0, AttachNames
<1>2. b \in blobs \cup overlooked
  BY <1>0, FetchedIsHeld DEF BlobsInv, HeldIsStored, FoldedIsHeld
<1>3. c \in inPublic => b \in published \cup overlooked' \cup resurfaced
  BY SharedIsPublished DEF AttachBlob
<1> QED
  BY <1>0, <1>1, <1>2, <1>3, AttachingKeeps

LEMMA AttachFeedBlobKeeps ==
    ASSUME BlobsInv, NEW who, NEW b, AttachFeedBlob(who, b)
    PROVE  BlobsInv'
<1>0. /\ UNCHANGED <<channelVars, blobs, folded, attached, published, resurfaced>> /\ overlooked \subseteq overlooked'
      /\ onFeed' = AttachToFeed(who, b) /\ MayFetch(who, b)
  BY DEF AttachFeedBlob
<1>1. Names(onFeed') = Names(onFeed) \cup {b}
  BY <1>0, AttachToFeedNames
<1>2. b \in blobs \cup overlooked
  BY <1>0, FetchedIsHeld DEF BlobsInv, HeldIsStored, FoldedIsHeld
<1>3. b \in published \cup overlooked' \cup resurfaced
  BY SharedIsPublished DEF AttachFeedBlob
<1> QED
  BY <1>0, <1>1, <1>2, <1>3, AttachingKeeps

LEMMA StoreBlobKeeps ==
    ASSUME BlobsInv, NEW c, NEW b, NEW openly, StoreBlob(c, b, openly)
    PROVE  BlobsInv'
<1> DEFINE new == [channel |-> c, blob |-> b, at |-> blobClock, timer |-> 0, by |-> Stranger]
<1>0. /\ UNCHANGED <<channelVars, folded, onFeed, overlooked>> /\ blobs' = blobs \cup {b}
      /\ published \subseteq published' /\ resurfaced \subseteq resurfaced'
      /\ (c \in inPublic => b \in published' \cup resurfaced')
  BY DEF StoreBlob, Surfaces
<1>1. CASE attached' = attached /\ \E r \in HeldBy(c) : r.blob = b
  <2>1. Names(attached') = Names(attached) \cup {b}
    BY <1>1 DEF HeldBy, Names
  <2> QED
    BY <1>0, <1>1, <2>1, AttachingKeeps
<1>2. CASE attached' = attached \cup {new}
  <2>1. new.channel = c /\ new.blob = b
    OBVIOUS
  <2>2. /\ Names(attached') = Names(attached) \cup {b}
        /\ \A r \in attached' : r \in attached \/ (r.channel = c /\ r.blob = b)
    <3> HIDE DEF new
    <3> QED
      BY <1>2, <2>1 DEF Names
  <2> QED
    BY <1>0, <2>2, AttachingKeeps
<1> QED
  BY <1>1, <1>2 DEF StoreBlob

(* A holder goes: what nothing else names is collected.                    *)
LEMMA DroppingKeeps ==
    ASSUME BlobsInv, NEW released,
           attached' \subseteq attached, onFeed' \subseteq onFeed,
           \A f \in folded' : f.channel \in AllChannels,
           Names(folded') \subseteq Names(folded) \cup Names(attached),
           Names(attached) \cup Names(onFeed) \cup Names(folded)
             \subseteq released \cup Names(attached') \cup Names(onFeed') \cup Names(folded') \cup overlooked',
           blobs' = CollectBlob(released, attached', folded', onFeed'),
           inPublic' \subseteq inPublic, inPublic' \subseteq standing', standing' \subseteq AllChannels,
           overlooked \subseteq overlooked', UNCHANGED <<published, resurfaced>>
    PROVE  BlobsInv'
<1>1. Names(attached') \subseteq Names(attached) /\ Names(onFeed') \subseteq Names(onFeed)
  BY DEF Names
<1>2. HeldIsStored' /\ FoldedIsHeld'
  BY <1>1 DEF BlobsInv, HeldIsStored, FoldedIsHeld, CollectBlob
<1>3. UnheldIsGone'
  BY DEF BlobsInv, UnheldIsGone, CollectBlob
<1>4. PublicWasPublished'
  BY <1>1 DEF BlobsInv, PublicWasPublished, InPublic
<1>5. ChannelsAreKnown'
  BY DEF ChannelsAreKnown
<1> QED
  BY <1>2, <1>3, <1>4, <1>5 DEF BlobsInv

LEMMA DetachesKeep ==
    ASSUME BlobsInv, NEW who,
           (\E r \in attached : DetachBlob(who, r)) \/ (\E b \in Blobs : DetachFeedBlob(who, b))
    PROVE  BlobsInv'
<1>0. /\ inPublic' \subseteq inPublic /\ inPublic' \subseteq standing' /\ standing' \subseteq AllChannels
      /\ \A f \in folded' : f.channel \in AllChannels
  BY DEF DetachBlob, DetachFeedBlob, BlobsInv, ChannelsAreKnown, channelVars
<1>1. ASSUME NEW r \in attached, DetachBlob(who, r) PROVE BlobsInv'
  <2>1. /\ attached' = attached \ {r} /\ blobs' = CollectBlob({r.blob}, attached', folded, onFeed)
        /\ UNCHANGED <<folded, onFeed, published, resurfaced, overlooked>>
    BY <1>1 DEF DetachBlob, historyVars
  <2>2. Names(attached) \subseteq {r.blob} \cup Names(attached')
    BY <2>1 DEF Names
  <2> QED
    BY <1>0, <2>1, <2>2, DroppingKeeps
<1>2. ASSUME NEW b \in Blobs, DetachFeedBlob(who, b) PROVE BlobsInv'
  <2> DEFINE row == [account |-> who, blob |-> b]
  <2>1. /\ onFeed' = onFeed \ {row} /\ blobs' = CollectBlob({b}, attached, folded, onFeed')
        /\ UNCHANGED <<folded, attached, published, resurfaced, overlooked>>
    BY <1>2 DEF DetachFeedBlob, historyVars
  <2>2. row.blob = b
    OBVIOUS
  <2>3. Names(onFeed) \subseteq {b} \cup Names(onFeed')
    <3> HIDE DEF row
    <3> QED
      BY <2>1, <2>2 DEF Names
  <2> QED
    BY <1>0, <2>1, <2>3, DroppingKeeps
<1> QED
  BY <1>1, <1>2

LEMMA DestroyKeeps == ASSUME BlobsInv, NEW c, Destroy(c) PROVE BlobsInv'
<1>1. /\ attached' = attached \ HeldBy(c) /\ UNCHANGED <<folded, onFeed, published, resurfaced, overlooked>>
      /\ blobs' = CollectBlob(Names(HeldBy(c)), attached', folded', onFeed')
  BY DEF Destroy, Destroyed, historyVars
<1>2. /\ inPublic' \subseteq inPublic /\ inPublic' \subseteq standing' /\ standing' \subseteq AllChannels
      /\ \A f \in folded' : f.channel \in AllChannels
  BY <1>1 DEF Destroy, BlobsInv, ChannelsAreKnown
<1>3. Names(attached) \subseteq Names(HeldBy(c)) \cup Names(attached')
  BY <1>1 DEF Names
<1> QED
  BY <1>1, <1>2, <1>3, DroppingKeeps

LEMMA FoldKeeps == ASSUME BlobsInv, NEW c, Fold(c) PROVE BlobsInv'
<1> DEFINE older == {f \in folded : f.channel = c}
           row(r) == [channel |-> c, blob |-> r.blob, at |-> blobClock]
           rowsOf == {row(r) : r \in HeldBy(c)}
<1>1. /\ attached' = attached \ HeldBy(c) /\ UNCHANGED <<onFeed, published, resurfaced>>
      /\ blobs' = CollectBlob(Names(HeldBy(c)), attached', folded', onFeed')
      /\ folded' = (folded \ older) \cup rowsOf
      /\ overlooked' = overlooked \cup Names(older)
  <2>1. folded' = {f \in folded : f.channel # c} \cup rowsOf
    BY DEF Fold
  <2> QED
    BY <2>1 DEF Fold, Destroyed
<1>2. \A f \in rowsOf : f.channel = c /\ \E r \in HeldBy(c) : f.blob = r.blob
  OBVIOUS
<1>3. /\ c \in standing /\ standing' = standing \ {c} /\ inPublic' = inPublic \ {c}
  BY DEF Fold
<1> HIDE DEF rowsOf, older
<1>4. /\ inPublic' \subseteq inPublic /\ inPublic' \subseteq standing' /\ standing' \subseteq AllChannels
      /\ \A f \in folded' : f.channel \in AllChannels
  BY <1>1, <1>2, <1>3 DEF BlobsInv, ChannelsAreKnown
<1>5. Names(attached) \subseteq Names(HeldBy(c)) \cup Names(attached')
  BY <1>1 DEF Names
<1>6. Names(folded) \subseteq Names(folded') \cup Names(older)
  BY <1>1 DEF Names
<1>7. Names(folded') \subseteq Names(folded) \cup Names(attached)
  BY <1>1, <1>2 DEF Names, HeldBy
<1> QED
  BY <1>1, <1>4, <1>5, <1>6, <1>7, DroppingKeeps

LEMMA SweepKeeps == ASSUME BlobsInv, Sweep PROVE BlobsInv'
<1>1. /\ attached' \subseteq attached /\ folded' \subseteq folded
      /\ UNCHANGED <<standing, inPublic, onFeed, published, resurfaced>>
      /\ blobs' = blobs \cap (Names(attached') \cup Names(onFeed'))
      /\ overlooked' = overlooked \cup (Names(folded') \cap (blobs \ blobs'))
  BY DEF Sweep, SweptBlobs, channelVars
<1>2. Names(attached') \subseteq Names(attached) /\ Names(folded') \subseteq Names(folded)
  BY <1>1 DEF Names
<1>3. HeldIsStored' /\ FoldedIsHeld' /\ UnheldIsGone'
  BY <1>1, <1>2 DEF BlobsInv, HeldIsStored, FoldedIsHeld, UnheldIsGone
<1>4. PublicWasPublished' /\ ChannelsAreKnown'
  BY <1>1 DEF BlobsInv, PublicWasPublished, InPublic, ChannelsAreKnown
<1> QED
  BY <1>3, <1>4 DEF BlobsInv

(* What is held under an identifier when it is made in public surfaces.    *)
LEMMA CreateKeeps == ASSUME BlobsInv, NEW c \in AllChannels, NEW openly, Create(c, openly) PROVE BlobsInv'
<1>1. /\ standing' = standing \cup {c} /\ UNCHANGED <<blobs, attached, folded, onFeed, published, overlooked>>
      /\ inPublic' = IF openly THEN inPublic \cup {c} ELSE inPublic
      /\ resurfaced' = IF openly THEN resurfaced \cup Names(HeldBy(c)) ELSE resurfaced
  BY DEF Create
<1>2. HeldIsStored' /\ FoldedIsHeld' /\ UnheldIsGone' /\ ChannelsAreKnown'
  BY <1>1 DEF BlobsInv, HeldIsStored, FoldedIsHeld, UnheldIsGone, ChannelsAreKnown, Names
<1>3. PublicWasPublished'
  <2> SUFFICES ASSUME NEW x, InPublic(x)' PROVE x \in published' \cup overlooked' \cup resurfaced'
    BY DEF PublicWasPublished
  <2>1. CASE InPublic(x)
    BY <1>1, <2>1 DEF BlobsInv, PublicWasPublished
  <2>2. CASE ~InPublic(x)
    <3>1. PICK r \in attached : r.channel \in inPublic' /\ r.blob = x
      BY <1>1, <2>2 DEF InPublic
    <3>2. openly /\ r.channel = c
      BY <1>1, <2>2, <3>1 DEF InPublic
    <3>3. x \in Names(HeldBy(c))
      BY <3>1, <3>2 DEF Names, HeldBy
    <3> QED
      BY <1>1, <3>2, <3>3
  <2> QED
    BY <2>1, <2>2
<1> QED
  BY <1>2, <1>3 DEF BlobsInv

LEMMA BlobsInvNext == BlobsInv /\ [BlobsNext]_blobVars => BlobsInv'
<1> SUFFICES ASSUME BlobsInv, [BlobsNext]_blobVars PROVE BlobsInv'
  OBVIOUS
<1>1. ASSUME NEW who \in Accounts, NEW b \in Blobs, BeginFeedUpload(who, b) PROVE BlobsInv'
  BY <1>1, UploadsKeep DEF BeginFeedUpload, Begin
<1>2. ASSUME NEW who \in Accounts, NEW b \in Blobs, NEW c \in AllChannels, NEW timer \in Timers,
             BeginUpload(who, c, b, timer) PROVE BlobsInv'
  BY <1>2, UploadsKeep DEF BeginUpload, Begin
<1>3. ASSUME NEW u \in uploads, PutChunks(u) \/ AbortUpload(u) PROVE BlobsInv'
  BY <1>3, UploadsKeep DEF PutChunks, AbortUpload
<1>4. ASSUME NEW c \in AllChannels, NEW openly \in BOOLEAN, NEW b \in Blobs,
             StoreBlob(c, b, openly)
      PROVE  BlobsInv'
  BY <1>4, StoreBlobKeeps
<1>5. ASSUME BlobTick \/ UNCHANGED blobVars PROVE BlobsInv'
  BY <1>5, UploadsKeep DEF BlobTick, blobVars
<1>6. CASE \E who \in Accounts, b \in Blobs :
              \/ BeginFeedUpload(who, b) \/ AttachFeedBlob(who, b) \/ DetachFeedBlob(who, b)
              \/ \E c \in AllChannels, timer \in Timers :
                   BeginUpload(who, c, b, timer) \/ AttachBlob(who, c, b, timer)
  BY <1>1, <1>2, <1>6, AttachFeedBlobKeeps, AttachBlobKeeps, DetachesKeep
<1>7. CASE \E u \in uploads : PutChunks(u) \/ CommitUpload(u) \/ AbortUpload(u)
  BY <1>3, <1>7, CommitKeeps
<1>8. CASE \E who \in Accounts, r \in attached : DetachBlob(who, r)
  BY <1>8, DetachesKeep
<1>9. CASE \E c \in AllChannels :
              \/ Destroy(c) \/ Fold(c)
              \/ \E openly \in BOOLEAN : Create(c, openly) \/ \E b \in Blobs : StoreBlob(c, b, openly)
  BY <1>4, <1>9, CreateKeeps, DestroyKeeps, FoldKeeps
<1> QED
  BY <1>5, <1>6, <1>7, <1>8, <1>9, SweepKeeps DEF BlobsNext

(* What names a blob decides how long it is kept and who may have it, for  *)
(* any channels, members, blobs and windows (channel.rs collect_blob,      *)
(* attached_privately, sweep).                                             *)
THEOREM HoldersDecideAlways == BlobsSpec => []HoldersDecide
<1>1. BlobsInv => HoldersDecide
  <2> SUFFICES ASSUME BlobsInv, NEW b \in Blobs, MayFetch(Stranger, b)
               PROVE  b \in published \cup overlooked \cup resurfaced
    BY DEF BlobsInv, HoldersDecide, StoredWhileHeld, NotWidened
  <2>1. \A c \in AllChannels : Stranger \notin MembersOf[c]
    BY BlobsAssumption
  <2>2. InPublic(b)
    BY <2>1 DEF MayFetch, FoldsOf, InPublic, BlobsInv, ChannelsAreKnown
  <2> QED
    BY <2>2 DEF BlobsInv, PublicWasPublished
<1> QED
  BY <1>1, BlobsInvInit, BlobsInvNext, PTL DEF BlobsSpec

-----------------------------------------------------------------------------

(* Backups (Backup).                                                       *)

Manifests == [gen : Nat, names : SUBSET (FormerBlobs \cup Nat)]
Savers == [at : {"upload", "write"}, gen : Nat, names : SUBSET (FormerBlobs \cup Nat), tries : {0, 1}]
Collectors == [at : {"fetch"}, gen : Nat, names : SUBSET (FormerBlobs \cup Nat),
               left : SUBSET (FormerBlobs \cup Nat)]

BackupTypeOK ==
    /\ manifest \in Manifests /\ former \in Manifests
    /\ \A h \in holds : h.collected \in BOOLEAN
    /\ collector \in {Resting} \cup Collectors
    /\ saver \in [BackupDevices -> {Resting} \cup Savers]
    /\ segments \in Nat /\ hintDone \in BOOLEAN

(* Until the collection is over for good the former home keeps what the    *)
(* account moved with; what is being fetched is that, and so is all that a *)
(* collection left staged. Once over, nothing is fetched any more.         *)
CollectionInv ==
    /\ manifest.gen = 0 => manifest.names = {}
    /\ ~hintDone => former = [gen |-> 1, names |-> FormerBlobs]
    /\ ~hintDone => \A h \in holds : h.collected => h.blob \in FormerBlobs \cup manifest.names
    /\ collector # Resting => ~hintDone /\ collector.gen = 1 /\ collector.names = FormerBlobs

BackupInv == BackupTypeOK /\ CollectionInv /\ BackupIsWhole


LEMMA HoldingHolds ==
    ASSUME NEW b, NEW collected \in BOOLEAN
    PROVE  /\ {h.blob : h \in Holding(b, collected)} = Held \cup {b}
           /\ \A h \in Holding(b, collected) : h \in holds \/ (h.blob = b /\ h.collected = collected)
<1> DEFINE new == [blob |-> b, collected |-> collected]
<1>1. new.blob = b /\ new.collected = collected
  OBVIOUS
<1>2. Holding(b, collected) = IF b \in Held THEN holds ELSE holds \cup {new}
  BY DEF Holding
<1> HIDE DEF new
<1> QED
  BY <1>1, <1>2 DEF Held

LEMMA NoManifestIsOne == NoManifest \in Manifests /\ NoManifest.gen = 0 /\ NoManifest.names = {}
  BY DEF NoManifest, Manifests

LEMMA BackupInvInit == BackupInit => BackupInv
<1> SUFFICES ASSUME BackupInit PROVE BackupInv
  OBVIOUS
<1>1. former \in Manifests /\ former.gen = 1
  BY DEF BackupInit, Manifests
<1>2. saver \in [BackupDevices -> {Resting} \cup Savers]
  BY DEF BackupInit
<1>3. manifest \in Manifests /\ manifest.gen = 0 /\ manifest.names = {}
  BY NoManifestIsOne DEF BackupInit
<1>4. BackupTypeOK
  BY <1>1, <1>2, <1>3 DEF BackupInit, BackupTypeOK
<1>5. CollectionInv /\ BackupIsWhole
  BY <1>1, <1>3 DEF BackupInit, CollectionInv, BackupIsWhole, ManifestIsWhole, BackupSurvives, NoOrphans, Held
<1> QED
  BY <1>4, <1>5 DEF BackupInv

(* A device at its backup: nothing of the collection changes but that a    *)
(* manifest takes the place of another.                                    *)
LEMMA ReadHeldKeeps == ASSUME BackupInv, NEW d \in BackupDevices, ReadHeld(d) PROVE BackupInv'
<1>1. PICK held \in SUBSET manifest.names :
        saver' = [saver EXCEPT ![d] = [at |-> "upload", gen |-> manifest.gen + 1, names |-> held, tries |-> 0]]
  BY DEF ReadHeld
<1>2. [at |-> "upload", gen |-> manifest.gen + 1, names |-> held, tries |-> 0] \in Savers
  BY DEF BackupInv, BackupTypeOK, Manifests, Savers
<1>3. saver' \in [BackupDevices -> {Resting} \cup Savers]
  BY <1>1, <1>2 DEF BackupInv, BackupTypeOK
<1> QED
  BY <1>3 DEF ReadHeld, BackupInv, BackupTypeOK, CollectionInv, BackupIsWhole, ManifestIsWhole, BackupSurvives,
              NoOrphans, Held

LEMMA UploadKeeps == ASSUME BackupInv, NEW d \in BackupDevices, UploadSegment(d) PROVE BackupInv'
<1>1. /\ UNCHANGED <<former, manifest, collector, hintDone, ownLast, everHeld>>
      /\ \/ segments' = segments + 1 /\ holds' = Holding(segments + 1, FALSE)
         \/ UNCHANGED <<holds, segments>>
  BY DEF UploadSegment
<1>2. saver' \in [BackupDevices -> {Resting} \cup Savers]
  <2>1. CASE saver' = [saver EXCEPT ![d] = Resting]
    BY <2>1 DEF BackupInv, BackupTypeOK
  <2>2. CASE saver' = [saver EXCEPT ![d].names = @ \cup {segments + 1}, ![d].at = "write"]
    <3>1. saver[d] \in Savers
      BY DEF UploadSegment, Resting, BackupInv, BackupTypeOK
    <3>2. segments + 1 \in Nat
      BY DEF BackupInv, BackupTypeOK
    <3>3. [saver[d] EXCEPT !.names = @ \cup {segments + 1}, !.at = "write"] \in Savers
      BY <3>1, <3>2 DEF Savers
    <3> QED
      BY <2>2, <3>3 DEF BackupInv, BackupTypeOK
  <2> QED
    BY <2>1, <2>2 DEF UploadSegment
<1>3. segments' \in Nat
  <2>1. segments \in Nat
    BY DEF BackupInv, BackupTypeOK
  <2>2. segments' = segments + 1 \/ segments' = segments
    BY <1>1
  <2> QED
    BY <2>1, <2>2
<1>4. /\ Held \subseteq Held'
      /\ \A h \in holds' : h \in holds \/ h.collected = FALSE
  <2>1. CASE holds' = Holding(segments + 1, FALSE)
    <3>1. FALSE \in BOOLEAN
      OBVIOUS
    <3> QED
      BY <2>1, <3>1, HoldingHolds DEF Held
  <2>2. CASE holds' = holds
    BY <2>2 DEF Held
  <2> QED
    BY <1>1, <2>1, <2>2
<1> QED
  BY <1>1, <1>2, <1>3, <1>4 DEF BackupInv, BackupTypeOK, CollectionInv, BackupIsWhole, ManifestIsWhole,
                               BackupSurvives, NoOrphans

LEMMA WriteKeeps == ASSUME BackupInv, NEW d \in BackupDevices, WriteBackup(d) PROVE BackupInv'
<1> DEFINE s == saver[d]
<1>1. s \in Savers
  BY DEF WriteBackup, Resting, BackupInv, BackupTypeOK
<1>2. saver' \in [BackupDevices -> {Resting} \cup Savers]
  <2>1. [s EXCEPT !.gen = manifest.gen + 1, !.tries = 1] \in Savers
    <3>1. manifest.gen + 1 \in Nat
      BY DEF BackupInv, BackupTypeOK, Manifests
    <3> HIDE DEF s
    <3> QED
      BY <1>1, <3>1 DEF Savers
  <2> QED
    BY <2>1 DEF WriteBackup, BackupInv, BackupTypeOK
<1>3. CASE UNCHANGED <<manifest, holds, everHeld>>
  BY <1>2, <1>3 DEF WriteBackup, BackupInv, BackupTypeOK, CollectionInv, BackupIsWhole, ManifestIsWhole,
                    BackupSurvives, NoOrphans, Held
<1>4. CASE /\ ~(s.gen <= manifest.gen) /\ s.names \subseteq Held
           /\ manifest' = [gen |-> s.gen, names |-> s.names]
           /\ holds' = {h \in holds : h.blob \in s.names}
  <2>1. manifest' \in Manifests /\ manifest'.gen # 0 /\ manifest'.names = s.names
    BY <1>1, <1>4 DEF Savers, Manifests, BackupInv, BackupTypeOK
  <2>2. ManifestIsWhole'
    BY <1>4, <2>1 DEF ManifestIsWhole, Held
  <2> QED
    BY <1>2, <1>4, <2>1, <2>2
    DEF WriteBackup, BackupInv, BackupTypeOK, CollectionInv, BackupIsWhole, BackupSurvives, NoOrphans
<1> QED
  BY <1>3, <1>4 DEF WriteBackup

LEMMA DropAndStopKeep ==
    ASSUME BackupInv, DropBackup \/ (\E d \in BackupDevices : SaverStops(d)) \/ UNCHANGED backupVars
    PROVE  BackupInv'
<1>1. CASE DropBackup
  BY <1>1, NoManifestIsOne DEF DropBackup, BackupInv, BackupTypeOK, CollectionInv, BackupIsWhole, ManifestIsWhole,
     BackupSurvives, NoOrphans, Held
<1>2. ASSUME NEW d \in BackupDevices, SaverStops(d) PROVE BackupInv'
  BY <1>2 DEF SaverStops, BackupInv, BackupTypeOK, CollectionInv, BackupIsWhole, ManifestIsWhole,
     BackupSurvives, NoOrphans, Held
<1>3. CASE UNCHANGED backupVars
  BY <1>3 DEF backupVars, BackupInv, BackupTypeOK, CollectionInv, BackupIsWhole, ManifestIsWhole,
     BackupSurvives, NoOrphans, Held
<1> QED
  BY <1>1, <1>2, <1>3

(* The collection ends: what it staged and no manifest names is gone by    *)
(* then, and a manifest stands here.                                       *)
LEMMA TookKeeps ==
    ASSUME BackupInv, NEW g, Took(g), UNCHANGED <<saver, segments, everHeld>>,
           holds' \subseteq holds, manifest' \in Manifests, manifest'.gen # 0,
           \A h \in holds' : h.collected => h.blob \in manifest'.names,
           ManifestIsWhole'
    PROVE  BackupInv'
  BY NoManifestIsOne
  DEF Took, Released, BackupInv, BackupTypeOK, CollectionInv, BackupIsWhole, BackupSurvives, NoOrphans

LEMMA WithoutOrphansHolds ==
    /\ WithoutOrphans \subseteq holds
    /\ manifest.names \subseteq Held => manifest.names \subseteq {h.blob : h \in WithoutOrphans}
    /\ \A h \in WithoutOrphans : h.collected => h.blob \in manifest.names
  BY DEF WithoutOrphans, Held

LEMMA PullKeeps == ASSUME BackupInv, PullBackup PROVE BackupInv'
<1>1. former = [gen |-> 1, names |-> FormerBlobs] /\ ~hintDone
  BY DEF PullBackup, BackupInv, CollectionInv
<1>2. CASE Standing /\ holds' = WithoutOrphans /\ Took(former.gen)
  <2>1. manifest' = manifest /\ manifest \in Manifests /\ manifest.gen # 0
    BY <1>2 DEF PullBackup, Standing, BackupInv, BackupTypeOK
  <2>2. ManifestIsWhole'
    BY <1>2, <2>1, WithoutOrphansHolds DEF ManifestIsWhole, Held, BackupInv, BackupIsWhole
  <2> QED
    BY <1>2, <2>1, <2>2, WithoutOrphansHolds, TookKeeps DEF PullBackup
<1>3. CASE /\ collector' = [at |-> "fetch", gen |-> former.gen, names |-> former.names, left |-> former.names]
           /\ UNCHANGED <<former, holds, hintDone>>
  <2>1. collector' \in Collectors /\ collector'.gen = 1 /\ collector'.names = FormerBlobs
    BY <1>1, <1>3 DEF Collectors
  <2> QED
    BY <1>1, <1>3, <2>1 DEF PullBackup, BackupInv, BackupTypeOK, CollectionInv, BackupIsWhole, ManifestIsWhole,
       BackupSurvives, NoOrphans, Held
<1> QED
  BY <1>1, <1>2, <1>3 DEF PullBackup

LEMMA StoreBackupBlobKeeps == ASSUME BackupInv, NEW b \in FormerBlobs, StoreBackupBlob(b) PROVE BackupInv'
<1>0. /\ UNCHANGED <<former, saver, segments, everHeld>> /\ collector \in Collectors /\ ~hintDone
      /\ collector.gen = 1 /\ collector.names = FormerBlobs /\ former.gen = 1
  BY DEF StoreBackupBlob, Resting, BackupInv, BackupTypeOK, CollectionInv
<1>1. CASE /\ holds' = Holding(b, TRUE) /\ collector' = [collector EXCEPT !.left = @ \ {b}]
           /\ UNCHANGED <<manifest, hintDone>>
  <2>1. collector' \in Collectors /\ collector'.gen = 1 /\ collector'.names = FormerBlobs
    BY <1>0, <1>1 DEF Collectors
  <2>2. /\ Held \subseteq Held'
        /\ \A h \in holds' : h.collected \in BOOLEAN /\ (h \in holds \/ h.blob \in FormerBlobs)
    <3>1. \A h \in holds : h.collected \in BOOLEAN
      BY DEF BackupInv, BackupTypeOK
    <3>2. /\ {h.blob : h \in Holding(b, TRUE)} = Held \cup {b}
          /\ \A h \in Holding(b, TRUE) : h \in holds \/ (h.blob = b /\ h.collected = TRUE)
      BY HoldingHolds
    <3>3. Held' = Held \cup {b}
      BY <1>1, <3>2 DEF Held
    <3> QED
      BY <1>1, <3>1, <3>2, <3>3
  <2> QED
    BY <1>0, <1>1, <2>1, <2>2 DEF BackupInv, BackupTypeOK, CollectionInv, BackupIsWhole, ManifestIsWhole,
       BackupSurvives, NoOrphans
<1>2. CASE manifest' = NoManifest /\ holds' = {} /\ hintDone' = TRUE /\ collector' = Resting
  BY <1>0, <1>2, NoManifestIsOne DEF BackupInv, BackupTypeOK, CollectionInv, BackupIsWhole, ManifestIsWhole,
     BackupSurvives, NoOrphans, Held
<1> QED
  BY <1>1, <1>2 DEF StoreBackupBlob

LEMMA ImportKeeps == ASSUME BackupInv, ImportBackup PROVE BackupInv'
<1>0. /\ UNCHANGED <<saver, segments, everHeld>> /\ collector \in Collectors /\ ~hintDone
      /\ collector.gen = 1 /\ collector.names = FormerBlobs
  BY DEF ImportBackup, Resting, BackupInv, BackupTypeOK, CollectionInv
<1>1. CASE /\ Imports /\ manifest' = [gen |-> collector.gen, names |-> collector.names]
           /\ Took(collector.gen) /\ UNCHANGED holds
  <2>1. manifest' \in Manifests /\ manifest'.gen # 0 /\ manifest'.names = FormerBlobs
    BY <1>0, <1>1 DEF Manifests
  <2>2. manifest.names = {} /\ ManifestIsWhole'
    <3>1. manifest.gen = 0 /\ FormerBlobs \subseteq Held
      BY <1>0, <1>1 DEF Imports
    <3>2. Held' = Held
      BY <1>1 DEF Held
    <3> QED
      BY <2>1, <3>1, <3>2 DEF ManifestIsWhole, BackupInv, CollectionInv
  <2>3. \A h \in holds' : h.collected => h.blob \in manifest'.names
    BY <1>0, <1>1, <2>1, <2>2 DEF BackupInv, CollectionInv
  <2> QED
    BY <1>0, <1>1, <2>1, <2>2, <2>3, TookKeeps
<1>2. CASE manifest.gen # 0 /\ holds' = Superseded /\ Took(collector.gen) /\ UNCHANGED manifest
  <2>1. ManifestIsWhole'
    BY <1>2, WithoutOrphansHolds DEF Superseded, ManifestIsWhole, Held, BackupInv, BackupIsWhole
  <2> QED
    BY <1>0, <1>2, <2>1, WithoutOrphansHolds, TookKeeps DEF Superseded, BackupInv, BackupTypeOK
<1> QED
  BY <1>1, <1>2 DEF ImportBackup

LEMMA CollectorStopsKeeps == ASSUME BackupInv, CollectorStops PROVE BackupInv'
  BY DEF CollectorStops, BackupInv, BackupTypeOK, CollectionInv, BackupIsWhole, ManifestIsWhole,
     BackupSurvives, NoOrphans, Held

(* A backup is whole wherever it is, never lost between two homes, and     *)
(* leaves nothing behind, for any devices, blobs and quota (collect_backup, *)
(* replica.rs; write_backup, import_backup, channel.rs).                   *)
THEOREM BackupIsWholeAlways == BackupSpec => []BackupIsWhole
<1>1. BackupInv /\ [BackupNext]_backupVars => BackupInv'
  BY ReadHeldKeeps, UploadKeeps, WriteKeeps, DropAndStopKeep, PullKeeps, StoreBackupBlobKeeps, ImportKeeps,
     CollectorStopsKeeps
  DEF BackupNext
<1>2. BackupInv => BackupIsWhole
  BY DEF BackupInv
<1> QED
  BY <1>1, <1>2, BackupInvInit, PTL DEF BackupSpec

-----------------------------------------------------------------------------

(* Feeds (Feed).                                                           *)

Links == Seq(FeedDevices \X Bodies)
Posts == [device : FeedDevices, prev : Links, commits : Bodies, body : Bodies \cup {Gone},
          received : Nat, expires : Nat]
FeedFields == {"found", "oldest", "newest", "head", "posts", "bytes", "retention", "max"}
Publishers == {NothingToSay}
              \cup [at : {"wants"}, body : Bodies, retry : BOOLEAN, timer : BOOLEAN]
              \cup [at : {"signed"}, body : Bodies, retry : BOOLEAN, timer : BOOLEAN, serial : Nat, prev : Links]

IsHead(f) == f = [k \in FeedFields |-> f[k]] /\ f.newest \in Nat /\ f.head \in Links /\ f.retention \in Nat

(* Rows are posts at serials up to the one after the newest, which is      *)
(* there after an append that stopped half way, in the order received; a   *)
(* row has the body its post committed to, or none.                        *)
AreRows(held, newest) ==
    /\ held = [n \in DOMAIN held |-> held[n]] /\ DOMAIN held \subseteq 1..newest + 1
    /\ \A n \in DOMAIN held : held[n] \in Posts /\ held[n].body \in {held[n].commits, Gone}
    /\ \A m, n \in DOMAIN held : m <= n => held[m].received <= held[n].received

FeedTypeOK ==
    /\ feedClock \in Nat
    /\ IsHead(feed) /\ AreRows(rows, feed.newest)
    /\ \A n \in DOMAIN rows : rows[n].received <= feedClock
    /\ author \in [FeedDevices -> Publishers]

(* Who is to publish a Redact names a serial that was there to withdraw.   *)
RedactsNameWhatWas ==
    \A d \in FeedDevices : author[d] # NothingToSay => author[d].body <= feed.newest + 1

(* A Redact that was accepted is held as long as what it withdrew.         *)
RedactOutlives ==
    \A n \in redacted :
        /\ n <= feed.newest /\ n \in Nat
        /\ n \in DOMAIN rows => \E m \in DOMAIN rows : n <= m /\ m <= feed.newest /\ rows[m].commits = n

FeedInv == FeedTypeOK /\ OneLog /\ RedactsNameWhatWas /\ RedactOutlives

(* What becomes of the rows when some lose their bodies and some of the    *)
(* lowest go.                                                              *)
Thinned(held, left) ==
    /\ left = [n \in DOMAIN left |-> left[n]] /\ DOMAIN left \subseteq DOMAIN held
    /\ \A n \in DOMAIN left :
          /\ left[n] \in Posts /\ left[n].body \in {held[n].body, Gone}
          /\ left[n].device = held[n].device /\ left[n].prev = held[n].prev
          /\ left[n].commits = held[n].commits /\ left[n].received = held[n].received
    /\ \A n \in DOMAIN left, m \in DOMAIN held : n <= m => m \in DOMAIN left

LEMMA BodiesAreNumbers == Bodies \subseteq Int /\ Words \in Bodies /\ Never \in Nat
  BY FeedAssumption DEF Bodies, Words, Never

LEMMA StonesThin ==
    ASSUME NEW newest \in Nat, NEW held, AreRows(held, newest), NEW which
    PROVE  Thinned(held, Stones(held, which))
<1> DEFINE stoned == Stones(held, which)
<1>1. stoned = [n \in DOMAIN held |-> IF n \in which THEN [held[n] EXCEPT !.body = Gone, !.expires = Never] ELSE held[n]]
  BY DEF Stones
<1>2. ASSUME NEW n \in DOMAIN held
      PROVE  /\ [held[n] EXCEPT !.body = Gone, !.expires = Never] \in Posts
             /\ LET x == [held[n] EXCEPT !.body = Gone, !.expires = Never] IN
                /\ x.body = Gone /\ x.device = held[n].device /\ x.prev = held[n].prev
                /\ x.commits = held[n].commits /\ x.received = held[n].received
  <2>1. held[n] \in Posts
    BY DEF AreRows
  <2> QED
    BY <2>1, BodiesAreNumbers DEF Posts
<1>3. \A n \in DOMAIN held : held[n] \in Posts
  BY DEF AreRows
<1> HIDE DEF stoned
<1>4. DOMAIN stoned = DOMAIN held /\ stoned = [n \in DOMAIN stoned |-> stoned[n]]
  BY <1>1
<1>5. ASSUME NEW n \in DOMAIN held
      PROVE  /\ stoned[n] \in Posts /\ stoned[n].body \in {held[n].body, Gone}
             /\ stoned[n].device = held[n].device /\ stoned[n].prev = held[n].prev
             /\ stoned[n].commits = held[n].commits /\ stoned[n].received = held[n].received
  <2>1. CASE n \in which
    BY <1>1, <1>2, <2>1
  <2>2. CASE n \notin which
    BY <1>1, <1>3, <2>2
  <2> QED
    BY <2>1, <2>2
<1> QED
  BY <1>4, <1>5 DEF Thinned, stoned

(* Without the lowest of what is thinned it is still that.                 *)
LEMMA WithoutThins ==
    ASSUME NEW held, NEW left, Thinned(held, left), NEW out,
           \A n, m \in DOMAIN held : m \in out /\ n <= m => n \in out
    PROVE  Thinned(held, Without(left, out))
<1>1. /\ DOMAIN Without(left, out) = DOMAIN left \ out
      /\ Without(left, out) = [n \in DOMAIN left \ out |-> left[n]]
  BY DEF Without
<1> QED
  BY <1>1 DEF Thinned

LEMMA ThinnedRows ==
    ASSUME NEW newest \in Nat, NEW held, AreRows(held, newest), NEW left, Thinned(held, left)
    PROVE  AreRows(left, newest)
<1>1. DOMAIN left \subseteq 1..newest + 1
  BY DEF AreRows, Thinned
<1>2. \A n \in DOMAIN left : left[n].body \in {left[n].commits, Gone}
  BY DEF AreRows, Thinned
<1>3. \A m, n \in DOMAIN left : m <= n => left[m].received <= left[n].received
  BY DEF AreRows, Thinned
<1> QED
  BY <1>1, <1>2, <1>3 DEF AreRows, Thinned

(* The rows are thinned, and the head row's other counters with them.      *)
LEMMA ThinningKeeps ==
    ASSUME FeedInv, Thinned(rows, rows'), IsHead(feed'),
           feed'.newest = feed.newest, feed'.head = feed.head,
           feedClock' \in Nat, feedClock <= feedClock', UNCHANGED <<acked, redacted>>,
           author' \in [FeedDevices -> Publishers], RedactsNameWhatWas'
    PROVE  FeedInv'
<1>1. AreRows(rows', feed'.newest)
  BY ThinnedRows DEF FeedInv, FeedTypeOK, IsHead
<1>2. \A n \in DOMAIN rows' : rows'[n].received <= feedClock'
  <2> TAKE n \in DOMAIN rows'
  <2>1. n \in DOMAIN rows /\ rows'[n].received = rows[n].received
    BY DEF Thinned
  <2>2. rows[n].received \in Nat /\ rows[n].received <= feedClock /\ feedClock \in Nat
    BY <2>1 DEF FeedInv, FeedTypeOK, AreRows, Posts
  <2> QED
    BY <2>1, <2>2
<1>3. OneLog'
  <2>1. \A n \in DOMAIN rows' : LinkOf(rows'[n]) = LinkOf(rows[n]) /\ n \in DOMAIN rows
    BY DEF Thinned, LinkOf
  <2> QED
    BY <2>1 DEF FeedInv, OneLog
<1>4. RedactOutlives'
  BY DEF FeedInv, RedactOutlives, Thinned
<1> QED
  BY <1>1, <1>2, <1>3, <1>4 DEF FeedInv, FeedTypeOK

LEMMA LessIsHead ==
    ASSUME IsHead(feed), NEW freed
    PROVE  /\ IsHead(Less(feed, freed))
           /\ Less(feed, freed).newest = feed.newest /\ Less(feed, freed).head = feed.head
<1> DEFINE bytes == IF feed.bytes > freed THEN feed.bytes - freed ELSE 0
<1>1. Less(feed, freed) = [feed EXCEPT !.bytes = bytes]
  BY DEF Less
<1> HIDE DEF bytes
<1> QED
  BY <1>1 DEF IsHead, FeedFields

LEMMA ExpireThins ==
    ASSUME FeedInv, Expire
    PROVE  /\ Thinned(rows, rows') /\ IsHead(feed')
           /\ feed'.newest = feed.newest /\ feed'.head = feed.head
  BY StonesThin, LessIsHead DEF Expire, FeedInv, FeedTypeOK, IsHead

LEMMA SignsKeeps ==
    ASSUME FeedInv, NEW d \in FeedDevices, NEW body \in Bodies, NEW retry \in BOOLEAN, NEW timer \in BOOLEAN,
           body <= feed.newest + 1, SignsAt(d, body, retry, timer)
    PROVE  FeedInv'
<1> DEFINE signed == [at |-> "signed", body |-> body, retry |-> retry, timer |-> timer,
                      serial |-> feed.newest + 1, prev |-> feed.head]
<1>1. feed.newest + 1 \in Nat /\ feed.head \in Links
  BY DEF FeedInv, FeedTypeOK, IsHead
<1>2. signed \in Publishers /\ signed.body = body
  BY <1>1 DEF Publishers
<1>3. author' = [author EXCEPT ![d] = signed] /\ UNCHANGED <<feedClock, acked, redacted>>
  BY DEF SignsAt
<1>4. /\ Thinned(rows, rows') /\ IsHead(feed')
      /\ feed'.newest = feed.newest /\ feed'.head = feed.head
  BY ExpireThins DEF SignsAt
<1> HIDE DEF signed
<1>5. author' \in [FeedDevices -> Publishers]
  BY <1>2, <1>3 DEF FeedInv, FeedTypeOK
<1>6. RedactsNameWhatWas'
  BY <1>2, <1>3, <1>4 DEF FeedInv, FeedTypeOK, RedactsNameWhatWas
<1>7. feedClock \in Nat
  BY DEF FeedInv, FeedTypeOK
<1> QED
  BY <1>3, <1>4, <1>5, <1>6, <1>7, ThinningKeeps

LEMMA PublishersAre ==
    ASSUME FeedInv, NEW d \in FeedDevices, author[d].at # "idle"
    PROVE  /\ author[d].body \in Bodies /\ author[d].retry \in BOOLEAN /\ author[d].timer \in BOOLEAN
           /\ author[d].body <= feed.newest + 1
           /\ author[d].at = "signed" => author[d].serial \in Nat /\ author[d].prev \in Links
<1>1. author[d] \in Publishers /\ author[d] # NothingToSay
  BY DEF FeedInv, FeedTypeOK, NothingToSay
<1> QED
  BY <1>1 DEF Publishers, NothingToSay, FeedInv, RedactsNameWhatWas

LEMMA PublishKeeps ==
    ASSUME FeedInv, NEW d \in FeedDevices,
           (\E timer \in BOOLEAN : Publish(d, timer)) \/ ReadHead(d)
    PROVE  FeedInv'
<1>1. CASE \E timer \in BOOLEAN : Publish(d, timer)
  <2>1. Words \in Bodies /\ Words <= feed.newest + 1
    BY BodiesAreNumbers DEF Words, FeedInv, FeedTypeOK, IsHead
  <2> QED
    BY <1>1, <2>1, SignsKeeps DEF Publish
<1>2. CASE ReadHead(d)
  BY <1>2, PublishersAre, SignsKeeps DEF ReadHead
<1> QED
  BY <1>1, <1>2

LEMMA RefusedKeeps == ASSUME FeedInv, NEW d \in FeedDevices, AppendRefused(d) PROVE FeedInv'
<1> DEFINE a == author[d]
           again == [at |-> "wants", body |-> a.body, retry |-> FALSE, timer |-> a.timer]
<1>1. /\ a.body \in Bodies /\ a.timer \in BOOLEAN /\ a.body <= feed.newest + 1
  BY PublishersAre DEF AppendRefused
<1>2. again \in Publishers /\ again.body = a.body /\ NothingToSay \in Publishers
  BY <1>1 DEF Publishers
<1>3. PICK new \in {again, NothingToSay} : author' = [author EXCEPT ![d] = new]
  BY DEF AppendRefused
<1>4. UNCHANGED <<feed, rows, feedClock, acked, redacted>>
  BY DEF AppendRefused
<1> HIDE DEF again
<1>5. author' \in [FeedDevices -> Publishers]
  BY <1>2, <1>3 DEF FeedInv, FeedTypeOK
<1>6. RedactsNameWhatWas'
  BY <1>1, <1>2, <1>3, <1>4 DEF FeedInv, FeedTypeOK, RedactsNameWhatWas
<1> QED
  BY <1>4, <1>5, <1>6 DEF FeedInv, FeedTypeOK, OneLog, RedactOutlives

LEMMA WithdrawKeeps == ASSUME FeedInv, NEW d \in FeedDevices, NEW n \in Serials, Withdraw(d, n) PROVE FeedInv'
<1> DEFINE new == [at |-> "wants", body |-> n, retry |-> TRUE, timer |-> FALSE]
<1>1. new \in Publishers /\ new.body = n
  BY DEF Publishers, Bodies, Serials
<1>2. /\ author' = [author EXCEPT ![d] = new] /\ UNCHANGED <<feedClock, acked, redacted>>
      /\ n \in DOMAIN rows /\ rows' = Stones(rows, Due \cup {n}) /\ feed' = Less(feed, Freed(Due \cup {n}))
  BY DEF Withdraw
<1> HIDE DEF new
<1>3. /\ Thinned(rows, rows') /\ IsHead(feed') /\ feed'.newest = feed.newest /\ feed'.head = feed.head
  BY <1>2, StonesThin, LessIsHead DEF FeedInv, FeedTypeOK, IsHead
<1>4. author' \in [FeedDevices -> Publishers]
  BY <1>1, <1>2 DEF FeedInv, FeedTypeOK
<1>5. n <= feed.newest + 1
  BY <1>2 DEF FeedInv, FeedTypeOK, AreRows
<1>6. RedactsNameWhatWas'
  BY <1>1, <1>2, <1>3, <1>5 DEF FeedInv, FeedTypeOK, RedactsNameWhatWas
<1>7. feedClock \in Nat
  BY DEF FeedInv, FeedTypeOK
<1> QED
  BY <1>2, <1>3, <1>4, <1>6, <1>7, ThinningKeeps

LEMMA PolicyAndTickKeep ==
    ASSUME FeedInv,
           (\E retention \in Retentions, max \in 1..MAX_FEED_POSTS : SetPolicy(retention, max))
           \/ FeedTick \/ FollowerReads \/ UNCHANGED feedVars
    PROVE  FeedInv'
<1>0. feedClock \in Nat /\ IsHead(feed) /\ author \in [FeedDevices -> Publishers]
  BY DEF FeedInv, FeedTypeOK
<1>1. Thinned(rows, rows)
  BY <1>0, StonesThin DEF FeedInv, FeedTypeOK, AreRows, Thinned
<1>2. ASSUME NEW retention \in Retentions, NEW max \in 1..MAX_FEED_POSTS, SetPolicy(retention, max)
      PROVE  FeedInv'
  <2>1. feed' = [feed EXCEPT !.found = TRUE, !.retention = retention, !.max = max]
    BY <1>2 DEF SetPolicy
  <2>2. retention \in Nat
    BY FeedAssumption
  <2>3. IsHead(feed') /\ feed'.newest = feed.newest /\ feed'.head = feed.head
    BY <1>0, <2>1, <2>2 DEF IsHead, FeedFields
  <2>4. UNCHANGED <<rows, feedClock, author, acked, redacted>>
    BY <1>2 DEF SetPolicy
  <2>5. RedactsNameWhatWas'
    BY <2>3, <2>4 DEF FeedInv, RedactsNameWhatWas
  <2> QED
    BY <1>0, <1>1, <2>3, <2>4, <2>5, ThinningKeeps
<1>3. CASE FeedTick
  BY <1>0, <1>1, <1>3, ThinningKeeps DEF FeedTick, FeedInv, RedactsNameWhatWas
<1>4. CASE FollowerReads
  BY <1>0, <1>4, ExpireThins, ThinningKeeps DEF FollowerReads, FeedInv, RedactsNameWhatWas
<1>5. CASE UNCHANGED feedVars
  BY <1>0, <1>1, <1>5, ThinningKeeps DEF feedVars, FeedInv, RedactsNameWhatWas
<1> QED
  BY <1>2, <1>3, <1>4, <1>5

(* Retention goes by the time a post was received: never a post and not    *)
(* one below it.                                                           *)
LEMMA FeedSweepKeeps == ASSUME FeedInv, FeedSweep PROVE FeedInv'
<1> DEFINE stoned == Stones(rows, Due)
           old == {n \in DOMAIN rows : rows[n].received + feed.retention < feedClock}
           left == Without(stoned, old)
<1>0. feedClock \in Nat /\ IsHead(feed) /\ author \in [FeedDevices -> Publishers] /\ AreRows(rows, feed.newest)
      /\ feed.newest \in Nat
  BY DEF FeedInv, FeedTypeOK, IsHead
<1>1. Thinned(rows, stoned)
  BY <1>0, StonesThin
<1>2. ASSUME NEW n \in DOMAIN rows, NEW m \in DOMAIN rows, m \in old, n <= m PROVE n \in old
  <2>1. rows[n].received \in Nat /\ rows[m].received \in Nat /\ rows[n].received <= rows[m].received
    BY <1>0, <1>2 DEF AreRows, Posts
  <2>2. feed.retention \in Nat /\ rows[m].received + feed.retention < feedClock
    BY <1>0, <1>2 DEF IsHead
  <2>3. rows[n].received + feed.retention < feedClock
    BY <1>0, <2>1, <2>2
  <2> QED
    BY <2>3
<1>3. rows' = left
  BY DEF FeedSweep
<1>4. Thinned(rows, rows')
  <2> HIDE DEF old, stoned
  <2> QED
    BY <1>1, <1>2, <1>3, WithoutThins
<1>5. IsHead(feed') /\ feed'.newest = feed.newest /\ feed'.head = feed.head
  <2>1. CASE feed' = Less(feed, Freed(Due))
    BY <1>0, <2>1, LessIsHead
  <2>2. CASE feed' = SweptHead(feed, left)
    <3> DEFINE o == IF left = <<>> THEN 0 ELSE Min(DOMAIN left)
               p == Cardinality(DOMAIN left)
               b == BytesOf(left)
    <3>1. feed' = [feed EXCEPT !.oldest = o, !.posts = p, !.bytes = b]
      BY <2>2 DEF SweptHead
    <3> HIDE DEF o, p, b
    <3> QED
      BY <1>0, <3>1 DEF IsHead, FeedFields
  <2> QED
    BY <2>1, <2>2 DEF FeedSweep
<1>6. UNCHANGED <<feedClock, author, acked, redacted>>
  BY DEF FeedSweep
<1>7. RedactsNameWhatWas'
  BY <1>5, <1>6 DEF FeedInv, RedactsNameWhatWas
<1> QED
  BY <1>0, <1>4, <1>5, <1>6, <1>7, ThinningKeeps

(* What an append puts in: the post at the serial after the newest.        *)
NewRow(d) == RowOf([device |-> d, prev |-> author[d].prev, body |-> author[d].body], author[d].timer)
WithPost(d) == [m \in DOMAIN rows \cup {author[d].serial} |->
                  IF m = author[d].serial THEN NewRow(d) ELSE rows[m]]

LEMMA NewRowIsAPost ==
    ASSUME FeedInv, NEW d \in FeedDevices, author[d].at = "signed"
    PROVE  /\ NewRow(d) \in Posts
           /\ NewRow(d).device = d /\ NewRow(d).prev = author[d].prev
           /\ NewRow(d).commits = author[d].body /\ NewRow(d).body = author[d].body
           /\ NewRow(d).received = feedClock
<1> DEFINE expires == IF author[d].timer THEN feedClock + 1 ELSE Never
           body == author[d].body
           prev == author[d].prev
<1>1. body \in Bodies /\ prev \in Links /\ feedClock \in Nat
  BY PublishersAre DEF FeedInv, FeedTypeOK
<1>2. expires \in Nat
  BY <1>1, BodiesAreNumbers
<1>3. NewRow(d) = [device |-> d, prev |-> prev, commits |-> body, body |-> body,
                   received |-> feedClock, expires |-> expires]
  BY DEF NewRow, RowOf
<1> HIDE DEF expires, body, prev
<1>4. /\ NewRow(d) \in Posts
      /\ NewRow(d).device = d /\ NewRow(d).prev = prev
      /\ NewRow(d).commits = body /\ NewRow(d).body = body
      /\ NewRow(d).received = feedClock
  BY <1>1, <1>2, <1>3 DEF Posts
<1> QED
  BY <1>4 DEF body, prev

LEMMA WithPostRows ==
    ASSUME FeedInv, NEW d \in FeedDevices, author[d].at = "signed", Accepts(author[d]),
           author[d].serial \notin DOMAIN rows
    PROVE  /\ AreRows(WithPost(d), feed.newest)
           /\ \A n \in DOMAIN WithPost(d) : WithPost(d)[n].received <= feedClock
           /\ DOMAIN WithPost(d) = DOMAIN rows \cup {feed.newest + 1}
           /\ WithPost(d)[feed.newest + 1] = NewRow(d)
           /\ \A n \in DOMAIN rows : n <= feed.newest /\ WithPost(d)[n] = rows[n]
<1> DEFINE held == WithPost(d)
           top1 == feed.newest + 1
<1>1. author[d].serial = top1 /\ feed.newest \in Nat /\ feedClock \in Nat /\ AreRows(rows, feed.newest)
  BY DEF Accepts, FeedInv, FeedTypeOK, IsHead
<1>2. held = [m \in DOMAIN rows \cup {top1} |-> IF m = top1 THEN NewRow(d) ELSE rows[m]]
  BY <1>1 DEF WithPost
<1>3. top1 \notin DOMAIN rows /\ DOMAIN rows \subseteq 1..feed.newest
  BY <1>1 DEF AreRows
<1>4. NewRow(d) \in Posts /\ NewRow(d).body = NewRow(d).commits /\ NewRow(d).received = feedClock
  BY NewRowIsAPost
<1> HIDE DEF held
<1>5. /\ DOMAIN held = DOMAIN rows \cup {top1} /\ held = [n \in DOMAIN held |-> held[n]]
      /\ held[top1] = NewRow(d) /\ \A n \in DOMAIN rows : held[n] = rows[n]
  BY <1>2, <1>3
<1>6. \A n \in DOMAIN rows : rows[n] \in Posts /\ rows[n].received <= feedClock /\ n <= feed.newest
  BY <1>1, <1>3 DEF AreRows, FeedInv, FeedTypeOK
<1>7. \A n \in DOMAIN held : held[n] \in Posts /\ held[n].body \in {held[n].commits, Gone}
  BY <1>1, <1>4, <1>5 DEF AreRows
<1>8. \A n \in DOMAIN held : held[n].received <= feedClock
  BY <1>1, <1>4, <1>5, <1>6
<1>9. ASSUME NEW m \in DOMAIN held, NEW n \in DOMAIN held, m <= n
      PROVE  held[m].received <= held[n].received
  <2>1. CASE n = top1
    BY <1>4, <1>5, <1>8, <2>1
  <2>2. CASE n \in DOMAIN rows
    <3>1. m \in DOMAIN rows
      BY <1>1, <1>3, <1>5, <1>9, <2>2
    <3> QED
      BY <1>1, <1>5, <1>9, <2>2, <3>1 DEF AreRows
  <2> QED
    BY <1>5, <2>1, <2>2
<1>10. DOMAIN held \subseteq 1..feed.newest + 1
  BY <1>1, <1>3, <1>5
<1> QED
  BY <1>5, <1>6, <1>7, <1>8, <1>9, <1>10 DEF AreRows, held

LEMMA EvictedIsBelow ==
    ASSUME NEW f, NEW held, DOMAIN held \subseteq Nat, NEW serial \in DOMAIN held
    PROVE  \E k \in Nat : k <= serial /\ Evicted(f, held, serial) = {n \in DOMAIN held : n < k}
<1> DEFINE below(k) == {n \in DOMAIN held : n < k}
           enough == {k \in DOMAIN held : k = serial \/ Fits(f, Without(held, below(k)))}
<1>1. enough \subseteq Nat /\ serial \in enough
  OBVIOUS
<1>2. Evicted(f, held, serial) = below(Min(enough))
  BY DEF Evicted
<1> HIDE DEF enough
<1>3. \E x \in enough : \A y \in enough : x <= y
  BY <1>1, LeastNumber
<1>4. Min(enough) \in Nat /\ Min(enough) <= serial
  BY <1>1, <1>3 DEF Min
<1> QED
  BY <1>2, <1>4

LEMMA LinkOfPost ==
    ASSUME NEW post \in Posts
    PROVE  LinkOf(post) \in Links /\ Front(LinkOf(post)) = post.prev
<1> DEFINE link == <<post.device, post.commits>>
           S == FeedDevices \X Bodies
           s == post.prev
<1>1. s \in Seq(S) /\ link \in S
  BY DEF Posts, Links
<1> HIDE DEF s, S, link
<1>2. /\ Append(s, link) \in Seq(S) /\ Len(s) \in Nat /\ Len(Append(s, link)) = Len(s) + 1
      /\ \A i \in 1..Len(s) : Append(s, link)[i] = s[i]
      /\ s \in [1..Len(s) -> S]
  BY <1>1, AppendProperties, LenProperties
<1> DEFINE front == SubSeq(Append(s, link), 1, Len(s))
<1>3. front \in Seq(S) /\ Len(front) = Len(s) /\ \A i \in 1..Len(s) : front[i] = s[i]
  <2>1. \A i \in 1..Len(s) : Append(s, link)[i] \in S
    BY <1>2
  <2> QED
    BY <1>2, <2>1, SubSeqProperties
<1> HIDE DEF front
<1>4. front = s
  BY <1>1, <1>3, SeqEqual
<1>5. Front(Append(s, link)) = front
  BY <1>2 DEF Front, front
<1> QED
  BY <1>2, <1>4, <1>5 DEF LinkOf, s, S, link, Links

LEMMA IdleKeepsRedacts ==
    ASSUME FeedInv, NEW d \in FeedDevices, author' = [author EXCEPT ![d] = NothingToSay],
           feed.newest <= feed'.newest, feed'.newest \in Nat
    PROVE  author' \in [FeedDevices -> Publishers] /\ RedactsNameWhatWas'
<1>1. NothingToSay \in Publishers
  BY DEF Publishers
<1>2. author' \in [FeedDevices -> Publishers]
  BY <1>1 DEF FeedInv, FeedTypeOK
<1>3. ASSUME NEW e \in FeedDevices, author'[e] # NothingToSay PROVE author'[e].body <= feed'.newest + 1
  <2>1. author'[e] = author[e]
    BY <1>3 DEF FeedInv, FeedTypeOK
  <2>2. author[e] \in Publishers \ {NothingToSay} /\ author[e].body <= feed.newest + 1
    BY <1>3, <2>1 DEF FeedInv, FeedTypeOK, RedactsNameWhatWas
  <2>3. author[e].body \in Int
    BY <2>2, BodiesAreNumbers DEF Publishers
  <2>4. feed.newest \in Nat
    BY DEF FeedInv, FeedTypeOK, IsHead
  <2> QED
    BY <2>1, <2>2, <2>3, <2>4
<1> QED
  BY <1>2, <1>3 DEF RedactsNameWhatWas

LEMMA AppendKeeps == ASSUME FeedInv, NEW d \in FeedDevices, AppendPost(d) PROVE FeedInv'
<1> DEFINE a == author[d]
           n == a.serial
           row == RowOf([device |-> d, prev |-> a.prev, body |-> a.body], a.timer)
           held == [m \in DOMAIN rows \cup {n} |-> IF m = n THEN row ELSE rows[m]]
           out == Evicted(feed, held, n)
           newest == feed.newest
<1>1. a.at = "signed" /\ Accepts(a) /\ n \notin DOMAIN rows
  BY DEF AppendPost
<1>2. n = newest + 1 /\ a.prev = feed.head /\ newest \in Nat /\ n \in Nat
  BY <1>1 DEF Accepts, FeedInv, FeedTypeOK, IsHead
<1>3. row = NewRow(d) /\ held = WithPost(d)
  BY DEF NewRow, WithPost
<1>4. rows' = Without(held, out) /\ UNCHANGED feedClock
  BY DEF AppendPost
<1>5. acked' = [m \in DOMAIN acked \cup {n} |-> IF m = n THEN LinkOf(row) ELSE acked[m]]
  BY DEF AppendPost
<1>6. author' = [author EXCEPT ![d] = NothingToSay] /\ redacted' = redacted \cup ({a.body} \cap Serials)
  BY DEF AppendPost
<1>7. feed' = [feed EXCEPT !.found = TRUE, !.newest = n, !.head = LinkOf(row),
                 !.oldest = IF out # {} THEN Max(out) + 1 ELSE IF @ = 0 THEN n ELSE @,
                 !.posts = @ + 1 - Cardinality(out),
                 !.bytes = @ + SizeOf(a.body) - BytesOf([m \in out |-> held[m]])]
  BY DEF AppendPost
<1>8. a.body \in Bodies /\ a.body <= newest + 1
  BY <1>1, PublishersAre
<1> HIDE DEF row, held, out, a, n
<1>9. /\ AreRows(held, newest) /\ DOMAIN held = DOMAIN rows \cup {n} /\ held[n] = row
      /\ \A m \in DOMAIN held : held[m].received <= feedClock
      /\ \A m \in DOMAIN rows : m <= newest /\ held[m] = rows[m]
  BY <1>1, <1>2, <1>3, WithPostRows DEF a, n
<1>10. row \in Posts /\ row.prev = a.prev /\ row.commits = a.body
  BY <1>1, <1>3, NewRowIsAPost DEF a
<1>11. LinkOf(row) \in Links /\ Front(LinkOf(row)) = feed.head
  BY <1>2, <1>10, LinkOfPost
<1>12. IsHead(feed') /\ feed'.newest = n /\ feed'.head = LinkOf(row)
  <2>1. IsHead(feed)
    BY DEF FeedInv, FeedTypeOK
  <2> DEFINE o == IF out # {} THEN Max(out) + 1 ELSE IF feed.oldest = 0 THEN n ELSE feed.oldest
             p == feed.posts + 1 - Cardinality(out)
             b == feed.bytes + SizeOf(a.body) - BytesOf([m \in out |-> held[m]])
  <2>2. feed' = [feed EXCEPT !.found = TRUE, !.newest = n, !.head = LinkOf(row), !.oldest = o, !.posts = p, !.bytes = b]
    BY <1>7
  <2> HIDE DEF o, p, b
  <2> QED
    BY <1>2, <1>11, <2>1, <2>2 DEF IsHead, FeedFields
<1>13. PICK k \in Nat : out = {m \in DOMAIN held : m < k}
  <2>1. DOMAIN held \subseteq Nat /\ n \in DOMAIN held
    BY <1>2, <1>9 DEF AreRows
  <2> QED
    BY <2>1, EvictedIsBelow DEF out
<1>14. Thinned(held, rows')
  <2>1. Thinned(held, held)
    BY <1>9 DEF AreRows, Thinned
  <2>2. \A x, m \in DOMAIN held : m \in out /\ x <= m => x \in out
    BY <1>9, <1>13 DEF AreRows
  <2> QED
    BY <1>4, <2>1, <2>2, WithoutThins
<1>15. DOMAIN rows' = DOMAIN held \ out /\ \A m \in DOMAIN rows' : rows'[m] = held[m] /\ m \in DOMAIN held
  BY <1>4 DEF Without
<1>16. AreRows(rows', newest)
  BY <1>2, <1>9, <1>14, ThinnedRows
<1>17. AreRows(rows', feed'.newest) /\ \A m \in DOMAIN rows' : rows'[m].received <= feedClock'
  <2>1. DOMAIN rows' \subseteq 1..n + 1
    BY <1>2, <1>16 DEF AreRows
  <2> QED
    BY <1>4, <1>9, <1>12, <1>15, <1>16, <2>1 DEF AreRows
<1>18. OneLog'
  <2>1. DOMAIN acked = 1..newest /\ feed.head = IF newest = 0 THEN <<>> ELSE acked[newest]
    BY DEF FeedInv, OneLog
  <2>2. DOMAIN acked' = 1..n /\ acked'[n] = LinkOf(row) /\ \A m \in 1..newest : acked'[m] = acked[m]
    BY <1>2, <1>5, <2>1
  <2>3. \A m \in DOMAIN rows' : LinkOf(rows'[m]) = acked'[m]
    <3> TAKE m \in DOMAIN rows'
    <3>1. CASE m = n
      BY <1>9, <1>15, <2>2, <3>1
    <3>2. CASE m # n
      <4>1. m \in DOMAIN rows /\ rows'[m] = rows[m] /\ m \in 1..newest
        BY <1>9, <1>15, <3>2 DEF FeedInv, FeedTypeOK, AreRows
      <4> QED
        BY <2>2, <4>1 DEF FeedInv, OneLog
    <3> QED
      BY <3>1, <3>2
  <2>4. \A m \in DOMAIN acked' : m > 1 => Front(acked'[m]) = acked'[m - 1]
    <3> TAKE m \in DOMAIN acked'
    <3>1. CASE m = n
      BY <1>2, <1>11, <2>1, <2>2, <3>1
    <3>2. CASE m # n
      BY <1>2, <2>1, <2>2, <3>2 DEF FeedInv, OneLog
    <3> QED
      BY <3>1, <3>2
  <2> QED
    BY <1>2, <1>12, <2>2, <2>3, <2>4 DEF OneLog
<1>19. RedactOutlives'
  <2> SUFFICES ASSUME NEW x \in redacted'
               PROVE  /\ x <= n /\ x \in Nat
                      /\ x \in DOMAIN rows' =>
                           \E m \in DOMAIN rows' : x <= m /\ m <= n /\ rows'[m].commits = x
    BY <1>12 DEF RedactOutlives
  <2>1. x <= n /\ x \in Nat
    <3>1. CASE x \in redacted
      BY <1>2, <3>1 DEF FeedInv, RedactOutlives
    <3>2. CASE x = a.body /\ x \in Serials
      <4>1. Serials \subseteq Nat
        BY FeedAssumption DEF Serials
      <4> QED
        BY <1>2, <1>8, <3>2, <4>1
    <3> QED
      BY <1>6, <3>1, <3>2
  <2>2. ASSUME x \in DOMAIN rows'
        PROVE  \E m \in DOMAIN rows' : x <= m /\ m <= n /\ rows'[m].commits = x
    <3>1. \E m \in DOMAIN held : x <= m /\ m <= n /\ held[m].commits = x
      <4>1. CASE x = a.body
        BY <1>2, <1>9, <1>10, <2>1, <4>1
      <4>2. CASE x \in redacted /\ x # a.body
        <5>1. x \in DOMAIN rows
          BY <1>2, <1>9, <1>15, <2>2, <4>2 DEF FeedInv, RedactOutlives
        <5>2. PICK m \in DOMAIN rows : x <= m /\ m <= newest /\ rows[m].commits = x
          BY <4>2, <5>1 DEF FeedInv, RedactOutlives
        <5> QED
          BY <1>2, <1>9, <5>2 DEF AreRows
      <4> QED
        BY <1>6, <4>1, <4>2
    <3>2. PICK m \in DOMAIN held : x <= m /\ m <= n /\ held[m].commits = x
      BY <3>1
    <3>3. m \in DOMAIN rows' /\ rows'[m] = held[m]
      BY <1>14, <1>15, <2>2, <3>2 DEF Thinned
    <3> QED
      BY <3>2, <3>3
  <2> QED
    BY <2>1, <2>2
<1>20. author' \in [FeedDevices -> Publishers] /\ RedactsNameWhatWas'
  <2>1. feed.newest <= feed'.newest /\ feed'.newest \in Nat
    BY <1>2, <1>12
  <2> QED
    BY <1>6, <2>1, IdleKeepsRedacts
<1>21. feedClock' \in Nat
  BY <1>4 DEF FeedInv, FeedTypeOK
<1> QED
  BY <1>12, <1>17, <1>18, <1>19, <1>20, <1>21 DEF FeedInv, FeedTypeOK

(* A stopped append: the rows with the post, less some from the oldest end. *)
LEMMA StoppedRows ==
    ASSUME FeedInv, NEW d \in FeedDevices, AppendStops(d)
    PROVE  /\ author[d].at = "signed" /\ Accepts(author[d]) /\ author[d].serial = feed.newest + 1
           /\ Thinned(WithPost(d), rows')
           /\ DOMAIN rows' \subseteq DOMAIN WithPost(d) /\ feed.newest + 1 \in DOMAIN rows'
           /\ \A m \in DOMAIN rows' : rows'[m] = WithPost(d)[m]
<1> DEFINE n == author[d].serial
           held == WithPost(d)
           out == Evicted(feed, held, n)
<1>1. author[d].at = "signed" /\ Accepts(author[d]) /\ n \notin DOMAIN rows
  BY DEF AppendStops
<1>2. PICK stop \in out \cup {n} : rows' = Without(held, {m \in out : m < stop})
  BY DEF AppendStops, WithPost, NewRow
<1>3. /\ AreRows(held, feed.newest) /\ DOMAIN held = DOMAIN rows \cup {feed.newest + 1}
      /\ n = feed.newest + 1
  BY <1>1, WithPostRows DEF Accepts
<1> HIDE DEF held, n
<1>4. DOMAIN held \subseteq Nat /\ n \in DOMAIN held
  BY <1>3 DEF AreRows
<1>5. PICK k \in Nat : k <= n /\ out = {m \in DOMAIN held : m < k}
  BY <1>4, EvictedIsBelow
<1> HIDE DEF out
<1> DEFINE shorn == {m \in out : m < stop}
<1>6. shorn \subseteq DOMAIN held /\ n \notin shorn /\ \A x, m \in DOMAIN held : m \in shorn /\ x <= m => x \in shorn
  <2>1. stop \in Nat
    BY <1>4, <1>5
  <2> QED
    BY <1>4, <1>5, <2>1
<1>7. rows' = Without(held, shorn)
  BY <1>2
<1> HIDE DEF shorn
<1>8. Thinned(held, rows')
  <2>1. Thinned(held, held)
    BY <1>3 DEF AreRows, Thinned
  <2> QED
    BY <1>6, <1>7, <2>1, WithoutThins
<1>9. DOMAIN rows' = DOMAIN held \ shorn /\ \A m \in DOMAIN rows' : rows'[m] = held[m]
  BY <1>7 DEF Without
<1> QED
  BY <1>1, <1>3, <1>4, <1>6, <1>8, <1>9 DEF held, n

LEMMA AppendStopsKeeps == ASSUME FeedInv, NEW d \in FeedDevices, AppendStops(d) PROVE FeedInv'
<1> DEFINE held == WithPost(d)
<1>1. /\ author[d].at = "signed" /\ Accepts(author[d]) /\ Thinned(held, rows')
      /\ DOMAIN rows' \subseteq DOMAIN held /\ \A m \in DOMAIN rows' : rows'[m] = held[m]
  BY StoppedRows
<1>2. author[d].serial \notin DOMAIN rows
  BY DEF AppendStops
<1>3. UNCHANGED <<feed, feedClock, acked, redacted>> /\ author' = [author EXCEPT ![d] = NothingToSay]
  BY DEF AppendStops
<1>4. /\ AreRows(held, feed.newest)
      /\ \A n \in DOMAIN held : held[n].received <= feedClock
      /\ DOMAIN held = DOMAIN rows \cup {feed.newest + 1}
      /\ \A n \in DOMAIN rows : n <= feed.newest /\ held[n] = rows[n]
  BY <1>1, <1>2, WithPostRows
<1> HIDE DEF held
<1>5. feed.newest \in Nat
  BY DEF FeedInv, FeedTypeOK, IsHead
<1>6. author' \in [FeedDevices -> Publishers] /\ RedactsNameWhatWas'
  <2>1. feed.newest <= feed'.newest /\ feed'.newest \in Nat
    BY <1>3, <1>5
  <2> QED
    BY <1>3, <2>1, IdleKeepsRedacts
<1>7. FeedTypeOK'
  <2>1. AreRows(rows', feed.newest)
    BY <1>1, <1>4, <1>5, ThinnedRows
  <2> QED
    BY <1>1, <1>3, <1>4, <1>6, <2>1 DEF FeedInv, FeedTypeOK
<1>8. \A n \in DOMAIN rows' : n <= feed.newest => n \in DOMAIN rows /\ rows'[n] = rows[n]
  BY <1>1, <1>4, <1>5
<1>9. OneLog'
  BY <1>3, <1>8 DEF FeedInv, OneLog
<1>10. RedactOutlives'
  <2> SUFFICES ASSUME NEW x \in redacted, x \in DOMAIN rows'
               PROVE  \E m \in DOMAIN rows' : x <= m /\ m <= feed.newest /\ rows'[m].commits = x
    BY <1>3 DEF FeedInv, RedactOutlives
  <2>1. x \in DOMAIN rows
    BY <1>8 DEF FeedInv, RedactOutlives
  <2>2. PICK m \in DOMAIN rows : x <= m /\ m <= feed.newest /\ rows[m].commits = x
    BY <2>1 DEF FeedInv, RedactOutlives
  <2>3. m \in DOMAIN held
    BY <1>4
  <2>4. m \in DOMAIN rows'
    BY <1>1, <2>2, <2>3 DEF Thinned
  <2> QED
    BY <1>8, <2>2, <2>4
<1> QED
  BY <1>6, <1>7, <1>9, <1>10 DEF FeedInv

LEMMA FeedInvInit == FeedInit => FeedInv
<1> SUFFICES ASSUME FeedInit PROVE FeedInv
  OBVIOUS
<1> DEFINE longest == Max(Retentions)
<1>1. longest \in Nat
  BY FeedAssumption DEF Max
<1> HIDE DEF longest
<1>2. <<>> \in Links
  BY EmptySeq DEF Links
<1>3. feed = [found |-> FALSE, oldest |-> 0, newest |-> 0, head |-> <<>>, posts |-> 0,
              bytes |-> 0, retention |-> longest, max |-> MAX_FEED_POSTS]
  BY DEF FeedInit, NoFeed, longest
<1>4. IsHead(feed) /\ feed.newest = 0 /\ feed.head = <<>>
  BY <1>1, <1>2, <1>3 DEF IsHead, FeedFields
<1>5. DOMAIN rows = {} /\ rows = [n \in {} |-> rows[n]] /\ DOMAIN acked = {} /\ redacted = {}
  BY DEF FeedInit
<1>6. AreRows(rows, feed.newest)
  BY <1>5 DEF AreRows
<1>7. author \in [FeedDevices -> Publishers] /\ \A d \in FeedDevices : author[d] = NothingToSay
  BY DEF FeedInit, Publishers
<1>8. FeedTypeOK
  BY <1>4, <1>5, <1>6, <1>7 DEF FeedTypeOK, FeedInit
<1>9. OneLog
  BY <1>4, <1>5 DEF OneLog
<1> QED
  BY <1>5, <1>7, <1>8, <1>9 DEF FeedInv, RedactsNameWhatWas, RedactOutlives

LEMMA FeedInvNext == FeedInv /\ [FeedNext]_feedVars => FeedInv'
<1> SUFFICES ASSUME FeedInv, [FeedNext]_feedVars PROVE FeedInv'
  OBVIOUS
<1>1. CASE \E d \in FeedDevices :
              \/ \E timer \in BOOLEAN : Publish(d, timer)
              \/ ReadHead(d) \/ AppendPost(d) \/ AppendStops(d) \/ AppendRefused(d)
              \/ \E n \in Serials : Withdraw(d, n)
  BY <1>1, PublishKeeps, AppendKeeps, AppendStopsKeeps, RefusedKeeps, WithdrawKeeps
<1>2. CASE \/ \E retention \in Retentions, max \in 1..MAX_FEED_POSTS : SetPolicy(retention, max)
           \/ FeedTick \/ FollowerReads \/ UNCHANGED feedVars
  BY <1>2, PolicyAndTickKeep
<1>3. CASE FeedSweep
  BY <1>3, FeedSweepKeeps
<1> QED
  BY <1>1, <1>2, <1>3 DEF FeedNext


-----------------------------------------------------------------------------

(* What the head row counts.                                               *)

Exact(f, held) ==
    /\ DOMAIN held = IF f.oldest = 0 THEN {} ELSE f.oldest..f.newest
    /\ f.oldest <= f.newest
    /\ f.posts = Cardinality(DOMAIN held) /\ f.bytes = BytesOf(held)

HeadInv == FeedInv /\ (feed.oldest \in Nat /\ (feed.newest + 1 \notin DOMAIN rows => Exact(feed, rows)))

LEMMA BytesAre ==
    ASSUME NEW held, IsFiniteSet(DOMAIN held)
    PROVE  BytesOf(held) = Cardinality(DOMAIN held) + 2 * Cardinality(Spoken(held))
<1> DEFINE D == Cardinality(DOMAIN held)
           s == Cardinality(Spoken(held))
<1>1. D \in Nat /\ s \in Nat
  <2>1. Spoken(held) \subseteq DOMAIN held
    BY DEF Spoken
  <2> QED
    BY <2>1, FS_Subset, FS_CardinalityType
<1>2. SizeOf(Gone) = 1 /\ SizeOf(Words) = 3
  BY DEF SizeOf, Gone, Words
<1>3. BytesOf(held) = SizeOf(Gone) * D + (SizeOf(Words) - SizeOf(Gone)) * s
  BY DEF BytesOf
<1> HIDE DEF D, s
<1>4. BytesOf(held) = D + 2 * s
  BY <1>1, <1>2, <1>3
<1> QED
  BY <1>4 DEF D, s

LEMMA RowsAreFinite ==
    ASSUME NEW newest \in Nat, NEW held, AreRows(held, newest), NEW S, S \subseteq DOMAIN held
    PROVE  IsFiniteSet(S) /\ Cardinality(S) \in Nat
<1>1. IsFiniteSet(1..newest + 1) /\ S \subseteq 1..newest + 1
  BY FS_Interval DEF AreRows
<1>2. IsFiniteSet(S)
  BY <1>1, FS_Subset
<1> QED
  BY <1>2, FS_CardinalityType

LEMMA NumbersLess ==
    ASSUME NEW D \in Nat, NEW s \in Nat, NEW w \in Nat, w <= s
    PROVE  LET b == D + 2 * s IN (IF b > 2 * w THEN b - 2 * w ELSE 0) = D + 2 * (s - w)
  OBVIOUS

(* Bodies go, each from a post that had one.                               *)
LEMMA StonesCount ==
    ASSUME HeadInv, NEW which, which \subseteq Spoken(rows),
           rows' = Stones(rows, which), feed' = Less(feed, Freed(which)),
           feed.newest + 1 \notin DOMAIN rows
    PROVE  Exact(feed', rows')
<1> DEFINE D == Cardinality(DOMAIN rows)
           s == Cardinality(Spoken(rows))
           w == Cardinality(which)
<1>1. /\ AreRows(rows, feed.newest) /\ feed.newest \in Nat /\ IsHead(feed) /\ Exact(feed, rows)
  BY DEF HeadInv, FeedInv, FeedTypeOK, IsHead
<1>2. D \in Nat /\ s \in Nat /\ w \in Nat /\ IsFiniteSet(Spoken(rows))
  BY <1>1, RowsAreFinite DEF Spoken
<1>3. Cardinality(Spoken(rows) \ which) = s - w /\ w <= s
  <2>1. Spoken(rows) \cap which = which
    OBVIOUS
  <2> QED
    BY <1>2, <2>1, FS_Difference, FS_Subset
<1>4. DOMAIN rows' = DOMAIN rows /\ Spoken(rows') = Spoken(rows) \ which
  <2>1. /\ DOMAIN rows' = DOMAIN rows
        /\ \A n \in DOMAIN rows : rows'[n] =
             IF n \in which THEN [rows[n] EXCEPT !.body = Gone, !.expires = Never] ELSE rows[n]
    BY DEF Stones
  <2>2. \A n \in DOMAIN rows : [rows[n] EXCEPT !.body = Gone, !.expires = Never].body = Gone
    BY <1>1 DEF AreRows, Posts
  <2> QED
    BY <2>1, <2>2 DEF Spoken
<1>5. feed.bytes = D + 2 * s /\ BytesOf(rows') = D + 2 * (s - w)
  <2>1. IsFiniteSet(DOMAIN rows) /\ IsFiniteSet(DOMAIN rows')
    BY <1>1, <1>4, RowsAreFinite
  <2> QED
    BY <1>1, <1>3, <1>4, <2>1, BytesAre DEF Exact
<1>6. Freed(which) = 2 * w
  <2>1. SizeOf(Words) - SizeOf(Gone) = 2
    BY DEF SizeOf, Gone, Words
  <2> QED
    BY <2>1 DEF Freed
<1>7. /\ feed'.bytes = IF feed.bytes > 2 * w THEN feed.bytes - 2 * w ELSE 0
      /\ feed'.oldest = feed.oldest /\ feed'.newest = feed.newest /\ feed'.posts = feed.posts
  <2> DEFINE bytes == IF feed.bytes > 2 * w THEN feed.bytes - 2 * w ELSE 0
  <2>1. feed' = [feed EXCEPT !.bytes = bytes]
    BY <1>6 DEF Less
  <2> HIDE DEF bytes
  <2>2. feed'.bytes = bytes /\ feed'.oldest = feed.oldest /\ feed'.newest = feed.newest /\ feed'.posts = feed.posts
    BY <1>1, <2>1 DEF IsHead, FeedFields
  <2> QED
    BY <2>2 DEF bytes
<1> HIDE DEF D, s, w
<1>8. feed'.bytes = D + 2 * (s - w)
  BY <1>2, <1>3, <1>5, <1>7, NumbersLess
<1> QED
  BY <1>1, <1>4, <1>5, <1>7, <1>8 DEF Exact, D

LEMMA DueHaveBodies == Due \subseteq Spoken(rows)
  BY DEF Due, Spoken

LEMMA LessKeepsOldest ==
    ASSUME IsHead(feed), NEW freed
    PROVE  Less(feed, freed).oldest = feed.oldest
<1> DEFINE bytes == IF feed.bytes > freed THEN feed.bytes - freed ELSE 0
<1>1. Less(feed, freed) = [feed EXCEPT !.bytes = bytes]
  BY DEF Less
<1> HIDE DEF bytes
<1> QED
  BY <1>1 DEF IsHead, FeedFields

(* The bodies of `which` go, and nothing else of what is held.             *)
LEMMA StonesKeepHead ==
    ASSUME HeadInv, FeedInv', NEW which, which \subseteq Spoken(rows),
           rows' = Stones(rows, which), feed' = Less(feed, Freed(which))
    PROVE  HeadInv'
<1>1. IsHead(feed) /\ feed'.newest = feed.newest /\ feed'.oldest = feed.oldest
  BY LessIsHead, LessKeepsOldest DEF HeadInv, FeedInv, FeedTypeOK
<1>2. DOMAIN rows' = DOMAIN rows
  BY DEF Stones
<1> QED
  BY <1>1, <1>2, StonesCount DEF HeadInv

LEMMA SweepKeepsHead == ASSUME HeadInv, FeedInv', FeedSweep PROVE HeadInv'
<1> DEFINE stoned == Stones(rows, Due)
           old == {n \in DOMAIN rows : rows[n].received + feed.retention < feedClock}
           left == Without(stoned, old)
<1>0. /\ IsHead(feed) /\ AreRows(rows, feed.newest) /\ feed.newest \in Nat /\ feedClock \in Nat
      /\ feed.oldest \in Nat
  BY DEF HeadInv, FeedInv, FeedTypeOK, IsHead
<1>1. rows' = left /\ feed' = IF old = {} THEN Less(feed, Freed(Due)) ELSE SweptHead(feed, left)
  BY DEF FeedSweep
<1>2. DOMAIN stoned = DOMAIN rows /\ stoned = [n \in DOMAIN rows |-> stoned[n]]
  BY DEF Stones
<1>3. DOMAIN left = DOMAIN rows \ old /\ left = [n \in DOMAIN rows \ old |-> stoned[n]]
  BY <1>2 DEF Without
<1>4. CASE old = {}
  <2>1. left = stoned
    BY <1>2, <1>3, <1>4
  <2> QED
    BY <1>1, <1>4, <2>1, DueHaveBodies, StonesKeepHead
<1>5. CASE old # {}
  <2> DEFINE o == IF left = <<>> THEN 0 ELSE Min(DOMAIN left)
             p == Cardinality(DOMAIN left)
             b == BytesOf(left)
  <2>1. feed' = [feed EXCEPT !.oldest = o, !.posts = p, !.bytes = b]
    BY <1>1, <1>5 DEF SweptHead
  <2>2. feed'.oldest = o /\ feed'.posts = p /\ feed'.bytes = b /\ feed'.newest = feed.newest
    <3> HIDE DEF o, p, b
    <3> QED
      BY <1>0, <2>1 DEF IsHead, FeedFields
  <2>3. ASSUME NEW n \in DOMAIN rows, NEW m \in DOMAIN rows, m \in old, n <= m PROVE n \in old
    <3>1. rows[n].received \in Nat /\ rows[m].received \in Nat /\ rows[n].received <= rows[m].received
      BY <1>0, <2>3 DEF AreRows, Posts
    <3>2. feed.retention \in Nat /\ rows[m].received + feed.retention < feedClock
      BY <1>0, <2>3 DEF IsHead
    <3>3. rows[n].received + feed.retention < feedClock
      BY <1>0, <3>1, <3>2
    <3> QED
      BY <3>3
  <2>4. old \subseteq DOMAIN rows
    OBVIOUS
  <2> HIDE DEF stoned, old, left
  <2>5. CASE DOMAIN left = {}
    <3>1. left = <<>>
      BY <1>3, <2>5
    <3> QED
      BY <1>0, <1>1, <2>2, <2>5, <3>1 DEF HeadInv, Exact
  <2>6. CASE DOMAIN left # {}
    <3>1. DOMAIN rows \subseteq 1..feed.newest + 1 /\ DOMAIN left \subseteq Nat
      BY <1>0, <1>3 DEF AreRows
    <3>2. \E x \in DOMAIN left : \A y \in DOMAIN left : x <= y
      BY <2>6, <3>1, LeastNumber
    <3>3. left # <<>>
      BY <2>6
    <3>4. o \in DOMAIN left /\ \A y \in DOMAIN left : o <= y
      BY <3>2, <3>3 DEF Min
    <3> HIDE DEF o
    <3>5. o \in Nat /\ o # 0
      BY <1>3, <3>1, <3>4
    <3>6. ASSUME feed.newest + 1 \notin DOMAIN left PROVE DOMAIN left = o..feed.newest
      <4>1. feed.newest + 1 \notin DOMAIN rows
        <5> SUFFICES ASSUME feed.newest + 1 \in DOMAIN rows PROVE FALSE
          OBVIOUS
        <5>1. feed.newest + 1 \in old /\ o \in DOMAIN rows /\ o \notin old
          BY <1>3, <3>4, <3>6
        <5>2. o <= feed.newest + 1
          BY <3>1, <5>1
        <5> QED
          BY <2>3, <5>1, <5>2
      <4>2. DOMAIN rows = feed.oldest..feed.newest
        BY <1>3, <2>6, <4>1 DEF HeadInv, Exact
      <4>3. ASSUME NEW y \in o..feed.newest PROVE y \in DOMAIN left
        <5>1. o \in DOMAIN rows /\ o \notin old
          BY <1>3, <3>4
        <5>2. y \in DOMAIN rows /\ o <= y
          BY <1>0, <3>5, <4>2, <5>1
        <5>3. y \notin old
          BY <2>3, <5>1, <5>2
        <5> QED
          BY <1>3, <5>2, <5>3
      <4>4. ASSUME NEW y \in DOMAIN left PROVE y \in o..feed.newest
        <5>1. y \in DOMAIN rows /\ o <= y
          BY <1>3, <3>4
        <5> QED
          BY <1>0, <3>5, <4>2, <5>1
      <4> QED
        BY <4>3, <4>4
    <3>7. feed.newest + 1 \notin DOMAIN left => o <= feed.newest
      BY <1>0, <3>4, <3>5, <3>6
    <3> QED
      BY <1>1, <2>2, <3>5, <3>6, <3>7 DEF HeadInv, Exact
  <2> QED
    BY <2>5, <2>6
<1> QED
  BY <1>4, <1>5

(* A post is added at the top and the lowest of what is held go.           *)
LEMMA PostCounts ==
    ASSUME HeadInv, NEW d \in FeedDevices, author[d].at = "signed", Accepts(author[d]),
           author[d].serial \notin DOMAIN rows,
           NEW held, held = WithPost(d), NEW out, out \subseteq DOMAIN held,
           NEW left, left = Without(held, out)
    PROVE  /\ Cardinality(DOMAIN left) = feed.posts + 1 - Cardinality(out)
           /\ BytesOf(left) = feed.bytes + SizeOf(author[d].body) - BytesOf([m \in out |-> held[m]])
<1> DEFINE shed == [m \in out |-> held[m]]
           n == feed.newest + 1
           D == Cardinality(DOMAIN rows)
           s == Cardinality(Spoken(rows))
           o == Cardinality(out)
           w == Cardinality(Spoken(held) \cap out)
<1>1. /\ feed.newest \in Nat /\ AreRows(rows, feed.newest) /\ author[d].serial = n
      /\ author[d].body \in Bodies
  BY PublishersAre DEF HeadInv, FeedInv, FeedTypeOK, IsHead, Accepts
<1>2. Exact(feed, rows) /\ n \notin DOMAIN rows
  BY <1>1 DEF HeadInv
<1>3. /\ AreRows(held, feed.newest) /\ DOMAIN held = DOMAIN rows \cup {n}
      /\ held[n] = NewRow(d) /\ \A m \in DOMAIN rows : held[m] = rows[m]
  BY WithPostRows DEF HeadInv
<1>4. author[d].body # Gone /\ SizeOf(author[d].body) = 3 /\ NewRow(d).body = author[d].body
  <2>1. author[d].body # 0
    BY <1>1, FeedAssumption DEF Bodies, Words
  <2> QED
    BY <2>1, NewRowIsAPost DEF HeadInv, SizeOf, Gone
<1>5. Spoken(held) = Spoken(rows) \cup {n} /\ n \notin Spoken(rows)
  BY <1>2, <1>3, <1>4 DEF Spoken
<1>6. /\ DOMAIN left = DOMAIN held \ out /\ \A m \in DOMAIN left : left[m] = held[m]
      /\ DOMAIN shed = out /\ \A m \in out : shed[m] = held[m]
  BY DEF Without
<1>7. Spoken(left) = Spoken(held) \ out /\ Spoken(shed) = Spoken(held) \cap out
  BY <1>6 DEF Spoken
<1>8. /\ IsFiniteSet(DOMAIN rows) /\ IsFiniteSet(DOMAIN held) /\ IsFiniteSet(out)
      /\ IsFiniteSet(Spoken(rows)) /\ IsFiniteSet(Spoken(held)) /\ IsFiniteSet(DOMAIN left)
      /\ D \in Nat /\ s \in Nat /\ o \in Nat
  BY <1>1, <1>3, <1>6, RowsAreFinite DEF Spoken
<1>9. Cardinality(DOMAIN held) = D + 1 /\ Cardinality(Spoken(held)) = s + 1
  BY <1>2, <1>3, <1>5, <1>8, FS_AddElement
<1>10. Cardinality(DOMAIN left) = D + 1 - o
  <2>1. DOMAIN held \cap out = out
    OBVIOUS
  <2>2. Cardinality(DOMAIN held \ out) = Cardinality(DOMAIN held) - Cardinality(DOMAIN held \cap out)
    BY <1>8, FS_Difference
  <2>3. Cardinality(DOMAIN left) = Cardinality(DOMAIN held) - Cardinality(out)
    BY <1>6, <2>1, <2>2
  <2> QED
    BY <1>8, <1>9, <2>3
<1>11. Cardinality(Spoken(left)) = s + 1 - w /\ w \in Nat
  <2>1. Cardinality(Spoken(held) \ out) = Cardinality(Spoken(held)) - Cardinality(Spoken(held) \cap out)
    BY <1>8, FS_Difference
  <2>2. IsFiniteSet(Spoken(held) \cap out)
    BY <1>8, FS_Subset
  <2> QED
    BY <1>7, <1>8, <1>9, <2>1, <2>2, FS_CardinalityType
<1>12. BytesOf(left) = D + 1 - o + 2 * (s + 1 - w)
  BY <1>8, <1>10, <1>11, BytesAre
<1>13. BytesOf(shed) = o + 2 * w
  BY <1>6, <1>7, <1>8, BytesAre
<1>14. feed.posts = D /\ feed.bytes = D + 2 * s
  BY <1>2, <1>8, BytesAre DEF Exact
<1> HIDE DEF shed, D, s, o, w
<1>15. BytesOf(left) = feed.bytes + 3 - BytesOf(shed)
  BY <1>8, <1>11, <1>12, <1>13, <1>14
<1>16. Cardinality(DOMAIN left) = feed.posts + 1 - o
  BY <1>10, <1>14
<1> QED
  BY <1>4, <1>15, <1>16 DEF shed, o

LEMMA AppendKeepsHead == ASSUME HeadInv, FeedInv', NEW d \in FeedDevices, AppendPost(d) PROVE HeadInv'
<1> DEFINE a == author[d]
           n == a.serial
           row == RowOf([device |-> d, prev |-> a.prev, body |-> a.body], a.timer)
           held == [m \in DOMAIN rows \cup {n} |-> IF m = n THEN row ELSE rows[m]]
           out == Evicted(feed, held, n)
           newest == feed.newest
           oldest == IF out # {} THEN Max(out) + 1 ELSE IF feed.oldest = 0 THEN n ELSE feed.oldest
           posts == feed.posts + 1 - Cardinality(out)
           bytes == feed.bytes + SizeOf(a.body) - BytesOf([m \in out |-> held[m]])
<1>1. a.at = "signed" /\ Accepts(a) /\ n \notin DOMAIN rows /\ rows' = Without(held, out)
  BY DEF AppendPost
<1>2. n = newest + 1 /\ newest \in Nat /\ n \in Nat /\ feed.oldest \in Nat /\ IsHead(feed)
  BY <1>1 DEF Accepts, HeadInv, FeedInv, FeedTypeOK, IsHead
<1>3. held = WithPost(d)
  BY DEF NewRow, WithPost
<1>4. feed' = [feed EXCEPT !.found = TRUE, !.newest = n, !.head = LinkOf(row),
                 !.oldest = oldest, !.posts = posts, !.bytes = bytes]
  BY DEF AppendPost
<1>5. Exact(feed, rows)
  BY <1>1, <1>2 DEF HeadInv
<1> HIDE DEF row, held, n, a
<1>6. /\ AreRows(held, newest) /\ DOMAIN held = DOMAIN rows \cup {n}
  BY <1>1, <1>2, <1>3, WithPostRows DEF HeadInv, a, n
<1>7. PICK k \in Nat : k <= n /\ out = {m \in DOMAIN held : m < k}
  <2>1. DOMAIN held \subseteq Nat /\ n \in DOMAIN held
    BY <1>2, <1>6 DEF AreRows
  <2> QED
    BY <2>1, EvictedIsBelow
<1> HIDE DEF out
<1>8. Cardinality(DOMAIN rows') = posts /\ BytesOf(rows') = bytes
  <2>1. /\ author[d].at = "signed" /\ Accepts(author[d]) /\ author[d].serial \notin DOMAIN rows
        /\ held = WithPost(d) /\ out \subseteq DOMAIN held /\ rows' = Without(held, out)
    BY <1>1, <1>3, <1>7 DEF a, n
  <2>2. /\ Cardinality(DOMAIN rows') = feed.posts + 1 - Cardinality(out)
        /\ BytesOf(rows') = feed.bytes + SizeOf(author[d].body) - BytesOf([m \in out |-> held[m]])
    BY ONLY <2>1, HeadInv, d \in FeedDevices, PostCounts
  <2> QED
    BY <2>2 DEF a
<1> HIDE DEF oldest, posts, bytes
<1>9. /\ feed'.oldest = oldest /\ feed'.newest = n /\ feed'.posts = posts /\ feed'.bytes = bytes
  BY <1>2, <1>4 DEF IsHead, FeedFields
<1>10. PICK lo \in Nat : /\ lo # 0 /\ lo <= n /\ DOMAIN held = lo..n
                         /\ lo = IF feed.oldest = 0 THEN n ELSE feed.oldest
  <2>1. CASE feed.oldest = 0
    <3>1. DOMAIN held = n..n
      BY <1>2, <1>5, <1>6, <2>1 DEF Exact
    <3> QED
      BY <1>2, <2>1, <3>1
  <2>2. CASE feed.oldest # 0
    <3>1. DOMAIN held = feed.oldest..n
      BY <1>2, <1>5, <1>6, <2>2 DEF Exact
    <3> QED
      BY <1>2, <1>5, <2>2, <3>1 DEF Exact
  <2> QED
    BY <2>1, <2>2
<1>11. DOMAIN rows' = DOMAIN held \ out
  BY <1>1 DEF Without
<1>12. oldest \in Nat /\ oldest # 0 /\ oldest <= n /\ DOMAIN rows' = oldest..n
  <2>1. CASE out = {}
    BY <1>2, <1>10, <1>11, <2>1 DEF oldest
  <2>2. CASE out # {}
    <3>1. k > lo /\ k - 1 \in out /\ \A y \in out : y <= k - 1 /\ y \in Nat
      BY <1>2, <1>7, <1>10, <2>2
    <3>2. Max(out) = k - 1
      BY <3>1 DEF Max
    <3>3. oldest = k
      BY <2>2, <3>2 DEF oldest
    <3> QED
      BY <1>2, <1>7, <1>10, <1>11, <3>1, <3>3
  <2> QED
    BY <2>1, <2>2
<1> QED
  BY <1>8, <1>9, <1>12 DEF HeadInv, Exact

(* The publishers and the follower: the rows are served, and what is due   *)
(* or withdrawn loses its body.                                            *)
LEMMA ReadersKeepHead ==
    ASSUME HeadInv, FeedInv',
           \/ \E d \in FeedDevices : \/ \E timer \in BOOLEAN : Publish(d, timer)
                                     \/ ReadHead(d)
           \/ FollowerReads
    PROVE  HeadInv'
<1>1. Expire
  BY DEF Publish, ReadHead, SignsAt, FollowerReads
<1> QED
  BY <1>1, DueHaveBodies, StonesKeepHead DEF Expire

LEMMA WithdrawKeepsHead ==
    ASSUME HeadInv, FeedInv', NEW d \in FeedDevices, NEW n \in Serials, Withdraw(d, n)
    PROVE  HeadInv'
<1>1. rows' = Stones(rows, Due \cup {n}) /\ feed' = Less(feed, Freed(Due \cup {n}))
  BY DEF Withdraw
<1>2. n \in Spoken(rows)
  BY DEF Withdraw, Spoken
<1> HIDE DEF Due
<1>3. Due \cup {n} \subseteq Spoken(rows)
  BY <1>2, DueHaveBodies
<1> QED
  BY <1>1, <1>3, StonesKeepHead

(* A post that stopped half way leaves its row; the policy, the clock and  *)
(* a refusal leave the counters and the rows alone.                        *)
LEMMA OthersKeepHead ==
    ASSUME HeadInv, FeedInv',
           \/ \E d \in FeedDevices : AppendStops(d) \/ AppendRefused(d)
           \/ \E retention \in Retentions, max \in 1..MAX_FEED_POSTS : SetPolicy(retention, max)
           \/ FeedTick \/ UNCHANGED feedVars
    PROVE  HeadInv'
<1>1. CASE \E d \in FeedDevices : AppendStops(d)
  <2>1. PICK d \in FeedDevices : AppendStops(d)
    BY <1>1
  <2>2. feed' = feed /\ feed.newest + 1 \in DOMAIN rows'
    BY <2>1, StoppedRows DEF AppendStops, HeadInv
  <2> QED
    BY <2>2 DEF HeadInv
<1>2. CASE \E d \in FeedDevices : AppendRefused(d)
  BY <1>2 DEF AppendRefused, HeadInv, Exact
<1>3. CASE \E retention \in Retentions, max \in 1..MAX_FEED_POSTS : SetPolicy(retention, max)
  <2>1. IsHead(feed)
    BY DEF HeadInv, FeedInv, FeedTypeOK
  <2>2. /\ feed'.oldest = feed.oldest /\ feed'.newest = feed.newest
        /\ feed'.posts = feed.posts /\ feed'.bytes = feed.bytes /\ rows' = rows
    BY <1>3, <2>1 DEF SetPolicy, IsHead, FeedFields
  <2> QED
    BY <2>2 DEF HeadInv, Exact
<1>4. CASE FeedTick \/ UNCHANGED feedVars
  BY <1>4 DEF FeedTick, feedVars, HeadInv, Exact
<1> QED
  BY <1>1, <1>2, <1>3, <1>4

LEMMA HeadInvNext == HeadInv /\ [FeedNext]_feedVars => HeadInv'
<1> SUFFICES ASSUME HeadInv, [FeedNext]_feedVars PROVE HeadInv'
  OBVIOUS
<1>1. FeedInv'
  BY FeedInvNext DEF HeadInv
<1>2. CASE \E d \in FeedDevices :
              \/ \E timer \in BOOLEAN : Publish(d, timer)
              \/ ReadHead(d) \/ AppendPost(d) \/ AppendStops(d) \/ AppendRefused(d)
              \/ \E n \in Serials : Withdraw(d, n)
  BY <1>1, <1>2, ReadersKeepHead, AppendKeepsHead, OthersKeepHead, WithdrawKeepsHead
<1>3. CASE \/ \E retention \in Retentions, max \in 1..MAX_FEED_POSTS : SetPolicy(retention, max)
           \/ FeedTick \/ FollowerReads \/ UNCHANGED feedVars
  BY <1>1, <1>3, ReadersKeepHead, OthersKeepHead
<1>4. CASE FeedSweep
  BY <1>1, <1>4, SweepKeepsHead
<1> QED
  BY <1>2, <1>3, <1>4 DEF FeedNext

(* A serial belongs to one post for ever, and the head row says what is    *)
(* held: the chain of links goes on from the last answered append whatever *)
(* was evicted, withdrawn, expired or swept, `oldest` to `newest` is one   *)
(* unbroken run and the counters the caps are read from are exact, but     *)
(* while the row of an append that stopped half way is there (append,      *)
(* withdraw, expire and sweep, sqexd/src/feed.rs).                         *)
THEOREM FeedIsOneChainAlways == FeedSpec => []FeedIsOneChain
<1>1. FeedInit => HeadInv
  <2> SUFFICES ASSUME FeedInit PROVE HeadInv
    OBVIOUS
  <2>1. FeedInv
    BY FeedInvInit
  <2>2. DOMAIN rows = {} /\ feed.oldest = 0 /\ feed.newest = 0 /\ feed.posts = 0 /\ feed.bytes = 0
    BY DEF FeedInit, NoFeed
  <2>3. Spoken(rows) = {} /\ Cardinality({}) = 0 /\ IsFiniteSet({})
    BY <2>2, FS_EmptySet DEF Spoken
  <2>4. BytesOf(rows) = 0
    <3>1. IsFiniteSet(DOMAIN rows) /\ Cardinality(DOMAIN rows) = 0 /\ Cardinality(Spoken(rows)) = 0
      BY <2>2, <2>3
    <3>2. BytesOf(rows) = Cardinality(DOMAIN rows) + 2 * Cardinality(Spoken(rows))
      BY ONLY <3>1, BytesAre
    <3> QED
      BY <3>1, <3>2
  <2> QED
    BY <2>1, <2>2, <2>3, <2>4 DEF HeadInv, Exact
<1>2. HeadInv => FeedIsOneChain
  BY DEF HeadInv, FeedInv, FeedIsOneChain, HeadSaysWhatIsHeld, Exact
<1> QED
  BY <1>1, <1>2, HeadInvNext, PTL DEF FeedSpec

(* A post its author withdrew is never laid to the exchange once the       *)
(* Redact is in, unless that Redact was itself withdrawn: the Redact is    *)
(* younger than what it withdrew, so what is evicted or swept takes the    *)
(* tombstone first (who_took_it_off, sqex-chat/src/feed.rs; append and     *)
(* sweep, sqexd/src/feed.rs).                                              *)
THEOREM WithdrawalIsTheAuthorsAlways == FeedSpec => []WithdrawalIsTheAuthors
<1>1. FeedInv => WithdrawalIsTheAuthors
  <2> SUFFICES ASSUME FeedInv, NEW n \in redacted, Resolve(n) = "removed"
               PROVE  \E m \in DOMAIN rows : rows[m].commits = n /\ rows[m].body = Gone
    BY DEF WithdrawalIsTheAuthors
  <2>1. n \in DOMAIN rows /\ rows[n].body = Gone /\ WhoTookItOff(n) = "removed"
    BY DEF Resolve
  <2>2. PICK m \in DOMAIN rows : n <= m /\ m <= feed.newest /\ rows[m].commits = n
    BY <2>1 DEF FeedInv, RedactOutlives
  <2>3. m \in Nat /\ n \in Nat /\ rows[m].body \in {n, Gone}
    BY <2>2 DEF FeedInv, FeedTypeOK, AreRows, RedactOutlives
  <2>4. m > n => rows[m].body # n
    BY <2>1, <2>2 DEF WhoTookItOff
  <2> QED
    BY <2>1, <2>2, <2>3, <2>4
<1> QED
  BY <1>1, FeedInvInit, FeedInvNext, PTL DEF FeedSpec

-----------------------------------------------------------------------------

(* Prekeys (Prekeys).                                                      *)

PrekeySet == [id : Nat, gen : Nat]
ShelfFields == {"one", "fall", "seen", "clears"}
RowFields == {"one", "unpub", "fall", "spent"}

(* Every prekey anywhere was minted, under a number of its own minting and *)
(* an id that need not be.                                                 *)
MintedOK ==
    /\ minted \subseteq PrekeySet /\ IsFiniteSet(minted)
    /\ \A p \in minted : p.gen < Cardinality(minted)
    /\ \E b \in Nat : \A p \in minted : p.id <= b
    /\ gone \subseteq minted

(* What the exchange holds and what peers sealed to: an id was published   *)
(* once and is one prekey's, at one place.                                 *)
Published == shelf.one \cup OptSet(shelf.fall) \cup sealedTo
PublishedOnce ==
    /\ shelf = [k \in ShelfFields |-> shelf[k]]
    /\ Published \subseteq minted /\ shelf.seen \subseteq Ids(minted)
    /\ Ids(Published) \cup served \subseteq shelf.seen
    /\ \A p, q \in Published : p.id = q.id => p = q
    /\ shelf.one \cap (sealedTo \cup OptSet(shelf.fall)) = {}
    /\ (Ids(shelf.one) \cup Ids(OptSet(shelf.fall))) \cap served = {}

(* What the device holds: an id is one one-time prekey's while it is held, *)
(* and the client mints above every id in its rows.                        *)
RowsApart ==
    /\ pkRows = [k \in RowFields |-> pkRows[k]]
    /\ pkRows.one \cup OptSet(pkRows.fall) \subseteq minted
    /\ pkRows.unpub \subseteq pkRows.one /\ pkRows.spent \subseteq Ids(minted)
    /\ \A p, q \in pkRows.one : p.id = q.id => p = q
    /\ Ids(pkRows.one) \cap (Ids(OptSet(pkRows.fall)) \cup pkRows.spent) = {}

CountedTopUps == [at : {"counted"}, known : BOOLEAN, count : Nat, next : Nat]
                 \cup [at : {"counted"}, known : BOOLEAN, count : Nat, next : Nat, cleared : {TRUE}]
PublishTopUps(held) ==
    [at : {"publish"}, left : SUBSET held, offered : SUBSET held, marked : SUBSET held, next : Nat]
FallbackTopUps == [at : {"fallback"}, fall : minted \ gone]
TopUps(held) == {Idle} \cup CountedTopUps \cup PublishTopUps(held) \cup FallbackTopUps
TopUpAbove ==
    /\ topUp \in TopUps(pkRows.one)
    /\ topUp.at \in {"counted", "publish"} => \A i \in RowIds : i < topUp.next

SecretsStay ==
    \A p \in shelf.one \cup {q \in sealedTo : q.id \in served} : p \in pkRows.one \cup dropped

(* The device started again after its store was lost.                      *)
StartedAgain ==
    \/ pkRows.one # {} \/ OptSet(pkRows.fall) # {}
    \/ topUp.at \in {"publish", "fallback"} \/ "cleared" \in DOMAIN topUp
LostApart ==
    /\ gone \cap (pkRows.one \cup OptSet(pkRows.fall)) = {}
    /\ StartedAgain => gone \cap (shelf.one \cup OptSet(shelf.fall)) = {}

PrekeysInv == MintedOK /\ PublishedOnce /\ RowsApart /\ TopUpAbove /\ SecretsStay /\ LostApart

LEMMA IdsOf == ASSUME NEW S PROVE \A i : i \in Ids(S) <=> \E p \in S : i = p.id
  BY DEF Ids

LEMMA OneAboveAll ==
    ASSUME MintedOK, NEW S, S \subseteq Ids(minted)
    PROVE  OneAbove(S) \in Nat /\ \A i \in S : i < OneAbove(S)
<1>1. PICK b \in Nat : \A p \in minted : p.id <= b
  BY DEF MintedOK
<1> DEFINE T == S \cup {0}
<1>2. T \subseteq Nat /\ T # {} /\ \A x \in T : x <= b
  BY <1>1 DEF MintedOK, Ids, PrekeySet
<1>3. \E x \in T : \A y \in T : y <= x
  <2> HIDE DEF T
  <2> QED
    BY <1>2, GreatestBelow
<1>4. Max(T) \in T /\ \A y \in T : Max(T) >= y
  <2>1. PICK x \in T : \A y \in T : y <= x
    BY <1>3
  <2>2. x \in T /\ \A y \in T : x >= y
    BY <1>2, <2>1
  <2> QED
    BY <2>2 DEF Max
<1> QED
  BY <1>2, <1>4 DEF OneAbove

LEMMA RowIdsMinted == ASSUME MintedOK, RowsApart PROVE RowIds \subseteq Ids(minted)
  BY DEF RowsApart, RowIds, Ids

LEMMA NextIsAbove ==
    ASSUME MintedOK, RowsApart
    PROVE  NextId \in Nat /\ \A i \in RowIds : i < NextId
<1>1. RowIds \subseteq Ids(minted) /\ Ids(minted) \subseteq Ids(minted)
  BY RowIdsMinted
<1> QED
  BY <1>1, OneAboveAll DEF NextId

(* Sets of minted prekeys are finite.                                      *)
LEMMA MintedAreFinite ==
    ASSUME MintedOK, NEW S, S \subseteq minted
    PROVE  IsFiniteSet(S) /\ Cardinality(S) \in Nat
  BY FS_Subset, FS_CardinalityType DEF MintedOK

LEMMA TopUpIs ==
    ASSUME TopUpAbove
    PROVE  /\ topUp.at = "counted" => topUp \in CountedTopUps
           /\ topUp.at = "publish" => topUp \in PublishTopUps(pkRows.one)
           /\ topUp.at = "fallback" => topUp \in FallbackTopUps
<1>1. \A t \in CountedTopUps : t.at = "counted"
  BY DEF CountedTopUps
<1>2. \A t \in PublishTopUps(pkRows.one) : t.at = "publish"
  BY DEF PublishTopUps
<1>3. \A t \in FallbackTopUps : t.at = "fallback"
  BY DEF FallbackTopUps
<1>4. Idle.at = "idle"
  BY DEF Idle
<1> QED
  BY <1>1, <1>2, <1>3, <1>4 DEF TopUpAbove, TopUps

LEMMA PrekeysInvInit == PrekeysInit => PrekeysInv
<1> SUFFICES ASSUME PrekeysInit PROVE PrekeysInv
  OBVIOUS
<1>1. minted = {} /\ gone = {} /\ sealedTo = {} /\ served = {} /\ topUp = Idle
  BY DEF PrekeysInit
<1>2. shelf = [one |-> {}, fall |-> NoPrekey, seen |-> {}, clears |-> 0]
  BY DEF PrekeysInit
<1>3. pkRows = [one |-> {}, unpub |-> {}, fall |-> NoPrekey, spent |-> {}]
  BY DEF PrekeysInit, EmptyPool
<1>4. MintedOK
  BY <1>1, FS_EmptySet DEF MintedOK
<1>5. PublishedOnce
  BY <1>1, <1>2 DEF PublishedOnce, Published, OptSet, Ids, ShelfFields
<1>6. RowsApart
  BY <1>1, <1>3 DEF RowsApart, OptSet, Ids, RowFields
<1>7. TopUpAbove
  BY <1>1 DEF TopUpAbove, TopUps, Idle
<1>8. SecretsStay
  BY <1>1, <1>2 DEF SecretsStay
<1>9. LostApart
  BY <1>1 DEF LostApart
<1> QED
  BY <1>4, <1>5, <1>6, <1>7, <1>8, <1>9 DEF PrekeysInv

(* What each part is about.                                                *)
LEMMA MintedFrame == ASSUME MintedOK, UNCHANGED <<minted, gone>> PROVE MintedOK'
  BY DEF MintedOK
LEMMA PublishedFrame == ASSUME PublishedOnce, UNCHANGED <<shelf, sealedTo, served, minted>> PROVE PublishedOnce'
  BY DEF PublishedOnce, Published
LEMMA RowsFrame == ASSUME RowsApart, UNCHANGED <<pkRows, minted>> PROVE RowsApart'
  BY DEF RowsApart
LEMMA TopUpFrame == ASSUME TopUpAbove, UNCHANGED <<topUp, pkRows, minted, gone>> PROVE TopUpAbove'
  BY DEF TopUpAbove, TopUps, PublishTopUps, FallbackTopUps, RowIds

(* A prekey is taken: the lowest one-time prekey, or the fallback.         *)
LEMMA TakeKeeps == ASSUME PrekeysInv, Take PROVE PrekeysInv'
<1>1. /\ UNCHANGED <<pkRows, topUp, minted, dropped, gone>>
      /\ MintedOK' /\ RowsApart' /\ TopUpAbove'
  BY MintedFrame, RowsFrame, TopUpFrame DEF Take, PrekeysInv
<1> DEFINE p == Lowest(shelf.one)
<1>2. CASE shelf.one # {}
  <2>1. p \in shelf.one
    <3>1. shelf.one \subseteq minted /\ minted \subseteq PrekeySet
      BY DEF PrekeysInv, PublishedOnce, Published, MintedOK
    <3>2. Ids(shelf.one) \subseteq Nat /\ Ids(shelf.one) # {}
      BY <1>2, <3>1 DEF Ids, PrekeySet
    <3>3. PICK x \in Ids(shelf.one) : \A y \in Ids(shelf.one) : x <= y
      BY <3>2, LeastNumber
    <3>4. \E q \in shelf.one : \A r \in shelf.one : q.id <= r.id
      BY <3>3 DEF Ids
    <3> QED
      BY <3>4 DEF Lowest
  <2> HIDE DEF p
  <2>2. /\ shelf' = [shelf EXCEPT !.one = @ \ {p}]
        /\ served' = served \cup {p.id} /\ sealedTo' = sealedTo \cup {p}
    BY <1>2 DEF Take, p
  <2>3. /\ shelf'.one = shelf.one \ {p} /\ shelf'.fall = shelf.fall /\ shelf'.seen = shelf.seen
        /\ shelf' = [k \in ShelfFields |-> shelf'[k]]
    BY <2>2 DEF PrekeysInv, PublishedOnce, ShelfFields
  <2>4. Published' = Published
    BY <2>1, <2>2, <2>3 DEF Published, OptSet
  <2>5. p \in Published /\ p.id \in shelf.seen
    BY <2>1 DEF PrekeysInv, PublishedOnce, Published, Ids
  <2>6. \A q \in shelf'.one \cup OptSet(shelf.fall) : q \in Published /\ q # p
    BY <2>1, <2>3 DEF PrekeysInv, PublishedOnce, Published
  <2>7. PublishedOnce'
    <3>1. /\ Published' \subseteq minted' /\ shelf'.seen \subseteq Ids(minted')
          /\ \A q, r \in Published' : q.id = r.id => q = r
      BY <1>1, <2>3, <2>4 DEF PrekeysInv, PublishedOnce
    <3>2. Ids(Published') \cup served' \subseteq shelf'.seen
      BY <2>2, <2>3, <2>4, <2>5 DEF PrekeysInv, PublishedOnce
    <3>3. shelf'.one \cap (sealedTo' \cup OptSet(shelf'.fall)) = {}
      BY <2>2, <2>3, <2>6 DEF PrekeysInv, PublishedOnce
    <3>4. (Ids(shelf'.one) \cup Ids(OptSet(shelf'.fall))) \cap served' = {}
      <4>1. p.id \notin Ids(shelf'.one) \cup Ids(OptSet(shelf'.fall))
        BY <2>3, <2>5, <2>6 DEF Ids, PrekeysInv, PublishedOnce
      <4>2. Ids(shelf'.one) \subseteq Ids(shelf.one) /\ shelf'.fall = shelf.fall
        BY <2>3 DEF Ids
      <4>3. (Ids(shelf'.one) \cup Ids(OptSet(shelf'.fall))) \cap served = {}
        BY <4>2 DEF PrekeysInv, PublishedOnce
      <4> QED
        BY <2>2, <4>1, <4>3
    <3> QED
      BY <2>3, <3>1, <3>2, <3>3, <3>4 DEF PublishedOnce
  <2>8. SecretsStay'
    <3> SUFFICES ASSUME NEW q \in shelf'.one \cup {r \in sealedTo' : r.id \in served'}
                 PROVE  q \in pkRows.one \cup dropped
      BY <1>1 DEF SecretsStay
    <3>1. CASE q \in shelf.one
      BY <3>1 DEF PrekeysInv, SecretsStay
    <3>2. CASE q \in sealedTo /\ q.id \in served
      BY <3>2 DEF PrekeysInv, SecretsStay
    <3>3. CASE q \in sealedTo /\ q.id = p.id
      <4>1. q = p
        BY <2>5, <3>3 DEF PrekeysInv, PublishedOnce, Published
      <4> QED
        BY <2>1, <4>1 DEF PrekeysInv, SecretsStay
    <3> QED
      BY <2>1, <2>2, <2>3, <3>1, <3>2, <3>3
  <2>9. LostApart'
    BY <1>1, <2>3 DEF PrekeysInv, LostApart, StartedAgain
  <2> QED
    BY <1>1, <2>7, <2>8, <2>9 DEF PrekeysInv
<1>3. CASE shelf.one = {}
  <2>1. shelf.fall # NoPrekey /\ sealedTo' = sealedTo \cup {shelf.fall} /\ UNCHANGED <<shelf, served>>
    BY <1>3 DEF Take
  <2>2. Published' = Published
    BY <2>1 DEF Published, OptSet
  <2>3. PublishedOnce'
    BY <1>1, <1>3, <2>1, <2>2 DEF PrekeysInv, PublishedOnce, OptSet
  <2>4. shelf.fall.id \notin served
    BY <2>1 DEF PrekeysInv, PublishedOnce, OptSet, Ids
  <2>5. SecretsStay'
    BY <1>1, <2>1, <2>4 DEF PrekeysInv, SecretsStay
  <2>6. LostApart'
    BY <1>1, <2>1 DEF PrekeysInv, LostApart, StartedAgain
  <2> QED
    BY <1>1, <2>3, <2>5, <2>6 DEF PrekeysInv
<1> QED
  BY <1>2, <1>3

(* The shelf loses prekeys, the device's rows do, or the top-up ends.      *)
LEMMA ShelfShrinks ==
    ASSUME PrekeysInv, shelf' = [k \in ShelfFields |-> shelf'[k]],
           shelf'.one \subseteq shelf.one, OptSet(shelf'.fall) \subseteq OptSet(shelf.fall),
           shelf'.seen = shelf.seen, UNCHANGED <<sealedTo, served, minted>>
    PROVE  PublishedOnce'
<1>1. Published' \subseteq Published /\ Ids(Published') \subseteq Ids(Published)
  BY DEF Published, Ids
<1>2. /\ Ids(shelf'.one) \subseteq Ids(shelf.one)
      /\ Ids(OptSet(shelf'.fall)) \subseteq Ids(OptSet(shelf.fall))
  BY DEF Ids
<1>3. Published' \subseteq minted' /\ shelf'.seen \subseteq Ids(minted') /\ Ids(Published') \cup served' \subseteq shelf'.seen
  BY <1>1 DEF PrekeysInv, PublishedOnce
<1>4. \A p, q \in Published' : p.id = q.id => p = q
  BY <1>1 DEF PrekeysInv, PublishedOnce
<1>5. shelf'.one \cap (sealedTo' \cup OptSet(shelf'.fall)) = {}
  BY DEF PrekeysInv, PublishedOnce
<1>6. (Ids(shelf'.one) \cup Ids(OptSet(shelf'.fall))) \cap served' = {}
  BY <1>2 DEF PrekeysInv, PublishedOnce
<1> QED
  BY <1>3, <1>4, <1>5, <1>6 DEF PublishedOnce

LEMMA RowsShrink ==
    ASSUME PrekeysInv, pkRows' = [k \in RowFields |-> pkRows'[k]],
           pkRows'.one \subseteq pkRows.one, pkRows'.unpub \subseteq pkRows'.one,
           pkRows'.fall = pkRows.fall, pkRows'.spent \subseteq Ids(minted),
           Ids(pkRows'.one) \cap pkRows'.spent = {}, UNCHANGED minted
    PROVE  RowsApart'
<1>1. Ids(pkRows'.one) \subseteq Ids(pkRows.one)
  BY DEF Ids
<1>2. \A p, q \in pkRows'.one : p.id = q.id => p = q
  BY DEF PrekeysInv, RowsApart
<1> QED
  BY <1>1, <1>2 DEF PrekeysInv, RowsApart

LEMMA RowsWithoutAre ==
    ASSUME RowsApart, NEW ps
    PROVE  LET left == RowsWithout(ps) IN
           /\ left = [k \in RowFields |-> left[k]]
           /\ left.one = pkRows.one \ ps /\ left.unpub = pkRows.unpub \ ps
           /\ left.fall = pkRows.fall /\ left.spent = pkRows.spent
  BY DEF RowsApart, RowFields, RowsWithout

LEMMA WindowAndMovesKeep == ASSUME PrekeysInv, WindowEnds \/ Moves PROVE PrekeysInv'
<1>1. UNCHANGED <<pkRows, topUp, sealedTo, minted, served, dropped, gone>>
  BY DEF WindowEnds, Moves
<1>2. /\ shelf' = [k \in ShelfFields |-> shelf'[k]]
      /\ shelf'.one = shelf.one /\ shelf'.fall = shelf.fall /\ shelf'.seen = shelf.seen
  BY DEF WindowEnds, Moves, PrekeysInv, PublishedOnce, ShelfFields
<1>3. PublishedOnce'
  BY <1>1, <1>2, ShelfShrinks
<1>4. SecretsStay' /\ LostApart'
  BY <1>1, <1>2 DEF PrekeysInv, SecretsStay, LostApart, StartedAgain
<1> QED
  BY <1>1, <1>3, <1>4, MintedFrame, RowsFrame, TopUpFrame DEF PrekeysInv

LEMMA StopKeeps == ASSUME PrekeysInv, ClientStops PROVE PrekeysInv'
<1>1. UNCHANGED <<shelf, pkRows, sealedTo, minted, served, dropped, gone>> /\ topUp' = Idle
  BY DEF ClientStops
<1>2. topUp'.at = "idle" /\ "cleared" \notin DOMAIN topUp'
  BY <1>1 DEF Idle
<1>3. TopUpAbove'
  BY <1>1, <1>2 DEF TopUpAbove, TopUps
<1>4. SecretsStay' /\ LostApart'
  BY <1>1, <1>2 DEF PrekeysInv, SecretsStay, LostApart, StartedAgain
<1> QED
  BY <1>1, <1>3, <1>4, MintedFrame, RowsFrame, PublishedFrame DEF PrekeysInv

LEMMA AskCountKeeps == ASSUME PrekeysInv, AskCount PROVE PrekeysInv'
<1>1. UNCHANGED <<shelf, sealedTo, minted, served, gone>> /\ topUp = Idle
  BY DEF AskCount
<1>2. MintedOK' /\ PublishedOnce'
  BY <1>1, MintedFrame, PublishedFrame DEF PrekeysInv
<1>3. CASE pkRows' = RowsWithout(pkRows.one) /\ dropped' = dropped \cup pkRows.one /\ UNCHANGED topUp
  <2>1. /\ pkRows' = [k \in RowFields |-> pkRows'[k]]
        /\ pkRows'.one = {} /\ pkRows'.unpub = {} /\ pkRows'.fall = pkRows.fall /\ pkRows'.spent = pkRows.spent
    BY <1>3, RowsWithoutAre DEF PrekeysInv, RowsApart
  <2>2. RowsApart'
    BY <1>1, <2>1, RowsShrink DEF PrekeysInv, RowsApart, Ids
  <2>3. TopUpAbove'
    BY <1>1, <1>3 DEF TopUpAbove, TopUps, Idle
  <2>4. SecretsStay'
    BY <1>1, <1>3 DEF PrekeysInv, SecretsStay
  <2>5. LostApart'
    BY <1>1, <1>3, <2>1 DEF PrekeysInv, LostApart, StartedAgain
  <2> QED
    BY <1>2, <2>2, <2>3, <2>4, <2>5 DEF PrekeysInv
<1>4. CASE /\ UNCHANGED <<pkRows, dropped>>
           /\ \E listed \in BOOLEAN, count \in Nat :
                 topUp' = [at |-> "counted", known |-> listed, count |-> count, next |-> NextId]
  <2>1. PICK listed \in BOOLEAN, count \in Nat :
                 topUp' = [at |-> "counted", known |-> listed, count |-> count, next |-> NextId]
    BY <1>4
  <2> DEFINE next == NextId
  <2>2. next \in Nat /\ \A i \in RowIds : i < next
    BY NextIsAbove DEF PrekeysInv
  <2>3. topUp' = [at |-> "counted", known |-> listed, count |-> count, next |-> next]
    BY <2>1
  <2> HIDE DEF next
  <2>4. topUp' \in CountedTopUps /\ topUp'.next = next /\ topUp'.at = "counted" /\ "cleared" \notin DOMAIN topUp'
    BY <2>2, <2>3 DEF CountedTopUps
  <2>5. TopUpAbove'
    BY <1>1, <1>4, <2>2, <2>4 DEF TopUpAbove, TopUps, CountedTopUps, RowIds
  <2>6. SecretsStay' /\ LostApart'
    BY <1>1, <1>4, <2>4 DEF PrekeysInv, SecretsStay, LostApart, StartedAgain
  <2> QED
    BY <1>1, <1>2, <1>4, <2>5, <2>6, RowsFrame DEF PrekeysInv
<1>5. Cardinality(shelf.one) \in Nat /\ 0 \in Nat
  BY MintedAreFinite DEF PrekeysInv, PublishedOnce, Published
<1> QED
  BY <1>3, <1>4, <1>5 DEF AskCount

LEMMA StoreLostKeeps == ASSUME PrekeysInv, StoreLost PROVE PrekeysInv'
<1> DEFINE lost == pkRows.one \cup OptSet(pkRows.fall)
<1>1. /\ UNCHANGED <<shelf, topUp, sealedTo, minted, served>> /\ topUp = Idle /\ pkRows' = EmptyPool
      /\ gone' = gone \cup lost /\ dropped' = dropped \cup lost
  BY DEF StoreLost
<1>2. lost \subseteq minted
  BY DEF PrekeysInv, RowsApart
<1>3. MintedOK' /\ PublishedOnce'
  BY <1>1, <1>2, PublishedFrame DEF PrekeysInv, MintedOK
<1>4. /\ pkRows' = [k \in RowFields |-> pkRows'[k]]
      /\ pkRows'.one = {} /\ pkRows'.unpub = {} /\ OptSet(pkRows'.fall) = {} /\ pkRows'.spent = {}
  BY <1>1 DEF EmptyPool, RowFields, OptSet
<1>5. RowsApart'
  BY <1>4 DEF RowsApart, Ids
<1>6. TopUpAbove' /\ ~StartedAgain'
  BY <1>1, <1>4 DEF TopUpAbove, TopUps, StartedAgain, Idle
<1>7. SecretsStay'
  BY <1>1 DEF PrekeysInv, SecretsStay
<1>8. LostApart'
  BY <1>4, <1>6 DEF LostApart
<1> QED
  BY <1>3, <1>5, <1>6, <1>7, <1>8 DEF PrekeysInv

(* An envelope is opened: its id is spent, and what was held under it goes. *)
LEMMA OpenKeeps == ASSUME PrekeysInv, NEW e \in sealedTo, Open(e) PROVE PrekeysInv'
<1>1. UNCHANGED <<shelf, topUp, minted, served, dropped, gone>> /\ topUp = Idle /\ sealedTo' = sealedTo \ {e}
  BY DEF Open
<1>2. Published' \subseteq Published /\ Ids(Published') \subseteq Ids(Published)
  BY <1>1 DEF Published, Ids, OptSet
<1>3. PublishedOnce'
  BY <1>1, <1>2 DEF PrekeysInv, PublishedOnce
<1>4. MintedOK' /\ TopUpAbove'
  BY <1>1, MintedFrame DEF PrekeysInv, TopUpAbove, TopUps, Idle
<1>5. CASE pkRows' = pkRows
  <2>1. SecretsStay' /\ LostApart'
    BY <1>1, <1>5 DEF PrekeysInv, SecretsStay, LostApart, StartedAgain
  <2> QED
    BY <1>1, <1>3, <1>4, <1>5, <2>1, RowsFrame DEF PrekeysInv
<1>6. CASE pkRows' # pkRows
  <2> DEFINE same == {q \in pkRows.one : q.id = e.id}
             left == RowsWithout(same)
  <2>1. pkRows' = [left EXCEPT !.spent = @ \cup {e.id}]
    BY <1>6 DEF Open
  <2>2. /\ pkRows' = [k \in RowFields |-> pkRows'[k]]
        /\ pkRows'.one = pkRows.one \ same /\ pkRows'.unpub = pkRows.unpub \ same
        /\ pkRows'.fall = pkRows.fall /\ pkRows'.spent = pkRows.spent \cup {e.id}
    <3>1. /\ left = [k \in RowFields |-> left[k]]
          /\ left.one = pkRows.one \ same /\ left.unpub = pkRows.unpub \ same
          /\ left.fall = pkRows.fall /\ left.spent = pkRows.spent
      BY RowsWithoutAre DEF PrekeysInv
    <3> HIDE DEF left, same
    <3> QED
      BY <2>1, <3>1 DEF RowFields
  <2>3. e.id \in Ids(minted) /\ e \in Published
    BY DEF Ids, PrekeysInv, PublishedOnce, Published
  <2>4. e.id \notin Ids(pkRows'.one) /\ Ids(pkRows'.one) \subseteq Ids(pkRows.one)
    BY <2>2 DEF Ids
  <2>5. RowsApart'
    <3>0. pkRows.spent \subseteq Ids(minted) /\ Ids(pkRows.one) \cap pkRows.spent = {}
      BY DEF PrekeysInv, RowsApart
    <3>1. pkRows'.spent \subseteq Ids(minted) /\ Ids(pkRows'.one) \cap pkRows'.spent = {}
      BY <2>2, <2>3, <2>4, <3>0
    <3>2. pkRows'.one \subseteq pkRows.one /\ pkRows'.unpub \subseteq pkRows'.one
      BY <2>2 DEF PrekeysInv, RowsApart
    <3> QED
      BY <1>1, <2>2, <3>1, <3>2, RowsShrink
  <2>6. SecretsStay'
    <3> SUFFICES ASSUME NEW p \in shelf.one \cup {q \in sealedTo \ {e} : q.id \in served}
                 PROVE  p \in pkRows'.one \cup dropped
      BY <1>1 DEF SecretsStay
    <3>1. p \in pkRows.one \cup dropped
      BY DEF PrekeysInv, SecretsStay
    <3>2. p \in Published /\ p # e
      BY DEF Published, PrekeysInv, PublishedOnce
    <3>3. p.id # e.id
      BY <2>3, <3>2 DEF PrekeysInv, PublishedOnce
    <3> QED
      BY <2>2, <3>1, <3>3
  <2>7. LostApart'
    BY <1>1, <2>2 DEF PrekeysInv, LostApart, StartedAgain
  <2> QED
    BY <1>3, <1>4, <2>5, <2>6, <2>7 DEF PrekeysInv
<1> QED
  BY <1>5, <1>6

(* What the client knows after the pool was cleared at the exchange, or    *)
(* not for the quota: a next id above what its rows hold.                  *)
LEMMA ClearedShelf ==
    ASSUME PrekeysInv
    PROVE  /\ Cleared = [k \in ShelfFields |-> Cleared[k]]
           /\ Cleared.one = {} /\ OptSet(Cleared.fall) = {} /\ Cleared.seen = shelf.seen
  BY DEF Cleared, PrekeysInv, PublishedOnce, ShelfFields, OptSet

CountedAnew(next) ==
    IF RanAway
    THEN /\ pkRows' = RowsWithout(pkRows.one) /\ dropped' = dropped \cup pkRows.one
         /\ topUp' = [at |-> "counted", known |-> topUp.known, count |-> topUp.count,
                      next |-> LET left == RowIds \ Ids(pkRows.one) IN
                               IF left = {} THEN OneAbove(Ids(minted)) ELSE OneAbove(left)]
    ELSE /\ topUp' = [at |-> "counted", known |-> topUp.known, count |-> topUp.count,
                      next |-> Max({topUp.next, next}), cleared |-> TRUE]
         /\ UNCHANGED <<pkRows, dropped>>

LEMMA RestartedKeeps ==
    ASSUME PrekeysInv, topUp.at = "counted", "cleared" \notin DOMAIN topUp,
           NEW next \in Nat, CountedAnew(next),
           UNCHANGED <<sealedTo, minted, served>>, gone' \subseteq gone, PublishedOnce',
           shelf'.one \subseteq shelf.one, gone' \cap (shelf'.one \cup OptSet(shelf'.fall)) = {}
    PROVE  PrekeysInv'
<1>1. MintedOK'
  BY DEF PrekeysInv, MintedOK
<1>2. topUp \in CountedTopUps /\ topUp.known \in BOOLEAN /\ topUp.count \in Nat /\ topUp.next \in Nat
  BY TopUpIs DEF PrekeysInv, CountedTopUps
<1>3. CASE RanAway
  <2> DEFINE left == RowIds \ Ids(pkRows.one)
             n == IF left = {} THEN OneAbove(Ids(minted)) ELSE OneAbove(left)
  <2>1. /\ pkRows' = RowsWithout(pkRows.one) /\ dropped' = dropped \cup pkRows.one
        /\ topUp' = [at |-> "counted", known |-> topUp.known, count |-> topUp.count, next |-> n]
    BY <1>3 DEF CountedAnew
  <2>2. /\ pkRows' = [k \in RowFields |-> pkRows'[k]]
        /\ pkRows'.one = {} /\ pkRows'.unpub = {} /\ pkRows'.fall = pkRows.fall /\ pkRows'.spent = pkRows.spent
    BY <2>1, RowsWithoutAre DEF PrekeysInv, RowsApart
  <2>3. RowsApart'
    BY <2>2, RowsShrink DEF PrekeysInv, RowsApart, Ids
  <2>4. RowIds' \subseteq left
    BY <2>2 DEF RowIds, Ids, PrekeysInv, RowsApart
  <2>5. n \in Nat /\ \A i \in left : i < n
    <3>1. left \subseteq Ids(minted) /\ Ids(minted) \subseteq Ids(minted)
      BY RowIdsMinted DEF PrekeysInv
    <3> HIDE DEF left
    <3> QED
      BY <3>1, OneAboveAll DEF PrekeysInv
  <2> HIDE DEF n, left
  <2>6. topUp' \in CountedTopUps /\ topUp'.next = n /\ topUp'.at = "counted" /\ "cleared" \notin DOMAIN topUp'
    BY <1>2, <2>1, <2>5 DEF CountedTopUps
  <2>7. TopUpAbove'
    BY <2>4, <2>5, <2>6 DEF TopUpAbove, TopUps, CountedTopUps
  <2>8. SecretsStay'
    BY <2>1 DEF PrekeysInv, SecretsStay
  <2>9. LostApart'
    BY <2>2 DEF PrekeysInv, LostApart
  <2> QED
    BY <1>1, <2>3, <2>7, <2>8, <2>9 DEF PrekeysInv
<1>4. CASE ~RanAway
  <2> DEFINE n == Max({topUp.next, next})
  <2>1. UNCHANGED <<pkRows, dropped>>
    BY <1>4 DEF CountedAnew
  <2>2. topUp' = [at |-> "counted", known |-> topUp.known, count |-> topUp.count, next |-> n, cleared |-> TRUE]
    BY <1>4 DEF CountedAnew
  <2>3. n \in Nat /\ n >= topUp.next
    BY <1>2 DEF Max
  <2> HIDE DEF n
  <2>4. topUp' \in CountedTopUps /\ topUp'.next = n /\ topUp'.at = "counted"
    BY <1>2, <2>2, <2>3 DEF CountedTopUps
  <2>5. \A i \in RowIds : i < n
    <3>1. RowIds \subseteq Nat /\ \A i \in RowIds : i < topUp.next
      BY RowIdsMinted DEF PrekeysInv, TopUpAbove, MintedOK, Ids, PrekeySet
    <3>2. topUp.next \in Nat /\ n \in Nat /\ n >= topUp.next
      BY <1>2, <2>3
    <3> QED
      BY ONLY <3>1, <3>2
  <2>6. RowIds' = RowIds
    BY <2>1 DEF RowIds
  <2>7. TopUpAbove'
    BY <2>4, <2>5, <2>6 DEF TopUpAbove, TopUps, CountedTopUps
  <2>8. SecretsStay'
    BY <2>1 DEF PrekeysInv, SecretsStay
  <2>9. LostApart'
    BY <2>1 DEF PrekeysInv, LostApart
  <2> QED
    BY <1>1, <2>1, <2>7, <2>8, <2>9, RowsFrame DEF PrekeysInv
<1> QED
  BY <1>3, <1>4

LEMMA RestartPoolKeeps == ASSUME PrekeysInv, RestartPool PROVE PrekeysInv'
<1>1. /\ topUp.at = "counted" /\ "cleared" \notin DOMAIN topUp
      /\ UNCHANGED <<sealedTo, minted, served>>
      /\ gone' = IF shelf.clears >= MAX_CLEAR THEN {} ELSE gone
  BY DEF RestartPool
<1>2. CASE shelf.clears < MAX_CLEAR /\ shelf' = Cleared /\ CountedAnew(OneAbove(shelf.seen))
  <2>1. PublishedOnce' /\ shelf'.one = {} /\ OptSet(shelf'.fall) = {}
    <3>1. {} \subseteq shelf.one /\ {} \subseteq OptSet(shelf.fall)
      OBVIOUS
    <3> QED
      BY <1>1, <1>2, <3>1, ClearedShelf, ShelfShrinks
  <2> DEFINE next == OneAbove(shelf.seen)
  <2>2. next \in Nat
    BY OneAboveAll DEF PrekeysInv, PublishedOnce
  <2> HIDE DEF next
  <2>3. CountedAnew(next)
    BY <1>2 DEF next
  <2> QED
    BY <1>1, <2>1, <2>2, <2>3, RestartedKeeps
<1>3. CASE shelf' = Cleared /\ topUp' = Idle /\ UNCHANGED <<pkRows, dropped>> /\ shelf.clears < MAX_CLEAR
  <2>1. PublishedOnce' /\ shelf'.one = {} /\ OptSet(shelf'.fall) = {}
    <3>1. {} \subseteq shelf.one /\ {} \subseteq OptSet(shelf.fall)
      OBVIOUS
    <3> QED
      BY <1>1, <1>3, <3>1, ClearedShelf, ShelfShrinks
  <2>2. gone' \subseteq gone
    BY <1>1
  <2>3. MintedOK' /\ RowsApart' /\ TopUpAbove'
    BY <1>1, <1>3, <2>2, RowsFrame DEF PrekeysInv, MintedOK, TopUpAbove, TopUps, Idle
  <2>4. SecretsStay' /\ LostApart'
    BY <1>1, <1>3, <2>1, <2>2 DEF PrekeysInv, SecretsStay, LostApart
  <2> QED
    BY <2>1, <2>3, <2>4 DEF PrekeysInv
<1>4. CASE shelf.clears >= MAX_CLEAR /\ CountedAnew(OneAbove(Ids(OptSet(shelf.fall)))) /\ UNCHANGED shelf
  <2>1. PublishedOnce' /\ gone' = {}
    BY <1>1, <1>4, PublishedFrame DEF PrekeysInv
  <2> DEFINE next == OneAbove(Ids(OptSet(shelf.fall)))
  <2>2. next \in Nat
    <3>1. Ids(OptSet(shelf.fall)) \subseteq Ids(minted)
      BY DEF Ids, PrekeysInv, PublishedOnce, Published
    <3> QED
      BY <3>1, OneAboveAll DEF PrekeysInv
  <2> HIDE DEF next
  <2>3. CountedAnew(next)
    BY <1>4 DEF next
  <2> QED
    BY <1>1, <1>4, <2>1, <2>2, <2>3, RestartedKeeps
<1> QED
  BY <1>2, <1>3, <1>4 DEF RestartPool, CountedAnew

(* What the client mints next: as many prekeys as it is short of, with     *)
(* consecutive ids.                                                        *)
LEMMA FreshIs ==
    ASSUME PrekeysInv, topUp.at = "counted"
    PROVE  /\ FreshMint \subseteq PrekeySet /\ IsFiniteSet(FreshMint) /\ FreshMint \cap minted = {}
           /\ \A p \in FreshMint : /\ p.gen < Cardinality(minted) + Cardinality(FreshMint)
                                   /\ topUp.next <= p.id /\ p.id < topUp.next + Cardinality(FreshMint)
           /\ \A p, q \in FreshMint : p.id = q.id => p = q
           /\ Cardinality(FreshMint) \in Nat
<1> DEFINE held == Have + Cardinality(pkRows.unpub)
           short == IF held < LOW_WATER /\ held < POOL THEN POOL - held ELSE 0
           n == topUp.next
           c == Cardinality(minted)
           f == [k \in 0..short - 1 |-> [id |-> n + k, gen |-> c + k]]
           fresh == {[id |-> n + k, gen |-> c + k] : k \in 0..short - 1}
<1>1. n \in Nat /\ topUp.count \in Nat
  BY TopUpIs DEF PrekeysInv, CountedTopUps
<1>2. c \in Nat
  BY MintedAreFinite DEF PrekeysInv
<1>3. short \in Nat
  <2>1. Cardinality(pkRows.one) \in Nat /\ Cardinality(pkRows.unpub) \in Nat
    BY MintedAreFinite DEF PrekeysInv, RowsApart
  <2>2. Have \in Int
    BY <1>1, <2>1 DEF Have
  <2>3. held \in Int /\ POOL \in Nat
    BY <2>1, <2>2, PrekeysAssumption
  <2> HIDE DEF held
  <2> QED
    BY <2>3
<1>4. FreshMint = fresh
  BY DEF FreshMint
<1> HIDE DEF short, n, c
<1>5. f \in Bijection(0..short - 1, fresh)
  <2>1. f \in [0..short - 1 -> fresh]
    OBVIOUS
  <2>2. \A j, k \in 0..short - 1 : f[j] = f[k] => j = k
    BY <1>1, <1>2, <1>3
  <2>3. \A t \in fresh : \E k \in 0..short - 1 : f[k] = t
    OBVIOUS
  <2>4. DOMAIN f = 0..short - 1
    OBVIOUS
  <2> HIDE DEF f, fresh
  <2> QED
    BY <2>1, <2>2, <2>3, <2>4 DEF Bijection, Injection, Surjection, IsInjective
<1>6. IsFiniteSet(0..short - 1) /\ Cardinality(0..short - 1) = short
  BY <1>3, FS_Interval
<1>7. ExistsBijection(0..short - 1, fresh)
  BY <1>5 DEF ExistsBijection
<1> HIDE DEF f, fresh
<1>8. IsFiniteSet(fresh) /\ Cardinality(fresh) = short
  BY <1>6, <1>7, FS_Bijection
<1>9. fresh \subseteq PrekeySet
  BY <1>1, <1>2, <1>3 DEF PrekeySet, fresh
<1>10. \A p \in fresh : c <= p.gen /\ p.gen < c + short /\ n <= p.id /\ p.id < n + short
  BY <1>1, <1>2, <1>3 DEF fresh
<1>11. \A p, q \in fresh : p.id = q.id => p = q
  BY <1>1, <1>2, <1>3 DEF fresh
<1>12. fresh \cap minted = {}
  BY <1>2, <1>9, <1>10 DEF PrekeysInv, MintedOK, PrekeySet, c
<1> QED
  BY <1>3, <1>4, <1>8, <1>9, <1>10, <1>11, <1>12 DEF n, c

LEMMA MintOneTimeKeeps == ASSUME PrekeysInv, MintOneTime PROVE PrekeysInv'
<1> DEFINE fresh == FreshMint
           offer == pkRows.unpub \cup fresh
           n == topUp.next
           c == Cardinality(minted)
           s == Cardinality(fresh)
<1>1. /\ topUp.at = "counted" /\ ("cleared" \in DOMAIN topUp \/ ~MustRestart)
      /\ minted' = minted \cup fresh /\ pkRows' = Saved(fresh)
      /\ UNCHANGED <<shelf, sealedTo, served, dropped, gone>>
  BY DEF MintOneTime
<1>2. topUp' = IF NeedsFallback(offer)
               THEN [at |-> "publish", left |-> offer, offered |-> offer, marked |-> {}, next |-> n + s]
               ELSE Idle
  BY DEF MintOneTime
<1>3. /\ fresh \subseteq PrekeySet /\ IsFiniteSet(fresh) /\ fresh \cap minted = {}
      /\ \A p \in fresh : p.gen < c + s /\ n <= p.id /\ p.id < n + s
      /\ \A p, q \in fresh : p.id = q.id => p = q
      /\ s \in Nat
  BY <1>1, FreshIs
<1>4. n \in Nat /\ \A i \in RowIds : i < n
  <2>1. \A i \in RowIds : i < n
    BY <1>1 DEF PrekeysInv, TopUpAbove
  <2>2. topUp \in CountedTopUps
    BY <1>1, TopUpIs DEF PrekeysInv
  <2> QED
    BY <2>1, <2>2 DEF CountedTopUps
<1>5. c \in Nat
  BY MintedAreFinite DEF PrekeysInv
<1> HIDE DEF fresh
<1>6. IsFiniteSet(minted') /\ Cardinality(minted') = c + s
  <2>1. /\ IsFiniteSet(minted \cup fresh)
        /\ Cardinality(minted \cup fresh) = c + s - Cardinality(minted \cap fresh)
    BY <1>3, FS_Union DEF PrekeysInv, MintedOK
  <2>2. minted \cap fresh = {} /\ Cardinality({}) = 0
    BY <1>3, FS_EmptySet
  <2>3. Cardinality(minted \cap fresh) = 0
    BY <2>2
  <2> QED
    BY <1>1, <1>3, <1>5, <2>1, <2>3
<1> HIDE DEF c, s
<1>7. MintedOK'
  <2>1. PICK b \in Nat : \A p \in minted : p.id <= b
    BY DEF PrekeysInv, MintedOK
  <2>2. minted \subseteq PrekeySet /\ (\A p \in minted : p.gen < c) /\ gone \subseteq minted
    BY DEF PrekeysInv, MintedOK, c
  <2>3. minted' \subseteq PrekeySet /\ gone' \subseteq minted'
    BY <1>1, <1>3, <2>2
  <2>4. \A p \in minted' : p.gen < c + s
    BY <1>1, <1>3, <1>5, <2>2 DEF PrekeySet
  <2>5. b + n + s \in Nat /\ \A p \in minted' : p.id <= b + n + s
    BY <1>1, <1>3, <1>4, <2>1, <2>2 DEF PrekeySet
  <2> QED
    BY <1>6, <2>3, <2>4, <2>5 DEF MintedOK
<1>8. Ids(minted) \subseteq Ids(minted')
  BY <1>1 DEF Ids
<1>9. PublishedOnce'
  <2>1. Published' = Published
    BY <1>1 DEF Published
  <2>2. Published' \subseteq minted' /\ shelf'.seen \subseteq Ids(minted')
    BY <1>1, <1>8, <2>1 DEF PrekeysInv, PublishedOnce
  <2> QED
    BY <1>1, <2>1, <2>2 DEF PrekeysInv, PublishedOnce
<1>10. /\ pkRows' = [k \in RowFields |-> pkRows'[k]]
       /\ pkRows'.one = pkRows.one \cup fresh /\ pkRows'.unpub = offer
       /\ pkRows'.fall = pkRows.fall /\ pkRows'.spent = pkRows.spent
  BY <1>1 DEF Saved, RowFields, PrekeysInv, RowsApart
<1>11. Ids(pkRows'.one) = Ids(pkRows.one) \cup Ids(fresh) /\ Ids(pkRows.one) \subseteq RowIds
  BY <1>10 DEF Ids, RowIds
<1>12. RowsApart'
  <2>1. pkRows'.one \cup OptSet(pkRows'.fall) \subseteq minted' /\ pkRows'.unpub \subseteq pkRows'.one
    BY <1>1, <1>10 DEF PrekeysInv, RowsApart
  <2>2. pkRows'.spent \subseteq Ids(minted')
    BY <1>8, <1>10 DEF PrekeysInv, RowsApart
  <2>3. \A p \in pkRows.one, q \in fresh : p.id # q.id
    <3> TAKE p \in pkRows.one, q \in fresh
    <3>1. p.id \in RowIds /\ p.id \in Nat /\ q.id \in Nat
      BY <1>3, <1>11 DEF Ids, PrekeysInv, RowsApart, MintedOK, PrekeySet
    <3>2. p.id < n /\ n <= q.id
      BY <1>3, <1>4, <3>1
    <3> QED
      BY <1>4, <3>1, <3>2
  <2>4. \A p, q \in pkRows'.one : p.id = q.id => p = q
    BY <1>3, <1>10, <2>3 DEF PrekeysInv, RowsApart
  <2>5. Ids(fresh) \cap RowIds = {}
    <3> SUFFICES ASSUME NEW q \in fresh, q.id \in RowIds PROVE FALSE
      BY DEF Ids
    <3>1. q.id \in Nat /\ n <= q.id /\ q.id < n
      BY <1>3, <1>4 DEF PrekeySet
    <3> QED
      BY <1>4, <3>1
  <2>6. Ids(pkRows'.one) \cap (Ids(OptSet(pkRows'.fall)) \cup pkRows'.spent) = {}
    <3>1. Ids(OptSet(pkRows.fall)) \cup pkRows.spent \subseteq RowIds
      BY DEF RowIds
    <3> QED
      BY <1>10, <1>11, <2>5, <3>1 DEF PrekeysInv, RowsApart
  <2> QED
    BY <1>10, <2>1, <2>2, <2>4, <2>6 DEF RowsApart
<1>13. TopUpAbove' /\ (topUp' = Idle \/ topUp'.at = "publish")
  <2>1. CASE topUp' = Idle
    BY <2>1 DEF TopUpAbove, TopUps, Idle
  <2>2. CASE topUp' = [at |-> "publish", left |-> offer, offered |-> offer, marked |-> {}, next |-> n + s]
    <3>1. offer \subseteq pkRows'.one /\ n + s \in Nat
      BY <1>3, <1>4, <1>10 DEF PrekeysInv, RowsApart
    <3> DEFINE m == n + s
    <3>2. \A i \in RowIds' : i < m
      <4>1. RowIds' = RowIds \cup Ids(fresh)
        BY <1>10, <1>11 DEF RowIds
      <4>2. \A i \in Ids(fresh) : i < m
        BY <1>3 DEF Ids
      <4>3. \A i \in RowIds : i < m
        <5>1. RowIds \subseteq Nat
          BY RowIdsMinted DEF PrekeysInv, MintedOK, Ids, PrekeySet
        <5> QED
          BY <1>3, <1>4, <5>1
      <4> QED
        BY <4>1, <4>2, <4>3
    <3> HIDE DEF offer, m
    <3>3. topUp' \in TopUps(pkRows.one)' /\ topUp'.at = "publish" /\ topUp'.next = m
      BY <2>2, <3>1 DEF TopUps, PublishTopUps, m
    <3> QED
      BY <3>2, <3>3 DEF TopUpAbove
  <2> QED
    BY <1>2, <2>1, <2>2
<1>14. SecretsStay'
  BY <1>1, <1>10 DEF PrekeysInv, SecretsStay
<1>15. LostApart'
  <2>1. StartedAgain
    BY <1>1 DEF StartedAgain, MustRestart, OptSet
  <2>2. fresh \cap gone = {}
    BY <1>3 DEF PrekeysInv, MintedOK
  <2> QED
    BY <1>1, <1>10, <2>1, <2>2 DEF PrekeysInv, LostApart
<1> QED
  BY <1>7, <1>9, <1>12, <1>13, <1>14, <1>15 DEF PrekeysInv

(* A fallback is saved, the one before it retired, and then published.     *)
LEMMA MintFallbackKeeps == ASSUME PrekeysInv, MintFallback PROVE PrekeysInv'
<1> DEFINE n == topUp.next
           c == Cardinality(minted)
           p == [id |-> n, gen |-> c]
<1>1. /\ topUp.at = "publish" /\ minted' = minted \cup {p} /\ topUp' = [at |-> "fallback", fall |-> p]
      /\ pkRows' = [pkRows EXCEPT !.fall = p, !.spent = @ \cup Ids(OptSet(pkRows.fall))]
      /\ UNCHANGED <<shelf, sealedTo, served, dropped, gone>>
  BY DEF MintFallback
<1>2. n \in Nat /\ \A i \in RowIds : i < n
  <2>1. \A i \in RowIds : i < n
    BY <1>1 DEF PrekeysInv, TopUpAbove
  <2>2. topUp \in PublishTopUps(pkRows.one)
    BY <1>1, TopUpIs DEF PrekeysInv
  <2> QED
    BY <2>1, <2>2 DEF PublishTopUps
<1>3. c \in Nat /\ IsFiniteSet(minted)
  BY MintedAreFinite DEF PrekeysInv
<1>4. p \in PrekeySet /\ p.id = n /\ p.gen = c /\ p \notin minted
  BY <1>2, <1>3 DEF PrekeySet, PrekeysInv, MintedOK
<1> HIDE DEF p
<1>5. IsFiniteSet(minted') /\ Cardinality(minted') = c + 1
  BY <1>1, <1>3, <1>4, FS_AddElement
<1> HIDE DEF c
<1>6. MintedOK'
  <2>1. PICK b \in Nat : \A q \in minted : q.id <= b
    BY DEF PrekeysInv, MintedOK
  <2>2. minted \subseteq PrekeySet /\ (\A q \in minted : q.gen < c) /\ gone \subseteq minted
    BY DEF PrekeysInv, MintedOK, c
  <2>3. minted' \subseteq PrekeySet /\ gone' \subseteq minted'
    BY <1>1, <1>4, <2>2
  <2>4. \A q \in minted' : q.gen < c + 1
    BY <1>1, <1>3, <1>4, <2>2 DEF PrekeySet
  <2>5. b + n \in Nat /\ \A q \in minted' : q.id <= b + n
    BY <1>1, <1>2, <1>4, <2>1, <2>2 DEF PrekeySet
  <2> QED
    BY <1>5, <2>3, <2>4, <2>5 DEF MintedOK
<1>7. Ids(minted) \subseteq Ids(minted')
  BY <1>1 DEF Ids
<1>8. PublishedOnce'
  <2>1. Published' = Published
    BY <1>1 DEF Published
  <2>2. Published' \subseteq minted' /\ shelf'.seen \subseteq Ids(minted')
    BY <1>1, <1>7, <2>1 DEF PrekeysInv, PublishedOnce
  <2> QED
    BY <1>1, <2>1, <2>2 DEF PrekeysInv, PublishedOnce
<1>9. /\ pkRows' = [k \in RowFields |-> pkRows'[k]]
      /\ pkRows'.one = pkRows.one /\ pkRows'.unpub = pkRows.unpub
      /\ pkRows'.fall = p /\ pkRows'.spent = pkRows.spent \cup Ids(OptSet(pkRows.fall))
  BY <1>1 DEF RowFields, PrekeysInv, RowsApart
<1>10. OptSet(pkRows'.fall) \subseteq {p}
  BY <1>9 DEF OptSet
<1>11. RowsApart'
  <2>1. pkRows'.one \cup OptSet(pkRows'.fall) \subseteq minted' /\ pkRows'.unpub \subseteq pkRows'.one
    BY <1>1, <1>9, <1>10 DEF PrekeysInv, RowsApart
  <2>2. pkRows'.spent \subseteq Ids(minted')
    <3>1. Ids(OptSet(pkRows.fall)) \subseteq Ids(minted)
      BY DEF PrekeysInv, RowsApart, Ids
    <3> QED
      BY <1>7, <1>9, <3>1 DEF PrekeysInv, RowsApart
  <2>3. n \notin Ids(pkRows.one)
    <3>1. Ids(pkRows.one) \subseteq RowIds
      BY DEF RowIds
    <3> QED
      BY <1>2, <3>1
  <2>4. Ids(OptSet(pkRows'.fall)) \subseteq {n}
    BY <1>4, <1>10 DEF Ids
  <2>5. Ids(pkRows'.one) \cap (Ids(OptSet(pkRows'.fall)) \cup pkRows'.spent) = {}
    <3>1. Ids(pkRows.one) \cap pkRows'.spent = {}
      BY <1>9 DEF PrekeysInv, RowsApart
    <3> QED
      BY <1>9, <2>3, <2>4, <3>1
  <2> QED
    BY <1>9, <2>1, <2>2, <2>5 DEF PrekeysInv, RowsApart
<1>12. TopUpAbove'
  <2>1. p \in minted' \ gone'
    BY <1>1, <1>4 DEF PrekeysInv, MintedOK
  <2> QED
    BY <1>1, <2>1 DEF TopUpAbove, TopUps, FallbackTopUps
<1>13. SecretsStay'
  BY <1>1, <1>9 DEF PrekeysInv, SecretsStay
<1>14. LostApart'
  <2>1. StartedAgain
    BY <1>1 DEF StartedAgain
  <2>2. p \notin gone
    BY <1>4 DEF PrekeysInv, MintedOK
  <2> QED
    BY <1>1, <1>9, <1>10, <2>1, <2>2 DEF PrekeysInv, LostApart
<1> QED
  BY <1>6, <1>8, <1>11, <1>12, <1>13, <1>14 DEF PrekeysInv

LEMMA PublishFallbackKeeps == ASSUME PrekeysInv, PublishFallback PROVE PrekeysInv'
<1> DEFINE p == topUp.fall
<1>1. /\ topUp.at = "fallback" /\ topUp' = Idle
      /\ UNCHANGED <<pkRows, sealedTo, minted, served, dropped, gone>>
  BY DEF PublishFallback
<1>2. p \in minted \ gone
  BY <1>1, TopUpIs DEF PrekeysInv, FallbackTopUps
<1>3. MintedOK' /\ RowsApart' /\ TopUpAbove'
  BY <1>1, MintedFrame, RowsFrame DEF PrekeysInv, TopUpAbove, TopUps, Idle
<1>4. StartedAgain
  BY <1>1 DEF StartedAgain
<1> HIDE DEF p
<1>5. CASE shelf' = shelf
  <2>1. PublishedOnce' /\ SecretsStay' /\ LostApart'
    BY <1>1, <1>4, <1>5, PublishedFrame DEF PrekeysInv, SecretsStay, LostApart
  <2> QED
    BY <1>3, <2>1 DEF PrekeysInv
<1>6. CASE shelf' = WithFallback(p) /\ p.id \notin shelf.seen
  <2>1. /\ shelf' = [k \in ShelfFields |-> shelf'[k]] /\ shelf'.one = shelf.one
        /\ shelf'.fall = p /\ shelf'.seen = shelf.seen \cup {p.id}
    BY <1>6 DEF WithFallback, PrekeysInv, PublishedOnce, ShelfFields
  <2>2. Published' \subseteq Published \cup {p} /\ OptSet(shelf'.fall) \subseteq {p}
    BY <1>1, <2>1 DEF Published, OptSet
  <2>3. \A q \in Published : q.id \in shelf.seen /\ q.id # p.id /\ q # p
    BY <1>6 DEF PrekeysInv, PublishedOnce, Ids
  <2>4. PublishedOnce'
    <3>1. Published' \subseteq minted' /\ shelf'.seen \subseteq Ids(minted')
      BY <1>1, <1>2, <2>1, <2>2 DEF PrekeysInv, PublishedOnce, Ids
    <3>2. Ids(Published') \cup served' \subseteq shelf'.seen
      <4>1. \A q \in Published' : q.id \in shelf'.seen
        BY <2>1, <2>2, <2>3
      <4>2. served \subseteq shelf.seen
        BY DEF PrekeysInv, PublishedOnce
      <4> QED
        BY <1>1, <2>1, <4>1, <4>2 DEF Ids
    <3>3. \A q, r \in Published' : q.id = r.id => q = r
      BY <2>2, <2>3 DEF PrekeysInv, PublishedOnce
    <3>4. shelf'.one \cap (sealedTo' \cup OptSet(shelf'.fall)) = {}
      BY <1>1, <2>1, <2>2, <2>3 DEF PrekeysInv, PublishedOnce, Published
    <3>5. (Ids(shelf'.one) \cup Ids(OptSet(shelf'.fall))) \cap served' = {}
      <4>1. Ids(OptSet(shelf'.fall)) \subseteq {p.id}
        BY <2>2 DEF Ids
      <4>2. p.id \notin served /\ Ids(shelf.one) \cap served = {}
        BY <1>6 DEF PrekeysInv, PublishedOnce
      <4> QED
        BY <1>1, <2>1, <4>1, <4>2
    <3> QED
      BY <2>1, <3>1, <3>2, <3>3, <3>4, <3>5 DEF PublishedOnce
  <2>5. SecretsStay'
    BY <1>1, <2>1 DEF PrekeysInv, SecretsStay
  <2>6. LostApart'
    BY <1>1, <1>2, <1>4, <2>1, <2>2 DEF PrekeysInv, LostApart
  <2> QED
    BY <1>3, <2>4, <2>5, <2>6 DEF PrekeysInv
<1> QED
  BY <1>5, <1>6 DEF PublishFallback, p

(* A batch is taken: none of its ids was ever seen.                        *)
LEMMA ShelvedKeeps ==
    ASSUME PrekeysInv, NEW B, B \subseteq pkRows.one, Publishable(B), shelf' = Shelved(B),
           UNCHANGED <<sealedTo, served, minted>>
    PROVE  /\ PublishedOnce'
           /\ shelf'.one = shelf.one \cup B /\ shelf'.fall = shelf.fall
<1>1. /\ shelf' = [k \in ShelfFields |-> shelf'[k]] /\ shelf'.one = shelf.one \cup B
      /\ shelf'.fall = shelf.fall /\ shelf'.seen = shelf.seen \cup Ids(B)
  BY DEF Shelved, PrekeysInv, PublishedOnce, ShelfFields
<1>2. Published' = Published \cup B
  BY <1>1 DEF Published
<1>3. \A q \in Published, p \in B : q.id \in shelf.seen /\ p.id \notin shelf.seen /\ q # p /\ q.id # p.id
  BY DEF PrekeysInv, PublishedOnce, Ids, Publishable
<1>4. Published' \subseteq minted' /\ shelf'.seen \subseteq Ids(minted')
  <2>1. B \subseteq minted
    BY DEF PrekeysInv, RowsApart
  <2> QED
    BY <1>1, <1>2, <2>1 DEF PrekeysInv, PublishedOnce, Ids
<1>5. Ids(Published') \cup served' \subseteq shelf'.seen
  <2>1. Ids(Published') = Ids(Published) \cup Ids(B)
    BY <1>2 DEF Ids
  <2> QED
    BY <1>1, <2>1 DEF PrekeysInv, PublishedOnce
<1>6. \A q, r \in Published' : q.id = r.id => q = r
  BY <1>2, <1>3 DEF PrekeysInv, PublishedOnce, RowsApart
<1>7. shelf'.one \cap (sealedTo' \cup OptSet(shelf'.fall)) = {}
  BY <1>1, <1>3 DEF PrekeysInv, PublishedOnce, Published
<1>8. (Ids(shelf'.one) \cup Ids(OptSet(shelf'.fall))) \cap served' = {}
  <2>1. Ids(shelf'.one) = Ids(shelf.one) \cup Ids(B)
    BY <1>1 DEF Ids
  <2>2. Ids(B) \cap served = {}
    BY DEF Publishable, PrekeysInv, PublishedOnce
  <2> QED
    BY <1>1, <2>1, <2>2 DEF PrekeysInv, PublishedOnce
<1> QED
  BY <1>1, <1>4, <1>5, <1>6, <1>7, <1>8 DEF PublishedOnce

LEMMA LessUnpublished ==
    ASSUME PrekeysInv, NEW X, NEW left, left = [pkRows EXCEPT !.unpub = @ \ X]
    PROVE  /\ left = [k \in RowFields |-> left[k]]
           /\ left.one = pkRows.one /\ left.unpub = pkRows.unpub \ X
           /\ left.fall = pkRows.fall /\ left.spent = pkRows.spent
  BY DEF PrekeysInv, RowsApart, RowFields

LEMMA PublishBatchKeeps == ASSUME PrekeysInv, PublishBatch PROVE PrekeysInv'
<1> DEFINE discarded == topUp.offered \ topUp.marked
<1>1. topUp.at = "publish" /\ UNCHANGED <<sealedTo, minted, served, gone>>
  BY DEF PublishBatch
<1>2. topUp \in PublishTopUps(pkRows.one)
  BY <1>1, TopUpIs DEF PrekeysInv
<1>3. Batch \subseteq topUp.left /\ Batch \subseteq pkRows.one
  BY <1>2 DEF Batch, PublishTopUps
<1>4. MintedOK' /\ StartedAgain
  BY <1>1, MintedFrame DEF PrekeysInv, StartedAgain
<1> HIDE DEF Batch
<1>5. ASSUME shelf' = shelf \/ (Publishable(Batch) /\ shelf' = Shelved(Batch))
      PROVE  PublishedOnce' /\ shelf'.one \subseteq shelf.one \cup pkRows.one /\ shelf'.fall = shelf.fall
  <2>1. CASE shelf' = shelf
    BY <1>1, <2>1, PublishedFrame DEF PrekeysInv
  <2>2. CASE Publishable(Batch) /\ shelf' = Shelved(Batch)
    BY <1>1, <1>3, <2>2, ShelvedKeeps
  <2> QED
    BY <1>5, <2>1, <2>2
(* The rows of the device keep every prekey, but for what is discarded.    *)
<1>6. ASSUME shelf' = shelf \/ (Publishable(Batch) /\ shelf' = Shelved(Batch)),
             pkRows' = [k \in RowFields |-> pkRows'[k]], pkRows'.unpub \subseteq pkRows'.one,
             pkRows'.one \subseteq pkRows.one, pkRows.one \cup dropped \subseteq pkRows'.one \cup dropped',
             pkRows'.fall = pkRows.fall, pkRows'.spent = pkRows.spent, TopUpAbove'
      PROVE  PrekeysInv'
  <2>1. PublishedOnce' /\ shelf'.one \subseteq shelf.one \cup pkRows.one /\ shelf'.fall = shelf.fall
    BY <1>5, <1>6
  <2>2. RowsApart'
    <3>1. pkRows'.spent \subseteq Ids(minted) /\ Ids(pkRows'.one) \cap pkRows'.spent = {}
      BY <1>6 DEF PrekeysInv, RowsApart, Ids
    <3> QED
      BY <1>1, <1>6, <3>1, RowsShrink
  <2>3. SecretsStay'
    BY <1>1, <1>6, <2>1 DEF PrekeysInv, SecretsStay
  <2>4. LostApart'
    BY <1>1, <1>4, <1>6, <2>1 DEF PrekeysInv, LostApart
  <2> QED
    BY <1>4, <1>6, <2>1, <2>2, <2>3, <2>4 DEF PrekeysInv
<1>7. CASE /\ Publishable(Batch) /\ shelf' = Shelved(Batch)
           /\ topUp' = [topUp EXCEPT !.left = @ \ Batch, !.marked = @ \cup Batch]
           /\ pkRows' = IF topUp.left = Batch THEN [pkRows EXCEPT !.unpub = @ \ (topUp.marked \cup Batch)] ELSE pkRows
           /\ UNCHANGED dropped
  <2>1. /\ pkRows' = [k \in RowFields |-> pkRows'[k]]
        /\ pkRows'.one = pkRows.one /\ pkRows'.unpub \subseteq pkRows.unpub
        /\ pkRows'.fall = pkRows.fall /\ pkRows'.spent = pkRows.spent
    <3>1. CASE topUp.left = Batch
      <4> DEFINE X == topUp.marked \cup Batch
      <4>1. pkRows' = [pkRows EXCEPT !.unpub = @ \ X]
        BY <1>7, <3>1
      <4> HIDE DEF X
      <4>2. pkRows'.unpub = pkRows.unpub \ X
        BY <4>1, LessUnpublished
      <4> QED
        BY <4>1, <4>2, LessUnpublished
    <3>2. CASE topUp.left # Batch
      BY <1>7, <3>2 DEF PrekeysInv, RowsApart
    <3> QED
      BY <3>1, <3>2
  <2>2. topUp' \in PublishTopUps(pkRows'.one) /\ topUp'.next = topUp.next
    BY <1>2, <1>3, <1>7, <2>1 DEF PublishTopUps
  <2>3. RowIds' = RowIds
    BY <2>1 DEF RowIds
  <2>4. TopUpAbove'
    BY <1>1, <2>2, <2>3 DEF TopUpAbove, TopUps, PublishTopUps, PrekeysInv
  <2>5. pkRows'.unpub \subseteq pkRows'.one
    BY <2>1 DEF PrekeysInv, RowsApart
  <2> QED
    BY <1>6, <1>7, <2>1, <2>4, <2>5
<1>8. CASE /\ UNCHANGED shelf /\ topUp' = Idle /\ dropped' = dropped \cup discarded
           /\ pkRows' = [Marked EXCEPT !.one = @ \ discarded, !.unpub = @ \ discarded]
  <2>1. /\ Marked = [k \in RowFields |-> Marked[k]]
        /\ Marked.one = pkRows.one /\ Marked.unpub = pkRows.unpub \ topUp.marked
        /\ Marked.fall = pkRows.fall /\ Marked.spent = pkRows.spent
    BY LessUnpublished DEF Marked
  <2> HIDE DEF discarded
  <2>2. /\ pkRows' = [k \in RowFields |-> pkRows'[k]]
        /\ pkRows'.one = pkRows.one \ discarded /\ pkRows'.unpub = (pkRows.unpub \ topUp.marked) \ discarded
        /\ pkRows'.fall = pkRows.fall /\ pkRows'.spent = pkRows.spent
    BY <1>8, <2>1 DEF RowFields
  <2>3. TopUpAbove'
    BY <1>8 DEF TopUpAbove, TopUps, Idle
  <2>4. pkRows'.unpub \subseteq pkRows'.one /\ pkRows'.one \subseteq pkRows.one
    BY <2>2 DEF PrekeysInv, RowsApart
  <2>5. pkRows.one \cup dropped \subseteq pkRows'.one \cup dropped'
    BY <1>8, <2>2
  <2> QED
    BY <1>6, <1>8, <2>2, <2>3, <2>4, <2>5
<1>9. CASE /\ shelf' = shelf \/ (Publishable(Batch) /\ shelf' = Shelved(Batch))
           /\ pkRows' = Marked /\ topUp' = Idle /\ UNCHANGED dropped
  <2>1. /\ pkRows' = [k \in RowFields |-> pkRows'[k]]
        /\ pkRows'.one = pkRows.one /\ pkRows'.unpub = pkRows.unpub \ topUp.marked
        /\ pkRows'.fall = pkRows.fall /\ pkRows'.spent = pkRows.spent
    BY <1>9, LessUnpublished DEF Marked
  <2>2. TopUpAbove'
    BY <1>9 DEF TopUpAbove, TopUps, Idle
  <2>3. pkRows'.unpub \subseteq pkRows'.one
    BY <2>1 DEF PrekeysInv, RowsApart
  <2> QED
    BY <1>6, <1>9, <2>1, <2>2, <2>3
<1> QED
  BY <1>7, <1>8, <1>9 DEF PublishBatch

LEMMA PrekeysInvNext == PrekeysInv /\ [PrekeysNext]_prekeyVars => PrekeysInv'
<1> SUFFICES ASSUME PrekeysInv, [PrekeysNext]_prekeyVars PROVE PrekeysInv'
  OBVIOUS
<1>1. CASE UNCHANGED prekeyVars
  <2>1. SecretsStay' /\ LostApart'
    BY <1>1 DEF prekeyVars, PrekeysInv, SecretsStay, LostApart, StartedAgain
  <2> QED
    BY <1>1, <2>1, MintedFrame, PublishedFrame, RowsFrame, TopUpFrame DEF prekeyVars, PrekeysInv
<1>2. CASE Take \/ WindowEnds \/ AskCount \/ RestartPool \/ MintOneTime \/ PublishBatch
  BY <1>2, TakeKeeps, WindowAndMovesKeep, AskCountKeeps, RestartPoolKeeps, MintOneTimeKeeps, PublishBatchKeeps
<1>3. CASE \/ MintFallback \/ PublishFallback \/ ClientStops \/ StoreLost \/ Moves
           \/ \E e \in sealedTo : Open(e)
  BY <1>3, MintFallbackKeeps, PublishFallbackKeeps, StopKeeps, StoreLostKeeps, WindowAndMovesKeep, OpenKeeps
<1> QED
  BY <1>1, <1>2, <1>3 DEF PrekeysNext

(* A one-time prekey is served once, and what is served or sealed to can   *)
(* be opened: the device holds its secret or dropped it knowingly, and     *)
(* what a lost store took with it is no longer on the shelf -- whatever    *)
(* answer is lost, wherever the client stops, and though ids may be used   *)
(* for two mintings (prekey.rs take and publish, client.rs                 *)
(* top_up_prekeys and restart_pool).                                       *)
THEOREM ServedOnceAndOpenedAlways == PrekeysSpec => []ServedOnceAndOpened
<1>1. PrekeysInv => ServedOnceAndOpened
  <2> SUFFICES ASSUME PrekeysInv PROVE ServedOnceAndOpened
    OBVIOUS
  <2>1. ServedOnce
    BY DEF PrekeysInv, PublishedOnce, ServedOnce
  <2>2. SecretsKept
    BY DEF PrekeysInv, SecretsStay, SecretsKept
  <2>3. NothingLostIsServed
    BY DEF PrekeysInv, LostApart, StartedAgain, NothingLostIsServed, OptSet
  <2> QED
    BY <2>1, <2>2, <2>3 DEF ServedOnceAndOpened, ServedIsOpened
<1> QED
  BY <1>1, PrekeysInvInit, PrekeysInvNext, PTL DEF PrekeysSpec

(***************************************************************************)
(* A client's own store (Reading).                                         *)
(***************************************************************************)

(* The conversations the theorem is about.                                 *)
Unhurried ==
  \A c \in Scripts :
    \/ Len(c.says) = 1
    \/ Len(c.says) = 2 /\ c.met /\ \A s \in 1..Len(c.says[1]) : ~c.says[1][s].timed

Row == [of : Nat, has : {"none", "words", "null", "empty"}]
Final == Len(script.says)
Said(i) == 1..Len(script.says[i])

(* Who may delete a message has asked for it, or its body was taken out.   *)
Doomed(i, s) == <<i, s>> \in wiped \/ Redactors(i, s) # {}

RowsRight(r, i) ==
  /\ r \in [Seqs -> Row]
  /\ \A s \in Seqs : r[s].has # "none" =>
       i # 0 /\ r[s].of = i /\ s \in Said(i) /\ (r[s].has = "empty" => Doomed(i, s))

IsMessage(m) ==
  m = [by |-> m.by, words |-> m.words, edit |-> m.edit, redacted |-> m.redacted, asked |-> m.asked,
       reacts |-> m.reacts]

IsTimeline(t) ==
  t = [msgs |-> t.msgs, unreadable |-> t.unreadable, events |-> t.events, forged |-> t.forged,
       meta |-> t.meta, calls |-> t.calls]

TimelineRight(t, i) ==
  /\ IsTimeline(t)
  /\ \A s \in DOMAIN t.msgs :
       /\ IsMessage(t.msgs[s]) /\ s \in Seqs /\ t.msgs[s].by = entry(i, s).by
       /\ t.msgs[s].redacted => Doomed(i, s)
  /\ \A s \in DOMAIN t.unreadable : s \in Seqs /\ t.unreadable[s] = entry(i, s).by

Current == IF known = 0 THEN 1 ELSE known

ReadTypes ==
  /\ script \in Scripts /\ inst \in 1..Final /\ len \in 0..Len(script.says[inst])
  /\ timers \in [Seqs -> Nat] /\ known \in 0..inst /\ cursor \in Nat
  /\ script.met => known # 0
  /\ told.inst \in 0..inst /\ (~exists => inst < Final)
  /\ foldedLog # NoFold => foldedLog.of \in 1..(Final - 1) /\ foldedLog.len \in 0..Len(script.says[foldedLog.of])
  /\ \A p \in past : \E i \in 1..Final : \E s \in Said(i) : p = <<i, s>> /\ entry(i, s).timed

Fetched(j) ==
  /\ j.since \in Nat /\ j.got.of \in 1..inst /\ j.got.seqs \subseteq Said(j.got.of)
  /\ \A s \in j.got.wiped : <<j.got.of, s>> \in wiped

JobRight ==
  /\ job.at \in {"idle", "told", "again", "info", "fold", "keys"}
  /\ job.at \in {"told", "info", "fold"} => Fetched(job)
  /\ job.at = "told" => known <= job.got.of
  /\ job.at \in {"info", "fold"} =>
       (job.got.seqs # {} => known \in {0, job.got.of}) /\ ~announce /\ told.inst # 0
  /\ job.at = "again" => known = inst /\ inst = Final /\ ~announce /\ told.inst # 0

Covered(n) == n = 0 \/ \E x \in ServedSeqs : n <= x

(* An incarnation that another follows is not mistaken for a former one.   *)
Steady ==
  inst < Final =>
    /\ ~announce /\ Covered(cursor)
    /\ job.at \in {"told", "info", "fold"} =>
         Covered(job.since) /\ job.got.seqs \subseteq ServedSeqs
    /\ job.at = "told" => job.got.last \in Nat /\ job.since <= job.got.last

TimersRight == \A s \in Seqs : timers[s] # 0 => timers[s] = Final /\ known = Final

ReadInv ==
  /\ ReadTypes /\ RowsRight(kept, known) /\ (~announce => TimelineRight(tl, Current))
  /\ JobRight /\ Steady /\ TimersRight

(* The two folds, entry by entry.                                          *)
RowsStep(r, t, n) ==
  IF r[n].has = "none" THEN t ELSE apply(t, n, entry(r[n].of, n), HowHeld(r[n]), script.admins)

RowsFolding(r, g, m) ==
  g = [n \in 0..m |-> IF n = 0 THEN EmptyTimeline ELSE RowsStep(r, g[n - 1], n)]

LEMMA RowsFoldingEnds == ASSUME NEW r, NEW m \in Nat PROVE \E g : RowsFolding(r, g, m)
<1> DEFINE Good == {k \in Nat : \E g : RowsFolding(r, g, k)}
<1>1. 0 \in Good
  <2> DEFINE g == [n \in 0..0 |-> EmptyTimeline]
  <2>1. RowsFolding(r, g, 0)
    BY DEF RowsFolding
  <2> QED
    BY <2>1
<1>2. ASSUME NEW k \in Nat, k \in Good PROVE k + 1 \in Good
  <2>1. PICK g : RowsFolding(r, g, k)
    BY <1>2
  <2> DEFINE next == RowsStep(r, g[k], k + 1)
             h == [n \in 0..(k + 1) |-> IF n = k + 1 THEN next ELSE g[n]]
  <2>2. ASSUME NEW n \in 0..(k + 1)
        PROVE  h[n] = IF n = 0 THEN EmptyTimeline ELSE RowsStep(r, h[n - 1], n)
    <3>1. CASE n = k + 1
      <4>1. h[n] = next /\ n # 0 /\ n - 1 \in 0..(k + 1) /\ n - 1 # k + 1 /\ n - 1 = k
        BY <3>1
      <4>2. h[n - 1] = g[k]
        BY <4>1
      <4> QED
        BY <3>1, <4>1, <4>2
    <3>2. CASE n = 0
      <4>1. g[0] = EmptyTimeline
        BY <2>1 DEF RowsFolding
      <4> QED
        BY <3>2, <4>1
    <3>3. CASE n # k + 1 /\ n # 0
      <4>1. h[n] = g[n] /\ n \in 0..k /\ n - 1 \in 0..(k + 1) /\ n - 1 # k + 1
        BY <3>3
      <4>2. h[n - 1] = g[n - 1]
        BY <4>1
      <4>3. g[n] = RowsStep(r, g[n - 1], n)
        BY <2>1, <3>3, <4>1 DEF RowsFolding
      <4> QED
        BY <3>3, <4>1, <4>2, <4>3
    <3> QED
      BY <3>1, <3>2, <3>3
  <2>3. h = [n \in 0..(k + 1) |-> h[n]]
    OBVIOUS
  <2> HIDE DEF h
  <2>4. RowsFolding(r, h, k + 1)
    BY <2>2, <2>3 DEF RowsFolding
  <2> QED
    BY <2>4
<1> HIDE DEF Good
<1>3. Nat \subseteq Good
  BY <1>1, <1>2, NumberInduction
<1> QED
  BY <1>3 DEF Good

LEMMA FoldRowsSteps ==
    ASSUME NEW r
    PROVE  \E g : /\ fold_rows(r) = g[MaxSeq] /\ g[0] = EmptyTimeline
                  /\ \A n \in 1..MaxSeq : g[n] = RowsStep(r, g[n - 1], n)
<1> DEFINE g == CHOOSE f : RowsFolding(r, f, MaxSeq)
<1>1. RowsFolding(r, g, MaxSeq)
  BY RowsFoldingEnds, ReadingAssumption
<1>2. fold_rows(r) = g[MaxSeq]
  BY DEF fold_rows, RowsFolding, RowsStep
<1> HIDE DEF g
<1>3. g[0] = EmptyTimeline /\ \A n \in 1..MaxSeq : g[n] = RowsStep(r, g[n - 1], n)
  BY <1>1, ReadingAssumption DEF RowsFolding
<1> QED
  BY <1>2, <1>3

EntryStep(got, of, which, st, n) == IF n \in which THEN FoldEntry(st, got, of, n) ELSE st

EntryFolding(st, got, of, which, g, m) ==
  g = [n \in 0..m |-> IF n = 0 THEN st ELSE EntryStep(got, of, which, g[n - 1], n)]

LEMMA EntryFoldingEnds ==
    ASSUME NEW st, NEW got, NEW of, NEW which, NEW m \in Nat
    PROVE  \E g : EntryFolding(st, got, of, which, g, m)
<1> DEFINE Good == {k \in Nat : \E g : EntryFolding(st, got, of, which, g, k)}
<1>1. 0 \in Good
  <2> DEFINE g == [n \in 0..0 |-> st]
  <2>1. EntryFolding(st, got, of, which, g, 0)
    BY DEF EntryFolding
  <2> QED
    BY <2>1
<1>2. ASSUME NEW k \in Nat, k \in Good PROVE k + 1 \in Good
  <2>1. PICK g : EntryFolding(st, got, of, which, g, k)
    BY <1>2
  <2> DEFINE next == EntryStep(got, of, which, g[k], k + 1)
             h == [n \in 0..(k + 1) |-> IF n = k + 1 THEN next ELSE g[n]]
  <2>2. ASSUME NEW n \in 0..(k + 1)
        PROVE  h[n] = IF n = 0 THEN st ELSE EntryStep(got, of, which, h[n - 1], n)
    <3>1. CASE n = k + 1
      <4>1. h[n] = next /\ n # 0 /\ n - 1 \in 0..(k + 1) /\ n - 1 # k + 1 /\ n - 1 = k
        BY <3>1
      <4>2. h[n - 1] = g[k]
        BY <4>1
      <4> QED
        BY <3>1, <4>1, <4>2
    <3>2. CASE n = 0
      <4>1. g[0] = st
        BY <2>1 DEF EntryFolding
      <4> QED
        BY <3>2, <4>1
    <3>3. CASE n # k + 1 /\ n # 0
      <4>1. h[n] = g[n] /\ n \in 0..k /\ n - 1 \in 0..(k + 1) /\ n - 1 # k + 1
        BY <3>3
      <4>2. h[n - 1] = g[n - 1]
        BY <4>1
      <4>3. g[n] = EntryStep(got, of, which, g[n - 1], n)
        BY <2>1, <3>3, <4>1 DEF EntryFolding
      <4> QED
        BY <3>3, <4>1, <4>2, <4>3
    <3> QED
      BY <3>1, <3>2, <3>3
  <2>3. h = [n \in 0..(k + 1) |-> h[n]]
    OBVIOUS
  <2> HIDE DEF h
  <2>4. EntryFolding(st, got, of, which, h, k + 1)
    BY <2>2, <2>3 DEF EntryFolding
  <2> QED
    BY <2>4
<1> HIDE DEF Good
<1>3. Nat \subseteq Good
  BY <1>1, <1>2, NumberInduction
<1> QED
  BY <1>3 DEF Good

LEMMA FoldEntriesSteps ==
    ASSUME NEW st, NEW got, NEW of, NEW which
    PROVE  \E g : /\ fold_entries(st, got, of, which) = g[MaxSeq] /\ g[0] = st
                  /\ \A n \in 1..MaxSeq : g[n] = EntryStep(got, of, which, g[n - 1], n)
<1> DEFINE g == CHOOSE f : EntryFolding(st, got, of, which, f, MaxSeq)
<1>1. EntryFolding(st, got, of, which, g, MaxSeq)
  BY EntryFoldingEnds, ReadingAssumption
<1>2. fold_entries(st, got, of, which) = g[MaxSeq]
  BY DEF fold_entries, EntryFolding, EntryStep
<1> HIDE DEF g
<1>3. g[0] = st /\ \A n \in 1..MaxSeq : g[n] = EntryStep(got, of, which, g[n - 1], n)
  BY <1>1, ReadingAssumption DEF EntryFolding
<1> QED
  BY <1>2, <1>3

(* What is said is of a kind.                                              *)
LEMMA KindOf ==
    ASSUME script \in Scripts, NEW i, i \in 1..Final, NEW s, s \in Said(i)
    PROVE  entry(i, s).is \in Kinds /\ s \in Seqs
<1>1. Len(script.says[i]) \in 0..MaxSeq /\ \A x \in 1..Len(script.says[i]) : script.says[i][x].is \in Kinds
  BY ReadingAssumption DEF Final
<1> QED
  BY <1>1, ReadingAssumption DEF entry, Said, Seqs

(* The timeline: what it shows as deleted was deleted by who may.          *)
LEMMA EmptyRight == ASSUME NEW i PROVE TimelineRight(EmptyTimeline, i)
<1>1. DOMAIN <<>> = {}
  OBVIOUS
<1> QED
  BY <1>1 DEF EmptyTimeline, TimelineRight, IsTimeline

LEMMA WithRight ==
    ASSUME NEW t, NEW i, TimelineRight(t, i), NEW s \in Seqs, NEW m, IsMessage(m),
           m.by = entry(i, s).by, m.redacted => Doomed(i, s)
    PROVE  TimelineRight(With(t, s, m), i)
<1> DEFINE both == Put(t.msgs, s, m)
           u == With(t, s, m)
<1>2. /\ DOMAIN both = {s} \cup DOMAIN t.msgs
      /\ \A x \in DOMAIN both : both[x] = IF x = s THEN m ELSE t.msgs[x]
  BY DEF Put
<1> HIDE DEF both
<1>3. u = [t EXCEPT !.msgs = both]
  BY DEF With, both
<1> HIDE DEF u
<1>4. u.msgs = both /\ u.unreadable = t.unreadable /\ IsTimeline(u)
  BY <1>3 DEF TimelineRight, IsTimeline
<1>5. TimelineRight(u, i)
  BY <1>2, <1>4 DEF TimelineRight
<1> QED
  BY <1>5 DEF u

(* An edit of a message *)
LEMMA Reworded ==
    ASSUME NEW o, IsMessage(o), NEW a, NEW b
    PROVE  /\ IsMessage([o EXCEPT !.words = a, !.edit = b]) /\ [o EXCEPT !.words = a, !.edit = b].by = o.by
           /\ [o EXCEPT !.words = a, !.edit = b].redacted = o.redacted
<1> DEFINE p == [o EXCEPT !.words = a]
           q == [o EXCEPT !.words = a, !.edit = b]
<1>1. PICK c, d, e, f, g, h :
        o = [by |-> c, words |-> d, edit |-> e, redacted |-> f, asked |-> g, reacts |-> h]
  BY DEF IsMessage
<1>2. p = [by |-> c, words |-> a, edit |-> e, redacted |-> f, asked |-> g, reacts |-> h]
  BY <1>1
<1>3. q = [p EXCEPT !.edit = b]
  BY <1>1
<1> HIDE DEF p, q
<1>4. q = [by |-> c, words |-> a, edit |-> b, redacted |-> f, asked |-> g, reacts |-> h]
  BY <1>2, <1>3
<1>5. IsMessage(q) /\ q.by = o.by /\ q.redacted = o.redacted
  BY <1>1, <1>4 DEF IsMessage
<1> QED
  BY <1>5 DEF q

(* A change of what else there is in a timeline                            *)
LEMMA SameMessages ==
    ASSUME NEW t, NEW i, TimelineRight(t, i), NEW u, IsTimeline(u), u.msgs = t.msgs,
           u.unreadable = t.unreadable
    PROVE  TimelineRight(u, i)
  BY DEF TimelineRight

LEMMA ForgetRight ==
    ASSUME NEW t, NEW i, TimelineRight(t, i), NEW out PROVE TimelineRight(forget(t, out), i)
<1> DEFINE u == forget(t, out)
<1>1. /\ IsTimeline(u) /\ u.unreadable = t.unreadable
      /\ u.msgs = [s \in DOMAIN t.msgs \ out |-> t.msgs[s]]
  BY DEF forget, TimelineRight, IsTimeline
<1> HIDE DEF u
<1>2. TimelineRight(u, i)
  BY <1>1 DEF TimelineRight
<1> QED
  BY <1>2 DEF u

LEMMA RedactRight ==
    ASSUME NEW t, NEW i, TimelineRight(t, i), NEW s \in Seqs, s \in Said(i), entry(i, s).is = "redact"
    PROVE  TimelineRight(ApplyRedact(t, s, entry(i, s), script.admins), i)
<1> DEFINE e == entry(i, s)
           x == e.target
           u == ApplyRedact(t, s, e, script.admins)
<1>0. ASSUME NEW whose, whose = entry(i, x).by, MayDelete(whose, e.by, script.admins), x \in Seqs
      PROVE  Doomed(i, x)
  <2>1. e.by \in script.admins \cup {entry(i, x).by}
    BY <1>0 DEF MayDelete
  <2>2. s \in Redactors(i, x)
    BY <2>1 DEF Redactors, Entry, Said
  <2> QED
    BY <2>2 DEF Doomed
<1>1. CASE x \in DOMAIN t.msgs /\ MayDelete(t.msgs[x].by, e.by, script.admins)
  <2> DEFINE m == Redacted(t.msgs[x])
  <2>1. IsMessage(t.msgs[x]) /\ x \in Seqs /\ t.msgs[x].by = entry(i, x).by
    BY <1>1 DEF TimelineRight
  <2>2. IsMessage(m) /\ m.by = entry(i, x).by
    BY <2>1 DEF IsMessage, Redacted
  <2>3. Doomed(i, x)
    BY <1>0, <1>1, <2>1
  <2>4. u = With(t, x, m)
    BY <1>1 DEF ApplyRedact
  <2> HIDE DEF m, u
  <2>5. TimelineRight(With(t, x, m), i)
    BY <2>1, <2>2, <2>3, WithRight
  <2> QED
    BY <2>4, <2>5 DEF u
<1>2. CASE /\ x \notin DOMAIN t.msgs /\ x \in DOMAIN t.unreadable
           /\ MayDelete(t.unreadable[x], e.by, script.admins)
  <2> DEFINE m == Shows(t.unreadable[x], 0, TRUE, TRUE)
             v == [t EXCEPT !.unreadable = Drop(@, x)]
  <2>1. x \in Seqs /\ t.unreadable[x] = entry(i, x).by
    BY <1>2 DEF TimelineRight
  <2>2. IsMessage(m) /\ m.by = entry(i, x).by
    BY <2>1 DEF IsMessage, Shows
  <2>3. Doomed(i, x)
    BY <1>0, <1>2, <2>1
  <2>4. u = With(v, x, m)
    BY <1>2 DEF ApplyRedact
  <2>5. /\ IsTimeline(v) /\ v.msgs = t.msgs
        /\ v.unreadable = [y \in DOMAIN t.unreadable \ {x} |-> t.unreadable[y]]
    BY DEF TimelineRight, IsTimeline, Drop
  <2> HIDE DEF m, u, v
  <2>6. TimelineRight(v, i)
    BY <2>5 DEF TimelineRight
  <2>7. TimelineRight(With(v, x, m), i)
    BY <2>1, <2>2, <2>3, <2>6, WithRight
  <2> QED
    BY <2>4, <2>7 DEF u
<1>3. CASE ~ (x \in DOMAIN t.msgs /\ MayDelete(t.msgs[x].by, e.by, script.admins))
           /\ ~ (/\ x \notin DOMAIN t.msgs /\ x \in DOMAIN t.unreadable
                 /\ MayDelete(t.unreadable[x], e.by, script.admins))
  <2>1. u = t
    BY <1>3 DEF ApplyRedact
  <2> QED
    BY <2>1
<1> QED
  BY <1>1, <1>2, <1>3

LEMMA ApplyRight ==
    ASSUME NEW t, NEW i, TimelineRight(t, i), NEW s \in Seqs, s \in Said(i), entry(i, s).is \in Kinds,
           NEW how \in {"words", "tombstone", "sealed", "forged"}, how = "tombstone" => Doomed(i, s)
    PROVE  TimelineRight(apply(t, s, entry(i, s), how, script.admins), i)
<1> DEFINE e == entry(i, s)
           u == apply(t, s, e, how, script.admins)
<1>1. CASE how = "forged"
  <2>1. u = [t EXCEPT !.forged = @ \cup {s}]
    BY <1>1 DEF apply
  <2>2. IsTimeline(u) /\ u.msgs = t.msgs /\ u.unreadable = t.unreadable
    BY <2>1 DEF TimelineRight, IsTimeline
  <2> QED
    BY <2>2, SameMessages
<1>2. CASE how # "forged" /\ e.is = "system"
  <2>1. u = [t EXCEPT !.events = @ \cup {s}]
    BY <1>2 DEF apply
  <2>2. IsTimeline(u) /\ u.msgs = t.msgs /\ u.unreadable = t.unreadable
    BY <2>1 DEF TimelineRight, IsTimeline
  <2> QED
    BY <2>2, SameMessages
<1>3. CASE how = "tombstone" /\ e.is # "system"
  <2>1. u = With(t, s, Shows(e.by, 0, TRUE, FALSE))
    BY <1>3 DEF apply
  <2>2. IsMessage(Shows(e.by, 0, TRUE, FALSE)) /\ Shows(e.by, 0, TRUE, FALSE).by = e.by
    BY DEF Shows, IsMessage
  <2>3. TimelineRight(With(t, s, Shows(e.by, 0, TRUE, FALSE)), i)
    BY <1>3, <2>2, WithRight
  <2> QED
    BY <2>1, <2>3
<1>4. CASE how = "sealed" /\ e.is # "system"
  <2> DEFINE both == Put(t.unreadable, s, e.by)
  <2>2. /\ DOMAIN both = {s} \cup DOMAIN t.unreadable
        /\ \A x \in DOMAIN both : both[x] = IF x = s THEN e.by ELSE t.unreadable[x]
    BY DEF Put
  <2>3. u = [t EXCEPT !.unreadable = both]
    BY <1>4 DEF apply
  <2> HIDE DEF both, u
  <2>4. IsTimeline(u) /\ u.msgs = t.msgs /\ u.unreadable = both
    BY <2>3 DEF TimelineRight, IsTimeline
  <2>5. TimelineRight(u, i)
    BY <2>2, <2>4 DEF TimelineRight
  <2> QED
    BY <2>5 DEF u
<1>5. CASE how = "words" /\ e.is # "system"
  <2>0. u = ApplyBody(t, s, e, script.admins)
    BY <1>5 DEF apply
  <2>1. CASE e.is = "post"
    <3>1. u = With(t, s, Shows(e.by, s, FALSE, FALSE))
      BY <2>0, <2>1 DEF ApplyBody, ApplyPost
    <3>2. /\ IsMessage(Shows(e.by, s, FALSE, FALSE)) /\ Shows(e.by, s, FALSE, FALSE).by = e.by
          /\ Shows(e.by, s, FALSE, FALSE).redacted = FALSE
      BY DEF Shows, IsMessage
    <3>3. TimelineRight(With(t, s, Shows(e.by, s, FALSE, FALSE)), i)
      BY <3>2, WithRight
    <3> QED
      BY <3>1, <3>3
  <2>2. CASE e.is = "edit"
    <3>1. u = ApplyEdit(t, s, e)
      BY <2>0, <2>2 DEF ApplyBody
    <3>2. CASE e.target \in DOMAIN t.msgs /\ Edits(t.msgs[e.target], s, e)
      <4> DEFINE x == e.target
                 m == [t.msgs[x] EXCEPT !.words = s, !.edit = s]
      <4>1. /\ IsMessage(t.msgs[x]) /\ x \in Seqs /\ t.msgs[x].by = entry(i, x).by
            /\ t.msgs[x].redacted => Doomed(i, x)
        BY <3>2 DEF TimelineRight
      <4>2. IsMessage(m) /\ m.by = entry(i, x).by /\ m.redacted = t.msgs[x].redacted
        <5> DEFINE o == t.msgs[x]
        <5>1. IsMessage(o)
          BY <4>1
        <5> HIDE DEF o
        <5>2. /\ IsMessage([o EXCEPT !.words = s, !.edit = s]) /\ [o EXCEPT !.words = s, !.edit = s].by = o.by
              /\ [o EXCEPT !.words = s, !.edit = s].redacted = o.redacted
          BY <5>1, Reworded
        <5> QED
          BY <4>1, <5>2 DEF o
      <4>3. u = With(t, x, m)
        BY <3>1, <3>2 DEF ApplyEdit
      <4> HIDE DEF m
      <4>4. TimelineRight(With(t, x, m), i)
        BY <4>1, <4>2, WithRight
      <4> QED
        BY <4>3, <4>4
    <3>3. CASE ~ (e.target \in DOMAIN t.msgs /\ Edits(t.msgs[e.target], s, e))
      <4>1. u = t
        BY <3>1, <3>3 DEF ApplyEdit
      <4> QED
        BY <4>1
    <3> QED
      BY <3>2, <3>3
  <2>3. CASE e.is = "redact"
    <3>1. u = ApplyRedact(t, s, e, script.admins)
      BY <2>0, <2>3 DEF ApplyBody
    <3> QED
      BY <2>3, <3>1, RedactRight
  <2>4. CASE e.is \in {"react", "unreact"}
    <3>1. u = ApplyReaction(t, s, e)
      BY <2>0, <2>4 DEF ApplyBody
    <3>2. CASE e.target \in DOMAIN t.msgs
      <4> DEFINE x == e.target
                 m == [t.msgs[x] EXCEPT
                         !.reacts = IF e.is = "react" THEN @ \cup {e.by} ELSE @ \ {e.by}]
      <4>1. /\ IsMessage(t.msgs[x]) /\ x \in Seqs /\ t.msgs[x].by = entry(i, x).by
            /\ t.msgs[x].redacted => Doomed(i, x)
        BY <3>2 DEF TimelineRight
      <4>2. IsMessage(m) /\ m.by = entry(i, x).by /\ m.redacted = t.msgs[x].redacted
        BY <4>1 DEF IsMessage
      <4>3. u = With(t, x, m)
        BY <3>1, <3>2 DEF ApplyReaction
      <4> HIDE DEF m
      <4>4. TimelineRight(With(t, x, m), i)
        BY <4>1, <4>2, WithRight
      <4> QED
        BY <4>3, <4>4
    <3>3. CASE e.target \notin DOMAIN t.msgs
      <4>1. u = t
        BY <3>1, <3>3 DEF ApplyReaction
      <4> QED
        BY <4>1
    <3> QED
      BY <3>2, <3>3
  <2>5. CASE e.is \in {"meta", "call", "end"}
    <3>1. u = t \/ (\E n : u = [t EXCEPT !.meta = n]) \/ (\E f : u = [t EXCEPT !.calls = f])
      BY <2>0, <2>5 DEF ApplyBody, ApplyMetadata, ApplyCall, ApplyCallEnd
    <3>2. IsTimeline(u) /\ u.msgs = t.msgs /\ u.unreadable = t.unreadable
      BY <3>1 DEF TimelineRight, IsTimeline
    <3> QED
      BY <3>2, SameMessages
  <2> QED
    BY <1>5, <2>1, <2>2, <2>3, <2>4, <2>5 DEF Kinds
<1> QED
  BY <1>1, <1>2, <1>3, <1>4, <1>5

(* What is kept of the rows                                                *)
LEMMA FoldRowsRight ==
    ASSUME NEW r, NEW i, RowsRight(r, i), i = 0 \/ i \in 1..Final, script \in Scripts
    PROVE  TimelineRight(fold_rows(r), i)
<1>1. PICK g : /\ fold_rows(r) = g[MaxSeq] /\ g[0] = EmptyTimeline
               /\ \A n \in 1..MaxSeq : g[n] = RowsStep(r, g[n - 1], n)
  BY FoldRowsSteps
<1> DEFINE Good == {n \in Nat : n <= MaxSeq => TimelineRight(g[n], i)}
<1>2. 0 \in Good
  BY <1>1, EmptyRight
<1>3. ASSUME NEW n \in Nat, n \in Good PROVE n + 1 \in Good
  <2> SUFFICES ASSUME n + 1 <= MaxSeq PROVE TimelineRight(g[n + 1], i)
    OBVIOUS
  <2> DEFINE s == n + 1
             t == g[n]
  <2>1. s \in Seqs /\ TimelineRight(t, i) /\ g[s] = RowsStep(r, t, s)
    BY <1>1, <1>3, ReadingAssumption DEF Seqs
  <2> HIDE DEF s, t
  <2>2. CASE r[s].has = "none"
    BY <2>1, <2>2 DEF RowsStep, s
  <2>3. CASE r[s].has # "none"
    <3>1. /\ r[s].of = i /\ s \in Said(i) /\ (r[s].has = "empty" => Doomed(i, s))
          /\ r[s].has \in {"words", "null", "empty"} /\ i # 0
      BY <2>1, <2>3 DEF RowsRight, Row
    <3>2. g[s] = apply(t, s, entry(i, s), HowHeld(r[s]), script.admins)
      BY <2>1, <2>3, <3>1 DEF RowsStep
    <3>3. HowHeld(r[s]) \in {"words", "tombstone", "sealed", "forged"}
          /\ (HowHeld(r[s]) = "tombstone" => r[s].has = "empty")
      BY <3>1 DEF HowHeld
    <3>4. entry(i, s).is \in Kinds
      BY <3>1, KindOf
    <3> DEFINE how == HowHeld(r[s])
    <3>5. how \in {"words", "tombstone", "sealed", "forged"} /\ (how = "tombstone" => Doomed(i, s))
      BY <3>1, <3>3
    <3>6. g[s] = apply(t, s, entry(i, s), how, script.admins)
      BY <3>2
    <3> HIDE DEF how
    <3>7. TimelineRight(apply(t, s, entry(i, s), how, script.admins), i)
      BY <2>1, <3>1, <3>4, <3>5, ApplyRight
    <3> QED
      BY <3>6, <3>7 DEF s
  <2> QED
    BY <2>2, <2>3
<1> HIDE DEF Good
<1>4. Nat \subseteq Good
  BY <1>2, <1>3, NumberInduction
<1>5. MaxSeq \in Good
  BY <1>4, ReadingAssumption
<1> QED
  BY <1>1, <1>5, ReadingAssumption DEF Good

(* What has words in `r` has them in `q`, or was emptied there.            *)
Spared(r, q) ==
  \A s \in Seqs : r[s].has = "words" => q[s] \in {r[s], [of |-> r[s].of, has |-> "empty"]}

LEMMA PutSpares ==
    ASSUME NEW q \in [Seqs -> Row], NEW r, Spared(r, q), NEW s, NEW i \in Nat,
           NEW has \in {"words", "null", "empty"}
    PROVE  /\ put_message(q, s, i, has) \in [Seqs -> Row] /\ Spared(r, put_message(q, s, i, has))
           /\ \A x \in Seqs : put_message(q, s, i, has)[x] \in {q[x], [of |-> i, has |-> has]}
           /\ \A x \in Seqs \ {s} : put_message(q, s, i, has)[x] = q[x]
<1> DEFINE p == put_message(q, s, i, has)
           new == [of |-> i, has |-> has]
<1>1. new \in Row
  BY DEF Row
<1>2. p = [q EXCEPT ![s] = IF @.has \in {"none", "null"} THEN new ELSE @]
  BY DEF put_message
<1> HIDE DEF p
<1>3. /\ p \in [Seqs -> Row]
      /\ \A x \in Seqs : p[x] = IF x = s /\ q[x].has \in {"none", "null"} THEN new ELSE q[x]
  BY <1>1, <1>2
<1>4. ASSUME NEW x \in Seqs, r[x].has = "words" PROVE p[x] \in {r[x], [of |-> r[x].of, has |-> "empty"]}
  <2>1. q[x].has \in {"words", "empty"}
    BY <1>4 DEF Spared
  <2>2. p[x] = q[x]
    BY <1>3, <2>1
  <2> QED
    BY <1>4, <2>2 DEF Spared
<1>5. Spared(r, p)
  BY <1>4 DEF Spared
<1> QED
  BY <1>3, <1>5 DEF p

LEMMA RedactSpares ==
    ASSUME NEW q \in [Seqs -> Row], NEW r, Spared(r, q), NEW s
    PROVE  /\ redact_message(q, s) \in [Seqs -> Row] /\ Spared(r, redact_message(q, s))
           /\ \A x \in Seqs \ {s} : redact_message(q, s)[x] = q[x]
           /\ s \in Seqs => redact_message(q, s)[s] =
                              IF q[s].has = "none" THEN q[s] ELSE [of |-> q[s].of, has |-> "empty"]
<1> DEFINE p == redact_message(q, s)
<1>1. p = [q EXCEPT ![s] = IF @.has = "none" THEN @ ELSE [@ EXCEPT !.has = "empty"]]
  BY DEF redact_message
<1> HIDE DEF p
<1>2. \A x \in Seqs : /\ q[x] \in Row /\ [q[x] EXCEPT !.has = "empty"] = [of |-> q[x].of, has |-> "empty"]
                      /\ [of |-> q[x].of, has |-> "empty"] \in Row
  BY DEF Row
<1>3. /\ p \in [Seqs -> Row]
      /\ \A x \in Seqs : p[x] = IF x = s /\ q[x].has # "none" THEN [of |-> q[x].of, has |-> "empty"] ELSE q[x]
  BY <1>1, <1>2
<1>4. ASSUME NEW x \in Seqs, r[x].has = "words" PROVE p[x] \in {r[x], [of |-> r[x].of, has |-> "empty"]}
  <2>1. q[x] \in {r[x], [of |-> r[x].of, has |-> "empty"]}
    BY <1>4 DEF Spared
  <2>2. q[x].of = r[x].of
    BY <2>1
  <2> QED
    BY <1>3, <2>1, <2>2
<1>5. Spared(r, p)
  BY <1>4 DEF Spared
<1> QED
  BY <1>3, <1>5 DEF p

(* An entry of a fold: the state it leaves, for entries of any incarnation *)
(* `i`, from rows `r` and timers `tm`.                                     *)
IsState(st) ==
  st = [kept |-> st.kept, spent |-> st.spent, timers |-> st.timers, tl |-> st.tl, late |-> st.late]

StateWell(st, r, tm, i) ==
  /\ IsState(st) /\ st.kept \in [Seqs -> Row] /\ Spared(r, st.kept) /\ st.timers \in [Seqs -> Nat]
  /\ \A s \in Seqs : st.timers[s] # tm[s] => st.timers[s] = i /\ s \in Said(i) /\ entry(i, s).timed

LEMMA FoldEntryWell ==
    ASSUME NEW st, NEW r, NEW tm, NEW got, got.of \in Nat, StateWell(st, r, tm, got.of), NEW of,
           NEW s \in Seqs, s \in Said(got.of)
    PROVE  StateWell(FoldEntry(st, got, of, s), r, tm, got.of)
<1> DEFINE i == got.of
           e == entry(i, s)
           opened == record_seen(st, got, s)
           u == FoldEntry(st, got, of, s)
<1>0. i \in Nat /\ StateWell(st, r, tm, i)
  OBVIOUS
<1>1. /\ IsState(opened) /\ opened.kept = st.kept /\ opened.timers = st.timers /\ opened.tl = st.tl
  BY DEF record_seen, StateWell, IsState
<1>2. StateWell(opened, r, tm, i)
  BY <1>1 DEF StateWell
<1>3. CASE u = st
  BY <1>0, <1>3
<1>4. CASE u = [opened EXCEPT !.tl = apply(@, s, e, "forged", script.admins)]
  <2> HIDE DEF u, opened
  <2>1. IsState(u) /\ u.kept = opened.kept /\ u.timers = opened.timers
    BY <1>1, <1>4 DEF IsState
  <2>2. StateWell(u, r, tm, i)
    BY <1>2, <2>1 DEF StateWell
  <2> QED
    BY <2>2 DEF u
<1>5. CASE u = opened
  BY <1>2, <1>5
<1>6. CASE u = Apply(Keep(opened, got, s), got, s)
  <2> DEFINE how == How(got, s)
             stored == put_message(opened.kept, s, i, AsKept(how))
             q == IF how = "tombstone" THEN redact_message(stored, s) ELSE stored
             tms == IF e.timed THEN [opened.timers EXCEPT ![s] = i] ELSE opened.timers
             k == Keep(opened, got, s)
  <2>1. AsKept(how) \in {"words", "null", "empty"}
    BY DEF How, AsKept
  <2>2. stored \in [Seqs -> Row] /\ Spared(r, stored)
    <3> DEFINE has == AsKept(how)
    <3>1. has \in {"words", "null", "empty"}
      BY <2>1
    <3>2. opened.kept \in [Seqs -> Row] /\ Spared(r, opened.kept)
      BY <1>2 DEF StateWell
    <3> HIDE DEF has
    <3>3. /\ put_message(opened.kept, s, i, has) \in [Seqs -> Row]
          /\ Spared(r, put_message(opened.kept, s, i, has))
      BY <1>0, <3>1, <3>2, PutSpares
    <3> QED
      BY <3>3 DEF has
  <2> HIDE DEF stored
  <2>3. q \in [Seqs -> Row] /\ Spared(r, q)
    BY <2>2, RedactSpares
  <2>4. tms \in [Seqs -> Nat]
        /\ \A x \in Seqs : tms[x] # tm[x] => tms[x] = i /\ x \in Said(i) /\ entry(i, x).timed
    BY <1>0, <1>2 DEF StateWell
  <2>5. k = [opened EXCEPT !.kept = q, !.timers = tms]
    BY DEF Keep, stored
  <2> HIDE DEF q, tms, how, opened, k
  <2>6. IsState(k) /\ k.kept = q /\ k.timers = tms
    BY <1>1, <2>5 DEF IsState
  <2>7. IsState(u) /\ u.timers = k.timers /\ u.kept \in {k.kept, redact_message(k.kept, e.target)}
    <3>1. u = Apply(k, got, s)
      BY <1>6 DEF k
    <3> HIDE DEF u
    <3> QED
      BY <2>6, <3>1 DEF Apply, IsState
  <2> HIDE DEF u
  <2>8. u.kept \in [Seqs -> Row] /\ Spared(r, u.kept)
    <3>1. CASE u.kept = k.kept
      BY <2>3, <2>6, <3>1
    <3>2. CASE u.kept = redact_message(k.kept, e.target)
      <4> DEFINE x == e.target
      <4>1. k.kept \in [Seqs -> Row] /\ Spared(r, k.kept)
        BY <2>3, <2>6
      <4> HIDE DEF x
      <4>2. redact_message(k.kept, x) \in [Seqs -> Row] /\ Spared(r, redact_message(k.kept, x))
        BY <4>1, RedactSpares
      <4> QED
        BY <3>2, <4>2 DEF x
    <3> QED
      BY <2>7, <3>1, <3>2
  <2>9. StateWell(u, r, tm, i)
    BY <2>4, <2>6, <2>7, <2>8 DEF StateWell
  <2> QED
    BY <2>9 DEF u
<1>7. u = st \/ u = [opened EXCEPT !.tl = apply(@, s, e, "forged", script.admins)]
      \/ u = opened \/ u = Apply(Keep(opened, got, s), got, s)
  BY DEF FoldEntry
<1> QED
  BY <1>3, <1>4, <1>5, <1>6, <1>7

(* Of the incarnation the rows are of: the rows and the timeline stay right. *)
LEMMA FoldEntryRight ==
    ASSUME NEW st, NEW r, NEW tm, NEW got, got.of \in Nat \ {0}, StateWell(st, r, tm, got.of), NEW of,
           NEW s \in Seqs, s \in Said(got.of), got.of \in 1..Final, script \in Scripts,
           \A x \in got.wiped : <<got.of, x>> \in wiped,
           RowsRight(st.kept, got.of), TimelineRight(st.tl, got.of)
    PROVE  /\ RowsRight(FoldEntry(st, got, of, s).kept, got.of)
           /\ TimelineRight(FoldEntry(st, got, of, s).tl, got.of)
<1> DEFINE i == got.of
           e == entry(i, s)
           opened == record_seen(st, got, s)
           u == FoldEntry(st, got, of, s)
<1>0. i \in Nat \ {0} /\ RowsRight(st.kept, i) /\ TimelineRight(st.tl, i) /\ e.is \in Kinds /\ s \in Said(i)
  BY KindOf
<1>1. IsState(opened) /\ opened.kept = st.kept /\ opened.tl = st.tl
  BY DEF record_seen, StateWell, IsState
<1>3. CASE u = st
  BY <1>3
<1>4. CASE u = [opened EXCEPT !.tl = apply(@, s, e, "forged", script.admins)]
  <2>1. TimelineRight(apply(st.tl, s, e, "forged", script.admins), i)
    BY <1>0, ApplyRight
  <2> HIDE DEF u, opened
  <2>2. u.kept = st.kept /\ u.tl = apply(st.tl, s, e, "forged", script.admins)
    BY <1>1, <1>4 DEF IsState
  <2> QED
    BY <1>0, <2>1, <2>2 DEF u
<1>5. CASE u = opened
  BY <1>0, <1>1, <1>5
<1>6. CASE u = Apply(Keep(opened, got, s), got, s)
  <2> DEFINE how == How(got, s)
             has == AsKept(how)
             stored == put_message(opened.kept, s, i, has)
             q == IF how = "tombstone" THEN redact_message(stored, s) ELSE stored
             k == Keep(opened, got, s)
             t == apply(st.tl, s, e, how, script.admins)
             honoured == e.is = "redact" /\ how = "words" /\ e.target \in Deleted(t)
  <2>1. /\ how \in {"words", "tombstone", "sealed", "forged"} /\ has \in {"words", "null", "empty"}
        /\ how = "tombstone" => s \in got.wiped
        /\ has = "empty" => how = "tombstone"
    BY DEF How, AsKept
  <2>2. how = "tombstone" => Doomed(i, s)
    BY <2>1 DEF Doomed
  <2>3. k.kept = q /\ IsState(k) /\ k.tl = st.tl
    <3>1. k = [opened EXCEPT !.kept = q, !.timers = k.timers]
      <4>1. k = [opened EXCEPT !.kept = q,
                   !.timers = IF e.timed THEN [opened.timers EXCEPT ![s] = i] ELSE opened.timers]
        BY DEF Keep
      <4> HIDE DEF q, opened, k
      <4> QED
        BY <1>1, <4>1 DEF IsState
    <3> HIDE DEF q, opened, k
    <3> QED
      BY <1>1, <3>1 DEF IsState
  <2>4. u = [k EXCEPT !.tl = t, !.kept = IF honoured THEN redact_message(k.kept, e.target) ELSE k.kept,
                      !.late = [is |-> k.late.is \/ (how = "words" /\ s < k.late.top),
                                top |-> Max({k.late.top, s})]]
    BY <1>6, <2>3 DEF Apply
  <2>5. u.tl = t /\ u.kept = IF honoured THEN redact_message(q, e.target) ELSE q
    <3> HIDE DEF q, t, k, u, honoured
    <3> QED
      BY <2>3, <2>4 DEF IsState
  <2> HIDE DEF how, has
  <2>6. TimelineRight(t, i)
    BY <1>0, <2>1, <2>2, ApplyRight
  <2>7. RowsRight(q, i)
    <3>0. opened.kept \in [Seqs -> Row] /\ RowsRight(opened.kept, i) /\ Spared(opened.kept, opened.kept)
      BY <1>0, <1>1 DEF RowsRight, Spared
    <3>1. /\ stored \in [Seqs -> Row] /\ \A x \in Seqs \ {s} : stored[x] = opened.kept[x]
          /\ \A x \in Seqs : stored[x] \in {opened.kept[x], [of |-> i, has |-> has]}
      <4> HIDE DEF opened
      <4> QED
        BY <1>0, <2>1, <3>0, PutSpares
    <3> HIDE DEF stored
    <3>2. RowsRight(stored, i)
      <4> SUFFICES ASSUME NEW x \in Seqs, stored[x].has # "none"
                   PROVE  stored[x].of = i /\ x \in Said(i) /\ (stored[x].has = "empty" => Doomed(i, x))
        BY <1>0, <3>1 DEF RowsRight
      <4>1. CASE stored[x] = opened.kept[x]
        BY <3>0, <4>1 DEF RowsRight
      <4>2. CASE x = s /\ stored[x] = [of |-> i, has |-> has]
        BY <1>0, <2>1, <2>2, <4>2
      <4> QED
        BY <3>1, <4>1, <4>2
    <3>3. CASE how = "tombstone"
      <4>1. /\ redact_message(stored, s) \in [Seqs -> Row]
            /\ \A x \in Seqs \ {s} : redact_message(stored, s)[x] = stored[x]
            /\ redact_message(stored, s)[s] = IF stored[s].has = "none" THEN stored[s]
                                              ELSE [of |-> stored[s].of, has |-> "empty"]
        <5>1. Spared(stored, stored)
          BY DEF Spared
        <5> QED
          BY <3>1, <5>1, RedactSpares
      <4>2. RowsRight(redact_message(stored, s), i)
        <5> DEFINE p == redact_message(stored, s)
        <5> HIDE DEF p
        <5> QED
          BY <1>0, <2>2, <3>2, <3>3, <4>1 DEF RowsRight, p
      <4> QED
        BY <3>3, <4>2
    <3>4. CASE how # "tombstone"
      BY <3>2, <3>4
    <3> QED
      BY <3>3, <3>4
  <2> HIDE DEF q, t
  <2>8. CASE honoured
    <3> DEFINE x == e.target
               p == redact_message(q, x)
    <3>1. x \in DOMAIN t.msgs /\ t.msgs[x].redacted
      BY <2>8 DEF Deleted
    <3>2. x \in Seqs /\ Doomed(i, x)
      BY <2>6, <3>1 DEF TimelineRight
    <3>3. q \in [Seqs -> Row] /\ Spared(q, q)
      BY <2>7 DEF RowsRight, Spared
    <3>4. /\ p \in [Seqs -> Row] /\ \A y \in Seqs \ {x} : p[y] = q[y]
          /\ p[x] = IF q[x].has = "none" THEN q[x] ELSE [of |-> q[x].of, has |-> "empty"]
      BY <3>2, <3>3, RedactSpares
    <3>5. u.kept = p
      BY <2>5, <2>8
    <3> HIDE DEF p, u
    <3>6. RowsRight(p, i)
      BY <1>0, <2>7, <3>2, <3>4 DEF RowsRight
    <3> QED
      BY <2>5, <2>6, <3>5, <3>6 DEF u
  <2>9. CASE ~honoured
    BY <2>5, <2>6, <2>7, <2>9
  <2> QED
    BY <2>8, <2>9
<1>7. u = st \/ u = [opened EXCEPT !.tl = apply(@, s, e, "forged", script.admins)]
      \/ u = opened \/ u = Apply(Keep(opened, got, s), got, s)
  BY DEF FoldEntry
<1> QED
  BY <1>3, <1>4, <1>5, <1>6, <1>7

LEMMA FoldWell ==
    ASSUME NEW st, NEW r, NEW tm, NEW got, got.of \in Nat, StateWell(st, r, tm, got.of), NEW of,
           NEW which, which \subseteq Said(got.of)
    PROVE  StateWell(fold_entries(st, got, of, which), r, tm, got.of)
<1>1. PICK g : /\ fold_entries(st, got, of, which) = g[MaxSeq] /\ g[0] = st
               /\ \A n \in 1..MaxSeq : g[n] = EntryStep(got, of, which, g[n - 1], n)
  BY ONLY FoldEntriesSteps
<1> DEFINE Good == {n \in Nat : n <= MaxSeq => StateWell(g[n], r, tm, got.of)}
<1>2. 0 \in Good
  BY <1>1
<1>3. ASSUME NEW n \in Nat, n \in Good PROVE n + 1 \in Good
  <2> SUFFICES ASSUME n + 1 <= MaxSeq PROVE StateWell(g[n + 1], r, tm, got.of)
    OBVIOUS
  <2> DEFINE s == n + 1
             x == g[n]
  <2>1. s \in Seqs /\ StateWell(x, r, tm, got.of) /\ g[s] = EntryStep(got, of, which, x, s)
    BY <1>1, <1>3, ReadingAssumption DEF Seqs
  <2> HIDE DEF s, x
  <2>2. CASE s \in which
    <3>1. StateWell(FoldEntry(x, got, of, s), r, tm, got.of)
      BY <2>1, <2>2, FoldEntryWell
    <3> QED
      BY <2>1, <2>2, <3>1 DEF EntryStep, s
  <2>3. CASE s \notin which
    BY <2>1, <2>3 DEF EntryStep, s
  <2> QED
    BY <2>2, <2>3
<1> HIDE DEF Good
<1>4. Nat \subseteq Good
  BY <1>2, <1>3, NumberInduction
<1>5. MaxSeq \in Good
  BY <1>4, ReadingAssumption
<1> QED
  BY <1>1, <1>5, ReadingAssumption DEF Good

LEMMA FoldStaysRight ==
    ASSUME NEW st, NEW r, NEW tm, NEW got, StateWell(st, r, tm, got.of), NEW of,
           NEW which, which \subseteq Said(got.of), got.of \in 1..Final, script \in Scripts,
           \A x \in got.wiped : <<got.of, x>> \in wiped,
           RowsRight(st.kept, got.of), TimelineRight(st.tl, got.of)
    PROVE  /\ RowsRight(fold_entries(st, got, of, which).kept, got.of)
           /\ TimelineRight(fold_entries(st, got, of, which).tl, got.of)
<1>1. PICK g : /\ fold_entries(st, got, of, which) = g[MaxSeq] /\ g[0] = st
               /\ \A n \in 1..MaxSeq : g[n] = EntryStep(got, of, which, g[n - 1], n)
  BY FoldEntriesSteps
<1>0. got.of \in Nat \ {0}
  BY ReadingAssumption DEF Final
<1> DEFINE Right(x) == /\ StateWell(x, r, tm, got.of) /\ RowsRight(x.kept, got.of)
                       /\ TimelineRight(x.tl, got.of)
           Good == {n \in Nat : n <= MaxSeq => Right(g[n])}
<1>2. 0 \in Good
  BY <1>1
<1>3. ASSUME NEW n \in Nat, n \in Good PROVE n + 1 \in Good
  <2> SUFFICES ASSUME n + 1 <= MaxSeq PROVE Right(g[n + 1])
    OBVIOUS
  <2> DEFINE s == n + 1
             x == g[n]
  <2>1. /\ s \in Seqs /\ g[s] = EntryStep(got, of, which, x, s)
        /\ StateWell(x, r, tm, got.of) /\ RowsRight(x.kept, got.of) /\ TimelineRight(x.tl, got.of)
    BY <1>1, <1>3, ReadingAssumption DEF Seqs
  <2> HIDE DEF s, x
  <2>2. CASE s \in which
    <3> DEFINE y == FoldEntry(x, got, of, s)
    <3>0. s \in Said(got.of)
      BY <2>2
    <3>1. StateWell(y, r, tm, got.of)
      BY <1>0, <2>1, <3>0, FoldEntryWell
    <3>2. RowsRight(y.kept, got.of) /\ TimelineRight(y.tl, got.of)
      BY <1>0, <2>1, <3>0, FoldEntryRight
    <3>3. g[s] = y
      BY <2>1, <2>2 DEF EntryStep
    <3> HIDE DEF y
    <3> QED
      BY <3>1, <3>2, <3>3 DEF s
  <2>3. CASE s \notin which
    BY <2>1, <2>3 DEF EntryStep, s
  <2> QED
    BY <2>2, <2>3
<1> HIDE DEF Good
<1>4. Nat \subseteq Good
  BY <1>2, <1>3, NumberInduction
<1>5. MaxSeq \in Good
  BY <1>4, ReadingAssumption
<1> QED
  BY <1>1, <1>5, ReadingAssumption DEF Good

LEMMA FoldOfNothing ==
    ASSUME NEW st, NEW got, NEW of PROVE fold_entries(st, got, of, {}) = st
<1>1. PICK g : /\ fold_entries(st, got, of, {}) = g[MaxSeq] /\ g[0] = st
               /\ \A n \in 1..MaxSeq : g[n] = EntryStep(got, of, {}, g[n - 1], n)
  BY FoldEntriesSteps
<1> DEFINE Good == {n \in Nat : n <= MaxSeq => g[n] = st}
<1>2. 0 \in Good
  BY <1>1
<1>3. ASSUME NEW n \in Nat, n \in Good PROVE n + 1 \in Good
  <2>1. n + 1 <= MaxSeq => n + 1 \in 1..MaxSeq /\ n + 1 - 1 = n /\ g[n] = st
    BY <1>3, ReadingAssumption
  <2> QED
    BY <1>1, <2>1 DEF EntryStep
<1> HIDE DEF Good
<1>4. Nat \subseteq Good
  BY <1>2, <1>3, NumberInduction
<1>5. MaxSeq \in Good
  BY <1>4, ReadingAssumption
<1> QED
  BY <1>1, <1>5, ReadingAssumption DEF Good

(* The greatest of a few numbers, and the least                            *)
LEMMA GreatestIs ==
    ASSUME NEW T, T \subseteq Nat, T # {}, NEW b \in Nat, \A x \in T : x <= b
    PROVE  Max(T) \in T /\ \A x \in T : x <= Max(T)
<1>1. \E x \in T : \A y \in T : y <= x
  BY GreatestBelow
<1> QED
  BY <1>1 DEF Max

LEMMA LeastIs ==
    ASSUME NEW T, T \subseteq Nat, T # {} PROVE Min(T) \in T /\ \A x \in T : Min(T) <= x
<1>1. \E x \in T : \A y \in T : x <= y
  BY LeastNumber
<1> QED
  BY <1>1 DEF Min

(* Who may delete may delete later too.                                    *)
LEMMA RowsStay ==
    ASSUME NEW CONSTANT r, NEW CONSTANT i, RowsRight(r, i), wiped \subseteq wiped', script' = script
    PROVE  RowsRight(r, i)'
<1>1. \A s \in Seqs : Doomed(i, s) => Doomed(i, s)'
  BY DEF Doomed, Redactors, Entry, entry
<1> QED
  BY <1>1 DEF RowsRight, Said

LEMMA TimelineStays ==
    ASSUME NEW CONSTANT t, NEW CONSTANT i, TimelineRight(t, i), wiped \subseteq wiped', script' = script
    PROVE  TimelineRight(t, i)'
<1>1. \A s \in Seqs : Doomed(i, s) => Doomed(i, s)'
  BY DEF Doomed, Redactors, Entry, entry
<1> QED
  BY <1>1 DEF TimelineRight, entry

(* What the conversations are like                                         *)
LEMMA ScriptFacts ==
    ASSUME Unhurried, ReadTypes
    PROVE  /\ Final \in {1, 2} /\ inst \in 1..Final /\ known \in 0..inst
           /\ known = 0 => Final = 1
           /\ \A i \in 1..Final : \A s \in Said(i) : s \in Seqs /\ (entry(i, s).timed => i = Final)
<1>1. /\ Final = 1 \/ (Final = 2 /\ script.met /\ \A s \in Said(1) : ~entry(1, s).timed)
      /\ \A i \in 1..Final : Len(script.says[i]) \in 0..MaxSeq
  BY ReadingAssumption DEF Unhurried, ReadTypes, Final, Said, entry
<1>2. \A i \in 1..Final : i = 1 \/ i = Final
  BY <1>1
<1>3. inst \in 1..Final /\ known \in 0..inst /\ (known = 0 => Final = 1)
  BY <1>1 DEF ReadTypes
<1>4. ASSUME NEW i \in 1..Final, NEW s \in Said(i) PROVE s \in Seqs /\ (entry(i, s).timed => i = Final)
  BY <1>1, <1>2, ReadingAssumption DEF Said, Seqs
<1> QED
  BY <1>1, <1>3, <1>4

LEMMA NoRowsRight == ASSUME NEW i PROVE RowsRight(NothingKept, i)
<1>1. NoRow \in Row /\ NoRow.has = "none"
  BY DEF NoRow, Row
<1> QED
  BY <1>1 DEF RowsRight, NothingKept

LEMMA UnreadRows ==
    ASSUME NEW r, RowsRight(r, 0), NEW i PROVE RowsRight(r, i)
  BY DEF RowsRight

LEMMA ReadInvInit == RdInit => ReadInv
<1> SUFFICES ASSUME RdInit PROVE ReadInv
  OBVIOUS
<1>1. /\ script \in Scripts /\ inst = 1 /\ len = 0 /\ foldedLog = NoFold /\ past = {} /\ exists = TRUE
      /\ kept = NothingKept /\ cursor = 0 /\ known = (IF script.met THEN 1 ELSE 0)
      /\ announce = FALSE /\ timers = NoTimers /\ tl = EmptyTimeline /\ told = NoInfo /\ job = NoJob
  BY DEF RdInit
<1>2. Final \in Nat /\ 1 <= Final /\ Len(script.says[1]) \in Nat
  BY <1>1, ReadingAssumption DEF Final
<1>3. ReadTypes
  BY <1>1, <1>2 DEF ReadTypes, NoTimers, NoInfo, Final
<1>4. RowsRight(kept, known)
  BY <1>1, NoRowsRight
<1>5. TimelineRight(tl, Current)
  BY <1>1, EmptyRight
<1>6. JobRight /\ Steady /\ TimersRight
  BY <1>1 DEF JobRight, Steady, TimersRight, NoJob, NoTimers, Covered
<1> QED
  BY <1>3, <1>4, <1>5, <1>6 DEF ReadInv

(* The exchange and the others: nothing is taken back of what may be       *)
(* deleted, and an incarnation that another follows only grows.            *)
Grows ==
  /\ script' = script /\ wiped \subseteq wiped' /\ UNCHANGED <<diskVars, memoryVars>>
  /\ inst' \in inst..Final /\ len' \in 0..Len(script.says[inst']) /\ (~exists' => inst' < Final)
  /\ inst' < Final => ServedSeqs \subseteq ServedSeqs'
  /\ foldedLog' # NoFold =>
       foldedLog'.of \in 1..(Final - 1) /\ foldedLog'.len \in 0..Len(script.says[foldedLog'.of])
  /\ \A p \in past' : \E i \in 1..Final : \E s \in Said(i) : p = <<i, s>> /\ entry(i, s).timed

LEMMA ExchangeGrows == ASSUME ReadInv, Unhurried, Exchange PROVE Grows
<1>1. ReadTypes /\ Final \in {1, 2} /\ inst \in 1..Final /\ Len(script.says[inst]) \in Nat
      /\ \A i \in 1..Final : \A s \in Said(i) : entry(i, s).timed => i = Final
  BY ScriptFacts, ReadingAssumption DEF ReadInv, ReadTypes, Final
<1>2. CASE \E b \in BOOLEAN : Arrives(b)
  BY <1>1, <1>2 DEF Arrives, MayPost, Grows, ReadTypes, ServedSeqs
<1>3. CASE \E b \in BOOLEAN : Rotates(b)
  BY <1>1, <1>3 DEF Rotates, ghostVars, Grows, ReadTypes, ServedSeqs
<1>4. CASE \E b \in BOOLEAN : Ends(b)
  <2>1. PICK b \in BOOLEAN : Ends(b)
    BY <1>4
  <2>2. foldedLog' # NoFold => foldedLog'.of = inst /\ foldedLog'.len = len
    BY <2>1 DEF Ends
  <2> QED
    BY <1>1, <2>1, <2>2 DEF Ends, ghostVars, Grows, ReadTypes, ServedSeqs, Final
<1>5. CASE \E s \in Seqs : Fills(s)
  BY <1>1, <1>5 DEF Fills, Grows, ReadTypes, ServedSeqs
<1>6. CASE \E s \in Seqs : Wipes(s)
  BY <1>1, <1>6 DEF Wipes, ghostVars, Grows, ReadTypes, ServedSeqs
<1>7. CASE \E s \in Seqs : Swept(s)
  <2>1. PICK s \in Seqs : Swept(s)
    BY <1>7
  <2>2. <<inst, s>> \in past
    BY <2>1 DEF Swept
  <2>3. PICK i \in 1..Final : \E x \in Said(i) : <<inst, s>> = <<i, x>> /\ entry(i, x).timed
    BY <1>1, <2>2 DEF ReadTypes
  <2>4. inst = Final
    BY <1>1, <2>3
  <2> QED
    BY <1>1, <2>1, <2>4 DEF Swept, ghostVars, Grows, ReadTypes
<1>8. CASE \E e \in RdEpoch : Seals(e)
  BY <1>1, <1>8 DEF Seals, ghostVars, Grows, ReadTypes, ServedSeqs
<1>9. CASE \E i \in Insts, s \in Seqs : TimeUp(i, s)
  <2>1. PICK i \in Insts, s \in Seqs : TimeUp(i, s)
    BY <1>9
  <2>2. i \in 1..Final /\ s \in Said(i) /\ entry(i, s).timed /\ past' = past \cup {<<i, s>>}
    BY <1>1, <2>1 DEF TimeUp, Insts, Seqs, Said
  <2> QED
    BY <1>1, <2>1, <2>2 DEF TimeUp, ghostVars, Grows, ReadTypes, ServedSeqs
<1>10. CASE MadeAnew
  <2>1. inst' = inst + 1 /\ inst < Final /\ len' = 0
    BY <1>1, <1>10 DEF MadeAnew, ReadTypes
  <2>2. inst' \in 1..Final
    BY <1>1, <2>1
  <2>3. Len(script.says[inst']) \in Nat
    BY <1>1, <2>2, ReadingAssumption DEF ReadTypes, Final
  <2> QED
    BY <1>1, <1>10, <2>1, <2>2, <2>3 DEF MadeAnew, ghostVars, Grows, ReadTypes
<1> QED
  BY <1>2, <1>3, <1>4, <1>5, <1>6, <1>7, <1>8, <1>9, <1>10 DEF Exchange

LEMMA ReadInvGrows == ASSUME ReadInv, Unhurried, Grows PROVE ReadInv'
<1>1. /\ Final' = Final /\ \A i : Said(i)' = Said(i)
      /\ \A i, s : entry(i, s)' = entry(i, s)
  BY DEF Grows, Final, Said, entry
<1>2. /\ kept' = kept /\ timers' = timers /\ known' = known /\ cursor' = cursor /\ told' = told
      /\ tl' = tl /\ job' = job /\ announce' = announce
  BY DEF Grows, diskVars, memoryVars
<1>3. Final \in {1, 2} /\ inst \in 1..Final /\ known \in 0..inst
  BY ScriptFacts DEF ReadInv
<1>4. ReadTypes'
  BY <1>1, <1>2, <1>3 DEF ReadInv, ReadTypes, Grows
<1>5. RowsRight(kept, known)'
  <2>1. PICK r, i : r = kept /\ i = known
    OBVIOUS
  <2>2. RowsRight(r, i)'
    BY <2>1, RowsStay DEF ReadInv, Grows
  <2> QED
    BY <1>2, <2>1, <2>2
<1>6. announce' \/ TimelineRight(tl, Current)'
  <2>1. PICK t, i : t = tl /\ i = Current
    OBVIOUS
  <2>2. announce \/ TimelineRight(t, i)'
    BY <2>1, TimelineStays DEF ReadInv, Grows
  <2>3. Current' = i
    BY <1>2, <2>1 DEF Current
  <2> QED
    BY <1>2, <2>1, <2>2, <2>3
<1>7. JobRight'
  <2>1. Fetched(job) => Fetched(job)'
    BY <1>1, <1>2, <1>3 DEF Fetched, Grows
  <2>2. job.at = "again" => inst' = inst
    BY <1>3 DEF ReadInv, JobRight, Grows
  <2> QED
    BY <1>1, <1>2, <2>1, <2>2 DEF ReadInv, JobRight
<1>8. Steady'
  <2> SUFFICES ASSUME inst' < Final PROVE Steady'
    BY <1>1 DEF Steady
  <2>1. inst < Final /\ ServedSeqs \subseteq ServedSeqs'
    BY <1>3 DEF Grows
  <2>2. \A n : Covered(n) => Covered(n)'
    BY <2>1 DEF Covered
  <2> QED
    BY <1>1, <1>2, <2>1, <2>2 DEF ReadInv, Steady
<1>9. TimersRight'
  BY <1>1, <1>2 DEF ReadInv, TimersRight
<1> QED
  BY <1>4, <1>5, <1>6, <1>7, <1>8, <1>9 DEF ReadInv

(* What the client does leaves the exchange's side as it is, its own       *)
(* entry apart.                                                            *)
Elsewhere ==
  /\ UNCHANGED <<script, exists, inst, wiped, hidden, foldedLog, past>>
  /\ len' \in {len, len + 1} /\ len' \in 0..Len(script.says[inst])

LEMMA ElsewhereFacts ==
    ASSUME ReadInv, Unhurried, Elsewhere
    PROVE  /\ Final' = Final /\ \A i : Said(i)' = Said(i)
           /\ \A i, s : entry(i, s)' = entry(i, s) /\ (Doomed(i, s)' <=> Doomed(i, s))
           /\ \A n : Covered(n) => Covered(n)'
           /\ ServedSeqs \subseteq ServedSeqs'
           /\ \A j : Fetched(j)' <=> Fetched(j)
           /\ Final \in {1, 2} /\ inst \in 1..Final /\ known \in 0..inst /\ (known = 0 => Final = 1)
           /\ \A i \in 1..Final : \A s \in Said(i) : s \in Seqs /\ (entry(i, s).timed => i = Final)
           /\ ReadTypes /\ inst' = inst /\ wiped' = wiped /\ script' = script
<1>0. ReadTypes
  BY DEF ReadInv
<1>1. /\ Final' = Final /\ \A i : Said(i)' = Said(i)
      /\ \A i, s : entry(i, s)' = entry(i, s)
  BY DEF Elsewhere, Final, Said, entry
<1>2. \A i, s : Doomed(i, s)' <=> Doomed(i, s)
  BY <1>1 DEF Elsewhere, Doomed, Redactors, Entry
<1>3. ServedSeqs \subseteq ServedSeqs'
  BY <1>0 DEF Elsewhere, ServedSeqs, ReadTypes
<1>4. \A n : Covered(n) => Covered(n)'
  BY <1>3 DEF Covered
<1>5. \A j : Fetched(j)' <=> Fetched(j)
  BY <1>1 DEF Fetched, Elsewhere
<1> QED
  BY <1>0, <1>1, <1>2, <1>3, <1>4, <1>5, ScriptFacts DEF Elsewhere

(* The pieces of the invariant, after a step of the client                 *)
LEMMA TypesAfter ==
    ASSUME ReadInv, Elsewhere, Final' = Final, timers' \in [Seqs -> Nat], known' \in 0..inst, cursor' \in Nat,
           known # 0 => known' # 0, told'.inst \in 0..inst, \A i : Said(i)' = Said(i),
           \A i, s : entry(i, s)' = entry(i, s)
    PROVE  ReadTypes'
  BY DEF ReadInv, ReadTypes, Elsewhere

LEMMA RowsAfter ==
    ASSUME NEW CONSTANT r, NEW CONSTANT i, RowsRight(r, i), Elsewhere, kept' = r, known' = i
    PROVE  RowsRight(kept, known)'
<1>1. RowsRight(r, i)'
  BY RowsStay DEF Elsewhere
<1> QED
  BY <1>1

LEMMA TimelineAfter ==
    ASSUME NEW CONSTANT t, NEW CONSTANT i, TimelineRight(t, i), Elsewhere, tl' = t, Current' = i
    PROVE  TimelineRight(tl, Current)'
<1>1. TimelineRight(t, i)'
  BY TimelineStays DEF Elsewhere
<1> QED
  BY <1>1

(* A row whose words went was emptied for a reason.                        *)
LEMMA EmptiedForAReason ==
    ASSUME Elsewhere, Spared(kept, kept'), RowsRight(kept, known)'
    PROVE  WordsLeave
<1> SUFFICES ASSUME NEW s \in Seqs, kept[s].has = "words", kept'[s] # kept[s]
             PROVE  /\ kept'[s] = [of |-> kept[s].of, has |-> "empty"]
                    /\ <<kept[s].of, s>> \in wiped \/ Redactors(kept[s].of, s) # {}
  BY DEF WordsLeave
<1>1. kept'[s] = [of |-> kept[s].of, has |-> "empty"]
  BY DEF Spared
<1> DEFINE i == kept[s].of
<1>2. kept'[s].of = i /\ kept'[s].has = "empty"
  BY <1>1
<1>3. known' = i /\ Doomed(known, s)'
  BY <1>2 DEF RowsRight
<1> HIDE DEF i
<1>4. <<i, s>> \in wiped \/ Redactors(i, s) # {}
  BY <1>3 DEF Doomed, Redactors, Entry, entry, Elsewhere
<1> QED
  BY <1>1, <1>4 DEF i

LEMMA NothingLeft == ASSUME kept' = kept PROVE WordsLeave
  BY DEF WordsLeave

(* What is put away                                                        *)
LEMMA PutAway ==
    ASSUME RowsRight(kept, known), NEW r, Spared(kept, r), attic' = Archived(r)
    PROVE  WordsLeave
<1> SUFFICES ASSUME NEW s \in Seqs, kept[s].has = "words"
             PROVE  \E a \in attic' : a.of = kept[s].of /\ a.kept[s].has \in {"words", "empty"}
  BY DEF WordsLeave
<1>1. kept[s].of = known /\ r[s].has \in {"words", "empty"}
  BY DEF RowsRight, Spared
<1>2. r # NothingKept
  BY <1>1 DEF NothingKept, NoRow
<1> DEFINE a == [of |-> known, kept |-> r]
<1>3. a \in attic' /\ a.of = known /\ a.kept = r
  BY <1>2 DEF Archived
<1> HIDE DEF a
<1> QED
  BY <1>1, <1>3

(* Where a poll asks from: the cursor, or below it                         *)
LEMMA SinceIs ==
    ASSUME ReadInv, NEW since, since = IF ~gapAsked /\ Gaps # {} THEN Min({cursor, Min(Gaps)}) ELSE cursor
    PROVE  since \in Nat /\ since <= cursor
<1>1. cursor \in Nat
  BY DEF ReadInv, ReadTypes
<1>2. CASE Gaps # {}
  <2>1. Gaps \subseteq Nat
    BY DEF Gaps, Rows, Seqs
  <2>2. Min(Gaps) \in Nat
    BY <1>2, <2>1, LeastIs
  <2> DEFINE two == {cursor, Min(Gaps)}
  <2>3. two \subseteq Nat /\ two # {} /\ cursor \in two
    BY <1>1, <2>2
  <2> HIDE DEF two
  <2>4. Min(two) \in Nat /\ Min(two) <= cursor
    BY <2>3, LeastIs
  <2> QED
    BY <1>1, <2>4 DEF two
<1> QED
  BY <1>1, <1>2

LEMMA AskRight == ASSUME ReadInv, Unhurried, Ask PROVE ReadInv' /\ WordsLeave
<1> DEFINE since == IF ~gapAsked /\ Gaps # {} THEN Min({cursor, Min(Gaps)}) ELSE cursor
           got == Answer(since)
<1>1. /\ Elsewhere /\ job = NoJob /\ job' = [at |-> "told", since |-> since, got |-> got]
      /\ kept' = [s \in Seqs |-> IF s \in Expired THEN NoRow ELSE kept[s]]
      /\ timers' = [s \in Seqs |-> IF s \in Expired THEN 0 ELSE timers[s]]
      /\ tl' = forget(tl, Expired)
      /\ UNCHANGED <<cursor, known, announce, told>>
  BY DEF Ask, exchangeVars, Elsewhere, ReadInv, ReadTypes
<1>2. /\ Final' = Final /\ \A i : Said(i)' = Said(i)
      /\ \A i, s : entry(i, s)' = entry(i, s)
      /\ \A n : Covered(n) => Covered(n)'
      /\ ServedSeqs \subseteq ServedSeqs'
      /\ \A j : Fetched(j)' <=> Fetched(j)
      /\ Final \in {1, 2} /\ inst \in 1..Final /\ known \in 0..inst
      /\ ReadTypes /\ inst' = inst
  BY <1>1, ElsewhereFacts
<1>3. since \in Nat /\ since <= cursor
  BY SinceIs
<1>4. /\ ServedSeqs \subseteq Nat /\ ServedSeqs \subseteq Said(inst) /\ Said(inst) \subseteq Seqs
      /\ \A x \in ServedSeqs : x <= len
      /\ len \in Nat
  <2> DEFINE most == Len(script.says[inst])
  <2>1. most \in 0..MaxSeq /\ len \in 0..most
    BY <1>2, ReadingAssumption DEF ReadTypes, Final
  <2>2. Said(inst) = 1..most
    BY DEF Said
  <2> HIDE DEF most
  <2> QED
    BY <2>1, <2>2, ReadingAssumption DEF ServedSeqs, Seqs
<1>5. /\ got.of = inst /\ got.seqs \subseteq ServedSeqs
      /\ \A s \in got.wiped : <<inst, s>> \in wiped
      /\ got.last = Max(ServedSeqs \cup {0})
  BY DEF Answer
<1>6. got.last \in Nat /\ \A x \in ServedSeqs : x <= got.last
  <2> DEFINE T == ServedSeqs \cup {0}
  <2>1. T \subseteq Nat /\ T # {} /\ \A x \in T : x <= len
    BY <1>4
  <2> HIDE DEF T
  <2>2. Max(T) \in T /\ \A x \in T : x <= Max(T)
    BY <1>4, <2>1, GreatestIs
  <2> QED
    BY <1>5, <2>1, <2>2 DEF T
<1> HIDE DEF since, got
<1>7. job'.at = "told" /\ job'.since = since /\ job'.got = got
  BY <1>1
<1>8. ASSUME NEW s \in Seqs, s \in Expired PROVE timers[s] = Final /\ known = Final /\ <<Final, s>> \in past
  BY <1>8 DEF Expired, ReadInv, TimersRight
<1>9. ReadTypes'
  <2>1. timers' \in [Seqs -> Nat]
    BY <1>1, <1>2 DEF ReadTypes
  <2> QED
    BY <1>1, <1>2, <2>1, TypesAfter DEF ReadTypes
<1>10. RowsRight(kept, known)'
  <2> DEFINE r == [s \in Seqs |-> IF s \in Expired THEN NoRow ELSE kept[s]]
  <2>1. NoRow \in Row /\ NoRow.has = "none"
    BY DEF NoRow, Row
  <2>2. RowsRight(r, known)
    BY <2>1 DEF ReadInv, RowsRight
  <2> HIDE DEF r
  <2>3. PICK q, i : q = r /\ i = known
    OBVIOUS
  <2>4. kept' = q /\ known' = i /\ RowsRight(q, i)
    BY <1>1, <2>2, <2>3 DEF r
  <2> QED
    BY <1>1, <2>4, RowsAfter
<1>11. announce' \/ TimelineRight(tl, Current)'
  <2>1. announce \/ TimelineRight(forget(tl, Expired), Current)
    BY ForgetRight DEF ReadInv
  <2>2. PICK t, i : t = forget(tl, Expired) /\ i = Current
    OBVIOUS
  <2>3. tl' = t /\ Current' = i /\ (announce \/ TimelineRight(t, i))
    BY <1>1, <2>1, <2>2 DEF Current
  <2> QED
    BY <1>1, <2>3, TimelineAfter
<1>12. JobRight'
  <2>1. PICK j : j = job'
    OBVIOUS
  <2>3. got.seqs \subseteq Said(inst)
    BY <1>4, <1>5
  <2>4. j.since \in Nat /\ j.got.of = inst /\ j.got.seqs \subseteq Said(inst)
        /\ \A s \in j.got.wiped : <<inst, s>> \in wiped
    BY <1>3, <1>5, <1>7, <2>1, <2>3
  <2>5. Fetched(j)
    BY <1>2, <2>4 DEF Fetched
  <2>2. Fetched(job)'
    BY <1>2, <2>1, <2>5
  <2> QED
    BY <1>1, <1>2, <1>5, <1>7, <2>2 DEF JobRight
<1>13. Steady'
  <2> SUFFICES ASSUME inst < Final PROVE Steady'
    BY <1>2 DEF Steady
  <2>1. ~announce /\ Covered(cursor)
    BY DEF ReadInv, Steady
  <2>2. Covered(since) /\ since <= got.last
    BY <1>2, <1>3, <1>4, <1>6, <2>1 DEF Covered, ReadTypes
  <2>3. ServedSeqs' = ServedSeqs
    BY DEF Ask, exchangeVars, ServedSeqs
  <2>4. Covered(job.since)' /\ Covered(cursor)'
    BY <1>1, <1>7, <2>1, <2>2, <2>3 DEF Covered
  <2>5. (job.got.seqs \subseteq ServedSeqs)' /\ (job.got.last \in Nat /\ job.since <= job.got.last)'
    BY <1>5, <1>6, <1>7, <2>2, <2>3
  <2> QED
    BY <1>1, <2>1, <2>4, <2>5 DEF Steady
<1>14. TimersRight'
  BY <1>1, <1>2 DEF ReadInv, TimersRight
<1>15. WordsLeave
  <2> SUFFICES ASSUME NEW s \in Seqs, kept[s].has = "words", kept'[s] # kept[s]
               PROVE  kept'[s] = NoRow /\ <<kept[s].of, s>> \in past
    BY DEF WordsLeave
  <2>1. s \in Expired /\ kept'[s] = NoRow
    BY <1>1
  <2>2. kept[s].of = known
    BY DEF ReadInv, RowsRight
  <2> QED
    BY <1>8, <2>1, <2>2
<1> QED
  BY <1>9, <1>10, <1>11, <1>12, <1>13, <1>14, <1>15 DEF ReadInv

(* A step that leaves the rows and the timeline alone                      *)
LEMMA QuietRight ==
    ASSUME ReadInv, Unhurried, Elsewhere, UNCHANGED <<kept, tl, known, announce, timers>>,
           cursor' \in {cursor, 0}, told'.inst \in 0..inst, JobRight',
           inst < Final /\ job'.at \in {"told", "info", "fold"} =>
             job'.at # "told" /\ Covered(job'.since) /\ job'.got.seqs \subseteq ServedSeqs
    PROVE  ReadInv' /\ WordsLeave
<1>1. /\ Final' = Final /\ \A i : Said(i)' = Said(i)
      /\ \A i, s : entry(i, s)' = entry(i, s)
      /\ ServedSeqs \subseteq ServedSeqs'
      /\ Final \in {1, 2} /\ inst \in 1..Final /\ known \in 0..inst
      /\ ReadTypes /\ inst' = inst
  BY ElsewhereFacts
<1>2. Covered(0) /\ \A n : Covered(n) => n = 0 \/ \E x \in ServedSeqs' : n <= x
  BY <1>1 DEF Covered
<1>3. ReadTypes'
  BY <1>1, TypesAfter DEF ReadTypes
<1>4. RowsRight(kept, known)'
  <2>1. PICK r, i : r = kept /\ i = known
    OBVIOUS
  <2> QED
    BY <2>1, RowsAfter DEF ReadInv
<1>5. announce' \/ TimelineRight(tl, Current)'
  <2>1. PICK t, i : t = tl /\ i = Current
    OBVIOUS
  <2>2. Current' = i
    BY <2>1 DEF Current
  <2> QED
    BY <2>1, <2>2, TimelineAfter DEF ReadInv
<1>6. Steady'
  <2> SUFFICES ASSUME inst < Final PROVE Steady'
    BY <1>1 DEF Steady
  <2>1. ~announce' /\ (cursor' = 0 \/ \E x \in ServedSeqs' : cursor' <= x)
    BY <1>2 DEF ReadInv, Steady, Covered
  <2>2. job'.at \in {"told", "info", "fold"} =>
          /\ job'.at # "told" /\ job'.got.seqs \subseteq ServedSeqs'
          /\ job'.since = 0 \/ \E x \in ServedSeqs' : job'.since <= x
    BY <1>1, <1>2
  <2> QED
    BY <2>1, <2>2 DEF Steady, Covered
<1>7. TimersRight'
  BY <1>1 DEF ReadInv, TimersRight
<1>8. WordsLeave
  BY NothingLeft
<1> QED
  BY <1>3, <1>4, <1>5, <1>6, <1>7, <1>8 DEF ReadInv

LEMMA ReadStutters == ASSUME ReadInv, Unhurried, UNCHANGED rdVars PROVE ReadInv' /\ WordsLeave
<1>1. Grows
  BY ScriptFacts DEF rdVars, exchangeVars, diskVars, memoryVars, Grows, ReadInv, ReadTypes, ServedSeqs
<1>2. kept' = kept
  BY DEF rdVars, diskVars
<1> QED
  BY <1>1, <1>2, ReadInvGrows, NothingLeft

LEMMA ExchangeRight == ASSUME ReadInv, Unhurried, Exchange PROVE ReadInv' /\ WordsLeave
<1>1. Grows
  BY ExchangeGrows
<1>2. kept' = kept
  BY <1>1 DEF Grows, diskVars
<1> QED
  BY <1>1, <1>2, ReadInvGrows, NothingLeft

(* A step of the client that changes nothing at the exchange               *)
LEMMA ElsewhereAlone ==
    ASSUME ReadInv, UNCHANGED <<script, exists, inst, len, wiped, hidden, foldedLog, past>> PROVE Elsewhere
  BY DEF Elsewhere, ReadInv, ReadTypes

(* What the exchange is held to have said                                  *)
LEMMA ToldRight ==
    ASSUME ReadInv, NEW b \in BOOLEAN, NEW t \in Told(b)
    PROVE  t.inst \in 1..inst /\ (b => t = Now /\ t.inst = inst)
<1>1. inst \in Nat \ {0} /\ told.inst \in 0..inst
  BY ReadingAssumption DEF ReadInv, ReadTypes, Final
<1> QED
  BY <1>1 DEF Told, Now

(* The answer to a request is carried on.                                 *)
LEMMA CarriedOn ==
    ASSUME ReadInv, Unhurried, Elsewhere, UNCHANGED <<kept, tl, known, announce, timers>>,
           cursor' \in {cursor, 0}, told'.inst \in 1..inst, Fetched(job), job'.since = job.since,
           job'.got = job.got, job'.at \in {"info", "fold"}, job.at \in {"told", "info"}, ~announce,
           job.got.seqs # {} => known \in {0, job.got.of}
    PROVE  ReadInv' /\ WordsLeave
<1>1. \A j : Fetched(j)' <=> Fetched(j)
  BY ElsewhereFacts
<1>2. inst \in Nat
  BY ReadingAssumption DEF ReadInv, ReadTypes, Final
<1>3. JobRight'
  <2>1. PICK j : j = job'
    OBVIOUS
  <2>2. Fetched(j)
    BY <2>1 DEF Fetched
  <2>3. Fetched(job)'
    BY <1>1, <2>1, <2>2
  <2> QED
    BY <1>2, <2>3 DEF JobRight
<1>4. inst < Final => Covered(job'.since) /\ job'.got.seqs \subseteq ServedSeqs
  BY DEF ReadInv, Steady
<1> QED
  BY <1>2, <1>3, <1>4, QuietRight

LEMMA GoesOnRight == ASSUME ReadInv, Unhurried, GoesOn PROVE ReadInv' /\ WordsLeave
<1>1. Elsewhere
  BY ElsewhereAlone DEF GoesOn, exchangeVars
<1>2. job.at = "told" /\ Fetched(job) /\ known <= job.got.of
  BY DEF GoesOn, ReadInv, JobRight
<1>3. /\ job'.at = "info" /\ job'.since = job.since /\ job'.got = job.got
      /\ UNCHANGED <<kept, tl, known, announce, timers, cursor>>
  BY <1>2 DEF GoesOn, diskVars, Fetched
<1>4. PICK t \in Told(job.got.seqs # {}) : ~Restarted(t.inst) /\ told' = t
  BY DEF GoesOn
<1>5. t.inst \in 1..inst /\ (job.got.seqs # {} => t.inst = inst)
  BY ToldRight
<1>6. ~announce /\ (job.got.seqs # {} => known \in {0, job.got.of})
  BY <1>1, <1>2, <1>4, <1>5, ElsewhereFacts DEF Restarted, Differs, Fetched
<1> QED
  BY <1>1, <1>2, <1>3, <1>4, <1>5, <1>6, CarriedOn

LEMMA InformsRight == ASSUME ReadInv, Unhurried, Informs PROVE ReadInv' /\ WordsLeave
<1>1. Elsewhere
  BY ElsewhereAlone DEF Informs
<1>2. /\ job.at = "info" /\ Fetched(job) /\ ~announce
      /\ job.got.seqs # {} => known \in {0, job.got.of}
  BY DEF Informs, ReadInv, JobRight
<1>3. /\ job'.at = "fold" /\ job'.since = job.since /\ job'.got = job.got
      /\ UNCHANGED <<kept, tl, known, announce, timers>>
  BY <1>2 DEF Informs, Fetched
<1>4. PICK t \in Told(job.got.seqs # {}) :
        told' \in {t, Now} /\ cursor' \in {cursor, 0}
  BY DEF Informs, absorb_keys, NoCollection
<1>5. t.inst \in 1..inst
  BY ToldRight
<1>6. told'.inst \in 1..inst
  BY <1>4, <1>5, ReadingAssumption DEF Now, ReadInv, ReadTypes, Final
<1> QED
  BY <1>1, <1>2, <1>3, <1>4, <1>6, CarriedOn

(* What `/channel/fetch` answers                                            *)
LEMMA AnswerRight ==
    ASSUME ReadInv, Unhurried, NEW since \in Nat
    PROVE  /\ Answer(since).of = inst /\ Answer(since).seqs \subseteq ServedSeqs
           /\ Answer(since).seqs \subseteq Said(inst)
           /\ \A s \in Answer(since).wiped : <<inst, s>> \in wiped
           /\ inst \in Nat \ {0}
<1>1. inst \in 1..Final /\ inst \in Nat \ {0} /\ len \in 0..Len(script.says[inst])
  BY ReadingAssumption DEF ReadInv, ReadTypes, Final
<1>2. Len(script.says[inst]) \in Nat
  BY <1>1, ReadingAssumption DEF ReadInv, ReadTypes, Final
<1>3. ServedSeqs \subseteq Said(inst)
  BY <1>1, <1>2 DEF ServedSeqs, Said
<1> QED
  BY <1>1, <1>3 DEF Answer

LEMMA FetchAgainRight == ASSUME ReadInv, Unhurried, FetchAgain PROVE ReadInv' /\ WordsLeave
<1>1. Elsewhere
  BY ElsewhereAlone DEF FetchAgain, exchangeVars
<1>2. known = inst /\ inst = Final /\ ~announce /\ told.inst # 0 /\ told.inst \in 0..inst
  BY DEF FetchAgain, ReadInv, JobRight, ReadTypes
<1>3. /\ job'.at = "info" /\ job'.since = 0 /\ job'.got = Answer(0)
      /\ UNCHANGED <<kept, tl, known, announce, timers, cursor, told>>
  BY DEF FetchAgain, diskVars
<1>4. /\ Answer(0).of = inst /\ Answer(0).seqs \subseteq Said(inst) /\ inst \in Nat \ {0}
      /\ \A s \in Answer(0).wiped : <<inst, s>> \in wiped
  BY AnswerRight
<1>5. Fetched(job)'
  <2>1. PICK j : j = job'
    OBVIOUS
  <2>2. Fetched(j)
    BY <1>3, <1>4, <2>1 DEF Fetched
  <2> QED
    BY <1>1, <2>1, <2>2, ElsewhereFacts
<1>6. JobRight'
  BY <1>2, <1>3, <1>4, <1>5 DEF JobRight
<1> QED
  BY <1>1, <1>2, <1>3, <1>4, <1>6, QuietRight

LEMMA JobFailsRight == ASSUME ReadInv, Unhurried, JobFails PROVE ReadInv' /\ WordsLeave
<1>1. Elsewhere
  BY ElsewhereAlone DEF JobFails, exchangeVars
<1>2. job'.at = "idle" /\ UNCHANGED <<kept, tl, known, announce, timers, cursor, told>>
  BY DEF JobFails, diskVars, NoJob
<1>3. JobRight'
  BY <1>2 DEF JobRight
<1>4. told.inst \in 0..inst
  BY DEF ReadInv, ReadTypes
<1> QED
  BY <1>1, <1>2, <1>3, <1>4, QuietRight

LEMMA CollectsAfterRight == ASSUME ReadInv, Unhurried, CollectsAfter PROVE ReadInv' /\ WordsLeave
<1>1. Elsewhere
  BY ElsewhereAlone DEF CollectsAfter
<1>2. /\ job'.at = "idle" /\ UNCHANGED <<kept, tl, known, announce, timers, told>>
      /\ cursor' \in {cursor, 0}
  BY DEF CollectsAfter, NoJob, absorb_keys
<1>3. JobRight'
  BY <1>2 DEF JobRight
<1>4. told.inst \in 0..inst
  BY DEF ReadInv, ReadTypes
<1> QED
  BY <1>1, <1>2, <1>3, <1>4, QuietRight

LEMMA EnsureKeyRight == ASSUME ReadInv, Unhurried, EnsureKey PROVE ReadInv' /\ WordsLeave
<1>1. Elsewhere
  BY ElsewhereAlone DEF EnsureKey
<1>2. /\ job'.at = "idle" /\ UNCHANGED <<kept, tl, known, announce, timers, told>>
      /\ cursor' \in {cursor, 0}
  BY DEF EnsureKey, NoJob, absorb_keys, memoryVars
<1>3. JobRight'
  BY <1>2 DEF JobRight
<1>4. told.inst \in 0..inst
  BY DEF ReadInv, ReadTypes
<1> QED
  BY <1>1, <1>2, <1>3, <1>4, QuietRight

(* The numbering starts over, or the rows are put away                     *)
LEMMA ResetRight ==
    ASSUME ReadInv, Unhurried, Elsewhere, NEW r, Spared(kept, r), attic' = Archived(r),
           kept' = NothingKept, timers' = timers, cursor' = 0, told'.inst \in 0..inst,
           JobRight', job'.at \in {"idle", "again"},
           \/ known' = known /\ announce' = announce /\ tl' \in {tl, EmptyTimeline}
           \/ known' = inst /\ inst = Final /\ tl' = EmptyTimeline
    PROVE  ReadInv' /\ WordsLeave
<1>1. /\ Final' = Final /\ \A i : Said(i)' = Said(i)
      /\ \A i, s : entry(i, s)' = entry(i, s)
      /\ Final \in {1, 2} /\ inst \in 1..Final /\ known \in 0..inst
      /\ ReadTypes /\ inst' = inst
  BY ElsewhereFacts
<1>2. ReadTypes'
  <2>1. known' \in 0..inst /\ (known # 0 => known' # 0) /\ cursor' \in Nat /\ timers' \in [Seqs -> Nat]
    BY <1>1 DEF ReadTypes
  <2> QED
    BY <1>1, <2>1, TypesAfter
<1>3. RowsRight(kept, known)'
  <2>1. PICK q, i : q = NothingKept /\ i = known'
    OBVIOUS
  <2>2. RowsRight(q, i)
    BY <2>1, NoRowsRight
  <2> QED
    BY <2>1, <2>2, RowsAfter
<1>4. announce' \/ TimelineRight(tl, Current)'
  <2>1. PICK t, i : t = tl' /\ i = Current'
    OBVIOUS
  <2>2. CASE t = EmptyTimeline
    <3>1. TimelineRight(t, i)
      BY <2>2, EmptyRight
    <3> QED
      BY <2>1, <3>1, TimelineAfter
  <2>3. CASE known' = known /\ announce' = announce /\ tl' = tl
    <3>1. i = Current /\ t = tl
      BY <2>1, <2>3 DEF Current
    <3>2. announce \/ TimelineRight(t, i)
      BY <3>1 DEF ReadInv
    <3> QED
      BY <2>1, <2>3, <3>2, TimelineAfter
  <2> QED
    BY <2>1, <2>2, <2>3
<1>5. Steady'
  <2> SUFFICES ASSUME inst < Final PROVE Steady'
    BY <1>1 DEF Steady
  <2>1. ~announce
    BY DEF ReadInv, Steady
  <2>2. announce' = announce
    BY <1>1
  <2> QED
    BY <2>1, <2>2 DEF Steady, Covered
<1>6. TimersRight'
  BY <1>1 DEF ReadInv, TimersRight
<1>7. WordsLeave
  BY PutAway DEF ReadInv
<1> QED
  BY <1>2, <1>3, <1>4, <1>5, <1>6, <1>7 DEF ReadInv

(* What is held, before any entry is folded into it                        *)
LEMMA StateIsWell ==
    ASSUME ReadInv, NEW i
    PROVE  /\ StateWell(State, kept, timers, i)
           /\ State.kept = kept /\ State.timers = timers /\ State.tl = tl
<1> QED
  BY DEF State, StateWell, IsState, Spared, ReadInv, ReadTypes, RowsRight

(* A folded log is of an incarnation that another follows, so of one       *)
(* without timed entries.                                                  *)
LEMMA ReadFoldedSpares ==
    ASSUME ReadInv, Unhurried
    PROVE  read_folded.timers = timers /\ Spared(kept, read_folded.kept)
<1> DEFINE got == [of |-> foldedLog.of, wiped |-> {s \in Seqs : <<foldedLog.of, s>> \in wiped}]
<1>1. read_folded = fold_entries(State, got, known, Unread)
  BY DEF read_folded
<1>2. StateWell(State, kept, timers, foldedLog.of) /\ State.kept = kept /\ State.timers = timers
  BY StateIsWell
<1>3. CASE Unread = {}
  <2>1. read_folded = State
    BY <1>1, <1>3, FoldOfNothing
  <2> QED
    BY <1>2, <2>1 DEF Spared
<1>4. CASE Unread # {}
  <2>1. /\ foldedLog.of \in 1..(Final - 1) /\ Unread \subseteq Said(foldedLog.of) /\ Final \in {1, 2}
        /\ \A i \in 1..Final : \A s \in Said(i) : entry(i, s).timed => i = Final
    <3>1. foldedLog # NoFold /\ Unread \subseteq 1..foldedLog.len
      BY <1>4 DEF Unread
    <3>2. Final \in {1, 2} /\ \A i \in 1..Final : \A s \in Said(i) : entry(i, s).timed => i = Final
      BY ScriptFacts DEF ReadInv
    <3>3. foldedLog.of \in 1..(Final - 1) /\ foldedLog.len \in 0..Len(script.says[foldedLog.of])
      BY <3>1 DEF ReadInv, ReadTypes
    <3>4. Len(script.says[foldedLog.of]) \in Nat
      BY <3>2, <3>3, ReadingAssumption DEF ReadInv, ReadTypes, Final
    <3> QED
      BY <3>1, <3>2, <3>3, <3>4 DEF Said
  <2>2. got.of = foldedLog.of /\ got.of \in Nat
    BY <2>1
  <2> HIDE DEF got
  <2>3. StateWell(fold_entries(State, got, known, Unread), kept, timers, got.of)
    BY <1>2, <2>1, <2>2, FoldWell
  <2> DEFINE f == fold_entries(State, got, known, Unread)
  <2>4. /\ f.timers \in [Seqs -> Nat] /\ Spared(kept, f.kept) /\ timers \in [Seqs -> Nat]
        /\ \A s \in Seqs : f.timers[s] # timers[s] => s \in Said(got.of) /\ entry(got.of, s).timed
    BY <2>3 DEF StateWell, ReadInv, ReadTypes
  <2> HIDE DEF f
  <2>5. f.timers = timers
    BY <2>1, <2>2, <2>4
  <2> QED
    BY <1>1, <2>4, <2>5 DEF f
<1> QED
  BY <1>3, <1>4

LEMMA StartsOverRight == ASSUME ReadInv, Unhurried, StartsOver PROVE ReadInv' /\ WordsLeave
<1>1. Elsewhere
  BY ElsewhereAlone DEF StartsOver, exchangeVars
<1>2. PICK t \in Told(job.got.seqs # {}) : Restarted(t.inst)
  BY DEF StartsOver
<1>3. /\ job.at = "told" /\ job'.at = "again" /\ told'.inst = inst /\ known' = inst /\ ~announce'
      /\ tl' = EmptyTimeline /\ timers' = read_folded.timers
      /\ attic' = Archived(read_folded.kept) /\ kept' = NothingKept /\ cursor' = 0
  BY DEF StartsOver, reset_sequence_space, Now, ReadInv, JobRight
<1>4. timers' = timers /\ Spared(kept, read_folded.kept)
  BY <1>3, ReadFoldedSpares
<1>5. Final \in {1, 2} /\ inst \in 1..Final /\ known \in 0..inst /\ inst' = inst /\ Final' = Final
  BY <1>1, ElsewhereFacts
<1>6. inst = Final
  <2> SUFFICES ASSUME inst < Final PROVE FALSE
    BY <1>5
  <2>1. ~announce /\ job.got.last \in Nat /\ job.since <= job.got.last /\ job.since \in Nat
    BY <1>3 DEF ReadInv, Steady, JobRight, Fetched
  <2>2. t.inst \in 1..inst
    BY ToldRight
  <2>3. ~Differs(t.inst)
    BY <1>5, <2>2 DEF Differs
  <2> QED
    BY <1>2, <2>1, <2>3 DEF Restarted
<1>7. JobRight'
  BY <1>3, <1>5, <1>6 DEF JobRight
<1> QED
  BY <1>1, <1>3, <1>4, <1>5, <1>6, <1>7, ResetRight

LEMMA FoldedAwayRight == ASSUME ReadInv, Unhurried, FoldedAway PROVE ReadInv' /\ WordsLeave
<1>1. Elsewhere
  BY ElsewhereAlone DEF FoldedAway, exchangeVars
<1>2. /\ job'.at = "idle" /\ told' = told /\ known' = known /\ announce' = announce
      /\ tl' = EmptyTimeline /\ timers' = read_folded.timers
      /\ attic' = Archived(read_folded.kept) /\ kept' = NothingKept /\ cursor' = 0
  BY DEF FoldedAway, reset_sequence_space, NoJob
<1>3. timers' = timers /\ Spared(kept, read_folded.kept)
  BY <1>2, ReadFoldedSpares
<1>4. JobRight'
  BY <1>2 DEF JobRight
<1>5. told'.inst \in 0..inst
  BY <1>2 DEF ReadInv, ReadTypes
<1> QED
  BY <1>1, <1>2, <1>3, <1>4, <1>5, ResetRight

LEMMA EnsureBackRight == ASSUME ReadInv, Unhurried, EnsureBack PROVE ReadInv' /\ WordsLeave
<1>1. Elsewhere
  BY ElsewhereAlone DEF EnsureBack, exchangeVars
<1>2. /\ job'.at = "idle" /\ told' = told /\ known' = known /\ announce' = announce
      /\ tl' = tl /\ timers' = timers
      /\ attic' = Archived(kept) /\ kept' = NothingKept /\ cursor' = 0
  BY DEF EnsureBack, reset_sequence_space, NoJob, memoryVars
<1>3. Spared(kept, kept)
  BY DEF Spared
<1>4. JobRight'
  BY <1>2 DEF JobRight
<1>5. told'.inst \in 0..inst
  BY <1>2 DEF ReadInv, ReadTypes
<1> QED
  BY <1>1, <1>2, <1>3, <1>4, <1>5, ResetRight

(* The entries of an answer, as many of them as were taken in              *)
LEMMA FoldUnderWay ==
    ASSUME ReadInv, Unhurried, job.at = "fold", NEW which, which \subseteq job.got.seqs,
           NEW i, i = IF known = 0 THEN told.inst ELSE known,
           NEW f, f = fold_entries(State, job.got, told.inst, which)
    PROVE  /\ IsState(f) /\ RowsRight(f.kept, i) /\ TimelineRight(f.tl, i) /\ Spared(kept, f.kept)
           /\ f.timers \in [Seqs -> Nat] /\ \A s \in Seqs : f.timers[s] # 0 => f.timers[s] = Final /\ i = Final
           /\ i = Current /\ i \in 1..inst
<1>1. /\ Final \in {1, 2} /\ inst \in 1..Final /\ known \in 0..inst /\ (known = 0 => Final = 1)
      /\ \A n \in 1..Final : \A s \in Said(n) : entry(n, s).timed => n = Final
      /\ script \in Scripts
  BY ScriptFacts DEF ReadInv, ReadTypes
<1>2. /\ Fetched(job) /\ (job.got.seqs # {} => known \in {0, job.got.of})
      /\ ~announce /\ told.inst \in 0..inst /\ told.inst # 0
  BY DEF ReadInv, ReadTypes, JobRight
<1>3. i = Current /\ i \in 1..inst /\ (known = 0 => i = 1 /\ inst = 1)
  BY <1>1, <1>2 DEF Current
<1>4. RowsRight(kept, i) /\ TimelineRight(tl, i)
  <2>1. CASE known = 0
    BY <1>2, <1>3, <2>1, UnreadRows DEF ReadInv
  <2>2. CASE known # 0
    BY <1>2, <1>3, <2>2 DEF ReadInv
  <2> QED
    BY <2>1, <2>2
<1>5. timers \in [Seqs -> Nat] /\ \A s \in Seqs : timers[s] # 0 => timers[s] = Final /\ i = Final
  BY <1>1 DEF ReadInv, ReadTypes, TimersRight
<1>6. /\ StateWell(State, kept, timers, job.got.of)
      /\ State.kept = kept /\ State.timers = timers /\ State.tl = tl
  BY StateIsWell
<1>7. CASE which = {}
  <2>1. f = State
    BY <1>7, FoldOfNothing
  <2> QED
    BY <1>3, <1>4, <1>5, <1>6, <2>1 DEF StateWell
<1>8. CASE which # {}
  <2> DEFINE got == job.got
  <2>1. /\ got.of = i /\ got.of \in 1..Final /\ got.of \in Nat /\ which \subseteq Said(got.of)
        /\ \A x \in got.wiped : <<got.of, x>> \in wiped
    BY <1>1, <1>2, <1>3, <1>8 DEF Fetched
  <2>2. StateWell(State, kept, timers, got.of) /\ RowsRight(State.kept, got.of) /\ TimelineRight(State.tl, got.of)
    BY <1>4, <1>6, <2>1
  <2> HIDE DEF got
  <2>3. StateWell(fold_entries(State, got, told.inst, which), kept, timers, got.of)
    BY <2>1, <2>2, FoldWell
  <2>4. /\ RowsRight(fold_entries(State, got, told.inst, which).kept, got.of)
        /\ TimelineRight(fold_entries(State, got, told.inst, which).tl, got.of)
    BY <1>1, <2>1, <2>2, FoldStaysRight
  <2>5. f = fold_entries(State, got, told.inst, which)
    BY DEF got
  <2>6. StateWell(f, kept, timers, i) /\ RowsRight(f.kept, i) /\ TimelineRight(f.tl, i)
    BY <2>1, <2>3, <2>4, <2>5
  <2>7. \A s \in Seqs : f.timers[s] # 0 => f.timers[s] = Final /\ i = Final
    BY <1>1, <1>3, <1>5, <2>6 DEF StateWell
  <2> QED
    BY <1>3, <2>6, <2>7 DEF StateWell
<1> QED
  BY <1>7, <1>8

(* `set_since`: the cursor stays, or is what was asked from or answered.   *)
LEMMA CursorMoves ==
    ASSUME ReadInv, job.at = "fold",
           cursor' = cursor \/ cursor' = Max({cursor, Max(job.got.seqs \cup {job.since})})
    PROVE  cursor' \in {cursor, job.since} \cup job.got.seqs
<1> DEFINE seen == job.got.seqs \cup {job.since}
           last == Max(seen)
<1>1. job.since \in Nat /\ job.got.seqs \subseteq Said(job.got.of) /\ job.got.of \in 1..inst
  BY DEF ReadInv, JobRight, Fetched
<1>2. cursor \in Nat /\ inst \in 1..Final /\ Final \in Nat
  BY ReadingAssumption DEF ReadInv, ReadTypes, Final
<1>3. Len(script.says[job.got.of]) \in Nat
  BY <1>1, <1>2, ReadingAssumption DEF ReadInv, ReadTypes, Final
<1>4. last \in seen /\ last \in Nat
  <2> DEFINE n == Len(script.says[job.got.of])
             b == n + job.since
  <2>0. n \in Nat /\ job.since \in Nat /\ job.got.seqs \subseteq 1..n
    BY <1>1, <1>3 DEF Said
  <2> HIDE DEF n
  <2>1. b \in Nat /\ seen \subseteq Nat /\ seen # {} /\ \A x \in seen : x <= b
    BY <2>0
  <2> HIDE DEF b, seen
  <2>2. Max(seen) \in seen
    BY <2>1, GreatestIs
  <2> QED
    BY <2>1, <2>2
<1>5. cursor' \in {cursor, last}
  <2> DEFINE two == {cursor, last}
             b == cursor + last
  <2> HIDE DEF last
  <2>1. b \in Nat /\ two \subseteq Nat /\ two # {} /\ \A x \in two : x <= b
    BY <1>2, <1>4
  <2> HIDE DEF b, two
  <2>2. Max(two) \in two
    BY <2>1, GreatestIs
  <2> QED
    BY <2>2 DEF two, last
<1> QED
  BY <1>4, <1>5

(* It is an entry the exchange serves, of a channel that will be made anew. *)
LEMMA CursorAfter ==
    ASSUME ReadInv, Unhurried, job.at = "fold",
           cursor' = cursor \/ cursor' = Max({cursor, Max(job.got.seqs \cup {job.since})})
    PROVE  cursor' \in Nat /\ (inst < Final => Covered(cursor'))
<1>1. job.since \in Nat /\ job.got.seqs \subseteq Said(job.got.of) /\ cursor \in Nat
  BY DEF ReadInv, ReadTypes, JobRight, Fetched
<1>2. job.got.seqs \subseteq Nat
  BY <1>1 DEF Said
<1>3. cursor' \in {cursor, job.since} \cup job.got.seqs
  BY CursorMoves
<1>4. inst < Final => Covered(cursor) /\ Covered(job.since) /\ job.got.seqs \subseteq ServedSeqs
  BY DEF ReadInv, Steady
<1>5. ASSUME job.got.seqs \subseteq ServedSeqs, NEW x \in job.got.seqs PROVE Covered(x)
  BY <1>2, <1>5 DEF Covered
<1> QED
  BY <1>1, <1>2, <1>3, <1>4, <1>5

LEMMA FoldsRight == ASSUME ReadInv, Unhurried, Folds PROVE ReadInv' /\ WordsLeave
<1>1. Elsewhere
  BY ElsewhereAlone DEF Folds, exchangeVars
<1>2. PICK f : f = fold_entries(State, job.got, told.inst, job.got.seqs)
  OBVIOUS
<1>3. PICK i : i = IF known = 0 THEN told.inst ELSE known
  OBVIOUS
<1>4. /\ job.at = "fold" /\ kept' = f.kept /\ timers' = f.timers /\ tl' = f.tl /\ known' = i
      /\ announce' = announce /\ told' = told /\ job'.at \in {"idle", "keys"}
      /\ cursor' = cursor \/ cursor' = Max({cursor, Max(job.got.seqs \cup {job.since})})
  BY <1>2, <1>3 DEF Folds, Stored, set_since, NoJob
<1>5. /\ RowsRight(f.kept, i) /\ TimelineRight(f.tl, i) /\ Spared(kept, f.kept)
      /\ f.timers \in [Seqs -> Nat] /\ \A s \in Seqs : f.timers[s] # 0 => f.timers[s] = Final /\ i = Final
      /\ i \in 1..inst
  BY <1>2, <1>3, <1>4, FoldUnderWay
<1>6. /\ Final' = Final /\ \A n : Said(n)' = Said(n)
      /\ \A n, s : entry(n, s)' = entry(n, s)
      /\ ServedSeqs \subseteq ServedSeqs' /\ inst' = inst /\ inst \in Nat /\ told.inst \in 0..inst
      /\ Final \in {1, 2}
  BY <1>1, ElsewhereFacts DEF ReadTypes
<1>7. cursor' \in Nat /\ (inst < Final => Covered(cursor'))
  BY <1>4, CursorAfter
<1>8. ReadTypes'
  <2>1. known' \in 0..inst /\ known' # 0
    BY <1>4, <1>5, <1>6
  <2> QED
    BY <1>1, <1>4, <1>5, <1>6, <1>7, <2>1, TypesAfter
<1>9. RowsRight(kept, known)'
  <2>1. PICK r : r = f.kept
    OBVIOUS
  <2> QED
    BY <1>1, <1>4, <1>5, <2>1, RowsAfter
<1>10. TimelineRight(tl, Current)'
  <2>1. PICK t : t = f.tl
    OBVIOUS
  <2>2. Current' = i
    BY <1>4, <1>5, <1>6 DEF Current
  <2> QED
    BY <1>1, <1>4, <1>5, <2>1, <2>2, TimelineAfter
<1>11. JobRight'
  BY <1>4 DEF JobRight
<1>12. Steady'
  <2> SUFFICES ASSUME inst < Final PROVE Steady'
    BY <1>6 DEF Steady
  <2>1. ~announce /\ (cursor' = 0 \/ \E x \in ServedSeqs' : cursor' <= x)
    BY <1>6, <1>7 DEF ReadInv, Steady, Covered
  <2> QED
    BY <1>4, <2>1 DEF Steady, Covered
<1>13. TimersRight'
  BY <1>4, <1>5, <1>6 DEF TimersRight
<1>14. WordsLeave
  BY <1>1, <1>4, <1>5, <1>9, EmptiedForAReason
<1> QED
  BY <1>8, <1>9, <1>10, <1>11, <1>12, <1>13, <1>14 DEF ReadInv

(* `history` empties what somebody who may has deleted.                    *)
LEMMA HistoryRight ==
    ASSUME NEW r, NEW i, RowsRight(r, i), i = 0 \/ i \in 1..Final, script \in Scripts, NEW q, Spared(q, r)
    PROVE  RowsRight(history(r), i) /\ Spared(q, history(r))
<1> DEFINE h == history(r)
           shown == fold_rows(r)
<1>1. TimelineRight(shown, i)
  BY FoldRowsRight
<1> HIDE DEF shown
<1>2. ASSUME NEW s \in Seqs, s \in Deleted(shown) PROVE Doomed(i, s)
  BY <1>1, <1>2 DEF TimelineRight, Deleted
<1>3. /\ h = [s \in Seqs |-> h[s]]
      /\ \A s \in Seqs : h[s] = IF r[s].has = "words" /\ s \in Deleted(shown)
                                THEN [r[s] EXCEPT !.has = "empty"] ELSE r[s]
  BY DEF history, shown
<1> HIDE DEF h
<1>4. ASSUME NEW s \in Seqs
      PROVE  \/ h[s] = r[s]
             \/ r[s].has = "words" /\ h[s] = [of |-> r[s].of, has |-> "empty"] /\ Doomed(i, s)
  <2>1. r[s] \in Row
    BY DEF RowsRight
  <2> QED
    BY <1>2, <1>3, <2>1 DEF Row
<1>5. RowsRight(h, i)
  <2>1. ASSUME NEW s \in Seqs PROVE h[s] \in Row
    <3>1. r[s] \in Row
      BY DEF RowsRight
    <3>2. CASE h[s] = [of |-> r[s].of, has |-> "empty"]
      BY <3>1, <3>2 DEF Row
    <3> QED
      BY <1>4, <3>1, <3>2
  <2>2. ASSUME NEW s \in Seqs, h[s].has # "none"
        PROVE  i # 0 /\ h[s].of = i /\ s \in Said(i) /\ (h[s].has = "empty" => Doomed(i, s))
    <3>1. r[s].has # "none" => i # 0 /\ r[s].of = i /\ s \in Said(i) /\ (r[s].has = "empty" => Doomed(i, s))
      BY DEF RowsRight
    <3>2. CASE h[s] = r[s]
      BY <2>2, <3>1, <3>2
    <3>3. CASE r[s].has = "words" /\ h[s] = [of |-> r[s].of, has |-> "empty"] /\ Doomed(i, s)
      BY <3>1, <3>3
    <3> QED
      BY <1>4, <3>2, <3>3
  <2>3. h \in [Seqs -> Row]
    BY <1>3, <2>1
  <2> QED
    BY <2>2, <2>3 DEF RowsRight
<1>6. Spared(q, h)
  <2> SUFFICES ASSUME NEW s \in Seqs, q[s].has = "words"
               PROVE  h[s] = q[s] \/ h[s] = [of |-> q[s].of, has |-> "empty"]
    BY DEF Spared
  <2>1. CASE r[s] = q[s]
    BY <1>4, <2>1
  <2>2. CASE r[s] = [of |-> q[s].of, has |-> "empty"]
    <3>1. r[s].has = "empty"
      BY <2>2
    <3> QED
      BY <1>4, <2>2, <3>1
  <2> QED
    BY <2>1, <2>2 DEF Spared
<1> QED
  BY <1>5, <1>6 DEF h

(* The client starts from the rows `r`, read of incarnation `i`.           *)
LEMMA StartsRight ==
    ASSUME ReadInv, Unhurried, Elsewhere, NEW CONSTANT r, NEW CONSTANT i, RowsRight(r, i), Spared(kept, r),
           StartsFrom(r), known' = i, i \in 0..inst, known # 0 => i # 0, TimersRight',
           timers' \in [Seqs -> Nat], UNCHANGED <<cursor, announce>>
    PROVE  ReadInv' /\ WordsLeave
<1>1. /\ Final' = Final /\ \A n : Said(n)' = Said(n)
      /\ \A n, s : entry(n, s)' = entry(n, s)
      /\ ServedSeqs \subseteq ServedSeqs' /\ inst' = inst /\ inst \in 1..Final /\ Final \in {1, 2}
      /\ ReadTypes
  BY ElsewhereFacts
<1>2. /\ kept' = history(r) /\ tl' = fold_rows(r) /\ told'.inst = 0 /\ job'.at = "idle"
  BY DEF StartsFrom, NoInfo, NoJob
<1>3. RowsRight(history(r), i) /\ Spared(kept, history(r))
  <2>1. script \in Scripts /\ (i = 0 \/ i \in 1..Final)
    BY <1>1 DEF ReadTypes
  <2>2. PICK q : q = kept
    OBVIOUS
  <2>3. RowsRight(history(r), i) /\ Spared(q, history(r))
    BY <2>1, <2>2, HistoryRight
  <2> QED
    BY <2>2, <2>3
<1>4. RowsRight(kept, known)'
  <2>1. PICK q : q = history(r)
    OBVIOUS
  <2> QED
    BY <1>2, <1>3, <2>1, RowsAfter
<1>5. TimelineRight(tl, Current)'
  <2>1. PICK t, c : t = fold_rows(r) /\ c = IF i = 0 THEN 1 ELSE i
    OBVIOUS
  <2>2. RowsRight(r, c) /\ c \in 1..Final
    BY <1>1, <2>1, UnreadRows
  <2>3. TimelineRight(fold_rows(r), c)
    BY <1>1, <2>2, FoldRowsRight DEF ReadTypes
  <2>4. Current' = c
    BY <2>1 DEF Current
  <2> QED
    BY <1>2, <2>1, <2>3, <2>4, TimelineAfter
<1>6. ReadTypes'
  <2>1. cursor' \in Nat /\ told'.inst \in 0..inst
    BY <1>1, <1>2 DEF ReadTypes
  <2> QED
    BY <1>1, <2>1, TypesAfter
<1>7. JobRight'
  BY <1>2 DEF JobRight
<1>8. Steady'
  <2> SUFFICES ASSUME inst < Final PROVE Steady'
    BY <1>1 DEF Steady
  <2>1. ~announce /\ (cursor = 0 \/ \E x \in ServedSeqs : cursor <= x)
    BY DEF ReadInv, Steady, Covered
  <2> QED
    BY <1>1, <1>2, <2>1 DEF Steady, Covered
<1>9. WordsLeave
  BY <1>2, <1>3, <1>4, EmptiedForAReason
<1> QED
  BY <1>4, <1>5, <1>6, <1>7, <1>8, <1>9 DEF ReadInv

LEMMA RestartRight == ASSUME ReadInv, Unhurried, Restart PROVE ReadInv' /\ WordsLeave
<1>1. Elsewhere
  BY ElsewhereAlone DEF Restart, exchangeVars
<1>2. PICK r, i : r = kept /\ i = known
  OBVIOUS
<1>3. StartsFrom(r) /\ known' = i /\ UNCHANGED <<cursor, announce, timers>>
  BY <1>2 DEF Restart
<1>4. RowsRight(r, i) /\ Spared(kept, r) /\ timers \in [Seqs -> Nat] /\ i \in 0..inst /\ (known # 0 => i # 0)
  BY <1>2 DEF ReadInv, ReadTypes, Spared
<1>5. TimersRight'
  BY <1>1, <1>2, <1>3, ElsewhereFacts DEF ReadInv, TimersRight
<1> QED
  BY <1>1, <1>3, <1>4, <1>5, StartsRight

LEMMA StopsAtRight == ASSUME ReadInv, Unhurried, NEW s \in Seqs, StopsAt(s) PROVE ReadInv' /\ WordsLeave
<1>1. Elsewhere
  BY ElsewhereAlone DEF StopsAt, exchangeVars
<1>2. PICK f : f = fold_entries(State, job.got, told.inst, {x \in job.got.seqs : x < s})
  OBVIOUS
<1>3. PICK i : i = IF known = 0 THEN told.inst ELSE known
  OBVIOUS
<1>4. /\ job.at = "fold" /\ known' = i /\ UNCHANGED <<cursor, announce>>
      /\ timers' = record_seen(f, job.got, s).timers /\ StartsFrom(record_seen(f, job.got, s).kept)
  BY <1>2, <1>3 DEF StopsAt
<1>5. /\ IsState(f) /\ RowsRight(f.kept, i) /\ Spared(kept, f.kept)
      /\ f.timers \in [Seqs -> Nat] /\ \A x \in Seqs : f.timers[x] # 0 => f.timers[x] = Final /\ i = Final
      /\ i \in 1..inst
  <2> DEFINE which == {x \in job.got.seqs : x < s}
  <2>1. which \subseteq job.got.seqs /\ f = fold_entries(State, job.got, told.inst, which)
    BY <1>2
  <2> HIDE DEF which
  <2> QED
    BY <1>3, <1>4, <2>1, FoldUnderWay
<1>6. record_seen(f, job.got, s).timers = f.timers /\ record_seen(f, job.got, s).kept = f.kept
  BY <1>5 DEF record_seen, IsState
<1>7. PICK r : r = f.kept
  OBVIOUS
<1>8. /\ StartsFrom(r) /\ RowsRight(r, i) /\ Spared(kept, r) /\ timers' = f.timers
      /\ i \in 0..inst /\ i # 0
  BY <1>4, <1>5, <1>6, <1>7, ReadingAssumption DEF ReadInv, ReadTypes, Final
<1>9. TimersRight'
  BY <1>1, <1>4, <1>5, <1>8, ElsewhereFacts DEF TimersRight
<1> QED
  BY <1>1, <1>4, <1>5, <1>8, <1>9, StartsRight

(* The client's own entry, next to the rows `r` of the incarnation         *)
LEMMA OwnRow ==
    ASSUME ReadInv, Unhurried, Sends, NEW r, RowsRight(r, inst), Own(r)
    PROVE  /\ RowsRight(kept', inst) /\ Spared(r, kept')
           /\ timers' \in [Seqs -> Nat] /\ \A s \in Seqs : timers'[s] = timers[s] \/ (timers'[s] = inst /\ inst = Final)
<1> DEFINE s == len + 1
           x == NextEntry.target
           q == put_message(r, s, inst, "words")
           p == redact_message(q, x)
<1>1. inst \in Nat \ {0} /\ inst \in 1..Final /\ len \in 0..Len(script.says[inst])
      /\ len < Len(script.says[inst])
  BY ReadingAssumption DEF ReadInv, ReadTypes, Final, Sends, MayPost
<1>2. Len(script.says[inst]) \in Nat
  BY <1>1, ReadingAssumption DEF ReadInv, ReadTypes, Final
<1>3. s \in Said(inst) /\ s \in Nat
  BY <1>1, <1>2 DEF Said
<1>4. s \in Seqs /\ (entry(inst, s).timed => inst = Final)
  BY <1>1, <1>3, ScriptFacts DEF ReadInv
<1>5. r \in [Seqs -> Row] /\ Spared(r, r)
  BY DEF RowsRight, Spared
<1>6. timers' \in [Seqs -> Nat] /\ \A n \in Seqs : timers'[n] = timers[n] \/ (timers'[n] = inst /\ inst = Final)
  <2>1. timers \in [Seqs -> Nat]
    BY DEF ReadInv, ReadTypes
  <2>2. timers' = IF entry(inst, s).timed THEN [timers EXCEPT ![s] = inst] ELSE timers
    BY DEF Own, NextEntry
  <2> HIDE DEF s
  <2> QED
    BY <1>1, <1>4, <2>1, <2>2
<1>7. /\ kept' = IF NextEntry.is = "redact" THEN p ELSE q
      /\ NextEntry.is = "redact" => <<inst, x>> \in wiped
  BY DEF Own, Sends
<1> HIDE DEF s, x
<1>8. /\ q \in [Seqs -> Row] /\ Spared(r, q)
      /\ \A n \in Seqs : q[n] \in {r[n], [of |-> inst, has |-> "words"]}
      /\ \A n \in Seqs \ {s} : q[n] = r[n]
  BY <1>1, <1>5, PutSpares
<1> HIDE DEF q
<1>9. RowsRight(q, inst)
  <2> SUFFICES ASSUME NEW n \in Seqs, q[n].has # "none"
               PROVE  q[n].of = inst /\ n \in Said(inst) /\ (q[n].has = "empty" => Doomed(inst, n))
    BY <1>1, <1>8 DEF RowsRight
  <2>1. CASE q[n] = r[n]
    BY <2>1 DEF RowsRight
  <2>2. CASE n = s /\ q[n] = [of |-> inst, has |-> "words"]
    BY <1>3, <2>2
  <2> QED
    BY <1>8, <2>1, <2>2
<1>10. /\ p \in [Seqs -> Row] /\ Spared(r, p)
       /\ \A n \in Seqs \ {x} : p[n] = q[n]
       /\ x \in Seqs => p[x] = IF q[x].has = "none" THEN q[x] ELSE [of |-> q[x].of, has |-> "empty"]
  BY <1>8, RedactSpares
<1> HIDE DEF p
<1>11. ASSUME <<inst, x>> \in wiped PROVE RowsRight(p, inst)
  <2> SUFFICES ASSUME NEW n \in Seqs, p[n].has # "none"
               PROVE  p[n].of = inst /\ n \in Said(inst) /\ (p[n].has = "empty" => Doomed(inst, n))
    BY <1>1, <1>10 DEF RowsRight
  <2>1. CASE p[n] = q[n]
    BY <1>9, <2>1 DEF RowsRight
  <2>2. CASE n = x /\ q[n].has # "none" /\ p[n] = [of |-> q[n].of, has |-> "empty"]
    <3>1. Doomed(inst, n)
      BY <1>11, <2>2 DEF Doomed
    <3> QED
      BY <1>9, <2>2, <3>1 DEF RowsRight
  <2> QED
    BY <1>10, <2>1, <2>2
<1> QED
  BY <1>6, <1>7, <1>8, <1>9, <1>10, <1>11

LEMMA SendsElsewhere == ASSUME ReadInv, Sends PROVE Elsewhere
<1>1. inst \in 1..Final /\ len \in 0..Len(script.says[inst]) /\ len < Len(script.says[inst])
  BY DEF ReadInv, ReadTypes, Sends, MayPost
<1>2. Len(script.says[inst]) \in Nat
  BY <1>1, ReadingAssumption DEF ReadInv, ReadTypes, Final
<1> QED
  BY <1>1, <1>2 DEF Elsewhere, Sends

(* The invariant after an entry of the client's own                        *)
LEMMA SentRight ==
    ASSUME ReadInv, Unhurried, Sends, known' = inst, cursor' \in {cursor, 0}, RowsRight(kept', inst),
           timers' \in [Seqs -> Nat], \A s \in Seqs : timers'[s] # 0 => timers'[s] = Final /\ inst = Final,
           \/ announce' = announce /\ known \in {0, inst}
           \/ announce' = TRUE /\ inst = Final
    PROVE  ReadInv'
<1>1. Elsewhere /\ UNCHANGED memoryVars /\ job.at = "idle"
  BY SendsElsewhere DEF Sends, NoJob
<1>2. /\ Final' = Final /\ \A n : Said(n)' = Said(n)
      /\ \A n, s : entry(n, s)' = entry(n, s)
      /\ ServedSeqs \subseteq ServedSeqs' /\ inst' = inst /\ inst \in 1..Final /\ Final \in {1, 2}
      /\ ReadTypes /\ known \in 0..inst /\ (known = 0 => Final = 1)
  BY <1>1, ElsewhereFacts
<1>3. tl' = tl /\ told' = told /\ job' = job
  BY <1>1 DEF memoryVars
<1>4. RowsRight(kept, known)'
  <2>1. PICK r, i : r = kept' /\ i = known'
    OBVIOUS
  <2> QED
    BY <1>1, <2>1, RowsAfter
<1>5. announce' \/ TimelineRight(tl, Current)'
  <2> SUFFICES ASSUME ~announce' PROVE TimelineRight(tl, Current)'
    OBVIOUS
  <2>1. PICK t, i : t = tl /\ i = Current
    OBVIOUS
  <2>2. TimelineRight(t, i)
    BY <2>1 DEF ReadInv
  <2>3. Current' = i
    BY <1>2, <2>1 DEF Current
  <2> QED
    BY <1>1, <1>3, <2>1, <2>2, <2>3, TimelineAfter
<1>6. ReadTypes'
  <2>1. known' \in 0..inst /\ known' # 0 /\ cursor' \in Nat /\ told'.inst \in 0..inst
    BY <1>2, <1>3 DEF ReadTypes
  <2> QED
    BY <1>1, <1>2, <2>1, TypesAfter
<1>7. JobRight'
  BY <1>1, <1>3 DEF JobRight
<1>8. Steady'
  <2> SUFFICES ASSUME inst < Final PROVE Steady'
    BY <1>2 DEF Steady
  <2>1. ~announce /\ (cursor = 0 \/ \E x \in ServedSeqs : cursor <= x)
    BY DEF ReadInv, Steady, Covered
  <2>2. ~announce' /\ (cursor' = 0 \/ \E x \in ServedSeqs' : cursor' <= x)
    BY <1>2, <2>1
  <2> QED
    BY <1>1, <1>3, <2>2 DEF Steady, Covered
<1>9. TimersRight'
  BY <1>2 DEF TimersRight
<1> QED
  BY <1>4, <1>5, <1>6, <1>7, <1>8, <1>9 DEF ReadInv

(* A row, or none, of the incarnation there is                             *)
LEMMA SendsOnRight == ASSUME ReadInv, Unhurried, SendsOn PROVE ReadInv' /\ WordsLeave
<1>1. /\ Sends /\ known \in {0, inst} /\ known' = inst /\ Own(kept) /\ cursor' = cursor
      /\ announce' = announce /\ inst \in 1..Final
  BY DEF SendsOn, ReadInv, ReadTypes
<1>2. RowsRight(kept, inst)
  BY <1>1, UnreadRows DEF ReadInv
<1>3. /\ RowsRight(kept', inst) /\ Spared(kept, kept')
      /\ timers' \in [Seqs -> Nat] /\ \A s \in Seqs : timers'[s] = timers[s] \/ (timers'[s] = inst /\ inst = Final)
  BY <1>1, <1>2, OwnRow
<1>4. \A s \in Seqs : timers'[s] # 0 => timers'[s] = Final /\ inst = Final
  BY <1>1, <1>3, ScriptFacts DEF ReadInv, TimersRight
<1>5. ReadInv'
  BY <1>1, <1>3, <1>4, SentRight
<1>6. WordsLeave
  BY <1>1, <1>3, <1>5, SendsElsewhere, EmptiedForAReason DEF ReadInv
<1> QED
  BY <1>5, <1>6

LEMMA SendsAnewRight == ASSUME ReadInv, Unhurried, SendsAnew PROVE ReadInv' /\ WordsLeave
<1>1. /\ Sends /\ known \notin {0, inst} /\ known' = inst /\ Own(NothingKept) /\ cursor' = 0
      /\ announce' = TRUE /\ attic' = Archived(kept)
  BY DEF SendsAnew
<1>2. Final \in {1, 2} /\ inst \in 1..Final /\ known \in 0..inst
  BY ScriptFacts DEF ReadInv
<1>3. inst = Final /\ known # Final
  BY <1>1, <1>2
<1>4. /\ RowsRight(kept', inst)
      /\ timers' \in [Seqs -> Nat] /\ \A s \in Seqs : timers'[s] = timers[s] \/ (timers'[s] = inst /\ inst = Final)
  BY <1>1, NoRowsRight, OwnRow
<1>5. \A s \in Seqs : timers'[s] # 0 => timers'[s] = Final /\ inst = Final
  BY <1>3, <1>4 DEF ReadInv, TimersRight
<1>6. ReadInv'
  BY <1>1, <1>3, <1>4, <1>5, SentRight
<1>7. WordsLeave
  <2>1. Spared(kept, kept)
    BY DEF Spared
  <2> QED
    BY <1>1, <2>1, PutAway DEF ReadInv
<1> QED
  BY <1>6, <1>7

LEMMA SendUnheardRight == ASSUME ReadInv, Unhurried, SendUnheard PROVE ReadInv' /\ WordsLeave
<1>1. /\ Sends /\ known \in {0, inst} /\ known' = inst
      /\ UNCHANGED <<kept, cursor, announce, timers>>
  BY DEF SendUnheard
<1>2. Final \in {1, 2} /\ inst \in 1..Final /\ known \in 0..inst
  BY ScriptFacts DEF ReadInv
<1>3. RowsRight(kept', inst)
  BY <1>1, UnreadRows DEF ReadInv
<1>4. timers' \in [Seqs -> Nat] /\ \A s \in Seqs : timers'[s] # 0 => timers'[s] = Final /\ inst = Final
  BY <1>1, <1>2 DEF ReadInv, ReadTypes, TimersRight
<1>5. ReadInv'
  BY <1>1, <1>3, <1>4, SentRight
<1> QED
  BY <1>1, <1>5, NothingLeft

LEMMA ReadInvNext == ASSUME ReadInv, Unhurried, [RdNext]_rdVars PROVE ReadInv' /\ WordsLeave
<1>1. CASE Exchange \/ Ask \/ FoldedAway \/ EnsureBack \/ EnsureKey
  BY <1>1, ExchangeRight, AskRight, FoldedAwayRight, EnsureBackRight, EnsureKeyRight
<1>2. CASE PollStep
  BY <1>2, GoesOnRight, StartsOverRight, FetchAgainRight, InformsRight, FoldsRight, CollectsAfterRight,
     JobFailsRight DEF PollStep
<1>3. CASE SendsOn \/ SendsAnew \/ SendUnheard
  BY <1>3, SendsOnRight, SendsAnewRight, SendUnheardRight
<1>4. CASE Restart \/ \E s \in Seqs : StopsAt(s)
  BY <1>4, RestartRight, StopsAtRight
<1>5. CASE UNCHANGED rdVars
  BY <1>5, ReadStutters
<1> QED
  BY <1>1, <1>2, <1>3, <1>4, <1>5 DEF RdNext

THEOREM WordsAreKeptAlways == ASSUME Unhurried PROVE RdSpec => WordsAreKept
<1>1. RdInit => ReadInv
  BY ReadInvInit
<1>2. ReadInv /\ [RdNext]_rdVars => ReadInv'
  BY ReadInvNext
<1>3. ReadInv /\ [RdNext]_rdVars => [WordsLeave]_rdVars
  BY ReadInvNext
<1> QED
  BY <1>1, <1>2, <1>3, PTL DEF RdSpec, WordsAreKept

(* What the cursor and the answers in flight promise of the incarnation    *)
(* there is: what is served up to the cursor is held or accounted for, and *)
(* an answer leaves out nothing between what was asked for and its last.   *)
Accounted(s) == kept[s].of = inst \/ <<inst, s>> \in filled \/ Lost(s)
HeldUpTo(n) == \A s \in ServedSeqs : s <= n => Accounted(s)

Asking == job.at \in {"told", "info", "fold"}

AnswerIsWhole ==
  Asking /\ job.got.of = inst /\ known \in {0, inst} =>
    /\ job.since <= len /\ HeldUpTo(job.since)
    /\ \A x \in job.got.seqs : x <= len
    /\ \A x \in job.got.seqs : \A s \in ServedSeqs :
         job.since < s /\ s <= x => s \in job.got.seqs \/ <<inst, s>> \in filled

CursorIsCovered == known = inst => OpenedIsKept /\ cursor <= len /\ HeldUpTo(cursor)

PassedInv ==
  /\ known = 0 => cursor = 0 /\ spent = {} /\ (Asking => job.since = 0)
  /\ CursorIsCovered /\ AnswerIsWhole
  /\ job.at = "fold" /\ job.got.seqs # {} /\ job.got.of = inst => told.inst = inst

LEMMA PassedInvInit == RdInit => PassedInv
<1> SUFFICES ASSUME RdInit PROVE PassedInv
  OBVIOUS
<1>1. cursor = 0 /\ spent = {} /\ len = 0 /\ hidden = {} /\ job = NoJob
  BY DEF RdInit
<1>2. ServedSeqs = {} /\ job.at = "idle"
  BY <1>1 DEF ServedSeqs, NoJob
<1> QED
  BY <1>1, <1>2 DEF PassedInv, CursorIsCovered, OpenedIsKept, HeldUpTo, AnswerIsWhole, Asking

(* A step within an incarnation: what is held or accounted for stays so,   *)
(* and what is served anew is above the log, or noted as served late.      *)
Onward ==
  /\ inst' = inst /\ len' \in Nat /\ len <= len' /\ filled \subseteq filled'
  /\ tornOff \subseteq tornOff' /\ past \subseteq past'
  /\ \A s \in ServedSeqs' : s \in Seqs /\ (s \in ServedSeqs \/ s > len \/ <<inst, s>> \in filled')

RowsGoOn ==
  known = inst => \A s \in Seqs : kept[s].of = inst => kept'[s].of = inst \/ <<inst, s>> \in past'

LEMMA SeqsAre == \A s \in Seqs : s \in Nat /\ s # 0
  BY ReadingAssumption DEF Seqs

LEMMA OnwardFacts ==
    ASSUME Onward, ReadTypes, RowsGoOn
    PROVE  /\ \A s \in Seqs : known = inst /\ Accounted(s) => Accounted(s)'
           /\ \A n \in Nat : known = inst /\ n <= len /\ HeldUpTo(n) =>
                               \A s \in ServedSeqs' : s <= n => Accounted(s)'
           /\ \A s : Lost(s) => Lost(s)'
           /\ len \in Nat
<1>1. len \in Nat
  <2>1. inst \in 1..Final /\ script \in Scripts /\ len \in 0..Len(script.says[inst])
    BY DEF ReadTypes
  <2> QED
    BY <2>1, ReadingAssumption DEF Final
<1>2. \A s : Lost(s) => Lost(s)'
  BY DEF Onward, Lost
<1>3. ASSUME NEW s \in Seqs, known = inst, Accounted(s) PROVE Accounted(s)'
  BY <1>2, <1>3 DEF Onward, RowsGoOn, Accounted, Lost
<1>4. ASSUME NEW n \in Nat, known = inst, n <= len, HeldUpTo(n), NEW s \in ServedSeqs', s <= n
      PROVE  Accounted(s)'
  <2>1. s \in Seqs /\ s \in Nat
    BY <1>4, SeqsAre DEF Onward
  <2>2. CASE s \in ServedSeqs
    BY <1>3, <1>4, <2>1, <2>2 DEF HeldUpTo
  <2>3. CASE <<inst, s>> \in filled'
    BY <2>3 DEF Accounted, Onward
  <2> QED
    BY <1>1, <1>4, <2>1, <2>2, <2>3 DEF Onward
<1> QED
  BY <1>1, <1>2, <1>3, <1>4

(* What was opened stays held, and the cursor goes back or stays.          *)
LEMMA CoveredStays ==
    ASSUME ReadInv, PassedInv, Onward, RowsGoOn, known' = known, spent' = spent, cursor' \in {cursor, 0},
           \A s \in Seqs : known = inst /\ kept[s].has \in {"words", "empty"} =>
                             kept'[s].has \in {"words", "empty"} \/ <<inst, s>> \in past'
    PROVE  CursorIsCovered' /\ (known' = 0 => cursor' = 0 /\ spent' = {})
<1>1. /\ \A n \in Nat : known = inst /\ n <= len /\ HeldUpTo(n) =>
                          \A s \in ServedSeqs' : s <= n => Accounted(s)'
      /\ \A s : Lost(s) => Lost(s)'
      /\ len \in Nat /\ cursor \in Nat
  BY OnwardFacts DEF ReadInv, ReadTypes
<1>2. known' = 0 => cursor' = 0 /\ spent' = {}
  BY DEF PassedInv
<1>3. ASSUME known = inst PROVE CursorIsCovered'
  <2>1. OpenedIsKept /\ cursor <= len /\ HeldUpTo(cursor)
    BY <1>3 DEF PassedInv, CursorIsCovered
  <2>2. OpenedIsKept'
    BY <1>1, <1>3, <2>1 DEF OpenedIsKept, Onward, Lost
  <2>3. HeldUpTo(0)
    BY DEF HeldUpTo, ServedSeqs
  <2>4. \A s \in ServedSeqs' : s <= cursor' => Accounted(s)'
    BY <1>1, <1>3, <2>1, <2>3
  <2>5. HeldUpTo(cursor)'
    BY <2>4 DEF HeldUpTo
  <2>6. (cursor <= len)'
    BY <1>1, <2>1 DEF Onward
  <2> QED
    BY <2>2, <2>5, <2>6 DEF CursorIsCovered
<1>4. ASSUME known # inst PROVE CursorIsCovered'
  BY <1>4 DEF CursorIsCovered, Onward
<1> QED
  BY <1>2, <1>3, <1>4

(* An answer carried on is as whole as it was.                             *)
LEMMA WholeStays ==
    ASSUME ReadInv, PassedInv, Onward, RowsGoOn, known' = known,
           Asking' => Asking /\ job'.since = job.since /\ job'.got = job.got
    PROVE  AnswerIsWhole'
<1> SUFFICES ASSUME Asking', job'.got.of = inst, known \in {0, inst} PROVE AnswerIsWhole'
  BY DEF AnswerIsWhole, Onward
<1>1. Asking /\ job'.since = job.since /\ job'.got = job.got
  OBVIOUS
<1>2. /\ job.since <= len /\ HeldUpTo(job.since)
      /\ \A x \in job.got.seqs : x <= len
      /\ \A x \in job.got.seqs : \A s \in ServedSeqs :
           job.since < s /\ s <= x => s \in job.got.seqs \/ <<inst, s>> \in filled
  BY <1>1 DEF PassedInv, AnswerIsWhole
<1>3. job.since \in Nat /\ job.got.seqs \subseteq Nat
  BY <1>1 DEF ReadInv, JobRight, Asking, Fetched, Said
<1>4. /\ \A n \in Nat : known = inst /\ n <= len /\ HeldUpTo(n) =>
                          \A s \in ServedSeqs' : s <= n => Accounted(s)'
      /\ len \in Nat
  BY OnwardFacts DEF ReadInv
<1>5. ServedSeqs' \subseteq Nat \ {0}
  BY SeqsAre DEF Onward
<1>6. \A s \in ServedSeqs' : s <= job.since => Accounted(s)'
  <2>1. CASE known = inst
    BY <1>2, <1>3, <1>4, <2>1
  <2>2. CASE known = 0
    <3>1. job.since = 0
      BY <1>1, <2>2 DEF PassedInv
    <3>2. \A s \in ServedSeqs' : s \in Nat /\ s # 0
      BY <1>5
    <3>3. \A s \in ServedSeqs' : ~(s <= 0)
      BY <3>2
    <3> QED
      BY <3>1, <3>3
  <2> QED
    BY <2>1, <2>2
<1>7. ASSUME NEW x \in job.got.seqs, NEW s \in ServedSeqs', job.since < s, s <= x
      PROVE  s \in job.got.seqs \/ <<inst, s>> \in filled'
  BY <1>2, <1>3, <1>4, <1>5, <1>7 DEF Onward
<1>8. HeldUpTo(job.since)'
  BY <1>1, <1>6 DEF HeldUpTo
<1>9. (job.since <= len)' /\ \A x \in job.got.seqs : x <= len'
  BY <1>1, <1>2, <1>3, <1>4 DEF Onward
<1> QED
  BY <1>1, <1>7, <1>8, <1>9 DEF AnswerIsWhole, Onward

(* Where the cursor is back at the start and no counter is recorded        *)
LEMMA PassedReset ==
    ASSUME ReadInv, ReadInv', spent' = {}, cursor' = 0, job'.at \notin {"told", "info", "fold"}
    PROVE  PassedInv'
<1>1. len' \in Nat
  <2>1. inst' \in 1..Final' /\ script' \in Scripts /\ len' \in 0..Len(script'.says[inst'])
    BY DEF ReadInv, ReadTypes
  <2> QED
    BY <2>1, ReadingAssumption DEF Final
<1>2. HeldUpTo(cursor)'
  BY <1>1 DEF HeldUpTo, ServedSeqs
<1> QED
  BY <1>1, <1>2 DEF PassedInv, CursorIsCovered, OpenedIsKept, AnswerIsWhole, Asking

(* A step that takes an answer no further than it was                      *)
LEMMA PassedGoesOn ==
    ASSUME ReadInv, PassedInv, Onward, RowsGoOn, known' = known, spent' = spent, cursor' \in {cursor, 0},
           \A s \in Seqs : known = inst /\ kept[s].has \in {"words", "empty"} =>
                             kept'[s].has \in {"words", "empty"} \/ <<inst, s>> \in past',
           Asking' => Asking /\ job'.since = job.since /\ job'.got = job.got,
           job'.at = "fold" /\ job'.got.seqs # {} /\ job'.got.of = inst => told'.inst = inst
    PROVE  PassedInv'
<1>1. CursorIsCovered' /\ (known' = 0 => cursor' = 0 /\ spent' = {})
  BY CoveredStays
<1>2. AnswerIsWhole'
  BY WholeStays
<1>3. known' = 0 /\ Asking' => job'.since = 0
  BY DEF PassedInv
<1> QED
  BY <1>1, <1>2, <1>3 DEF PassedInv, Onward

(* What is said is within the bounds, and what is served is in the log.    *)
LEMMA SaidWithin ==
    ASSUME script \in Scripts, NEW i, i \in 1..Final
    PROVE  Len(script.says[i]) \in 0..MaxSeq /\ i \in Nat \ {0} /\ Said(i) \subseteq Seqs
<1>1. i \in 1..Len(script.says) /\ script \in Scripts
  BY DEF Final
<1>2. Len(script.says[i]) \in 0..MaxSeq /\ i \in Nat \ {0}
  BY ONLY <1>1, ReadingAssumption
<1> QED
  BY <1>2, ReadingAssumption DEF Said, Seqs

LEMMA ServedAre ==
    ASSUME ReadInv
    PROVE  len \in Nat /\ cursor \in Nat /\ \A s \in ServedSeqs : s \in Seqs /\ s \in Nat /\ s # 0 /\ s <= len
<1>1. inst \in 1..Final /\ script \in Scripts /\ len \in 0..Len(script.says[inst]) /\ cursor \in Nat
  BY DEF ReadInv, ReadTypes
<1>2. Len(script.says[inst]) \in 0..MaxSeq
  BY <1>1, ReadingAssumption DEF Final
<1>3. len \in Nat /\ len <= MaxSeq /\ MaxSeq \in Nat
  BY <1>1, <1>2, ReadingAssumption
<1> QED
  BY <1>1, <1>3 DEF ServedSeqs, Seqs

LEMMA PassedExchange == ASSUME ReadInv, PassedInv, Unhurried, Exchange PROVE PassedInv'
<1>0. /\ len \in Nat /\ len <= Len(script.says[inst]) /\ Len(script.says[inst]) \in 0..MaxSeq
      /\ inst \in 1..Final /\ ReadTypes
  <2>1. inst \in 1..Final /\ script \in Scripts /\ len \in 0..Len(script.says[inst]) /\ ReadTypes
    BY DEF ReadInv, ReadTypes
  <2> QED
    BY <2>1, ReadingAssumption DEF Final
<1>1. UNCHANGED <<kept, known, spent, cursor, told, job>>
  <2>1. Grows
    BY ExchangeGrows
  <2> QED
    BY <2>1 DEF Grows, diskVars, memoryVars
<1>2. CASE MadeAnew
  <2>1. inst' = inst + 1 /\ inst \in Nat
    BY <1>2, ReadingAssumption DEF MadeAnew, ReadInv, ReadTypes, Final
  <2>2. known # 0 /\ known \in 0..inst
    <3>1. inst < Final
      BY <1>2 DEF MadeAnew, ReadInv, ReadTypes
    <3> QED
      BY <3>1, ScriptFacts DEF ReadInv
  <2>3. Asking => job.got.of \in 1..inst
    BY DEF ReadInv, JobRight, Asking, Fetched
  <2>4. known' # 0 /\ known' # inst' /\ (Asking' => job'.got.of # inst')
    BY <1>1, <2>1, <2>2, <2>3 DEF Asking
  <2> QED
    BY <2>4 DEF PassedInv, CursorIsCovered, AnswerIsWhole, Asking
<1>3. CASE ~MadeAnew
  <2>1. Onward
    <3>1. CASE \E b \in BOOLEAN : Arrives(b)
      <4>1. /\ inst' = inst /\ len' = len + 1 /\ len < Len(script.says[inst])
            /\ hidden \subseteq hidden' /\ UNCHANGED <<filled, tornOff, past>>
        BY <3>1 DEF Arrives, MayPost
      <4>2. len' \in Seqs /\ len' \in Nat /\ len < len'
        BY <1>0, <4>1, ReadingAssumption DEF Seqs
      <4>3. \A s \in ServedSeqs' : s \in ServedSeqs \/ s = len'
        BY <1>0, <4>1 DEF ServedSeqs
      <4> QED
        BY <1>0, <4>1, <4>2, <4>3, ServedAre DEF Onward
    <3>2. CASE \E b \in BOOLEAN : Rotates(b) \/ Ends(b)
      BY <1>0, <3>2, ReadingAssumption DEF Rotates, Ends, ghostVars, Onward, ServedSeqs, Seqs
    <3>3. CASE \E s \in Seqs : Fills(s)
      BY <1>0, <3>3, ReadingAssumption DEF Fills, Onward, ServedSeqs, Seqs
    <3>4. CASE \E s \in Seqs : Wipes(s) \/ Swept(s)
      BY <1>0, <3>4, ReadingAssumption DEF Wipes, Swept, ghostVars, Onward, ServedSeqs, Seqs
    <3>5. CASE \E e \in RdEpoch : Seals(e)
      BY <1>0, <3>5, ReadingAssumption DEF Seals, ghostVars, Onward, ServedSeqs, Seqs
    <3>6. CASE \E i \in Insts, s \in Seqs : TimeUp(i, s)
      BY <1>0, <3>6, ReadingAssumption DEF TimeUp, ghostVars, Onward, ServedSeqs, Seqs
    <3> QED
      BY <1>3, <3>1, <3>2, <3>3, <3>4, <3>5, <3>6 DEF Exchange
  <2>2. RowsGoOn
    BY <1>1 DEF RowsGoOn
  <2>3. Asking' => Asking /\ job'.since = job.since /\ job'.got = job.got
    BY <1>1 DEF Asking
  <2>4. job'.at = "fold" /\ job'.got.seqs # {} /\ job'.got.of = inst => told'.inst = inst
    BY <1>1 DEF PassedInv
  <2> QED
    BY <1>1, <2>1, <2>2, <2>3, <2>4, PassedGoesOn
<1> QED
  BY <1>2, <1>3

(* A step of the client that sends nothing                                 *)
LEMMA AloneOnward ==
    ASSUME ReadInv, UNCHANGED <<inst, len, hidden, filled, past>>, tornOff \subseteq tornOff' PROVE Onward
<1>1. inst \in 1..Final /\ script \in Scripts /\ len \in 0..Len(script.says[inst])
  BY DEF ReadInv, ReadTypes
<1>2. Len(script.says[inst]) \in 0..MaxSeq
  BY <1>1, ReadingAssumption DEF Final
<1> QED
  BY <1>1, <1>2, ReadingAssumption DEF Onward, ServedSeqs, Seqs

(* Of those that leave the rows and the counters too                       *)
LEMMA PassedQuiet ==
    ASSUME ReadInv, PassedInv, UNCHANGED <<inst, len, hidden, filled, past, tornOff>>,
           UNCHANGED <<kept, known, spent>>, cursor' \in {cursor, 0},
           Asking' => Asking /\ job'.since = job.since /\ job'.got = job.got,
           job'.at = "fold" /\ job'.got.seqs # {} /\ job'.got.of = inst => told'.inst = inst
    PROVE  PassedInv'
<1>1. Onward
  BY AloneOnward
<1>2. RowsGoOn
  BY DEF RowsGoOn
<1> QED
  BY <1>1, <1>2, PassedGoesOn

LEMMA PassedSmallSteps ==
    ASSUME ReadInv, PassedInv, GoesOn \/ Informs \/ CollectsAfter \/ JobFails \/ EnsureKey PROVE PassedInv'
<1>1. CASE GoesOn
  <2>1. job.at = "told" /\ Fetched(job)
    BY <1>1 DEF GoesOn, ReadInv, JobRight
  <2>2. job'.at = "info" /\ job'.since = job.since /\ job'.got = job.got
    BY <1>1, <2>1 DEF GoesOn, Fetched
  <2> QED
    BY <1>1, <2>1, <2>2, PassedQuiet DEF GoesOn, exchangeVars, diskVars, ghostVars, Asking
<1>2. CASE Informs
  <2>1. job.at = "info" /\ Fetched(job)
    BY <1>2 DEF Informs, ReadInv, JobRight
  <2>2. job'.at = "fold" /\ job'.since = job.since /\ job'.got = job.got
    BY <1>2, <2>1 DEF Informs, Fetched
  <2>3. job.got.seqs # {} => told'.inst = inst
    <3>1. PICK t \in Told(job.got.seqs # {}) : told' \in {t, Now}
      BY <1>2 DEF Informs
    <3>2. job.got.seqs # {} => t.inst = inst
      BY ToldRight
    <3> QED
      BY <3>1, <3>2 DEF Now
  <2>4. cursor' \in {cursor, 0}
    BY <1>2 DEF Informs, absorb_keys, NoCollection
  <2> QED
    BY <1>2, <2>1, <2>2, <2>3, <2>4, PassedQuiet DEF Informs, ghostVars, Asking
<1>3. CASE CollectsAfter
  <2>1. job'.at = "idle" /\ cursor' \in {cursor, 0}
    BY <1>3 DEF CollectsAfter, absorb_keys, NoJob
  <2> QED
    BY <1>3, <2>1, PassedQuiet DEF CollectsAfter, ghostVars, Asking
<1>4. CASE JobFails
  <2>1. job'.at = "idle"
    BY <1>4 DEF JobFails, NoJob
  <2> QED
    BY <1>4, <2>1, PassedQuiet DEF JobFails, exchangeVars, diskVars, Asking
<1>5. CASE EnsureKey
  <2>1. job'.at = "idle" /\ cursor' \in {cursor, 0}
    BY <1>5 DEF EnsureKey, absorb_keys, NoJob, memoryVars
  <2> QED
    BY <1>5, <2>1, PassedQuiet DEF EnsureKey, ghostVars, Asking
<1> QED
  BY <1>1, <1>2, <1>3, <1>4, <1>5

LEMMA PassedResets ==
    ASSUME ReadInv, ReadInv', PassedInv, StartsOver \/ FoldedAway \/ EnsureBack \/ SendsAnew PROVE PassedInv'
<1>1. spent' = {} /\ cursor' = 0
  BY DEF StartsOver, FoldedAway, EnsureBack, SendsAnew, reset_sequence_space
<1>2. job'.at \notin {"told", "info", "fold"}
  <2>1. CASE StartsOver
    <3>1. Fetched(job)
      BY <2>1 DEF StartsOver, ReadInv, JobRight
    <3> QED
      BY <2>1, <3>1 DEF StartsOver, Fetched
  <2>2. CASE FoldedAway \/ EnsureBack \/ SendsAnew
    <3>1. job' = NoJob
      BY <2>2 DEF FoldedAway, EnsureBack, SendsAnew, Sends, memoryVars
    <3> QED
      BY <3>1 DEF NoJob
  <2> QED
    BY <2>1, <2>2
<1> QED
  BY <1>1, <1>2, PassedReset

LEMMA PassedFetchAgain == ASSUME ReadInv, PassedInv, FetchAgain PROVE PassedInv'
<1>1. /\ Onward /\ RowsGoOn /\ UNCHANGED <<kept, known, spent, cursor, told, inst, len, hidden, filled>>
  BY AloneOnward DEF FetchAgain, exchangeVars, diskVars, ghostVars, RowsGoOn
<1>2. CursorIsCovered' /\ (known' = 0 => cursor' = 0 /\ spent' = {})
  BY <1>1, CoveredStays
<1>3. job'.at = "info" /\ job'.since = 0 /\ job'.got = Answer(0)
  BY DEF FetchAgain
<1>4. /\ ServedSeqs' = ServedSeqs /\ len \in Nat
      /\ \A s \in ServedSeqs : s \in Seqs /\ s \in Nat /\ s # 0 /\ s <= len
  BY <1>1, ServedAre DEF ServedSeqs
<1>5. HeldUpTo(job.since)'
  BY <1>3, <1>4 DEF HeldUpTo
<1>6. Answer(0).seqs = {s \in ServedSeqs : s > 0}
  BY DEF Answer
<1>7. AnswerIsWhole'
  BY <1>1, <1>3, <1>4, <1>5, <1>6 DEF AnswerIsWhole
<1> QED
  BY <1>2, <1>3, <1>7 DEF PassedInv

LEMMA PassedAsk == ASSUME ReadInv, PassedInv, Ask PROVE PassedInv'
<1> DEFINE since == IF ~gapAsked /\ Gaps # {} THEN Min({cursor, Min(Gaps)}) ELSE cursor
<1>1. /\ job' = [at |-> "told", since |-> since, got |-> Answer(since)]
      /\ kept' = [s \in Seqs |-> IF s \in Expired THEN NoRow ELSE kept[s]]
      /\ UNCHANGED <<inst, len, hidden, filled, past, tornOff, known, spent, cursor, told>>
  BY DEF Ask, exchangeVars, ghostVars
<1>2. since \in Nat /\ since <= cursor
  BY SinceIs
<1> HIDE DEF since
<1>3. ASSUME NEW s \in Seqs, s \in Expired PROVE known = inst => <<inst, s>> \in past
  <2>1. timers[s] = Final /\ known = Final /\ <<timers[s], s>> \in past
    BY <1>3 DEF Expired, ReadInv, TimersRight
  <2> QED
    BY <2>1
<1>4. Onward
  BY <1>1, AloneOnward
<1>5. RowsGoOn
  BY <1>1, <1>3 DEF RowsGoOn
<1>6. CursorIsCovered' /\ (known' = 0 => cursor' = 0 /\ spent' = {})
  <2>1. \A s \in Seqs : known = inst /\ kept[s].has \in {"words", "empty"} =>
          kept'[s].has \in {"words", "empty"} \/ <<inst, s>> \in past'
    BY <1>1, <1>3
  <2> QED
    BY <1>1, <1>4, <1>5, <2>1, CoveredStays
<1>7. /\ ServedSeqs' = ServedSeqs /\ len \in Nat /\ cursor \in Nat
      /\ \A s \in ServedSeqs : s \in Seqs /\ s \in Nat /\ s # 0 /\ s <= len
  BY <1>1, ServedAre DEF ServedSeqs
<1>8. job'.at = "told" /\ job'.since = since /\ job'.got = Answer(since)
      /\ Answer(since).seqs = {s \in ServedSeqs : s > since}
  BY <1>1 DEF Answer
<1>9. known = 0 => since = 0
  BY <1>2, <1>7 DEF PassedInv
<1>10. known \in {0, inst} => since <= len /\ \A s \in ServedSeqs : s <= since => Accounted(s)'
  <2>1. CASE known = inst
    BY <1>1, <1>2, <1>6, <1>7, <2>1 DEF CursorIsCovered, HeldUpTo
  <2>2. CASE known = 0
    BY <1>7, <1>9, <2>2
  <2> QED
    BY <2>1, <2>2
<1>11. AnswerIsWhole'
  <2>1. known \in {0, inst} => HeldUpTo(job.since)'
    BY <1>7, <1>8, <1>10 DEF HeldUpTo
  <2> QED
    BY <1>1, <1>2, <1>7, <1>8, <1>10, <2>1 DEF AnswerIsWhole
<1> QED
  BY <1>1, <1>6, <1>8, <1>9, <1>11 DEF PassedInv

(* The folds: what of incarnation `i` has its counter recorded is held.    *)
TornOrTimed(i, s) == <<i, s>> \in tornOff \/ <<i, s>> \in past

OpenedHeld(st, i) ==
  \A s \in Seqs : <<i, s>> \in st.spent /\ ~TornOrTimed(i, s) => st.kept[s].has \in {"words", "empty"}

LEMMA FoldEntryHolds ==
    ASSUME NEW st, NEW r, NEW tm, NEW got, NEW i \in Nat \ {0}, got.of = i, StateWell(st, r, tm, i),
           RowsRight(st.kept, i), OpenedHeld(st, i), NEW s \in Seqs,
           NEW u, u = FoldEntry(st, got, i, s)
    PROVE  /\ OpenedHeld(u, i) /\ (u.kept[s].of = i \/ TornOrTimed(i, s))
           /\ \A x \in Seqs : st.kept[x].of = i => u.kept[x].of = i
<1> DEFINE e == entry(i, s)
           opened == record_seen(st, got, s)
<1>1. st.kept \in [Seqs -> Row] /\ IsState(st) /\ \A x \in Seqs : st.kept[x].has # "none" => st.kept[x].of = i
  BY DEF RowsRight, StateWell
<1>2. /\ IsState(opened) /\ opened.kept = st.kept
      /\ opened.spent = IF Opens(got, s) /\ e.is # "system" THEN st.spent \cup {<<i, s>>} ELSE st.spent
  BY <1>1 DEF record_seen, IsState
<1>3. CASE Replayed(st, got, s)
  <2>1. u = st /\ <<i, s>> \in st.spent
    BY <1>3 DEF FoldEntry, Replayed
  <2>2. st.kept[s].of = i \/ TornOrTimed(i, s)
    BY <1>1, <2>1 DEF OpenedHeld
  <2> QED
    BY <2>1, <2>2
<1>4. CASE ~Replayed(st, got, s) /\ e.timed /\ <<i, s>> \in past
  <2>1. u = opened
    BY <1>4 DEF FoldEntry
  <2>2. TornOrTimed(i, s)
    BY <1>4 DEF TornOrTimed
  <2> HIDE DEF opened
  <2>3. OpenedHeld(u, i)
    BY <1>2, <2>1, <2>2 DEF OpenedHeld
  <2> QED
    BY <1>2, <2>1, <2>2, <2>3
<1>5. CASE u = Apply(Keep(opened, got, s), got, s)
  <2> DEFINE how == How(got, s)
             has == AsKept(how)
             stored == put_message(opened.kept, s, i, has)
             q == IF how = "tombstone" THEN redact_message(stored, s) ELSE stored
             k == Keep(opened, got, s)
  <2>1. /\ has \in {"words", "null", "empty"} /\ (Opens(got, s) => has = "words" /\ how = "words")
        /\ how \in {"words", "tombstone", "sealed"}
    BY DEF How, AsKept
  <2>2. k = [opened EXCEPT !.kept = q, !.timers = IF e.timed THEN [opened.timers EXCEPT ![s] = i] ELSE opened.timers]
    BY DEF Keep
  <2>3. IsState(k) /\ k.kept = q /\ k.spent = opened.spent
    <3> HIDE DEF q, opened, k
    <3> QED
      BY <1>2, <2>2 DEF IsState
  <2>4. IsState(u) /\ u.spent = k.spent /\ u.kept \in {k.kept, redact_message(k.kept, e.target)}
    <3>1. u = Apply(k, got, s)
      BY <1>5 DEF k
    <3> HIDE DEF k
    <3> QED
      BY <2>3, <3>1 DEF Apply, IsState
  <2> HIDE DEF how, has
  <2>5. \A x \in Seqs : stored[x] = IF x = s /\ st.kept[s].has \in {"none", "null"}
                                    THEN [of |-> i, has |-> has] ELSE st.kept[x]
    BY <1>1, <1>2 DEF put_message
  <2>6. stored \in [Seqs -> Row]
    <3> HIDE DEF opened
    <3>1. opened.kept \in [Seqs -> Row] /\ Spared(opened.kept, opened.kept)
      BY <1>1, <1>2 DEF Spared
    <3> QED
      BY <2>1, <3>1, PutSpares
  <2> HIDE DEF stored
  <2>7. \A x \in Seqs : q[x] = IF how = "tombstone" /\ x = s /\ stored[x].has # "none"
                               THEN [of |-> stored[x].of, has |-> "empty"] ELSE stored[x]
    BY <2>6 DEF redact_message, Row
  <2>8. q \in [Seqs -> Row]
    <3>1. Spared(stored, stored)
      BY DEF Spared
    <3> QED
      BY <2>6, <3>1, RedactSpares
  <2> HIDE DEF q
  <2>9. \A x \in Seqs : \/ u.kept[x] = q[x]
                        \/ q[x].has # "none" /\ u.kept[x] = [of |-> q[x].of, has |-> "empty"]
    <3>1. \A x \in Seqs : redact_message(q, e.target)[x] = q[x]
             \/ (q[x].has # "none" /\ redact_message(q, e.target)[x] = [of |-> q[x].of, has |-> "empty"])
      BY <2>8 DEF redact_message, Row
    <3> QED
      BY <2>3, <2>4, <3>1
  <2> DEFINE Legible(row) == row.has \in {"words", "empty"}
  <2>13. \A x \in Seqs : st.kept[x].of = i => stored[x].of = i
    <3> SUFFICES ASSUME NEW x \in Seqs, st.kept[x].of = i PROVE stored[x].of = i
      OBVIOUS
    <3>1. stored[x] = [of |-> i, has |-> has] \/ stored[x] = st.kept[x]
      BY <2>5
    <3> QED
      BY <3>1
  <2>14. \A x \in Seqs : q[x].of = stored[x].of /\ (Legible(stored[x]) => Legible(q[x]))
    <3> SUFFICES ASSUME NEW x \in Seqs PROVE q[x].of = stored[x].of /\ (Legible(stored[x]) => Legible(q[x]))
      OBVIOUS
    <3>1. q[x] = [of |-> stored[x].of, has |-> "empty"] \/ q[x] = stored[x]
      BY <2>7
    <3> QED
      BY <3>1
  <2>15. \A x \in Seqs : u.kept[x].of = q[x].of /\ (Legible(q[x]) => Legible(u.kept[x]))
    <3> SUFFICES ASSUME NEW x \in Seqs PROVE u.kept[x].of = q[x].of /\ (Legible(q[x]) => Legible(u.kept[x]))
      OBVIOUS
    <3>1. u.kept[x] = [of |-> q[x].of, has |-> "empty"] \/ u.kept[x] = q[x]
      BY <2>9
    <3> QED
      BY <3>1
  <2>10. \A x \in Seqs : st.kept[x].of = i => u.kept[x].of = i
    BY <2>13, <2>14, <2>15
  <2>11. u.kept[s].of = i
    <3>1. stored[s].of = i
      BY <1>1, <2>5 DEF Row
    <3> QED
      BY <2>14, <2>15, <3>1
  <2>12. ASSUME NEW x \in Seqs, <<i, x>> \in u.spent, ~TornOrTimed(i, x) PROVE u.kept[x].has \in {"words", "empty"}
    <3>1. stored[x].has \in {"words", "empty"}
      <4>1. CASE <<i, x>> \in st.spent
        <5>1. st.kept[x].has \in {"words", "empty"}
          BY <2>12, <4>1 DEF OpenedHeld
        <5> QED
          BY <2>5, <5>1
      <4>2. CASE <<i, x>> \notin st.spent
        <5>1. x = s /\ has = "words"
          BY <1>2, <2>1, <2>3, <2>4, <2>12, <4>2
        <5>2. st.kept[s].has \in {"none", "words", "null", "empty"}
          BY <1>1 DEF Row
        <5> QED
          BY <2>5, <5>1, <5>2
      <4> QED
        BY <4>1, <4>2
    <3> QED
      BY <2>14, <2>15, <3>1
  <2> QED
    BY <2>10, <2>11, <2>12 DEF OpenedHeld
<1>6. \/ Replayed(st, got, s) \/ (~Replayed(st, got, s) /\ e.timed /\ <<i, s>> \in past)
      \/ u = Apply(Keep(opened, got, s), got, s)
  BY DEF FoldEntry
<1> QED
  BY <1>3, <1>4, <1>5, <1>6

TakenIn(st, f, i, which) ==
  /\ OpenedHeld(f, i) /\ \A s \in which : f.kept[s].of = i \/ TornOrTimed(i, s)
  /\ \A x \in Seqs : st.kept[x].of = i => f.kept[x].of = i

LEMMA FoldHolds ==
    ASSUME NEW st, NEW r, NEW tm, NEW got, NEW i, got.of = i, StateWell(st, r, tm, i),
           NEW which, which \subseteq Said(i), i \in 1..Final, script \in Scripts,
           \A x \in got.wiped : <<i, x>> \in wiped,
           RowsRight(st.kept, i), TimelineRight(st.tl, i), OpenedHeld(st, i)
    PROVE  TakenIn(st, fold_entries(st, got, i, which), i, which)
<1> DEFINE f == fold_entries(st, got, i, which)
<1>1. PICK g : /\ f = g[MaxSeq] /\ g[0] = st
               /\ \A n \in 1..MaxSeq : g[n] = EntryStep(got, i, which, g[n - 1], n)
  BY FoldEntriesSteps
<1>0. i \in Nat \ {0} /\ which \subseteq Seqs
  BY SaidWithin
<1> DEFINE Holds(x, n) == /\ StateWell(x, r, tm, i) /\ RowsRight(x.kept, i) /\ TimelineRight(x.tl, i)
                          /\ OpenedHeld(x, i)
                          /\ \A s \in which : s <= n => x.kept[s].of = i \/ TornOrTimed(i, s)
                          /\ \A s \in Seqs : st.kept[s].of = i => x.kept[s].of = i
           Good == {n \in Nat : n <= MaxSeq => Holds(g[n], n)}
<1>2. 0 \in Good
  <2>1. \A s \in which : ~(s <= 0)
    BY <1>0, SeqsAre
  <2>2. Holds(g[0], 0)
    BY <1>1, <2>1
  <2> QED
    BY <2>2
<1>3. ASSUME NEW n \in Nat, n \in Good PROVE n + 1 \in Good
  <2> SUFFICES ASSUME n + 1 <= MaxSeq PROVE Holds(g[n + 1], n + 1)
    OBVIOUS
  <2> DEFINE s == n + 1
             x == g[n]
  <2>1. /\ s \in Seqs /\ g[s] = EntryStep(got, i, which, x, s) /\ Holds(x, n)
        /\ \A y \in which : y <= s => y = s \/ y <= n
    BY <1>0, <1>1, <1>3, ReadingAssumption DEF Seqs
  <2> HIDE DEF s, x
  <2>2. CASE s \in which
    <3>1. PICK y : y = FoldEntry(x, got, i, s)
      OBVIOUS
    <3>0. s \in Said(i)
      BY <2>2
    <3>2. StateWell(FoldEntry(x, got, i, s), r, tm, got.of)
      BY <1>0, <2>1, <3>0, FoldEntryWell
    <3>3. RowsRight(FoldEntry(x, got, i, s).kept, got.of) /\ TimelineRight(FoldEntry(x, got, i, s).tl, got.of)
      <4>1. /\ got.of \in Nat \ {0} /\ StateWell(x, r, tm, got.of) /\ RowsRight(x.kept, got.of)
            /\ TimelineRight(x.tl, got.of) /\ s \in Said(got.of) /\ got.of \in 1..Final
            /\ \A z \in got.wiped : <<got.of, z>> \in wiped
        BY <1>0, <2>1, <3>0
      <4> QED
        BY <2>1, <4>1, FoldEntryRight
    <3>4. /\ OpenedHeld(y, i) /\ (y.kept[s].of = i \/ TornOrTimed(i, s))
          /\ \A z \in Seqs : x.kept[z].of = i => y.kept[z].of = i
      BY <1>0, <2>1, <3>1, FoldEntryHolds
    <3>5. g[s] = y
      BY <2>1, <2>2, <3>1 DEF EntryStep
    <3>6. StateWell(y, r, tm, i) /\ RowsRight(y.kept, i) /\ TimelineRight(y.tl, i)
      BY <3>1, <3>2, <3>3
    <3>7. Holds(y, s)
      BY <1>0, <2>1, <3>4, <3>6
    <3> QED
      BY <3>5, <3>7 DEF s
  <2>3. CASE s \notin which
    <3>1. g[s] = x
      BY <2>1, <2>3 DEF EntryStep
    <3>2. Holds(x, s)
      BY <2>1, <2>3
    <3> QED
      BY <3>1, <3>2 DEF s
  <2> QED
    BY <2>2, <2>3
<1> HIDE DEF Good
<1>4. Nat \subseteq Good
  BY <1>2, <1>3, NumberInduction
<1>5. Holds(g[MaxSeq], MaxSeq)
  BY <1>4, ReadingAssumption DEF Good
<1>6. \A s \in which : s <= MaxSeq
  BY <1>0 DEF Seqs
<1> QED
  BY <1>1, <1>5, <1>6 DEF TakenIn

(* An answer of the living incarnation, as many of its entries as were     *)
(* taken in                                                                *)
LEMMA FoldOpens ==
    ASSUME ReadInv, PassedInv, Unhurried, job.at = "fold", NEW which, which \subseteq job.got.seqs,
           which # {}, NEW f, f = fold_entries(State, job.got, told.inst, which),
           (IF known = 0 THEN told.inst ELSE known) = inst
    PROVE  /\ OpenedHeld(f, inst) /\ \A s \in which : f.kept[s].of = inst \/ Lost(s)
           /\ known = inst => \A x \in Seqs : kept[x].of = inst => f.kept[x].of = inst
           /\ job.got.of = inst /\ known \in {0, inst} /\ which \subseteq Seqs
<1>1. /\ Final \in {1, 2} /\ inst \in 1..Final /\ known \in 0..inst /\ (known = 0 => Final = 1)
      /\ script \in Scripts
  BY ScriptFacts DEF ReadInv, ReadTypes
<1>2. /\ Fetched(job) /\ known \in {0, job.got.of}
      /\ ~announce /\ told.inst \in 0..inst /\ told.inst # 0
  BY DEF ReadInv, ReadTypes, JobRight
<1>3. job.got.of = inst /\ known \in {0, inst} /\ told.inst = inst
  <2>1. job.got.of = inst
    BY <1>1, <1>2 DEF Fetched
  <2> QED
    BY <1>2, <2>1 DEF PassedInv
<1>4. RowsRight(kept, inst) /\ TimelineRight(tl, inst)
  BY <1>1, <1>2, <1>3, UnreadRows DEF ReadInv, Current
<1>5. /\ StateWell(State, kept, timers, inst)
      /\ State.kept = kept /\ State.tl = tl /\ State.spent = spent
  BY StateIsWell DEF State
<1>6. OpenedHeld(State, inst)
  <2>1. CASE known = 0
    BY <1>5, <2>1 DEF PassedInv, OpenedHeld
  <2>2. CASE known = inst
    BY <1>5, <2>2 DEF PassedInv, CursorIsCovered, OpenedIsKept, OpenedHeld, TornOrTimed, Lost
  <2> QED
    BY <1>3, <2>1, <2>2
<1> DEFINE got == job.got
<1>7. /\ got.of = inst /\ which \subseteq Said(inst) /\ \A x \in got.wiped : <<inst, x>> \in wiped
      /\ f = fold_entries(State, got, inst, which)
  BY <1>2, <1>3 DEF Fetched
<1> HIDE DEF got
<1>8. /\ OpenedHeld(f, inst) /\ \A s \in which : f.kept[s].of = inst \/ TornOrTimed(inst, s)
      /\ \A x \in Seqs : State.kept[x].of = inst => f.kept[x].of = inst
  <2>1. PICK st, r, tm, i, ans : st = State /\ r = kept /\ tm = timers /\ i = inst /\ ans = got
    OBVIOUS
  <2>2. /\ ans.of = i /\ StateWell(st, r, tm, i) /\ which \subseteq Said(i) /\ i \in 1..Final /\ script \in Scripts
        /\ RowsRight(st.kept, i) /\ TimelineRight(st.tl, i) /\ OpenedHeld(st, i)
    BY <1>1, <1>4, <1>5, <1>6, <1>7, <2>1
  <2>5. f = fold_entries(st, ans, i, which)
    BY <1>7, <2>1
  <2>3. \A x \in ans.wiped : <<i, x>> \in wiped
    BY <1>7, <2>1
  <2>4. TakenIn(st, fold_entries(st, ans, i, which), i, which)
    BY ONLY <2>2, <2>3, FoldHolds, Zenon
  <2> QED
    BY <2>1, <2>4, <2>5 DEF TakenIn
<1>9. which \subseteq Seqs
  <2>1. Said(inst) \subseteq Seqs
    BY <1>1, SaidWithin
  <2> QED
    BY <1>7, <2>1
<1> QED
  BY <1>3, <1>5, <1>8, <1>9 DEF TornOrTimed, Lost

LEMMA PassedFolds == ASSUME ReadInv, ReadInv', PassedInv, Unhurried, Folds PROVE PassedInv'
<1>1. PICK f : f = fold_entries(State, job.got, told.inst, job.got.seqs)
  OBVIOUS
<1>2. /\ job.at = "fold" /\ kept' = f.kept /\ spent' = f.spent
      /\ known' = IF known = 0 THEN told.inst ELSE known
      /\ UNCHANGED <<inst, len, hidden, filled, past, tornOff, told>>
      /\ job'.at \in {"idle", "keys"}
  BY <1>1 DEF Folds, Stored, NoJob, exchangeVars
<1>3. /\ cursor' \in {cursor, job.since} \cup job.got.seqs
      /\ job.got.seqs = {} => cursor' = cursor
  <2> DEFINE last == Max(job.got.seqs \cup {job.since})
  <2>1. \/ cursor' = cursor
        \/ cursor' = Max({cursor, Max(job.got.seqs \cup {job.since})}) /\ last > job.since
    BY DEF Folds, set_since
  <2>2. job.since \in Nat
    BY <1>2 DEF ReadInv, JobRight, Fetched
  <2>3. job.got.seqs = {} => last = job.since
    <3> SUFFICES ASSUME job.got.seqs = {} PROVE last = job.since
      OBVIOUS
    <3>1. PICK n : n = job.since /\ n \in Nat
      BY <2>2
    <3>2. job.got.seqs \cup {job.since} = {n}
      BY <3>1
    <3>3. Max({n}) = n
      BY <3>1, GreatestIs
    <3> QED
      BY <3>1, <3>2, <3>3
  <2>4. job.got.seqs = {} => cursor' = cursor
    BY <2>1, <2>2, <2>3
  <2>5. cursor' \in {cursor, job.since} \cup job.got.seqs
    BY <1>2, <2>1, CursorMoves
  <2> QED
    BY <2>4, <2>5
<1>4. known' \in 1..inst /\ (known = 0 => known' = inst) /\ (known # 0 => known' = known)
      /\ Final \in {1, 2} /\ inst \in 1..Final
  <2>1. told.inst \in 0..inst /\ told.inst # 0
    BY <1>2 DEF ReadInv, ReadTypes, JobRight
  <2> QED
    BY <1>2, <2>1, ScriptFacts DEF ReadInv
<1>5. ~Asking' /\ job'.at # "fold" /\ known' # 0
  BY <1>2, <1>4 DEF Asking
<1>6. CASE known' # inst
  BY <1>2, <1>5, <1>6 DEF PassedInv, CursorIsCovered, AnswerIsWhole
<1>7. CASE job.got.seqs = {}
  <2>1. f = State
    BY <1>1, <1>7, FoldOfNothing
  <2>2. kept' = kept /\ spent' = spent /\ cursor' = cursor
    BY <1>2, <1>3, <1>7, <2>1 DEF State
  <2>3. CASE known = 0
    BY <1>2, <2>2, <2>3, PassedReset DEF PassedInv
  <2>4. CASE known # 0
    BY <1>2, <1>4, <1>5, <2>2, <2>4, PassedQuiet
  <2> QED
    BY <2>3, <2>4
<1>8. CASE known' = inst /\ job.got.seqs # {}
  <2> DEFINE which == job.got.seqs
  <2>1. /\ OpenedHeld(f, inst) /\ \A s \in which : f.kept[s].of = inst \/ Lost(s)
        /\ known = inst => \A x \in Seqs : kept[x].of = inst => f.kept[x].of = inst
        /\ job.got.of = inst /\ known \in {0, inst} /\ which \subseteq Seqs
    <3>1. (IF known = 0 THEN told.inst ELSE known) = inst
      BY <1>2, <1>8
    <3> QED
      BY <1>1, <1>2, <1>8, <3>1, FoldOpens
  <2>2. /\ job.since <= len /\ HeldUpTo(job.since)
        /\ \A x \in which : x <= len
        /\ \A x \in which : \A s \in ServedSeqs :
             job.since < s /\ s <= x => s \in which \/ <<inst, s>> \in filled
    BY <1>2, <2>1 DEF PassedInv, AnswerIsWhole, Asking
  <2>3. Onward
    BY <1>2, AloneOnward
  <2>4. RowsGoOn
    BY <1>2, <2>1 DEF RowsGoOn
  <2>5. /\ \A n \in Nat : known = inst /\ n <= len /\ HeldUpTo(n) =>
                            \A s \in ServedSeqs' : s <= n => Accounted(s)'
        /\ len \in Nat /\ cursor \in Nat
    BY <2>3, <2>4, OnwardFacts DEF ReadInv, ReadTypes
  <2>6. job.since \in Nat /\ which \subseteq Nat /\ ServedSeqs' = ServedSeqs /\ ServedSeqs \subseteq Nat \ {0}
    <3>1. job.since \in Nat
      BY <1>2 DEF ReadInv, JobRight, Fetched
    <3> QED
      BY <1>2, <2>1, <2>3, <3>1 DEF Seqs, ServedSeqs, Onward
  <2>7. cursor <= len /\ \A s \in ServedSeqs : s <= cursor \/ s <= job.since => Accounted(s)'
    <3>1. CASE known = 0
      <4>1. cursor = 0 /\ job.since = 0
        BY <1>2, <3>1 DEF PassedInv, Asking
      <4>2. \A s \in ServedSeqs : ~(s <= 0)
        BY ServedAre
      <4> QED
        BY <2>5, <4>1, <4>2
    <3>2. CASE known = inst
      <4>1. cursor <= len /\ HeldUpTo(cursor)
        BY <3>2 DEF PassedInv, CursorIsCovered
      <4> QED
        BY <2>2, <2>5, <2>6, <3>2, <4>1
    <3> QED
      BY <2>1, <3>1, <3>2
  <2>8. ASSUME NEW x \in which, NEW s \in ServedSeqs, s <= x PROVE Accounted(s)'
    <3>1. CASE s <= job.since
      BY <2>7, <3>1
    <3>2. CASE job.since < s
      <4>1. s \in which \/ <<inst, s>> \in filled
        BY <2>2, <2>8, <3>2
      <4> QED
        BY <1>2, <2>1, <4>1 DEF Accounted, Lost
    <3> QED
      BY <2>6, <3>1, <3>2
  <2>9. HeldUpTo(cursor)' /\ (cursor <= len)'
    <3>1. \A s \in ServedSeqs : s <= cursor' => Accounted(s)'
      BY <1>3, <2>7, <2>8
    <3> QED
      BY <1>2, <1>3, <2>2, <2>6, <2>7, <3>1 DEF HeldUpTo
  <2>10. OpenedIsKept'
    BY <1>2, <2>1 DEF OpenedIsKept, OpenedHeld, TornOrTimed, Lost
  <2> QED
    BY <1>5, <2>9, <2>10 DEF PassedInv, CursorIsCovered, AnswerIsWhole
<1> QED
  BY <1>6, <1>7, <1>8

(* Starting again from rows `r` of the incarnation                         *)
LEMMA HistoryKeeps ==
    ASSUME NEW r, r \in [Seqs -> Row]
    PROVE  \A s \in Seqs : /\ history(r)[s].of = r[s].of
                           /\ r[s].has \in {"words", "empty"} => history(r)[s].has \in {"words", "empty"}
  BY DEF history, Row

LEMMA PassedRestart == ASSUME ReadInv, PassedInv, Restart PROVE PassedInv'
<1>1. /\ UNCHANGED <<inst, len, hidden, filled, past, tornOff, known, spent, cursor>>
      /\ kept' = history(kept) /\ job'.at = "idle"
  BY DEF Restart, StartsFrom, exchangeVars, NoJob
<1>2. \A s \in Seqs : /\ kept'[s].of = kept[s].of
                      /\ kept[s].has \in {"words", "empty"} => kept'[s].has \in {"words", "empty"}
  BY <1>1, HistoryKeeps DEF ReadInv, RowsRight
<1>3. Onward
  BY <1>1, AloneOnward
<1>4. RowsGoOn
  BY <1>2 DEF RowsGoOn
<1> QED
  BY <1>1, <1>2, <1>3, <1>4, PassedGoesOn DEF Asking

LEMMA PassedStopsAt ==
    ASSUME ReadInv, ReadInv', PassedInv, Unhurried, NEW s \in Seqs, StopsAt(s) PROVE PassedInv'
<1> DEFINE which == {x \in job.got.seqs : x < s}
<1>1. PICK f : f = fold_entries(State, job.got, told.inst, which)
  OBVIOUS
<1>2. /\ job.at = "fold" /\ s \in job.got.seqs /\ spent' = record_seen(f, job.got, s).spent
      /\ kept' = history(record_seen(f, job.got, s).kept)
      /\ known' = IF known = 0 THEN told.inst ELSE known
      /\ tornOff' = tornOff \cup {<<job.got.of, s>>}
      /\ UNCHANGED <<inst, len, hidden, filled, past, cursor>> /\ job'.at = "idle"
  BY <1>1 DEF StopsAt, StartsFrom, exchangeVars, NoJob
<1>3. PICK i : i = IF known = 0 THEN told.inst ELSE known
  OBVIOUS
<1> HIDE DEF which
<1>4. IsState(f) /\ f.kept \in [Seqs -> Row] /\ i \in 1..inst
  <2>1. which \subseteq job.got.seqs
    BY DEF which
  <2> QED
    BY <1>1, <1>2, <1>3, <2>1, FoldUnderWay DEF RowsRight
<1>5. /\ record_seen(f, job.got, s).kept = f.kept
      /\ record_seen(f, job.got, s).spent \subseteq f.spent \cup {<<job.got.of, s>>}
  BY <1>4 DEF record_seen, IsState
<1>6. /\ kept' = history(f.kept) /\ spent' \subseteq f.spent \cup {<<job.got.of, s>>}
      /\ \A x \in Seqs : /\ kept'[x].of = f.kept[x].of
                         /\ f.kept[x].has \in {"words", "empty"} => kept'[x].has \in {"words", "empty"}
  BY <1>2, <1>4, <1>5, HistoryKeeps
<1>7. ~Asking' /\ known' # 0 /\ job'.at # "fold"
  BY <1>2, <1>3, <1>4, ScriptFacts DEF Asking, ReadInv
<1>8. CASE known' # inst
  BY <1>2, <1>7, <1>8 DEF PassedInv, CursorIsCovered, AnswerIsWhole
<1>9. CASE known' = inst
  <2>1. job.got.of = inst /\ known \in {0, inst}
    <3>1. /\ Fetched(job) /\ known \in {0, job.got.of} /\ (known = 0 => Final = 1) /\ inst \in 1..Final
      BY <1>2, ScriptFacts DEF ReadInv, JobRight
    <3> QED
      BY <1>2, <1>9, <3>1 DEF Fetched
  <2>2. OpenedHeld(f, inst) /\ (known = inst => \A x \in Seqs : kept[x].of = inst => f.kept[x].of = inst)
    <3>1. CASE which # {}
      <4>1. which \subseteq job.got.seqs /\ (IF known = 0 THEN told.inst ELSE known) = inst
        BY <1>2, <1>9 DEF which
      <4> QED
        BY <1>1, <1>2, <3>1, <4>1, FoldOpens
    <3>2. CASE which = {}
      <4>1. f = State
        BY <1>1, <3>2, FoldOfNothing
      <4>2. f.kept = kept /\ f.spent = spent
        BY <4>1 DEF State
      <4>3. CASE known = 0
        BY <2>1, <4>2, <4>3, ScriptFacts DEF PassedInv, OpenedHeld, ReadInv
      <4>4. CASE known = inst
        BY <4>2, <4>4 DEF PassedInv, CursorIsCovered, OpenedIsKept, OpenedHeld, TornOrTimed, Lost
      <4> QED
        BY <2>1, <4>3, <4>4
    <3> QED
      BY <3>1, <3>2
  <2>3. OpenedIsKept'
    BY <1>2, <1>6, <2>1, <2>2 DEF OpenedIsKept, OpenedHeld, TornOrTimed, Lost
  <2>4. Onward
    BY <1>2, AloneOnward
  <2>5. RowsGoOn
    BY <1>6, <2>2 DEF RowsGoOn
  <2>6. /\ \A n \in Nat : known = inst /\ n <= len /\ HeldUpTo(n) =>
                            \A x \in ServedSeqs' : x <= n => Accounted(x)'
        /\ len \in Nat /\ cursor \in Nat
    BY <2>4, <2>5, OnwardFacts DEF ReadInv, ReadTypes
  <2>7. cursor <= len /\ \A x \in ServedSeqs' : x <= cursor => Accounted(x)'
    <3>1. CASE known = 0
      <4>1. cursor = 0
        BY <3>1 DEF PassedInv
      <4>3. \A x \in ServedSeqs' : x \in Nat /\ x # 0
        BY <2>4, SeqsAre DEF Onward
      <4>2. \A x \in ServedSeqs' : ~(x <= 0)
        BY <4>3
      <4> QED
        BY <2>6, <4>1, <4>2
    <3>2. CASE known = inst
      BY <2>6, <3>2 DEF PassedInv, CursorIsCovered
    <3> QED
      BY <2>1, <3>1, <3>2
  <2>8. HeldUpTo(cursor)' /\ (cursor <= len)'
    BY <1>2, <2>7 DEF HeldUpTo
  <2> QED
    BY <1>7, <2>3, <2>8 DEF PassedInv, CursorIsCovered, AnswerIsWhole
<1> QED
  BY <1>8, <1>9

LEMMA PassedSends == ASSUME ReadInv, ReadInv', PassedInv, SendsOn \/ SendUnheard PROVE PassedInv'
<1>1. /\ Sends /\ known \in {0, inst} /\ known' = inst /\ UNCHANGED <<spent, cursor>>
      /\ Own(kept) \/ kept' = kept
  BY DEF SendsOn, SendUnheard
<1>2. /\ job'.at = "idle" /\ len' = len + 1
      /\ UNCHANGED <<inst, hidden, filled, past, tornOff>>
  BY <1>1 DEF Sends, memoryVars, NoJob
<1>3. CASE known = 0
  BY <1>2, <1>3, PassedReset DEF PassedInv, SendsOn, SendUnheard
<1>4. CASE known = inst
  <2>1. /\ inst \in Nat \ {0} /\ kept \in [Seqs -> Row]
        /\ \A s \in Seqs : kept[s].has # "none" => kept[s].of = inst
        /\ len \in Nat /\ len + 1 <= Len(script.says[inst]) /\ Len(script.says[inst]) \in 0..MaxSeq
    <3>1. inst \in 1..Final /\ script \in Scripts /\ len \in 0..Len(script.says[inst])
          /\ len < Len(script.says[inst])
      BY <1>1 DEF ReadInv, ReadTypes, Sends, MayPost
    <3>2. Len(script.says[inst]) \in 0..MaxSeq /\ inst \in Nat \ {0}
      BY <3>1, SaidWithin
    <3> QED
      BY <1>4, <3>1, <3>2 DEF ReadInv, RowsRight
  <2>2. Onward
    BY <1>2, <2>1, ReadingAssumption DEF Onward, ServedSeqs, Seqs
  <2>3. \A s \in Seqs : /\ kept[s].of = inst => kept'[s].of = inst
                        /\ kept[s].has \in {"words", "empty"} => kept'[s].has \in {"words", "empty"}
    <3>1. CASE kept' = kept
      BY <3>1
    <3>2. CASE Own(kept)
      <4> DEFINE n == len + 1
                 q == put_message(kept, n, inst, "words")
      <4>1. q \in [Seqs -> Row] /\ kept' \in {q, redact_message(q, NextEntry.target)}
        <5>1. kept' \in {q, redact_message(q, NextEntry.target)}
          BY <3>2 DEF Own
        <5>2. Spared(kept, kept)
          BY DEF Spared
        <5> HIDE DEF n
        <5>3. q \in [Seqs -> Row]
          BY <2>1, <5>2, PutSpares
        <5> QED
          BY <5>1, <5>3
      <4>2. \A s \in Seqs : q[s] = kept[s] \/ (kept[s].has \in {"none", "null"} /\ q[s] = [of |-> inst, has |-> "words"])
        BY <2>1 DEF put_message
      <4> HIDE DEF q
      <4>3. \A s \in Seqs : \/ kept'[s] = q[s]
                            \/ q[s].has # "none" /\ kept'[s] = [of |-> q[s].of, has |-> "empty"]
        BY <4>1 DEF redact_message, Row
      <4> DEFINE Legible(row) == row.has \in {"words", "empty"}
      <4>4. \A s \in Seqs : (kept[s].of = inst => q[s].of = inst) /\ (Legible(kept[s]) => Legible(q[s]))
        <5> SUFFICES ASSUME NEW s \in Seqs
                     PROVE  (kept[s].of = inst => q[s].of = inst) /\ (Legible(kept[s]) => Legible(q[s]))
          OBVIOUS
        <5>1. q[s] = [of |-> inst, has |-> "words"] \/ q[s] = kept[s]
          BY <4>2
        <5> QED
          BY <5>1
      <4>5. \A s \in Seqs : kept'[s].of = q[s].of /\ (Legible(q[s]) => Legible(kept'[s]))
        <5> SUFFICES ASSUME NEW s \in Seqs
                     PROVE  kept'[s].of = q[s].of /\ (Legible(q[s]) => Legible(kept'[s]))
          OBVIOUS
        <5>1. kept'[s] = [of |-> q[s].of, has |-> "empty"] \/ kept'[s] = q[s]
          BY <4>3
        <5> QED
          BY <5>1
      <4> QED
        BY <4>4, <4>5
    <3> QED
      BY <1>1, <3>1, <3>2
  <2>4. RowsGoOn
    BY <2>3 DEF RowsGoOn
  <2> QED
    BY <1>1, <1>2, <1>4, <2>2, <2>3, <2>4, PassedGoesOn DEF Asking
<1> QED
  BY <1>1, <1>3, <1>4

LEMMA PassedInvNext ==
    ASSUME ReadInv, ReadInv', PassedInv, Unhurried, [RdNext]_rdVars PROVE PassedInv'
<1>1. CASE Exchange
  BY <1>1, PassedExchange
<1>2. CASE Ask \/ FoldedAway \/ EnsureBack \/ EnsureKey
  BY <1>2, PassedAsk, PassedResets, PassedSmallSteps
<1>3. CASE PollStep
  BY <1>3, PassedResets, PassedSmallSteps, PassedFetchAgain, PassedFolds DEF PollStep
<1>4. CASE SendsOn \/ SendsAnew \/ SendUnheard
  BY <1>4, PassedSends, PassedResets
<1>5. CASE Restart \/ \E s \in Seqs : StopsAt(s)
  BY <1>5, PassedRestart, PassedStopsAt
<1>6. CASE UNCHANGED rdVars
  BY <1>6, PassedQuiet DEF rdVars, exchangeVars, diskVars, memoryVars, ghostVars, Asking, PassedInv
<1> QED
  BY <1>1, <1>2, <1>3, <1>4, <1>5, <1>6 DEF RdNext

LEMMA ReadAndPassed == ASSUME Unhurried PROVE RdSpec => [](ReadInv /\ PassedInv)
<1>1. RdInit => ReadInv /\ PassedInv
  BY ReadInvInit, PassedInvInit
<1>2. ReadInv /\ PassedInv /\ [RdNext]_rdVars => ReadInv' /\ PassedInv'
  BY ReadInvNext, PassedInvNext
<1> QED
  BY <1>1, <1>2, PTL DEF RdSpec

(* Nothing is lost to the reader.  A counter is recorded once and for all, *)
(* and what it opened stays held: no poll, reset, rewind, send, stop or    *)
(* start again loses the words of an entry whose counter is spent          *)
(* (`record_seen`, `fold_entries`).  And the cursor passes nothing over:   *)
(* whatever the exchange still serves at or below it is held (`ask`,       *)
(* `absorb`, `set_since`). *)
THEOREM NothingIsLostAlways == ASSUME Unhurried PROVE RdSpec => []NothingIsLost
<1>1. PassedInv => OpenedIsKept
  BY DEF PassedInv, CursorIsCovered, OpenedIsKept
<1>2. PassedInv => NothingPassedOver
  BY DEF PassedInv, CursorIsCovered, HeldUpTo, Accounted, NothingPassedOver
<1>3. PassedInv => NothingIsLost
  BY <1>1, <1>2 DEF NothingIsLost
<1> QED
  BY <1>3, ReadAndPassed, PTL
=============================================================================
