----------------------------- MODULE WireStores -----------------------------
(***************************************************************************)
(* The layouts of what is kept: keys and prekeys, what an entry's body     *)
(* says, attachments and blobs, feeds, the mailbox, backups, catching up.  *)
(***************************************************************************)
EXTENDS Layout

MAX_ENVELOPES == 128
MAX_RANGE == 1024
MAX_ADDS == 64
MAX_REMOVES == 64
MAX_PUBLISH == 64
MAX_TEXT == 16 * 1024
MAX_ATTACHMENTS == 4
MAX_LINKS == 4
MAX_MENTIONS == 32
MAX_EMOJI == 32
MAX_BODY == 32 * 1024
MAX_PAGE == 64
MAX_SINCE == 512
MAX_SEAMS == 8
MAX_LISTING == 256
MAX_PLAINTEXT == 32 * 1024
MAX_MESSAGES == 64
MAX_SEALED == 1024 * 1024
MAX_BLOBS == 4096
MAX_NAMED == 256
MAX_UNNAMED == 256
MAX_CATCHUP_BYTES == 1024 * 1024
CHUNK == 256 * 1024

LOCAL ByKey == Exactly(<<U8, Key>>)
LOCAL Action == <<U64, Key, Sig>>

(* channel_key.rs: an envelope carries at most MAX_RANGE keys, sealed, and *)
(* a device reads its own without the recipient.                           *)
Sealed == <<Key, Sig, U32, U32, U32, Key, Sent(16 + 32 * MAX_RANGE, Bytes(4, Widest(4)))>>
Envelope == <<Key>> \o Sealed
PutKeys == Exactly(<<U8, Key, U32, Rows(2, MAX_ENVELOPES, Envelope), Maybe(Action)>>)
GetKeys == Exactly(<<U8, Key, U32>>)
PutAck == Exactly(<<U8, U32, U64>>)
GotKeys == Exactly(<<U64, Sent(MAX_ENVELOPES, Rows(2, MAX_ENVELOPES, Sealed))>>)
Absent == Exactly(<<U64, U32, Rows(2, Widest(2), <<Key, Key, U8>>)>>)

(* agreement.rs writes both counts before the rows. *)
Commit == Exactly(<<U32, Key, Rows(1, MAX_ADDS, <<Key>>), Rows(1, MAX_REMOVES, <<Key>>), Key, Key, Sig>>)

(* prekey.rs *)
Prekey == <<U8, U32, Key, Sig>>
Publish == Exactly(<<U8, Sent(MAX_PUBLISH, Rows(2, MAX_PUBLISH, Prekey))>>)
Take == ByKey
Taken == Exactly(<<U8>> \o Prekey \o <<U64>>)
Counts == Exactly(<<U16, U32, U64>>)
Cleared == Exactly(<<U16, U32, U64>>)

(* blob.rs and message.rs: what the entry of a channel says; a post has at *)
(* most so many parts of a kind. A call's and a signal's are fixed.        *)
Attachment == <<U8, Key, Key, U64, U32, Text(1, 128), Bytes(2, 1024), Bytes(2, 8 * 1024)>>
Link == <<Text(2, 2 * 1024), Text(2, 256), Text(2, 1024), Maybe(Attachment)>>
Post(most, part) == Exactly(<<U8, Sent(most, Rows(1, 32, <<U8, Box(4, Widest(4), part)>>))>>)
(* A regard is of what the same post quotes, and has a first character. *)
Regard == Exactly(<<U8, U8, U8, Fixed(4 + 40), U8, Box(4, Widest(4), <<U8, Rest(MAX_EMOJI - 1)>>)>>)
Posts ==
    {Post(1, <<Rest(MAX_TEXT)>>), Post(MAX_ATTACHMENTS, Attachment), Post(MAX_LINKS, Link),
     Post(1, <<U64>>), Post(MAX_MENTIONS, <<Key>>), Post(1, <<Key, U64>>), Regard}
Edit == Exactly(<<U8, U64, Rows(1, 32, <<U8, Box(4, Widest(4), <<Rest(MAX_TEXT)>>)>>)>>)
Reaction == Exactly(<<U8, U64, U8, Text(1, MAX_EMOJI)>>)
Redact == Exactly(<<U8, U64>>)
Metadata == Exactly(<<U8, Typed(256, Text(1, 64)), Typed(1024, Text(2, 256)), Maybe(Attachment)>>)
Call == Exactly(<<U8, U8, U16, Key>>)
CallEnd == Exactly(<<U8, U64, U8, U32>>)
Typing == Exactly(<<U8, U8>>)
CallState == Exactly(<<U8, U64, U8, Key>>)

(* blob_store.rs *)
Begin == Exactly(<<U8, Key, U64, U32, U32>>)
BeginFeed == Begin
PutChunk == AtLeast(<<U8, U64, U32, Sent(CHUNK + 16, Rest(CHUNK + 16))>>)
CommitUpload == Exactly(<<U8, U64, Key>>)
ByUpload == Exactly(<<U8, U64>>)
ByOwnerBlob == Exactly(<<U8, Key, Key>>)
Attach == Exactly(<<U8, Key, Key, U32>>)
ByFeedBlob == {ByOwnerBlob, Attach}
GetChunk == Exactly(<<U8, Key, U32>>)
ByBlob == ByKey
Begun == Exactly(<<U64, U64>>)
Committed == Exactly(<<U8, Key, U64>>)
HeadedBlob == Exactly(<<U8, U64, U32, U64, U64>>)
Limits == Exactly(<<U32, U64, U32, U64>>)
Chunk == Exactly(<<U8, U32, Sent(CHUNK + 16, Bytes(4, Widest(4)))>>)

(* feed.rs; what is signed first is bounded as it is signed. *)
FeedPost == <<Key, Key, U64, Key, U64, U32, U8, Key, Sent(MAX_BODY, Bytes(4, MAX_BODY)), Sig>>
AppendPost == Exactly(<<U8>> \o FeedPost)
ReadFeed == Exactly(<<U8, Key, U64, U16, U8>>)
Withdraw == Exactly(<<U8, Key, U64>>)
Since == Exactly(<<U8, Rows(2, MAX_SINCE, <<Key, U64>>)>>)
HeadOf == ByKey
SetFeed == Exactly(<<U8, U32, U32, U8>>)
Listed == Exactly(<<U8, U64, U16>>)
FeedListing == Exactly(<<U64, Sent(MAX_LISTING, Rows(2, MAX_LISTING, <<Key, U64>>))>>)
Appended == Exactly(<<U64, U64, Key, U64>>)
Stored == <<U64, Box(4, Widest(4), FeedPost)>>
Page == Exactly(<<U8, U64, U64, U64, Sent(MAX_PAGE, Rows(2, MAX_PAGE, Stored))>>)
Headed == Exactly(<<U8, U64, U64, Key, U32, U64, U32, U32, U64, U8,
                    Sent(MAX_SEAMS, Rows(1, MAX_SEAMS, <<U64, Key>>))>>)
FeedsMoved == Exactly(<<U64, U16, Sent(MAX_SINCE, Rows(2, MAX_SINCE, <<U16, U8, U8, U64, U64, Key>>))>>)

(* mailbox.rs *)
SendMail == AtLeast(<<U8, Key, Key, Sent(MAX_PLAINTEXT + 16, Rest(MAX_PLAINTEXT + 16))>>)
SendAck == Exactly(<<U64, U64>>)
MailListing == Exactly(<<U64, Sent(MAX_MESSAGES, Rows(4, MAX_MESSAGES, <<U64, Key, U64, U32>>))>>)
ById == Exactly(<<U8, U64>>)
Fetched == AtLeast(<<U8, Key, U64, Key, Sent(MAX_PLAINTEXT + 16, Rest(Free))>>)
Status == Exactly(<<U8, U64, U64, U64>>)

(* backup.rs, catchup.rs and receipt.rs *)
Plain == Exactly(<<U8, U64, Rows(4, MAX_BLOBS, <<U8, Key, Key, Key, U64, U64>>)>>)
Kept == <<U64, Rows(4, MAX_BLOBS, <<Key>>), Bytes(4, MAX_SEALED), Sig>>
Manifest == Exactly(<<U8>> \o Kept)
AskBackup == ByKey
Held == Exactly(<<Key, U64, U64, U64>> \o Kept)
Catchup == Exactly(<<U8, U32, Rows(2, MAX_NAMED, <<Key, U64, U32>>)>>)
CaughtUp == Exactly(<<U64, U16,
    Rows(2, MAX_NAMED, <<Key, U8, U8, Sent(MAX_CATCHUP_BYTES, Bytes(4, MAX_CATCHUP_BYTES)),
                                      Sent(MAX_CATCHUP_BYTES, Bytes(4, MAX_CATCHUP_BYTES))>>),
    Sent(MAX_UNNAMED, Rows(2, MAX_UNNAMED, <<Key, U64>>))>>)
Branch == <<U64, Key, Key, Sig>>
Equivocation == Exactly(<<Key, Key, Key, U64>> \o Branch \o Branch)

StoreLayouts ==
    {PutKeys, GetKeys, PutAck, GotKeys, Absent, Commit, Publish, Take, Taken, Counts, Cleared, Edit,
     Reaction, Redact, Metadata, Call, CallEnd, Typing, CallState, Begin, BeginFeed, PutChunk, CommitUpload,
     ByUpload, GetChunk, ByBlob, Begun, Committed, HeadedBlob, Limits, Chunk, AppendPost, ReadFeed,
     Withdraw, Since, HeadOf, SetFeed, Listed, FeedListing, Appended, Page, Headed, FeedsMoved, SendMail,
     SendAck, MailListing, ById, Fetched, Status, Plain, Manifest, AskBackup, Held, Catchup, CaughtUp,
     Equivocation}
    \cup Posts \cup ByFeedBlob
=============================================================================
