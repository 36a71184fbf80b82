----------------------------- MODULE WireChannel -----------------------------
(***************************************************************************)
(* The layouts of sqex-proto/src/channel.rs, and of what is said while it  *)
(* happens: sessions, rooms, calls between exchanges, the event and tail   *)
(* streams, introductions, wake endpoints and tunnels. What travels on a   *)
(* stream is preceded by its length, which its reader bounds before it     *)
(* waits for the rest.                                                     *)
(***************************************************************************)
EXTENDS Layout

MAX_MEMBERS == 256
MAX_ENTRY_BODY == 32 * 1024
MAX_BATCH == 64
MAX_DIRECTORY == 64
MAX_MINE == 64
MAX_NAME == 64
MAX_TOPIC == 256
MAX_QUERY == 64
MAX_NOTE == 1024
MAX_REPORTS == 256
MAX_HEADS == 256
MAX_SIGNALS == 32
MAX_SIGNAL_BODY == 256
MAX_DOMAIN == 253      \* is_domain

Action == Fixed(8 + 32 + 64)
Receipted == Fixed(32 + 32 + 64)
System == Exactly(<<U8, Key, Key, Key, U64, Key, Sig>>)

(* Requests. A Create carries an action for itself and one for each        *)
(* invitee, so the rows are counted with their actions here.               *)
Create == Exactly(<<U8, Key, Key, U8, U32, U32, Typed(256, Text(1, MAX_NAME)), Typed(1024, Text(2, MAX_TOPIC)),
                    Rows(1, MAX_MEMBERS, <<Key, U8, Action>>), Action>>)
CreateAt == Exactly(<<U8, Key>> \o Create.fields)
ByChannelSigned == Exactly(<<U8, Key, Action>>)
ByChannel == Exactly(<<U8, Key>>)
Post == AtLeast(<<U8, Key, U32, U64, U32, U64, Key, Sig, Rest(MAX_ENTRY_BODY)>>)
Fetch == Exactly(<<U8, Key, U64, U16>>)
Directory == Exactly(<<U8, Key, Text(1, Widest(1)), Text(2, Widest(2)), Action>>)
Retain == Exactly(<<U8, Key, U32, U32, Action>>)
Invite == Exactly(<<U8, Key, Key, U8, Action>>)
ByAccount == Exactly(<<U8, Key, Key, Action>>)
Rehome == Exactly(<<U8, Key, Key, Sent(MAX_DOMAIN, Text(1, Widest(1))), Action>>)
Search == Exactly(<<U8, U32, Text(2, MAX_QUERY)>>)
List == Exactly(<<U8, U32, Text(1, MAX_QUERY)>>)
Report == Exactly(<<U8, Key, U64, U8, Cut(MAX_NOTE, Text(2, MAX_NOTE))>>)
ChainAsk == Exactly(<<U8, Key, U64>>)
Mine == Exactly(<<U8, U32>>)

(* An entry with its receipt, and without. *)
Stated == <<U64, U8, Key, Key, U64, U32, U32, U64, U64, Key, Key, Sig>>
ReceiptedEntry == Stated \o <<Receipted, Sent(MAX_ENTRY_BODY, Bytes(4, MAX_ENTRY_BODY))>>
Entry == Stated \o <<Sent(MAX_ENTRY_BODY, Bytes(4, MAX_ENTRY_BODY))>>
Tip == <<U64, U64, Receipted>>
Signals == Sent(MAX_SIGNALS, Rows(2, MAX_SIGNALS, <<Key, U8, Sent(MAX_SIGNAL_BODY, Bytes(2, MAX_SIGNAL_BODY))>>))

Rehomed == Exactly(<<U8, Key, Sent(MAX_DOMAIN, Text(1, Widest(1)))>> \o ReceiptedEntry)

(* Answers. *)
Home == Exactly(<<Key, Cut(255, Text(1, Widest(1))), Opt(<<Cut(255, Rows(1, Widest(1), <<U64, Key>>))>>)>>)
Found == Exactly(<<U64, U32, Sent(MAX_DIRECTORY, Rows(2, MAX_DIRECTORY,
            <<Key, Key, Key, Cut(255, Text(1, Widest(1))), U8, U16, U64,
              Cut(255, Text(1, Widest(1))), Cut(65535, Text(2, Widest(2)))>>))>>)
Reports == Exactly(<<U64, Sent(MAX_REPORTS, Rows(2, MAX_REPORTS,
            <<U64, Key, U64, U8, U64, Sent(MAX_NOTE, Text(2, Widest(2)))>>))>>)
Stranded == AtLeast(<<Rows(2, Widest(2), <<U64, U64, Bytes(4, Widest(4))>>)>>)
Heads == Exactly(<<Sent(MAX_HEADS, Rows(2, Widest(2), <<U64, Key>>))>>)
Ack == Exactly(<<U64>>)
Created == Exactly(<<U8, U32, Key, U64>>)
Posted == Exactly(<<U64, U64, U64>>)
PostedReceipted == Exactly(<<U64, U64, U64, Receipted>>)
Entries == Exactly(<<U64, U64, U64, Sent(MAX_BATCH, Rows(2, MAX_BATCH, Entry)), Signals>>)
EntriesReceipted == Exactly(<<U64, U64, U64, Sent(MAX_BATCH, Rows(2, MAX_BATCH, ReceiptedEntry)), Signals>> \o Tip)
ChannelInfo == Exactly(<<U8, U32, Key, U32, U32, U64, U64, U64, U64, Key, U64,
                         Sent(MAX_MEMBERS, Rows(2, MAX_MEMBERS, <<Key, U8, U64>>)),
                         Sent(255, Text(1, Widest(1))), Sent(4 * MAX_TOPIC, Text(2, Widest(2)))>>)
Mines == AtLeast(<<U64, U32, Sent(MAX_MINE, Rows(2, MAX_MINE, <<Key, U8, U8, U64, U32, U64, U64, U64>>))>>)
Listing == Exactly(<<U64, U32, Sent(MAX_DIRECTORY, Rows(2, MAX_DIRECTORY,
            <<Key, Key, U16, U64, Sent(255, Text(1, Widest(1))), Sent(4 * MAX_TOPIC, Text(2, Widest(2)))>>))>>)

(* Read positions, and what is passed on without being kept. *)
Cursor == Exactly(<<U8, Key, U64, U8>>)
Marks == Exactly(<<U64, Sent(MAX_MEMBERS, Rows(2, MAX_MEMBERS, <<Key, U64, U64>>))>>)
ByTarget == Exactly(<<U8, Key, U64>>)
SignalOut == AtLeast(<<U8, Key, U8, Sent(MAX_SIGNAL_BODY, Rest(MAX_SIGNAL_BODY))>>)

ChannelLayouts ==
    {System, Create, CreateAt, ByChannelSigned, ByChannel, Post, Fetch, Directory, Retain,
     Invite, ByAccount, Rehome, Search, List, Report, ChainAsk, Mine, Rehomed, Home, Found,
     Reports, Stranded, Heads, Ack, Created, Posted, PostedReceipted, Entries, EntriesReceipted,
     ChannelInfo, Mines, Listing, Cursor, Marks, ByTarget, SignalOut}

(* While it happens.                                                       *)
MAX_FRAME == 32 * 1024
MAX_DATAGRAM_FRAME == 1024
MOST_FRAMES == 256
ROOM_MEMBERS == 8      \* ROOM_MEMBERS of room.rs
MAX_SHARE == 4
MAX_CONTROL == 1536
MAX_EVENT == 1024
MAX_LINE == 1024
MAX_TEXT == 128
MAX_ENDPOINT == 512
MAX_PACKET == 1500
CREDENTIAL_MOST == 145 + 32

LOCAL Bridge == Fixed(16)
LOCAL Domain == Cut(255, Text(1, Widest(1)))
LOCAL ByKey == Exactly(<<U8, Key>>)

(* session.rs *)
CallWord == <<U64, Sent(CREDENTIAL_MOST, Bytes(2, Widest(2))), Sig>>
RoomWord == CallWord
Open == Exactly(<<U8, Key, Key>>)
OpenAck == Exactly(<<U8, U64, Key, U64>>)
CallOpen == Exactly(<<U8, Key, Text(1, Widest(1))>>)
CallOpenSigned == Exactly(CallOpen.fields \o CallWord)
CallAck == Exactly(<<U8, U8, U64, Key, Key, U64>>)
CallDecline == Exactly(<<U8, Bridge, U8>>)
SendFrame == AtLeast(<<U8, U64, U64, Sent(MAX_FRAME + 16, Rest(MAX_FRAME + 16))>>)
BySession == Exactly(<<U8, U64>>)
Frames == Exactly(<<U8, Sent(MOST_FRAMES, Rows(4, MOST_FRAMES,
                <<U64, Sent(MAX_FRAME + 16, Bytes(4, MAX_FRAME + 16))>>))>>)
DatagramFrame == AtLeast(<<U64, U64, Sent(MAX_DATAGRAM_FRAME + 16, Rest(MAX_DATAGRAM_FRAME + 16))>>)

(* room.rs; a room of 8 members is joined on at most 4 exchanges.          *)
Join == Exactly(<<U8, Key, Key>>)
Leave == ByKey
Left == Exactly(<<U8, U8>>)
JoinShared == Exactly(<<U8, Key, Key, Rows(1, MAX_SHARE, <<Key>>)>>)
JoinSharedWord == Exactly(<<U8, Key, Key, Rows(1, MAX_SHARE, <<Key, Domain>> \o RoomWord)>>)
Homed == Exactly(<<U64, Rows(2, ROOM_MEMBERS * MAX_SHARE, <<Key, Key, Key>>)>>)
Roster == Exactly(<<U64, Sent(ROOM_MEMBERS, Rows(2, ROOM_MEMBERS, <<Key, Key>>))>>)

(* Mutant of Control: a frame as large as an event's. *)
ControlShort(fields) == Exactly(<<Box(4, MAX_EVENT, <<U8>> \o fields)>>)

(* relay.rs: the control messages of a peering, each in a frame.           *)
Control(fields) == Exactly(<<Box(4, MAX_CONTROL, <<U8>> \o fields)>>)
RingInvite == <<Bridge, Key, Key, Key, Sent(MAX_DOMAIN, Text(1, Widest(1)))>>
InviteSigned == RingInvite \o <<Sent(255, Text(1, Widest(1)))>> \o CallWord
Accept == <<Bridge, Key, Key>>
InviteDevice == <<Bridge, Key, Key, Key>>
Ended == <<Bridge, U8>>
RoomShare == <<Key, Sent(ROOM_MEMBERS, Rows(1, ROOM_MEMBERS, <<Key, Key, Key>>))>>
RoomShareSigned == RoomShare \o <<Key>> \o RoomWord
Controls == {Control(f) : f \in {RingInvite, InviteSigned, <<Bridge>>, Ended, Accept, InviteDevice,
                                 RoomShare, RoomShareSigned}}
RelayData == AtLeast(<<Bridge, U64, Rest(Free)>>)

(* events.rs *)
Subscribe == Exactly(<<U8, U8>>)
Event(fields) == Exactly(<<Box(4, MAX_EVENT, <<U8>> \o fields)>>)
Events == {Event(f) : f \in {<<Key, U64>>, <<Key>>, <<Key, Key, U8>>, <<Bridge, Key>>, <<>>}}

(* tail.rs reads what it cut of a text as far as it is text, so a cut      *)
(* inside a character refuses nothing: a cut text counts as bytes here.    *)
TailText == Cut(MAX_TEXT, Bytes(1, MAX_TEXT))
TailKey == Maybe(<<Key>>)
Line(fields) == Exactly(<<Box(4, MAX_LINE, <<U8, U64, U64>> \o fields)>>)
Request == <<TailKey, TailText, U16, U32, U64>>
Connection == <<U8, TailText, TailKey, U32, U64, U64, U64>>
Hint == <<U8, TailKey, U32, U32>>
AdminRecord == <<Key, TailText>>
PeerRecord == <<Key, TailText, U32, U64>>
RefusedRecord == <<TailKey, TailText, TailText, U64>>
Lines == {Line(f) : f \in {Request, Connection, Hint, AdminRecord, PeerRecord, RefusedRecord, <<U64>>, <<>>}}

(* rendezvous.rs, wake.rs and tunnel.rs *)
Introduce == Exactly(<<U8, Key, U16>>)
Introduced == Exactly(<<U8, U8, Fixed(16), U16, U64, U64>>)
Register == Exactly(<<U8, U32, Text(2, MAX_ENDPOINT), Opt(<<U8>>)>>)
TunnelOpen == Exactly(<<U8, Key, Sent(255, Text(1, Widest(1)))>>)
TunnelOpened == Exactly(<<U8, U8>>)
Packet == Exactly(<<Sent(MAX_PACKET, Bytes(2, MAX_PACKET))>>)

LiveLayouts ==
    {Open, OpenAck, CallOpen, CallOpenSigned, CallAck, CallDecline, SendFrame, BySession, Frames,
     DatagramFrame, Join, Leave, Left, JoinShared, JoinSharedWord, Homed, Roster, RelayData, Subscribe,
     Introduce, Introduced, Register, TunnelOpen, TunnelOpened, Packet}
    \cup Controls \cup Events \cup Lines
=============================================================================
