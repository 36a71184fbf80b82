----------------------------- MODULE WireAccount -----------------------------
(***************************************************************************)
(* The layouts of what is said about accounts and exchanges: credentials,  *)
(* devices, succession, homes, lineage, names, profiles, presence,         *)
(* endpoints, attestations, the administrators' operations and refusals;   *)
(* and of what exchanges say to each other (peer.rs).                      *)
(***************************************************************************)
EXTENDS Layout

LOCAL C == INSTANCE WireChannel
LOCAL K == INSTANCE WireStores

MAX_SCOPE == 32
MAX_DEVICES == 8
MAX_REVOKED == 256
MAX_GUARDIANS == 8
MAX_PROOF == 4096
MAX_ORIGINS == 16
MAX_LINEAGE == 16
MAX_DOMAIN == 253
MAX_TARGET == 320
MAX_ENDPOINTS == 8
MAX_CAPABILITIES == 8
MAX_CAPABILITY == 64
MAX_HOST == 253
MAX_REASON == 128
MAX_CLAIM == 256
MAX_PER_SUBJECT == 64
MAX_BLOCKED == 1024
MAX_AVATAR == 8 * 1024
MAX_LABEL == 256
MAX_DETAIL == 512
REVOCATION_LEN == 32 + 32 + 8 + 64
CREDENTIAL_LEN == 32 + 32 + 1 + 8 + 8 + 64

(* `write_domain` and `read_domain` *)
Domain == Cut(255, Text(1, Widest(1)))
LOCAL ByKey == Exactly(<<U8, Key>>)

(* credential.rs and device.rs; a credential or a revocation that may be   *)
(* missing is written with its length, which is then 0.                    *)
Credential == Exactly(<<Key, Key, Sent(MAX_SCOPE, Text(1, MAX_SCOPE)), U64, U64, Sig>>)
Revocation == Exactly(<<Fixed(REVOCATION_LEN)>>)
Register == Exactly(<<U8>> \o Credential.fields)
Revoke == Exactly(<<U8, Key, Maybe(Revocation.fields)>>)
ListDevices == ByKey
ListRevoked == ByKey
Revoked == AtLeast(<<U64, Sent(MAX_REVOKED, Rows(2, MAX_REVOKED,
                <<Key, U64, Sent(REVOCATION_LEN, Bytes(2, Widest(2)))>>))>>)
Whose == Exactly(<<Key, Key>>)
ListDevicesFrom == ByKey
DeviceList == Exactly(<<U64, Sent(MAX_DEVICES, Rows(2, MAX_DEVICES,
                <<Key, U64, U64, Sent(CREDENTIAL_LEN + MAX_SCOPE, Bytes(2, Widest(2)))>>))>>)
DevicesFrom == Exactly(<<U8>> \o DeviceList.fields)
AdmissionRequest == Exactly(<<U8, Box(2, Widest(2), Credential.fields), Text(1, Widest(1))>>)

(* succession.rs; `check` has bounded the guardians before a policy is     *)
(* signed.                                                                 *)
Will == Exactly(<<U8, Key, Key, U64, Sig>>)
Policy == Exactly(<<U8, Key, U8, Sent(MAX_GUARDIANS, Rows(1, MAX_GUARDIANS, <<Key>>)), U64, Sig>>)
Vouch == Exactly(<<U8, Key, Key, Key, U64, Sig>>)
Proof == Policy.fields \o <<Sent(MAX_GUARDIANS, Rows(1, MAX_GUARDIANS, Vouch.fields))>>
Claim == Exactly(<<U8>> \o Proof)
Handover == Exactly(<<U8>> \o Will.fields
                \o <<Cut(MAX_DEVICES, Rows(1, MAX_DEVICES, <<Box(2, Widest(2), Credential.fields)>>))>>)
Succeeded == Exactly(<<Key, U64>> \o Proof)

(* home.rs, lineage.rs, locate.rs and exchange.rs *)
Move == Exactly(<<Key, Key, U64, Sig>>)
Moving == Exactly(Move.fields \o <<Domain, Cut(MAX_ORIGINS, Rows(1, MAX_ORIGINS, <<Key, Domain>>))>>)
Moved == Exactly(<<U64, U8>>)
Hint == Exactly(<<Key, Domain>>)
Hinted == Exactly(<<U64, U8>>)
Homed == Exactly(<<Key, Domain, U64>>)
Link == <<Domain, Key, Key, U64, Sig>>
Lineage == Exactly(<<Cut(MAX_LINEAGE, Rows(1, MAX_LINEAGE, Link))>>)
Locate == Exactly(<<Cut(MAX_TARGET, Text(2, MAX_TARGET))>>)
Located == Exactly(<<Key, Key, Domain>> \o DeviceList.fields)
Pong == Exactly(<<U8, U64>>)
Peers == Exactly(<<U8, Rows(2, Widest(2), <<Key, Sent(MAX_DOMAIN, Cut(MAX_DOMAIN, Text(1, Widest(1))))>>)>>)

(* name.rs: a name the reader's `canonical` refuses is longer than 63.     *)
Name == Text(1, 63)
ByName == Exactly(<<U8, Name>>)
Reverse == ByKey
ClaimAck == Exactly(<<U8, U64>>)
Resolved == Exactly(<<U8, U64, Opt(<<Key, U64, U64, U64, U8>>)>>)
Names == Exactly(<<U64, Rows(2, Widest(2), <<Sent(63, Text(1, Widest(1)))>>)>>)

(* profile.rs; set_profile bounds what it signs.                           *)
Profile == <<U8, Sent(64, Text(1, 64)), Sent(64, Text(1, 64)), Sent(MAX_AVATAR, Bytes(2, MAX_AVATAR))>>
Record == <<Key, Key, U64, U64>> \o Profile \o <<Sig>>
Put == Exactly(<<U8>> \o Record)
ByAccount == ByKey
Block == Exactly(<<U8, Key, U8>>)
Got == Exactly(<<U8, U64, U64, Maybe(Record)>>)
Blocks == Exactly(<<U64, Sent(MAX_BLOCKED, Rows(2, MAX_BLOCKED, <<Key>>))>>)

(* beacon.rs: what follows the time came later, and may be missing.        *)
Beat == Exactly(<<U8, U32, U8>>)
BeatAck == Exactly(<<U64>>)
Read == ByKey
Reply == AtLeast(<<U8, U64, U32, U64, Opt(<<U8>>), Opt(<<U8>>)>>)

(* resolve.rs and attest.rs; an address has a length the kind tells.       *)
Endpoint == <<U8, Text(1, MAX_HOST), U16, U16, U16>>
Address == <<U8, Fixed(16), U16, U16, U16>>
Capabilities == Rows(1, MAX_CAPABILITIES, <<Text(1, MAX_CAPABILITY)>>)
Publish(endpoint) == Exactly(<<U8, U32, Rows(1, MAX_ENDPOINTS, endpoint), Capabilities>>)
Resolve == ByKey
Reached(endpoint) == Exactly(<<U8, Rows(1, MAX_ENDPOINTS, endpoint), U64, U64, U64, U64, Capabilities>>)
Successor == Exactly(<<U8, Key, Text(1, MAX_REASON)>>)
Attestation == <<Key, Key, U8, Bytes(2, MAX_CLAIM), U64, U64, Sig>>
Lodge == Exactly(<<U8>> \o Attestation)
Query == Exactly(<<U8, Key, U8, Key>>)
Held == Exactly(<<U64, Sent(MAX_PER_SUBJECT, Rows(2, MAX_PER_SUBJECT, Attestation))>>)

(* The administrators' operations (lib.rs), and refusal.rs, which cuts a   *)
(* text between two characters.                                            *)
Labelled == Exactly(<<U8, Key, Maybe(<<Text(4, MAX_LABEL)>>)>>)
NameAssign == Exactly(<<U8, Key, Name>>)
Ops == {Labelled, NameAssign, ByName, ByKey, Exactly(<<U8>> \o Credential.fields),
        Exactly(<<U8>> \o Revocation.fields), Exactly(<<U8, U32>>), Exactly(<<U8, U8, U16>>), Exactly(<<U8>>)}
Refusal == Exactly(<<U16, Cut(MAX_DETAIL, Bytes(2, Widest(2)))>>)

AccountLayouts ==
    {Credential, Revocation, Register, Revoke, ListDevices, ListRevoked, Revoked, Whose, ListDevicesFrom,
     DeviceList, DevicesFrom, AdmissionRequest, Will, Policy, Vouch, Claim, Handover, Succeeded, Move, Moving, Moved, Hint,
     Hinted, Homed, Lineage, Locate, Located, Pong, Peers, ByName, Reverse, ClaimAck, Resolved, Names, Put,
     ByAccount, Block, Got, Blocks, Beat, BeatAck, Read, Reply, Publish(Endpoint), Publish(Address),
     Resolve, Reached(Endpoint), Reached(Address), Successor, Lodge, Query, Held, Refusal}
    \cup Ops

(* Between exchanges (peer.rs).                                            *)
MAX_PULL == 256
MAX_WAKE_ROWS == 8 + 1
MAX_WAIT_CHANNELS == 256
SIGNAL_LOG == 256
MAX_MESSAGES == 64
MAX_PLAINTEXT == 32 * 1024
MAX_ENDPOINT == 512

(* What is asked. *)
Hello == Exactly(<<U8, U8, U64>>)
Pull == Exactly(<<U8, Key, U64, U16>>)
PullMail == ByKey
TookMail == Exactly(<<U8, Key, Cut(MAX_MESSAGES, Rows(1, Widest(1), <<U64>>))>>)
PullBackup == ByKey
PullBackupBlob == Exactly(<<U8, Key, Key, U32>>)
TookBackup == Exactly(<<U8, Key, U64>>)
PullWakes == ByKey
PullEnvelopes == Exactly(<<U8, Key, U32>>)
PullBlob == Exactly(<<U8, Key, Key, U32>>)
PullRecord == ByKey
PullShape == ByKey
PullCursors == ByKey
PullSignals == Exactly(<<U8, Key, U64>>)
PullTombstones == Exactly(<<U8, Key, U64>>)
PullStanding == Exactly(<<U8, Key, Key>>)
PullMine == ByKey
PeerWait == Exactly(<<U8, U16, Cut(MAX_WAIT_CHANNELS, Rows(2, MAX_WAIT_CHANNELS, <<Key, U64>>))>>)

(* What is told, or passed on for a device. *)
Forward == AtLeast(<<U8, Key>> \o C!Post.fields)
ForwardAction == AtLeast(<<U8, Key, Cut(255, Text(1, Widest(1))), Rest(Free)>>)
Carried == AtLeast(<<U8, Box(2, Widest(2), Credential.fields), U8, Rest(Free)>>)
PeerMoved == Exactly(<<U8>> \o Move.fields \o <<Domain>>)
PeerFolded == Exactly(<<U8, Key, Key, Key, Domain>>)
PeerInvited == Exactly(<<U8, Key, Key, Domain>>)

(* What is answered. *)
Hi == Exactly(<<U64, U8, Key, U32>>)
Pulled == Exactly(<<U64, Key, Key, U64, U64, U32,
                    Sent(MAX_PULL, Rows(2, MAX_PULL, C!ReceiptedEntry))>> \o C!Tip)
Mail == Exactly(<<U64, Cut(MAX_MESSAGES, Rows(1, MAX_MESSAGES,
            <<U64, Key, U64, Key, Sent(MAX_PLAINTEXT + 16, Bytes(4, MAX_PLAINTEXT + 64))>>))>>)
Wakes == Exactly(<<U64, Cut(MAX_WAKE_ROWS, Rows(1, MAX_WAKE_ROWS,
            <<Key, U64, Cut(MAX_ENDPOINT, Text(2, MAX_ENDPOINT))>>))>>)
PulledEnvelopes == Exactly(<<U64, Sent(MAX_PULL, Rows(2, MAX_PULL, <<U32>> \o K!Envelope))>>)
PulledBlob == Exactly(<<Rows(2, Widest(2), <<Key, U64, U32>>), Bytes(4, Widest(4))>>)
Forwarded == AtLeast(<<U16, Rest(Free)>>)
Shape == Exactly(<<U8, Cut(255, Text(1, Widest(1))), Cut(65535, Text(2, Widest(2)))>>)
Signals == Exactly(<<U64, Sent(SIGNAL_LOG, Rows(2, SIGNAL_LOG,
            <<U64, Key, Key, U8, U64, Cut(65535, Bytes(2, Widest(2)))>>))>>)
Tombstones == Exactly(<<U64, Rows(2, Widest(2), <<U64, U64>>)>>)
Standing == Exactly(<<U64, Key, U64, Opt(<<Key, Sent(C!MAX_DOMAIN, Text(1, Widest(1)))>>)>>)
Mine == Exactly(<<U64, Cut(65535, Rows(2, Widest(2), <<Key>>))>>)
Changed == Exactly(<<U64, Cut(65535, Rows(2, Widest(2), <<Key>>))>>)

PeerLayouts ==
    {Hello, Pull, PullMail, TookMail, PullBackup, PullBackupBlob, TookBackup, PullWakes, PullEnvelopes,
     PullBlob, PullRecord, PullShape, PullCursors, PullSignals, PullTombstones, PullStanding, PullMine,
     PeerWait, Forward, ForwardAction, Carried, PeerMoved, PeerFolded, PeerInvited, Hi, Pulled, Mail,
     Wakes, PulledEnvelopes, PulledBlob, Forwarded, Shape, Signals, Tombstones, Standing, Mine, Changed}
=============================================================================
