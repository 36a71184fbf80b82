------------------------------ MODULE MCStores ------------------------------
(***************************************************************************)
(* What one exchange keeps for its accounts and their devices: the feed,   *)
(* the mailbox and its moves, blobs, the backup; and a client's own store, *)
(* with the conversation it reads into it. They share no state and are     *)
(* checked side by side: `focus` names the one that moves in a behaviour.  *)
(* An append to the feed stops half way only where one device publishes.   *)
(***************************************************************************)
EXTENDS Feed, Homing, Blobs, Backup, Reading, TLC

CONSTANTS pub, dm, ann, bob, me, you

VARIABLE focus

Members == (pub :> {ann}) @@ (dm :> {ann, bob})
Admins == (pub :> {ann}) @@ (dm :> {ann})

(* What is said in the conversations the client reads. *)
Says(by, is, t) ==
    [by |-> by, is |-> is, target |-> t, epoch |-> 1, timed |-> FALSE, late |-> FALSE]
Post(by) == Says(by, "post", 0)
Timed(e) == [e EXCEPT !.timed = TRUE]
Under(e, n) == [e EXCEPT !.epoch = n]
TooLate(e) == [e EXCEPT !.late = TRUE]
Event == Under(Says(you, "system", 0), 0)
Direct(first, second) ==
    [admins |-> {me, you}, says |-> <<first, second>>, epochs |-> 1, met |-> TRUE]
Group(first, n) == [admins |-> {me}, says |-> <<first>>, epochs |-> n, met |-> FALSE]

Conversations ==
    {Direct(<<Event, Post(you)>>, <<Post(me), Post(you)>>),
     Direct(<<Post(me), Post(you)>>, <<Timed(Post(you))>>),
     Group(<<Post(you), Says(you, "edit", 1), Says(me, "redact", 1), Says(me, "call", 0)>>, 1),
     Group(<<Post(me), Says(you, "redact", 1), Says(me, "edit", 1), TooLate(Says(me, "edit", 1))>>, 1),
     Group(<<Event, Timed(Post(me)), Says(me, "react", 2), Says(you, "call", 0)>>, 1),
     Group(<<Post(you), Says(me, "react", 1), Says(me, "unreact", 1), Says(you, "meta", 0)>>, 1),
     Group(<<Says(you, "call", 0), Says(me, "end", 1), Says(you, "end", 1), Says(me, "meta", 0)>>, 1),
     Group(<<Post(you), Under(Post(you), 2), Under(Says(you, "edit", 1), 2)>>, 2)}

StoresInit ==
    /\ focus \in {"feed", "torn", "homing", "blobs", "backup", "reading"}
    /\ FeedInit /\ HomingInit /\ BlobsInit /\ BackupInit /\ RdInit
    /\ focus # "reading" => script = CHOOSE c \in Scripts : TRUE

(* The stores but for the named one are left alone. *)
Rest(which) ==
    /\ which # "feed" => UNCHANGED feedVars
    /\ which # "homing" => UNCHANGED homingVars
    /\ which # "blobs" => UNCHANGED blobVars
    /\ which # "backup" => UNCHANGED backupVars
    /\ which # "reading" => UNCHANGED rdVars

(* Which device is the first to be accepted does not matter. *)
Speaker == CHOOSE d \in FeedDevices : TRUE
OneSpeaks == \A d \in FeedDevices \ {Speaker} : author'[d] = NothingToSay
SpeakerFirst == feed'.newest = 1 /\ feed.newest = 0 => rows'[1].device = Speaker

StoresNext ==
    /\ UNCHANGED focus
    /\ \/ focus = "feed" /\ FeedNext /\ SpeakerFirst /\ torn' = 0 /\ Rest("feed")
       \/ focus = "torn" /\ FeedNext /\ OneSpeaks /\ Rest("feed")
       \/ focus = "homing" /\ HomingNext /\ Rest("homing")
       \/ focus = "blobs" /\ BlobsNext /\ Rest("blobs")
       \/ focus = "backup" /\ BackupNext /\ Rest("backup")
       \/ focus = "reading" /\ RdNext /\ Rest("reading")

storesVars == <<focus, feedVars, homingVars, blobVars, backupVars, rdVars>>
BackupAlone == StoresInit /\ focus = "backup" /\ [][StoresNext]_storesVars
MailAlone == StoresInit /\ focus = "homing" /\ [][StoresNext]_storesVars
ReadingAlone == StoresInit /\ focus = "reading" /\ [][StoresNext]_storesVars
StoresSpec == StoresInit /\ [][StoresNext]_storesVars
=============================================================================
