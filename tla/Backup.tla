------------------------------- MODULE Backup -------------------------------
(***************************************************************************)
(* An account's sealed backup: a manifest and the blobs it names, written  *)
(* by the account's devices at its home (sqexd/src/channel.rs and the      *)
(* /backup routes, sqex-chat/src/backup.rs), and collected from the former *)
(* home after a Move (replica.rs collect_backup, the /peer/backup routes). *)
(*                                                                         *)
(* The former home has been told of the Move and takes no writes. Each     *)
(* request is a transaction; a collection, and a device's backup, are many *)
(* requests, and anything may happen between two of them.                  *)
(***************************************************************************)
EXTENDS Naturals, FiniteSets

CONSTANTS
    BackupDevices,
    FormerBlobs,   \* what the manifest at the former home names
    BackupQuota,   \* backup_quota, in blobs of one size
    MaxSegments    \* bound: segments the devices upload

ASSUME BackupAssumption ==
    FormerBlobs \cap (1 .. MaxSegments) = {} /\ BackupQuota \in Nat /\ MaxSegments \in Nat

VARIABLES
    former,     \* the manifest at the former home, and the blobs held there
    manifest,   \* the manifest at the home; generation 0 is none
    holds,      \* the blobs attached to the account at the home, and by whom
    collector,  \* collect_backup under way
    hintDone,   \* backup_collected: the former home is not asked again
    saver,      \* saver[d]: a device's backup under way
    segments,   \* segments uploaded so far; one is its number
    ownLast,    \* history: the last manifest a device wrote at the home and none dropped
    everHeld    \* history: the account has not dropped its backup

backupVars == <<former, manifest, holds, collector, hintDone, saver, segments, ownLast, everHeld>>

NoManifest == [gen |-> 0, names |-> {}]
Resting == [at |-> "idle"]
BackupInit ==
    /\ former = [gen |-> 1, names |-> FormerBlobs]
    /\ manifest = NoManifest /\ holds = {} /\ ownLast = NoManifest
    /\ collector = Resting /\ hintDone = FALSE
    /\ saver = [d \in BackupDevices |-> Resting]
    /\ segments = 0 /\ everHeld = TRUE
-----------------------------------------------------------------------------
Held == {h.blob : h \in holds}
HasQuota == Cardinality(Held) + 1 <= BackupQuota
(* attach leaves the uploader of a row that stands alone. *)
Holding(b, collected) == IF b \in Held THEN holds ELSE holds \cup {[blob |-> b, collected |-> collected]}

(* backup: what is held is read, and segments that did not change are kept *)
(* with it.                                                                *)
ReadHeld(d) ==
    /\ saver[d] = Resting
    /\ \E kept \in SUBSET manifest.names :
         saver' = [saver EXCEPT ![d] = [at |-> "upload", gen |-> manifest.gen + 1, names |-> kept, tries |-> 0]]
    /\ UNCHANGED <<former, manifest, holds, collector, hintDone, segments, ownLast, everHeld>>

(* upload, to the account itself: over quota the backup ends in an error. *)
UploadSegment(d) ==
    /\ saver[d].at = "upload" /\ segments < MaxSegments
    /\ IF HasQuota
       THEN /\ segments' = segments + 1
            /\ holds' = Holding(segments + 1, FALSE)
            /\ saver' = [saver EXCEPT ![d].names = @ \cup {segments + 1}, ![d].at = "write"]
       ELSE saver' = [saver EXCEPT ![d] = Resting] /\ UNCHANGED <<holds, segments>>
    /\ UNCHANGED <<former, manifest, collector, hintDone, ownLast, everHeld>>

(* write_backup: the generation advances, every blob named is held, what   *)
(* is no longer named is released. A stale generation is retried once.     *)
WriteBackup(d) ==
    LET s == saver[d] IN
    /\ s.at = "write"
    /\ IF s.gen <= manifest.gen
       THEN /\ saver' = [saver EXCEPT ![d] = IF s.tries = 0 THEN [s EXCEPT !.gen = manifest.gen + 1, !.tries = 1]
                                              ELSE Resting]
            /\ UNCHANGED <<manifest, holds, ownLast, everHeld>>
       ELSE /\ saver' = [saver EXCEPT ![d] = Resting]
            /\ IF s.names \subseteq Held
               THEN /\ manifest' = [gen |-> s.gen, names |-> s.names]
                    /\ holds' = {h \in holds : h.blob \in s.names}
                    /\ ownLast' = manifest' /\ everHeld' = TRUE
               ELSE UNCHANGED <<manifest, holds, ownLast, everHeld>>
    /\ UNCHANGED <<former, collector, hintDone, segments>>

(* drop_backup, asked for by a device. *)
DropBackup ==
    /\ manifest' = NoManifest /\ holds' = {} /\ ownLast' = NoManifest /\ everHeld' = FALSE
    /\ UNCHANGED <<former, collector, hintDone, saver, segments>>

(* The device stops, its staged blobs left where they are. *)
SaverStops(d) ==
    /\ saver[d] # Resting /\ saver' = [saver EXCEPT ![d] = Resting]
    /\ UNCHANGED <<former, manifest, holds, collector, hintDone, segments, ownLast, everHeld>>
-----------------------------------------------------------------------------
(* release_collected_orphans: what a collection staged and no manifest     *)
(* here names; a device's own staged blobs are kept.                       *)
WithoutOrphans == {h \in holds : h.collected => h.blob \in manifest.names}

(* release_backup_if, at the former home: the generation told, or nothing. *)
Released(gen) == IF former.gen = gen /\ gen # 0 THEN NoManifest ELSE former

(* /peer/backup/took, or not if it is lost; the hint is marked either way. *)
Took(gen) ==
    /\ hintDone' = TRUE /\ collector' = Resting
    /\ former' \in {Released(gen), former}

(* backup_generation: something written here since the Move. *)
StandingMutant == holds # {}
Standing == manifest.gen # 0

(* The pull of the manifest, while the hint is pending: none there, one    *)
(* written here since, or blobs to fetch.                                  *)
PullBackup ==
    /\ collector = Resting /\ ~hintDone
    /\ IF former.gen = 0
       THEN hintDone' = TRUE /\ UNCHANGED <<former, holds, collector>>
       ELSE IF Standing
       THEN holds' = WithoutOrphans /\ Took(former.gen)
       ELSE /\ collector' = [at |-> "fetch", gen |-> former.gen, names |-> former.names,
                            left |-> former.names]
            /\ UNCHANGED <<former, holds, hintDone>>
    /\ UNCHANGED <<manifest, saver, segments, ownLast, everHeld>>

(* One blob, found held, or fetched and stored; over quota the collection  *)
(* gives up, and drops what the account holds here.                        *)
StoreBackupBlob(b) ==
    /\ collector.at = "fetch" /\ b \in collector.left
    /\ IF b \in Held \/ HasQuota
       THEN /\ b \in Held \cup former.names
            /\ holds' = Holding(b, TRUE)
            /\ collector' = [collector EXCEPT !.left = @ \ {b}]
            /\ UNCHANGED <<manifest, hintDone>>
       ELSE /\ manifest' = NoManifest /\ holds' = {}
            /\ hintDone' = TRUE /\ collector' = Resting
    /\ UNCHANGED <<former, saver, segments, ownLast, everHeld>>

(* import_backup, once every blob was seen to: refused where a manifest    *)
(* stands, and an error, which ends the pass, where a blob has gone since. *)
ImportsMutant == manifest.gen = 0
Imports == manifest.gen = 0 /\ collector.names \subseteq Held
SupersededMutant == holds
Superseded == WithoutOrphans
ImportBackup ==
    /\ collector.at = "fetch" /\ collector.left = {}
    /\ \/ /\ Imports
          /\ manifest' = [gen |-> collector.gen, names |-> collector.names]
          /\ Took(collector.gen) /\ UNCHANGED holds
       \/ /\ manifest.gen # 0
          /\ holds' = Superseded
          /\ Took(collector.gen) /\ UNCHANGED manifest
    /\ UNCHANGED <<saver, segments, ownLast, everHeld>>

(* A request of the collection fails, or the exchange restarts: what it    *)
(* staged stays, and the hint.                                             *)
CollectorStops ==
    /\ collector # Resting /\ collector' = Resting
    /\ UNCHANGED <<former, manifest, holds, hintDone, saver, segments, ownLast, everHeld>>

BackupNext ==
    \/ \E d \in BackupDevices : ReadHeld(d) \/ UploadSegment(d) \/ WriteBackup(d) \/ SaverStops(d)
    \/ DropBackup \/ PullBackup \/ ImportBackup \/ CollectorStops
    \/ \E b \in FormerBlobs : StoreBackupBlob(b)

BackupSpec == BackupInit /\ [][BackupNext]_backupVars
-----------------------------------------------------------------------------
(* The manifest an exchange serves names only blobs it holds, whatever     *)
(* collections, writes by several devices and releases interleave          *)
(* (release_collected_orphans, write_backup, import_backup).               *)
ManifestIsWhole == manifest.names \subseteq Held

(* What a collection staged and no manifest names does not stay against    *)
(* the account's quota once the collection is over for good                *)
(* (release_collected_orphans).                                            *)
NoOrphans == hintDone => \A h \in holds : h.collected => h.blob \in manifest.names

(* The backup the account moved with is never lost on the way: until the   *)
(* account drops it, the former home or the home holds a manifest.         *)
BackupSurvives == everHeld => former.gen # 0 \/ manifest.gen # 0

(* A backup is whole wherever it is: served with every blob it names,    *)
(* never lost between two homes, and without leftovers of a collection   *)
(* that is over (collect_backup, replica.rs).                            *)
BackupIsWhole == ManifestIsWhole /\ BackupSurvives /\ NoOrphans

(* The promise of collect_backup, `the account's own act stands`: what a   *)
(* device wrote at the home goes by a device's write or drop and nothing   *)
(* else. Giving up over quota drops whatever is there.                     *)
OwnBackupStands == ownLast.gen # 0 => manifest = ownLast
=============================================================================
