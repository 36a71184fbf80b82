------------------------------- MODULE Admin -------------------------------
(***************************************************************************)
(* Signed administration (SIP-10) and the managed whitelist it runs:       *)
(* single-use challenges (sqexd/src/challenge.rs), the state file          *)
(* (sqexd/src/state.rs), and `authorise`, `execute`, `apply` and           *)
(* `sync_transport` of sqexd/src/server.rs.                                *)
(*                                                                         *)
(* `execute` authorises a transaction, takes the state lock, applies the   *)
(* ops one after another, and at the end saves the file and re-derives the *)
(* set of keys the transport lets in ("the door").  Device registrations,  *)
(* admission requests and connections use other locks, so their handlers   *)
(* run between the ops of a batch; the server may stop at any point.       *)
(***************************************************************************)
EXTENDS Naturals, FiniteSets, Sequences

CONSTANTS
  Keys,         \* every key that may be listed or may connect
  Devices,      \* the keys that are registered as somebody's device
  AccountOf,    \* device |-> the account its credential names
  Clients,      \* the keys whose connections are followed
  Exchanges,    \* the exchanges a relay peer list may name
  Self,         \* this exchange's own key
  MAX_PEERS, MAX_AUDIT,
  SeedKeys, SeedPeers, AdminLists,  \* what the config file may say
  Nonces,       \* challenges ever issued; a 32-byte random nonce never recurs
  Batches,      \* the transactions administrators sign: <<signer, ops>>
  SaveMayFail,  \* whether writing the state file may fail
  None

ASSUME AdminAssumption ==
  /\ Devices \subseteq Keys /\ Clients \subseteq Keys
  /\ AccountOf \in [Devices -> Keys]
  /\ MAX_PEERS \in Nat \ {0} /\ MAX_AUDIT \in Nat \ {0}
  /\ SeedKeys \subseteq Keys /\ SeedPeers \subseteq Exchanges
  /\ AdminLists \subseteq SUBSET Keys /\ AdminLists # {}
  /\ SaveMayFail \in BOOLEAN
  /\ None \notin [nonce : Nonces, i : Nat, mutated : BOOLEAN]

VARIABLES
  nonce,       \* nonce |-> "unissued", "live", "stale" (expired, still held) or "gone"
  sent,        \* nonce |-> the transaction signed over it, or None; it may arrive often
  ready,       \* nonces whose transaction is authorised and waits for the state lock
  authorised,  \* history: nonce |-> how often a transaction over it was authorised
  batch,       \* the batch that holds the state lock, or None
  enabled, keys, peers, audit,   \* State, in memory
  disk,        \* the state file: None before the first save
  admins,      \* the admin list in memory
  config,      \* the admin list in the config file
  registered,  \* devices with a registration whose credential stands
  queue,       \* devices with an admission request pending
  owed,        \* a registration changed and its handler has yet to resync the door
  door,        \* the transport whitelist: [on, keys]
  watch, due,  \* registrations the door rests on; whether one of them has expired
  conn,        \* client |-> "none", "accepted", "open", "late" or "closing"
  unsaved      \* history: the last save failed, and there was no restart since

stateVars == <<enabled, keys, peers, audit>>
doorVars == <<door, watch, due, conn>>
txVars == <<nonce, sent, ready, authorised>>
fileVars == <<disk, unsaved>>
vars == <<txVars, batch, stateVars, fileVars, admins, config, registered, queue, owed, doorVars>>

(* `Op::is_mutation`: what is audited, saved and synced.  AdmissionApprove *)
(* and AdmissionDeny are not in the list. *)
is_mutation(op) ==
  op.name \in {"WhitelistEnable", "WhitelistDisable", "WhitelistAdd", "WhitelistRemove",
               "ReloadAdmins", "PeerAdd", "PeerRemove", "DeviceRegister", "DeviceRevoke"}

Conn == {"none", "accepted", "open", "late", "closing"}
Unsaved == [enabled |-> FALSE, keys |-> SeedKeys, peers |-> SeedPeers, audit |-> <<>>]

(* `State::load`: the file wins; the config only seeds the first run. *)
Loaded == IF disk = None THEN Unsaved ELSE disk

(* The keys a door derived from these sets lets in: the list, the          *)
(* administrators, and the registered devices of listed accounts.  The     *)
(* recorded home of a listed account is admitted by the same rule as its   *)
(* devices and counts as one here; the configured peering exchanges are    *)
(* always in and left out. *)
Allowed(ks, ad, reg) == ks \cup ad \cup {d \in reg : AccountOf[d] \in ks}

(* The transport is handed a set, the expiries it rests on are remembered, *)
(* and the recorded connections in `cut` are marked; they are closed a     *)
(* moment later.  A list switched off changes nothing else. *)
HandOver(on, allowed, rests, cut) ==
  IF on
  THEN /\ door' = [on |-> TRUE, keys |-> allowed] /\ watch' = rests /\ due' = FALSE
       /\ conn' = [c \in Clients |-> IF conn[c] \in {"open", "late"} /\ c \in cut
                                     THEN "closing" ELSE conn[c]]
  ELSE door' = [on |-> FALSE, keys |-> {}] /\ UNCHANGED <<watch, due, conn>>

Resting(ks, reg) == {d \in reg : AccountOf[d] \in ks}

(* Mutant of sync_transport: the administrators are left out. *)
sync_without_admins(on, ks, ad, reg) ==
  HandOver(on, Allowed(ks, {}, reg), Resting(ks, reg), Clients \ Allowed(ks, {}, reg))

(* Mutant of sync_transport: the soonest expiry is not remembered. *)
sync_without_expiry(on, ks, ad, reg) ==
  HandOver(on, Allowed(ks, ad, reg), {}, Clients \ Allowed(ks, ad, reg))

(* Mutant of sync_transport: the connections are left alone. *)
sync_without_closing(on, ks, ad, reg) ==
  HandOver(on, Allowed(ks, ad, reg), Resting(ks, reg), {})

(* `sync_transport`: the list, the administrators and the listed accounts' *)
(* devices are let in, and whoever else is connected is closed. *)
sync_transport(on, ks, ad, reg) ==
  HandOver(on, Allowed(ks, ad, reg), Resting(ks, reg), Clients \ Allowed(ks, ad, reg))

Init ==
  /\ nonce = [n \in Nonces |-> "unissued"]
  /\ sent = [n \in Nonces |-> None]
  /\ ready = {}
  /\ authorised = [n \in Nonces |-> 0]
  /\ batch = None
  /\ enabled = FALSE /\ keys = SeedKeys /\ peers = SeedPeers /\ audit = <<>>
  /\ disk = None
  /\ config \in AdminLists /\ admins = config
  /\ registered = {} /\ queue = {} /\ owed = FALSE
  /\ door = [on |-> FALSE, keys |-> {}] /\ watch = {} /\ due = FALSE
  /\ conn = [c \in Clients |-> "none"] /\ unsaved = FALSE

----------------------------------------------------------------------------
(* Challenges and authorisation *)

(* `issue`: a fresh nonce; what has expired is dropped on the way.  An     *)
(* administrator signs one transaction over it. *)
Issue(n, tx) ==
  /\ nonce[n] = "unissued"
  /\ nonce' = [m \in Nonces |-> IF m = n THEN "live"
                                ELSE IF nonce[m] = "stale" THEN "gone" ELSE nonce[m]]
  /\ sent' = [sent EXCEPT ![n] = tx]
  /\ UNCHANGED <<ready, authorised, batch, stateVars, fileVars, admins, config, registered,
                 queue, owed, doorVars>>

(* The challenge's ttl passes. *)
Expire(n) ==
  /\ nonce[n] = "live"
  /\ nonce' = [nonce EXCEPT ![n] = "stale"]
  /\ UNCHANGED <<sent, ready, authorised, batch, stateVars, fileVars, admins, config,
                 registered, queue, owed, doorVars>>

(* Mutant of consume: the nonce is looked up and left in place. *)
consume_keeping(n) == nonce' = nonce

(* `consume`: the nonce is removed whether or not it had expired. *)
consume(n) == nonce' = [nonce EXCEPT ![n] = IF @ = "unissued" THEN @ ELSE "gone"]

(* A signed transaction arrives, for the first time or again: `authorise`. *)
Authorise(n) ==
  /\ sent[n] # None
  /\ consume(n)
  /\ IF nonce[n] = "live" /\ sent[n][1] \in admins
     THEN /\ authorised' = [authorised EXCEPT ![n] = @ + 1]
          /\ ready' = ready \cup {n}
     ELSE UNCHANGED <<authorised, ready>>
  /\ UNCHANGED <<sent, batch, stateVars, fileVars, admins, config, registered, queue, owed,
                 doorVars>>

----------------------------------------------------------------------------
(* Executing a batch *)

(* `execute` takes the state lock for an authorised transaction. *)
Begin(n) ==
  /\ batch = None /\ n \in ready
  /\ ready' = ready \ {n}
  /\ batch' = [nonce |-> n, i |-> 1, mutated |-> FALSE]
  /\ UNCHANGED <<nonce, sent, authorised, stateVars, fileVars, admins, config, registered,
                 queue, owed, doorVars>>

ops == sent[batch.nonce][2]
op == ops[batch.i]
running(name) == batch # None /\ batch.i <= Len(ops) /\ op.name = name

(* `State::record`: the oldest entries drop first. *)
record(entry) ==
  audit' = LET all == Append(audit, entry)
           IN SubSeq(all, Len(all) - (IF Len(all) > MAX_AUDIT THEN MAX_AUDIT ELSE Len(all)) + 1,
                     Len(all))

(* What `execute` does after each op, whatever `apply` answered: a         *)
(* mutation is recorded as done whether or not `apply` refused it, and the *)
(* batch goes on. *)
AfterOp ==
  /\ batch' = [batch EXCEPT !.i = @ + 1, !.mutated = @ \/ is_mutation(op)]
  /\ IF is_mutation(op) THEN record(<<sent[batch.nonce][1], op>>) ELSE UNCHANGED audit
  /\ UNCHANGED <<txVars, fileVars, config, owed, doorVars>>

OpEnable ==
  /\ running("WhitelistEnable") /\ AfterOp /\ enabled' = TRUE
  /\ UNCHANGED <<keys, peers, admins, registered, queue>>

OpDisable ==
  /\ running("WhitelistDisable") /\ AfterOp /\ enabled' = FALSE
  /\ UNCHANGED <<keys, peers, admins, registered, queue>>

OpAdd ==
  /\ running("WhitelistAdd") /\ AfterOp /\ keys' = keys \cup {op.key}
  /\ UNCHANGED <<enabled, peers, admins, registered, queue>>

OpRemove ==
  /\ running("WhitelistRemove") /\ AfterOp /\ keys' = keys \ {op.key}
  /\ UNCHANGED <<enabled, peers, admins, registered, queue>>

(* PeerAdd: the cap and the refusal to peer with itself. *)
PeerAddOk(x) == /\ x \in peers \/ Cardinality(peers) < MAX_PEERS
                /\ x # Self

OpPeerAdd ==
  /\ running("PeerAdd") /\ AfterOp
  /\ peers' = IF PeerAddOk(op.key) THEN peers \cup {op.key} ELSE peers
  /\ UNCHANGED <<enabled, keys, admins, registered, queue>>

OpPeerRemove ==
  /\ running("PeerRemove") /\ AfterOp /\ peers' = peers \ {op.key}
  /\ UNCHANGED <<enabled, keys, admins, registered, queue>>

OpReload ==
  /\ running("ReloadAdmins") /\ AfterOp /\ admins' = config
  /\ UNCHANGED <<enabled, keys, peers, registered, queue>>

(* DeviceRegister: the credential may be refused (expired, claimed by      *)
(* another account, revoked); the registry's own rules are not here. *)
OpDeviceRegister ==
  /\ running("DeviceRegister")
  /\ AfterOp
  /\ registered' \in {registered, registered \cup {op.key}}
  /\ UNCHANGED <<enabled, keys, peers, admins, queue>>

OpDeviceRevoke ==
  /\ running("DeviceRevoke") /\ AfterOp
  /\ registered' = registered \ {op.key}
  /\ UNCHANGED <<enabled, keys, peers, admins, queue>>

(* AdmissionApprove: take the request and list the device. *)
OpApprove ==
  /\ running("AdmissionApprove") /\ AfterOp
  /\ queue' = queue \ {op.key} /\ keys' = keys \cup {op.key}
  /\ UNCHANGED <<enabled, peers, admins, registered>>

OpDeny ==
  /\ running("AdmissionDeny") /\ AfterOp /\ queue' = queue \ {op.key}
  /\ UNCHANGED <<enabled, keys, peers, admins, registered>>

ApplyOp ==
  \/ OpEnable \/ OpDisable \/ OpAdd \/ OpRemove \/ OpPeerAdd \/ OpPeerRemove
  \/ OpReload \/ OpDeviceRegister \/ OpDeviceRevoke \/ OpApprove \/ OpDeny

Done == batch # None /\ batch.i > Len(ops)
Saved == [enabled |-> enabled, keys |-> keys, peers |-> peers, audit |-> audit]

(* The end of `execute`: a batch with a mutation is saved, once, and then  *)
(* the door is re-derived; then the lock goes. *)
Finish ==
  /\ Done
  /\ batch' = None
  /\ IF batch.mutated
     THEN /\ disk' = Saved /\ unsaved' = FALSE
          /\ sync_transport(enabled, keys, admins, registered)
     ELSE UNCHANGED <<fileVars, doorVars>>
  /\ UNCHANGED <<txVars, stateVars, admins, config, registered, queue, owed>>

(* `state.save()?` fails: the error goes back to the caller at once, with  *)
(* the ops applied in memory and neither the file nor the door changed. *)
FinishUnsaved ==
  /\ SaveMayFail /\ Done /\ batch.mutated
  /\ batch' = None /\ unsaved' = TRUE
  /\ UNCHANGED <<txVars, stateVars, disk, admins, config, registered, queue, owed, doorVars>>

----------------------------------------------------------------------------
(* What runs beside it *)

(* /device/register and /device/revoke: the registry first, the door when  *)
(* the handler gets the state lock. *)
DeviceRoute(d) ==
  /\ ~owed /\ owed' = TRUE
  /\ registered' = IF d \in registered THEN registered \ {d} ELSE registered \cup {d}
  /\ UNCHANGED <<txVars, batch, stateVars, fileVars, admins, config, queue, doorVars>>

(* `resync_transport` *)
Resync ==
  /\ owed /\ batch = None /\ owed' = FALSE
  /\ IF enabled THEN sync_transport(enabled, keys, admins, registered)
     ELSE UNCHANGED doorVars
  /\ UNCHANGED <<txVars, batch, stateVars, fileVars, admins, config, registered, queue>>

(* A credential runs out. *)
CredentialExpires(d) ==
  /\ d \in registered /\ registered' = registered \ {d}
  /\ due' = (due \/ d \in watch)
  /\ UNCHANGED <<txVars, batch, stateVars, fileVars, admins, config, queue, owed, door, watch, conn>>

(* Mutant of SweepDue: nobody looks until a registration is touched. *)
SweepDueAsked ==
  /\ due /\ owed /\ batch = None /\ enabled
  /\ sync_transport(enabled, keys, admins, registered)
  /\ UNCHANGED <<txVars, batch, stateVars, fileVars, admins, config, registered, queue, owed>>

(* The periodic sweep: `admission_due`, then `resync_transport`. *)
SweepDue ==
  /\ due /\ batch = None /\ enabled
  /\ sync_transport(enabled, keys, admins, registered)
  /\ UNCHANGED <<txVars, batch, stateVars, fileVars, admins, config, registered, queue, owed>>

(* /admission/request *)
RequestAdmission(d) ==
  /\ d \notin queue /\ queue' = queue \cup {d}
  /\ UNCHANGED <<txVars, batch, stateVars, fileVars, admins, config, registered, owed, doorVars>>

(* The operator edits the config file. *)
EditConfig(list) ==
  /\ list # config /\ config' = list
  /\ UNCHANGED <<txVars, batch, stateVars, fileVars, admins, registered, queue, owed, doorVars>>

(* The transport takes a handshake; the accept loop then hands the         *)
(* connection to `serve_h3`, which records it by key -- late, when the     *)
(* door has changed in between; it is closed by the server or goes by      *)
(* itself. *)
Connect(c) ==
  /\ conn[c] = "none" /\ (door.on => c \in door.keys)
  /\ conn' = [conn EXCEPT ![c] = "accepted"]
  /\ UNCHANGED <<txVars, batch, stateVars, fileVars, admins, config, registered, queue, owed,
                 door, watch, due>>

serve_h3(c) ==
  /\ conn[c] = "accepted"
  /\ conn' = [conn EXCEPT ![c] = IF door.on /\ c \notin door.keys THEN "late" ELSE "open"]
  /\ UNCHANGED <<txVars, batch, stateVars, fileVars, admins, config, registered, queue, owed,
                 door, watch, due>>

Close(c) ==
  /\ conn[c] = "closing" /\ conn' = [conn EXCEPT ![c] = "none"]
  /\ UNCHANGED <<txVars, batch, stateVars, fileVars, admins, config, registered, queue, owed,
                 door, watch, due>>

Disconnect(c) ==
  /\ conn[c] \in {"accepted", "open", "late"} /\ conn' = [conn EXCEPT ![c] = "none"]
  /\ UNCHANGED <<txVars, batch, stateVars, fileVars, admins, config, registered, queue, owed,
                 door, watch, due>>

(* The server starts on the state `from`: registrations survive, pending   *)
(* requests, challenges and connections do not, and the door is derived    *)
(* before the first packet. *)
Starts(from) ==
  /\ nonce' = [n \in Nonces |-> IF nonce[n] = "unissued" THEN "unissued" ELSE "gone"]
  /\ ready' = {} /\ batch' = None /\ queue' = {} /\ owed' = FALSE /\ unsaved' = FALSE
  /\ enabled' = from.enabled /\ keys' = from.keys
  /\ peers' = from.peers /\ audit' = from.audit
  /\ admins' = config
  /\ conn' = [c \in Clients |-> "none"] /\ due' = FALSE
  /\ door' = IF from.enabled
             THEN [on |-> TRUE, keys |-> Allowed(from.keys, config, registered)]
             ELSE [on |-> FALSE, keys |-> {}]
  /\ watch' = IF from.enabled THEN Resting(from.keys, registered) ELSE {}
  /\ UNCHANGED <<sent, authorised, config, registered>>

(* It crashes, is killed, or cannot save as it goes: the file is as the    *)
(* last save left it. *)
Restart == Starts(Loaded) /\ UNCHANGED disk

(* It is told to stop, and saves once it has the state lock. *)
Shutdown ==
  /\ batch = None /\ Starts(Saved)
  /\ disk' = Saved

Next ==
  \/ \E n \in Nonces, tx \in Batches : Issue(n, tx)
  \/ \E n \in Nonces : Expire(n) \/ Authorise(n) \/ Begin(n)
  \/ ApplyOp \/ Finish \/ FinishUnsaved
  \/ \E d \in Devices : DeviceRoute(d) \/ CredentialExpires(d) \/ RequestAdmission(d)
  \/ Resync \/ SweepDue
  \/ \E l \in AdminLists : EditConfig(l)
  \/ \E c \in Clients : Connect(c) \/ serve_h3(c) \/ Close(c) \/ Disconnect(c)
  \/ Restart \/ Shutdown

(* The steps the server takes by itself once they are enabled: a handler   *)
(* holding the lock runs on, a spawned close fires, the sweep ticks. *)
Fairness ==
  /\ WF_vars(ApplyOp) /\ WF_vars(Finish \/ FinishUnsaved)
  /\ WF_vars(Resync) /\ WF_vars(SweepDue)
  /\ \A c \in Clients : WF_vars(serve_h3(c)) /\ WF_vars(Close(c))

Spec == Init /\ [][Next]_vars /\ Fairness

----------------------------------------------------------------------------

(* A captured command cannot be replayed: whatever arrives how often, and  *)
(* however often the server restarts, one nonce authorises one batch       *)
(* (`Challenges::consume`). *)
SingleUse == \A n \in Nonces : authorised[n] <= 1

(* Between batches, once every owed resync has run and unless the last     *)
(* save failed, the door lets in nobody the whitelist, the admin list and  *)
(* the standing registrations do not allow -- except a device whose        *)
(* credential has just run out, until the sweep                            *)
(* (`sync_transport`, `resync_transport`, `admission_due`). *)
DoorAdmitsOnlyListed ==
  batch = None /\ ~unsaved /\ ~owed /\ ~due /\ door.on =>
    enabled /\ door.keys \subseteq Allowed(keys, admins, registered)

(* Enabling the list never locks out the keys that can disable it: unless  *)
(* the last save failed, every administrator passes the door between       *)
(* batches (`sync_transport`). *)
AdminsNotLockedOut ==
  batch = None /\ ~unsaved /\ door.on => admins \subseteq door.keys

(* A recorded connection whose key the door no longer allows has been told *)
(* to go, unless it was recorded after the change (`sync_transport`,       *)
(* `serve_h3`): "`remove` closes what it let in", but for the late ones. *)
OpenIsAdmitted ==
  \A c \in Clients : conn[c] = "open" /\ door.on => c \in door.keys

(* The transport follows the managed state: whatever sequence of         *)
(* batches, routes, expiries, failed saves and restarts led here, the    *)
(* door admits only those it should, the administrators among them, and  *)
(* connections it would refuse are told to go (`sync_transport` and      *)
(* everything that has to call it).                                      *)
DoorFollowsState == DoorAdmitsOnlyListed /\ AdminsNotLockedOut /\ OpenIsAdmitted

(* A device whose registration has ended does not stay admitted: it is     *)
(* revoked or expired and sooner or later the door follows, unless a save  *)
(* fails (`resync_transport`, `admission_due`). *)
LapsedLeavesDoor ==
  \A d \in Devices :
    door.on /\ d \in door.keys \ Allowed(keys, admins, registered)
      ~> \/ ~door.on \/ unsaved
         \/ d \notin door.keys \ Allowed(keys, admins, registered)
=============================================================================
