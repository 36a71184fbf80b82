---------------------------- MODULE AdminProofs ----------------------------
(* Proofs about Admin, for every set of keys, nonces and batches. *)
EXTENDS Admin, TLAPS

NonceState == {"unissued", "live", "stale", "gone"}

(* The strengthening SingleUse needs: a nonce that authorised a batch is   *)
(* gone for good.  Nothing leads out of "gone": `issue` only takes an      *)
(* unissued nonce, the ttl only ends a live one, `consume` and a restart   *)
(* leave every issued one gone. *)
SpentIsGone ==
  /\ nonce \in [Nonces -> NonceState]
  /\ authorised \in [Nonces -> {0, 1}]
  /\ \A n \in Nonces : authorised[n] = 1 => nonce[n] = "gone"

(* `Challenges::new`: no nonce has been issued or used. *)
LEMMA SpentInit == Init => SpentIsGone
  BY DEF Init, SpentIsGone, NonceState

(* Only `authorise` counts a nonce, and it finds the nonce live and        *)
(* removes it in the same critical section (`Challenges::consume`). *)
LEMMA SpentAuthorise ==
  ASSUME SpentIsGone, NEW n \in Nonces, Authorise(n)
  PROVE  SpentIsGone'
<1>1. nonce' \in [Nonces -> NonceState]
  BY DEF SpentIsGone, Authorise, consume, NonceState
<1>2. authorised[n] \in {0, 1}
  BY DEF SpentIsGone
<1>3. CASE nonce[n] = "live" /\ sent[n][1] \in admins
  <2>1. authorised[n] = 0
    BY <1>2, <1>3 DEF SpentIsGone
  <2>2. authorised' = [authorised EXCEPT ![n] = 1]
    BY <2>1, <1>3 DEF Authorise, SpentIsGone
  <2>3. nonce' = [nonce EXCEPT ![n] = "gone"]
    BY <1>3 DEF Authorise, consume, SpentIsGone
  <2> QED
    BY <1>1, <2>2, <2>3 DEF SpentIsGone
<1>4. CASE ~(nonce[n] = "live" /\ sent[n][1] \in admins)
  <2>1. authorised' = authorised
    BY <1>4 DEF Authorise
  <2>2. \A m \in Nonces : nonce[m] = "gone" => nonce'[m] = "gone"
    BY DEF Authorise, consume, SpentIsGone
  <2> QED
    BY <1>1, <2>1, <2>2 DEF SpentIsGone
<1> QED
  BY <1>3, <1>4

(* Every other step keeps the count and leaves a gone nonce gone. *)
LEMMA SpentOther ==
  ASSUME SpentIsGone, authorised' = authorised,
         nonce' \in [Nonces -> NonceState],
         \A n \in Nonces : nonce[n] = "gone" => nonce'[n] = "gone"
  PROVE  SpentIsGone'
  BY DEF SpentIsGone

LEMMA SpentNext == SpentIsGone /\ [Next]_vars => SpentIsGone'
<1> SUFFICES ASSUME SpentIsGone, [Next]_vars PROVE SpentIsGone'
  OBVIOUS
<1> USE DEF SpentIsGone
<1>same. ASSUME UNCHANGED <<nonce, authorised>> PROVE SpentIsGone'
  BY <1>same
<1>1. ASSUME NEW n \in Nonces, NEW tx \in Batches, Issue(n, tx) PROVE SpentIsGone'
  BY <1>1, SpentOther DEF Issue, NonceState
<1>2. ASSUME NEW n \in Nonces, Expire(n) PROVE SpentIsGone'
  BY <1>2, SpentOther DEF Expire, NonceState
<1>3. ASSUME NEW n \in Nonces, Authorise(n) PROVE SpentIsGone'
  BY <1>3, SpentAuthorise
<1>4. ASSUME NEW n \in Nonces, Begin(n) PROVE SpentIsGone'
  BY <1>4, <1>same DEF Begin
<1>5. CASE ApplyOp
  BY <1>5, <1>same DEF ApplyOp, OpEnable, OpDisable, OpAdd, OpRemove, OpPeerAdd, OpPeerRemove,
     OpReload, OpDeviceRegister, OpDeviceRevoke, OpApprove, OpDeny, AfterOp, txVars
<1>6. CASE Finish \/ FinishUnsaved
  BY <1>6, <1>same DEF Finish, FinishUnsaved, txVars
<1>7. ASSUME NEW d \in Devices, DeviceRoute(d) \/ CredentialExpires(d) \/ RequestAdmission(d)
      PROVE SpentIsGone'
  BY <1>7, <1>same DEF DeviceRoute, CredentialExpires, RequestAdmission, txVars
<1>8. CASE Resync \/ SweepDue
  BY <1>8, <1>same DEF Resync, SweepDue, txVars
<1>9. ASSUME NEW l \in AdminLists, EditConfig(l) PROVE SpentIsGone'
  BY <1>9, <1>same DEF EditConfig, txVars
<1>10. ASSUME NEW c \in Clients, Connect(c) \/ serve_h3(c) \/ Close(c) \/ Disconnect(c)
       PROVE SpentIsGone'
  BY <1>10, <1>same DEF Connect, serve_h3, Close, Disconnect, txVars
<1>11. CASE Restart \/ Shutdown
  BY <1>11, SpentOther DEF Restart, Shutdown, Starts, NonceState
<1>12. CASE UNCHANGED vars
  BY <1>12, <1>same DEF vars, txVars
<1> QED
  BY <1>1, <1>2, <1>3, <1>4, <1>5, <1>6, <1>7, <1>8, <1>9, <1>10, <1>11, <1>12 DEF Next

(* A signed command authorises at most one batch: for any number of        *)
(* nonces, administrators, deliveries and restarts (`authorise`,           *)
(* `Challenges::consume`). *)
THEOREM SingleUseHolds == Spec => []SingleUse
<1>1. SpentIsGone => SingleUse
  BY DEF SpentIsGone, SingleUse
<1> QED
  BY <1>1, SpentInit, SpentNext, PTL DEF Spec

----------------------------------------------------------------------------
(* The door, whatever batches, routes, expiries and failed saves come.     *)

(* No mutation has been made since the door was last derived: no batch     *)
(* runs, or the one that runs has changed nothing but what it approved.    *)
Settled == batch = None \/ ~batch.mutated

(* The strengthening DoorFollowsState needs.  While nothing is owed, what  *)
(* the door admits as a device it watches, and it watches nothing that     *)
(* does not stand: that is what makes `admission_due` enough to notice     *)
(* every credential that runs out. *)
DoorInv ==
  /\ batch = None \/ batch \in [nonce : Nonces, i : Nat, mutated : BOOLEAN]
  /\ conn \in [Clients -> Conn]
  /\ Settled /\ ~unsaved /\ door.on => enabled /\ admins \subseteq door.keys
  /\ Settled /\ ~unsaved /\ ~owed /\ ~due /\ door.on =>
       /\ watch \subseteq Resting(keys, registered)
       /\ door.keys \subseteq keys \cup admins \cup watch
  /\ OpenIsAdmitted

LEMMA DoorInvImplies == DoorInv => DoorFollowsState
  BY DEF DoorInv, DoorFollowsState, DoorAdmitsOnlyListed, AdminsNotLockedOut, Settled,
         Allowed, Resting

LEMMA DoorInit == Init => DoorInv
  BY DEF Init, DoorInv, Settled, OpenIsAdmitted, Conn

(* `sync_transport` makes the door follow the state as it is, whatever it  *)
(* was before. *)
LEMMA SyncFollows ==
  ASSUME DoorInv, sync_transport(enabled, keys, admins, registered),
         UNCHANGED <<enabled, keys, admins, registered>>,
         batch' = None
  PROVE  DoorInv'
<1>1. conn' \in [Clients -> Conn]
  BY DEF sync_transport, HandOver, DoorInv, Conn
<1>2. CASE enabled
  <2>1. /\ door' = [on |-> TRUE, keys |-> Allowed(keys, admins, registered)]
        /\ watch' = Resting(keys, registered)
    BY <1>2 DEF sync_transport, HandOver
  <2>2. OpenIsAdmitted'
    BY <1>2, <2>1 DEF sync_transport, HandOver, OpenIsAdmitted
  <2> QED
    BY <1>1, <1>2, <2>1, <2>2 DEF DoorInv, Allowed, Resting
<1>3. CASE ~enabled
  BY <1>1, <1>3 DEF sync_transport, HandOver, DoorInv, OpenIsAdmitted
<1> QED
  BY <1>2, <1>3

Running == [nonce : Nonces, i : Nat, mutated : BOOLEAN]

(* What a batch notes of an op. *)
LEMMA BatchWith ==
  ASSUME NEW b \in Running, NEW n \in Nat, NEW v \in BOOLEAN
  PROVE  /\ [b EXCEPT !.i = n, !.mutated = v] \in Running
         /\ [b EXCEPT !.i = n, !.mutated = v].mutated = v
  BY DEF Running

LEMMA Noted ==
  ASSUME NEW b \in Running, NEW m \in BOOLEAN
  PROVE  /\ [b EXCEPT !.i = @ + 1, !.mutated = @ \/ m] \in Running
         /\ [b EXCEPT !.i = @ + 1, !.mutated = @ \/ m].mutated = (b.mutated \/ m)
<1> DEFINE n == b.i + 1  v == b.mutated \/ m
<1>1. n \in Nat
  BY DEF Running
<1>2. v \in BOOLEAN
  BY Zenon
<1> HIDE DEF n, v
<1>3. /\ [b EXCEPT !.i = n, !.mutated = v] \in Running
      /\ [b EXCEPT !.i = n, !.mutated = v].mutated = v
  BY <1>1, <1>2, BatchWith
<1> QED
  BY <1>3 DEF n, v

LEMMA OpNoted ==
  ASSUME DoorInv, AfterOp, batch # None
  PROVE  /\ batch' \in Running
         /\ batch'.mutated = (batch.mutated \/ is_mutation(op))
<1>1. batch \in Running
  BY DEF DoorInv, Running
<1>2. is_mutation(op) \in BOOLEAN
  BY DEF is_mutation
<1>3. batch' = [batch EXCEPT !.i = @ + 1, !.mutated = @ \/ is_mutation(op)]
  BY DEF AfterOp
<1> HIDE DEF op
<1> QED
  BY <1>1, <1>2, <1>3, Noted

(* A mutation is noted in the batch, whose end will derive the door. *)
LEMMA DoorMutated ==
  ASSUME DoorInv, AfterOp, batch # None, is_mutation(op)
  PROVE  DoorInv'
<1>1. /\ batch' \in [nonce : Nonces, i : Nat, mutated : BOOLEAN]
      /\ batch'.mutated
  BY OpNoted DEF Running
<1>2. ~Settled'
  BY <1>1, AdminAssumption DEF Settled
<1> QED
  BY <1>1, <1>2 DEF DoorInv, AfterOp, doorVars, OpenIsAdmitted

(* What is no mutation only ever lists a key. *)
LEMMA DoorListed ==
  ASSUME DoorInv, AfterOp, batch # None, keys \subseteq keys',
         UNCHANGED <<enabled, admins, registered>>
  PROVE  DoorInv'
<1>1. /\ batch' \in [nonce : Nonces, i : Nat, mutated : BOOLEAN]
      /\ batch.mutated => batch'.mutated
  BY OpNoted DEF Running
<1>2. Settled' => Settled
  BY <1>1, AdminAssumption DEF Settled
<1>3. UNCHANGED <<door, watch, due, conn, owed, unsaved>>
  BY DEF AfterOp, doorVars, fileVars
<1> QED
  BY <1>1, <1>2, <1>3 DEF DoorInv, OpenIsAdmitted, Resting

LEMMA DoorOps == DoorInv /\ ApplyOp => DoorInv'
<1> SUFFICES ASSUME DoorInv, ApplyOp PROVE DoorInv'
  OBVIOUS
<1>1. CASE OpEnable
  BY <1>1, DoorMutated DEF OpEnable, running, is_mutation
<1>2. CASE OpDisable
  BY <1>2, DoorMutated DEF OpDisable, running, is_mutation
<1>3. CASE OpAdd
  BY <1>3, DoorMutated DEF OpAdd, running, is_mutation
<1>4. CASE OpRemove
  BY <1>4, DoorMutated DEF OpRemove, running, is_mutation
<1>5. CASE OpPeerAdd
  BY <1>5, DoorMutated DEF OpPeerAdd, running, is_mutation
<1>6. CASE OpPeerRemove
  BY <1>6, DoorMutated DEF OpPeerRemove, running, is_mutation
<1>7. CASE OpReload
  BY <1>7, DoorMutated DEF OpReload, running, is_mutation
<1>8. CASE OpDeviceRegister
  BY <1>8, DoorMutated DEF OpDeviceRegister, running, is_mutation
<1>9. CASE OpDeviceRevoke
  BY <1>9, DoorMutated DEF OpDeviceRevoke, running, is_mutation
<1>10. CASE OpApprove
  BY <1>10, DoorListed DEF OpApprove, running
<1>11. CASE OpDeny
  BY <1>11, DoorListed DEF OpDeny, running
<1> QED
  BY <1>1, <1>2, <1>3, <1>4, <1>5, <1>6, <1>7, <1>8, <1>9, <1>10, <1>11 DEF ApplyOp

(* A connection comes, is recorded, or goes; the door stays. *)
LEMMA DoorConnections ==
  ASSUME DoorInv, NEW c \in Clients, Connect(c) \/ serve_h3(c) \/ Close(c) \/ Disconnect(c)
  PROVE  DoorInv'
<1>1. UNCHANGED <<batch, enabled, keys, admins, registered, owed, unsaved, door, watch, due>>
  BY DEF Connect, serve_h3, Close, Disconnect, stateVars, fileVars
<1>2. conn' \in [Clients -> Conn]
  BY DEF DoorInv, Connect, serve_h3, Close, Disconnect, Conn
<1>3. OpenIsAdmitted'
  BY DEF DoorInv, OpenIsAdmitted, Connect, serve_h3, Close, Disconnect
<1> QED
  BY <1>1, <1>2, <1>3 DEF DoorInv, Settled

LEMMA DoorNext == DoorInv /\ [Next]_vars => DoorInv'
<1> SUFFICES ASSUME DoorInv, [Next]_vars PROVE DoorInv'
  OBVIOUS
<1>same. ASSUME UNCHANGED <<batch, enabled, keys, admins, registered, owed, unsaved, doorVars>>
         PROVE  DoorInv'
  BY <1>same DEF DoorInv, Settled, OpenIsAdmitted, Resting, doorVars
<1>1. ASSUME NEW n \in Nonces, NEW tx \in Batches, Issue(n, tx) PROVE DoorInv'
  BY <1>1, <1>same DEF Issue, stateVars, fileVars
<1>2. ASSUME NEW n \in Nonces, Expire(n) \/ Authorise(n) PROVE DoorInv'
  BY <1>2, <1>same DEF Expire, Authorise, stateVars, fileVars
<1>3. ASSUME NEW n \in Nonces, Begin(n) PROVE DoorInv'
  <2>1. /\ batch' \in [nonce : Nonces, i : Nat, mutated : BOOLEAN]
        /\ Settled
    BY <1>3 DEF Begin, Settled
  <2> QED
    BY <1>3, <2>1 DEF Begin, DoorInv, OpenIsAdmitted, Resting, stateVars, fileVars, doorVars
<1>4. CASE ApplyOp
  BY <1>4, DoorOps
<1>5. CASE Finish
  <2>1. CASE batch.mutated
    BY <1>5, <2>1, SyncFollows DEF Finish, stateVars
  <2>2. CASE ~batch.mutated
    BY <1>5, <2>2
       DEF Finish, DoorInv, Settled, OpenIsAdmitted, Resting, stateVars, fileVars, doorVars
  <2> QED
    BY <2>1, <2>2
<1>6. CASE FinishUnsaved
  BY <1>6 DEF FinishUnsaved, DoorInv, OpenIsAdmitted, doorVars
<1>7. ASSUME NEW d \in Devices, DeviceRoute(d) PROVE DoorInv'
  BY <1>7 DEF DeviceRoute, DoorInv, Settled, OpenIsAdmitted, stateVars, fileVars, doorVars
<1>8. ASSUME NEW d \in Devices, CredentialExpires(d) PROVE DoorInv'
  <2>1. UNCHANGED <<batch, enabled, keys, admins, owed, unsaved, door, watch, conn>>
    BY <1>8 DEF CredentialExpires, stateVars, fileVars
  <2>2. ~due' => ~due /\ d \notin watch
    BY <1>8 DEF CredentialExpires
  <2>3. watch \subseteq Resting(keys, registered) /\ d \notin watch
          => watch \subseteq Resting(keys, registered')
    BY <1>8 DEF CredentialExpires, Resting
  <2> QED
    BY <2>1, <2>2, <2>3 DEF DoorInv, Settled, OpenIsAdmitted
<1>9. ASSUME NEW d \in Devices, RequestAdmission(d) PROVE DoorInv'
  BY <1>9, <1>same DEF RequestAdmission, stateVars, fileVars
<1>10. CASE Resync
  <2>1. CASE enabled
    BY <1>10, <2>1, SyncFollows DEF Resync, stateVars
  <2>2. CASE ~enabled
    BY <1>10, <2>2
       DEF Resync, DoorInv, Settled, OpenIsAdmitted, stateVars, fileVars, doorVars
  <2> QED
    BY <2>1, <2>2
<1>11. CASE SweepDue
  BY <1>11, SyncFollows DEF SweepDue, stateVars
<1>12. ASSUME NEW l \in AdminLists, EditConfig(l) PROVE DoorInv'
  BY <1>12, <1>same DEF EditConfig, stateVars, fileVars
<1>13. ASSUME NEW c \in Clients, Connect(c) \/ serve_h3(c) \/ Close(c) \/ Disconnect(c)
       PROVE DoorInv'
  BY <1>13, DoorConnections
<1>14. ASSUME NEW from, Starts(from) PROVE DoorInv'
  <2>1. CASE from.enabled
    BY <1>14, <2>1 DEF Starts, DoorInv, OpenIsAdmitted, Allowed, Resting, Conn
  <2>2. CASE ~from.enabled
    BY <1>14, <2>2 DEF Starts, DoorInv, OpenIsAdmitted, Conn
  <2> QED
    BY <2>1, <2>2
<1>15. CASE UNCHANGED vars
  BY <1>15, <1>same DEF vars, stateVars, fileVars
<1> QED
  BY <1>1, <1>2, <1>3, <1>4, <1>5, <1>6, <1>7, <1>8, <1>9, <1>10, <1>11, <1>12, <1>13, <1>14,
     <1>15 DEF Next, Restart, Shutdown

(* The door follows the managed state, for any keys, devices, batches and  *)
(* order of routes, expiries, failed saves and restarts (`execute`,        *)
(* `sync_transport`, `resync_transport`, `admission_due`).                 *)
THEOREM DoorFollowsStateAlways == Spec => []DoorFollowsState
<1> QED
  BY DoorInvImplies, DoorInit, DoorNext, PTL DEF Spec
=============================================================================
