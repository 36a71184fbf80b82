------------------------------ MODULE MCAdmin ------------------------------
(* Small instances of Admin for TLC. *)
EXTENDS Admin, TLC

CONSTANTS acc, dev, adm, other, x1, x2, self

MCAccountOf == (dev :> acc)
MCAdminLists == {{adm}, {adm, other}}

Plain(name) == [name |-> name, key |-> None]
On(name, k) == [name |-> name, key |-> k]

(* What an operator sends: every op, alone where the others would hide it. *)
EveryOp ==
  {<<adm, b>> : b \in
     {<<Plain("ReloadAdmins"), Plain("WhitelistEnable")>>,
      <<On("WhitelistRemove", acc), On("DeviceRevoke", dev)>>,
      <<On("WhitelistAdd", acc), On("DeviceRegister", dev), On("PeerAdd", x1), On("PeerAdd", x2)>>,
      <<Plain("WhitelistDisable"), On("PeerRemove", x1), On("PeerAdd", self)>>,
      <<On("AdmissionApprove", dev), On("AdmissionDeny", dev)>>}}
  \cup {<<other, <<Plain("WhitelistEnable")>> >>}
=============================================================================
