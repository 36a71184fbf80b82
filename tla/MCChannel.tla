----------------------------- MODULE MCChannel -----------------------------
(***************************************************************************)
(* A direct message between two accounts, and a room copied by another     *)
(* exchange, for TLC. The first is the origin alone: the copy is not       *)
(* pulled there.                                                           *)
(***************************************************************************)
EXTENDS Copy, TLC

CONSTANTS dm, room, alice, bob, phone, peer

(* alice's phone has a key of its own; bob is his own device. *)
PairAccountOf == (phone :> alice) @@ (bob :> bob)

DmOnly == (dm :> {alice, bob})
RoomOnly == (room :> {})

As(who, role) == [account |-> who, role |-> role]
DmInvites == {<<As(alice, "admin")>>, <<As(bob, "admin")>>}
Pair == {<<As(bob, "member")>>}

OriginAlone == CopyInit /\ [][Next /\ UNCHANGED copyVars]_allVars

(* A pair's channel may be created public, by a creator who says so; that  *)
(* one is followed for its first entries only.                             *)
PublicIsShort ==
  \A c \in Channels : db[c].row # None /\ db[c].row.vis = "public" => db[c].row.next <= 4 /\ life[c] = 1
=============================================================================
