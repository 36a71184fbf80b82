------------------------------ MODULE Registry ------------------------------
(***************************************************************************)
(* Which account a device acts for: the registry of each exchange          *)
(* (sqexd/src/device.rs), the /device routes, the credentials and          *)
(* withdrawals an account's home carries to the other exchanges, and the   *)
(* passing of an account to another key (succeed and handover in           *)
(* server.rs).                                                             *)
(*                                                                         *)
(* Registries share nothing. What the home carries travels one message at  *)
(* a time and may be lost or overtaken; a claim is checked by one          *)
(* statement and recorded by another.                                      *)
(***************************************************************************)
EXTENDS Naturals, FiniteSets

CONSTANTS
    Registries,    \* the exchanges
    HomeEx,        \* where the accounts live
    Accts,
    Holders,       \* the accounts that have a name or a seat to begin with
    Devs,
    MAX_DEVICES,
    Lives,         \* lifetimes a credential is signed for
    MaxSigned,     \* bound: credentials an account signs by itself
    MaxClaims,     \* bound: successions and handovers asked for
    MaxOnWire,     \* bound: messages the home has under way
    MaxAcTime,     \* bound: the clock
    Nobody

ASSUME RegistryAssumption ==
    /\ HomeEx \in Registries /\ Holders \subseteq Accts
    /\ Accts \cap Devs = {} /\ Nobody \notin Accts \cup Devs
    /\ MAX_DEVICES \in Nat /\ Lives \subseteq Nat \ {0}
    /\ {MaxSigned, MaxClaims, MaxOnWire, MaxAcTime} \subseteq Nat

VARIABLES
    device,      \* device[x][d]: the registration of d at x
    revoked,     \* revoked[x][d]: the revocation of d on record at x
    succession,  \* succession[x][a]: who holds a now, as x recorded it
    holding,     \* holding[x]: the accounts with a name or a seat at x
    claims,      \* claims past their checks, not yet carried out
    creds,       \* credentials signed
    wire,        \* what the home is carrying to the others
    out,         \* history: out[x][d]: the last revocation, until d is back by a later signature
    acClock

registryVars == <<device, revoked, succession, holding, claims, creds, wire, out, acClock>>

NoRows == [x \in Registries |-> [d \in Devs |-> Nobody]]
RegistryInit ==
    /\ device = NoRows /\ revoked = NoRows /\ out = NoRows
    /\ succession = [x \in Registries |-> [a \in Accts |-> Nobody]]
    /\ holding = [x \in Registries |-> Holders]
    /\ claims = {} /\ creds = {} /\ wire = {} /\ acClock = 1
-----------------------------------------------------------------------------
(* expire: registrations and revocations go with their credential. *)
ExpireEarly(rows) ==
    [d \in Devs |-> IF rows[d] # Nobody /\ rows[d].until <= acClock THEN Nobody ELSE rows[d]]
expire(rows) ==
    [d \in Devs |-> IF rows[d] # Nobody /\ rows[d].until < acClock THEN Nobody ELSE rows[d]]

Registered(x, d) == d \in Devs /\ expire(device[x])[d] # Nobody
account_for(x, k) == IF Registered(x, k) THEN device[x][k].account ELSE k
DevicesOf(x, a) == {d \in Devs : Registered(x, d) /\ device[x][d].account = a}

(* Credential::verify, the signature being what makes it a member of creds. *)
Valid(c) == c.issued <= acClock /\ acClock <= c.until

(* The route gate: a succeeded account, and its devices, are told so. *)
Admitted(x, caller) ==
    LET a == account_for(x, caller) IN a \in Accts => succession[x][a] = Nobody

(* Whether the revocation on record lets a credential through. *)
StillOutBefore(gone, c) == gone # Nobody /\ c.issued < gone.at
StillOut(gone, c) == gone # Nobody /\ c.issued <= gone.at

DeviceRow(c) == [account |-> c.account, added |-> acClock, issued |-> c.issued, until |-> c.until]

register(x, caller, c) ==
    LET d == c.delegate
        rows == expire(device[x])
        gone == expire(revoked[x])
    IN  /\ Valid(c)
        /\ caller = d \/ account_for(x, caller) = c.account
        /\ rows[d] # Nobody => rows[d].account = c.account
        /\ ~StillOut(gone[d], c)
        /\ rows[d] = Nobody =>
            Cardinality({e \in Devs : rows[e] # Nobody /\ rows[e].account = c.account}) < MAX_DEVICES
        /\ device' = [device EXCEPT ![x] = [rows EXCEPT ![d] =
                        [DeviceRow(c) EXCEPT !.added = IF rows[d] = Nobody THEN acClock ELSE rows[d].added]]]
        /\ revoked' = [revoked EXCEPT ![x] = [gone EXCEPT ![d] = Nobody]]
        /\ out' = IF out[x][d] # Nobody /\ c.issued > out[x][d].at THEN [out EXCEPT ![x][d] = Nobody] ELSE out

Sign(a, d, life) ==
    /\ Cardinality(creds) < MaxSigned
    /\ creds' = creds \cup {[account |-> a, delegate |-> d, issued |-> acClock, until |-> acClock + life]}
    /\ UNCHANGED <<device, revoked, succession, holding, claims, wire, out, acClock>>

(* /device/register, by the device itself or by a sibling. *)
Register(x, caller, c) ==
    /\ Admitted(x, caller) /\ register(x, caller, c)
    /\ UNCHANGED <<succession, holding, claims, creds, wire, acClock>>
-----------------------------------------------------------------------------
(* What the authority of a revocation without the account's signature is:  *)
(* the account itself, or a device of it no younger than the one it names. *)
MayRevoke(rows, caller, d) ==
    \/ caller = rows[d].account
    \/ /\ caller \in Devs /\ rows[caller] # Nobody
       /\ rows[caller].account = rows[d].account
       /\ caller = d \/ rows[caller].added <= rows[d].added

(* paper: the account's signed withdrawal, or Nobody. *)
revoke(x, caller, d, paper) ==
    LET rows == expire(device[x])
        gone == [at |-> acClock, until |-> rows[d].until, account |-> rows[d].account,
                 paper |-> IF paper = Nobody THEN Nobody ELSE paper.issued]
    IN  /\ rows[d] # Nobody
        /\ IF paper = Nobody THEN MayRevoke(rows, caller, d)
           ELSE paper.account = rows[d].account /\ paper.device = d
        /\ device' = [device EXCEPT ![x] = [rows EXCEPT ![d] = Nobody]]
        /\ revoked' = [revoked EXCEPT ![x] = [expire(revoked[x]) EXCEPT ![d] = gone]]
        /\ out' = [out EXCEPT ![x][d] = gone]

(* /device/revoke, unsigned: a sign-out. *)
SignOut(x, caller, d) ==
    /\ Admitted(x, caller) /\ revoke(x, caller, d, Nobody)
    /\ UNCHANGED <<succession, holding, claims, creds, wire, acClock>>

(* /device/revoke with the account's withdrawal, signed as it is posted.   *)
(* The home carries it on.                                                 *)
carry_revocation(x, caller, paper) ==
    IF x = HomeEx
    THEN wire \cup {[kind |-> "revoke", to |-> y, by |-> caller, paper |-> paper] : y \in Registries \ {x}}
    ELSE wire

Withdraw(x, caller, a, d) ==
    LET paper == [account |-> a, device |-> d, issued |-> acClock] IN
    /\ Admitted(x, caller) /\ revoke(x, caller, d, paper)
    /\ account_for(x, caller) \in Accts
    /\ wire' = carry_revocation(x, caller, paper) /\ Cardinality(wire') <= MaxOnWire
    /\ UNCHANGED <<succession, holding, claims, creds, acClock>>

(* A forward from the home carries the credential the device holds there.  *)
CarryCredential(y, d) ==
    /\ y # HomeEx /\ Registered(HomeEx, d) /\ Cardinality(wire) < MaxOnWire
    /\ LET r == device[HomeEx][d] IN
       wire' = wire \cup {[kind |-> "carried", to |-> y, cred |->
                 [account |-> r.account, delegate |-> d, issued |-> r.issued, until |-> r.until]]}
    /\ UNCHANGED <<device, revoked, succession, holding, claims, creds, out, acClock>>

(* /peer/forward at the other end: a credential carried is registered.     *)
TakeCarried(w) ==
    /\ w \in wire /\ w.kind = "carried"
    /\ register(w.to, w.cred.delegate, w.cred)
    /\ wire' = wire \ {w}
    /\ UNCHANGED <<succession, holding, claims, creds, acClock>>

(* A withdrawal is acted on where the exchange knows the caller as a       *)
(* device of an account that lives at the home.                            *)
TakeRevocation(w) ==
    /\ w \in wire /\ w.kind = "revoke"
    /\ account_for(w.to, w.by) \in Accts
    /\ revoke(w.to, w.by, w.paper.device, w.paper)
    /\ wire' = wire \ {w}
    /\ UNCHANGED <<succession, holding, claims, creds, acClock>>

(* Lost, or refused at the other end; nobody tries again. *)
WireDrops(w) ==
    /\ w \in wire
    /\ wire' = wire \ {w}
    /\ UNCHANGED <<device, revoked, succession, holding, claims, creds, out, acClock>>
-----------------------------------------------------------------------------
(* A successor has to be a key that is nothing here yet. *)
FreshKey(x, s) == succession[x][s] = Nobody /\ DevicesOf(x, s) = {} /\ s \notin holding[x]

(* succeed: the checks. The proof names both keys. *)
AskSucceed(x, a, s) ==
    /\ a # s /\ Cardinality(claims) < MaxClaims
    /\ succession[x][a] = Nobody /\ FreshKey(x, s)
    /\ claims' = claims \cup {[at |-> x, of |-> a, to |-> s, kept |-> {}, done |-> FALSE]}
    /\ UNCHANGED <<device, revoked, succession, holding, creds, wire, out, acClock>>

(* handover: the same, and a credential of the new key for each device     *)
(* that is kept, all of which are devices of the account now.              *)
AskHandover(x, a, s, keep, life) ==
    /\ a # s /\ Cardinality(claims) < MaxClaims
    /\ succession[x][a] = Nobody /\ FreshKey(x, s)
    /\ keep \subseteq DevicesOf(x, a)
    /\ claims' = claims \cup {[at |-> x, of |-> a, to |-> s, done |-> FALSE, kept |->
           {[account |-> s, delegate |-> d, issued |-> acClock, until |-> acClock + life] : d \in keep}]}
    /\ UNCHANGED <<device, revoked, succession, holding, creds, wire, out, acClock>>

(* Registry::succeed and Registry::handover, one transaction: once, ever.  *)
(* The account's devices go as revoked ones do, and the kept ones come     *)
(* straight back.                                                          *)
Record(k) ==
    LET mine == {d \in Devs : device[k.at][d] # Nobody /\ device[k.at][d].account = k.of}
        back == {c.delegate : c \in k.kept}
        gone(d) == [at |-> acClock, until |-> device[k.at][d].until, account |-> k.of, paper |-> Nobody]
        Kept(d) == CHOOSE c \in k.kept : c.delegate = d
    IN  /\ k \in claims /\ ~k.done /\ succession[k.at][k.of] = Nobody
        /\ succession' = [succession EXCEPT ![k.at][k.of] = k.to]
        /\ device' = [device EXCEPT ![k.at] = [d \in Devs |->
               IF d \in back
               THEN [DeviceRow(Kept(d)) EXCEPT !.added =
                        IF device[k.at][d] # Nobody /\ d \notin mine THEN device[k.at][d].added ELSE acClock]
               ELSE IF d \in mine THEN Nobody ELSE device[k.at][d]]]
        /\ revoked' = [revoked EXCEPT ![k.at] = [d \in Devs |->
               IF d \in back THEN Nobody ELSE IF d \in mine THEN gone(d) ELSE revoked[k.at][d]]]
        /\ out' = [out EXCEPT ![k.at] = [d \in Devs |->
               IF d \in back THEN Nobody ELSE IF d \in mine THEN gone(d) ELSE out[k.at][d]]]
        /\ claims' = (claims \ {k}) \cup {[k EXCEPT !.done = TRUE]}
        /\ UNCHANGED <<holding, creds, wire, acClock>>

(* Another claim was recorded first. *)
Refuse(k) ==
    /\ k \in claims /\ ~k.done /\ succession[k.at][k.of] # Nobody
    /\ claims' = claims \ {k}
    /\ UNCHANGED <<device, revoked, succession, holding, creds, wire, out, acClock>>

(* Then the names and the seats follow. *)
Follow(k) ==
    /\ k \in claims /\ k.done
    /\ claims' = claims \ {k}
    /\ holding' = [holding EXCEPT ![k.at] = IF k.of \in @ THEN (@ \ {k.of}) \cup {k.to} ELSE @]
    /\ UNCHANGED <<device, revoked, succession, creds, wire, out, acClock>>

(* The exchange restarts: what was on its way and what was not yet carried *)
(* out is gone; the registry is durable.                                   *)
RegistryRestarts(x) ==
    /\ claims' = {k \in claims : k.at # x}
    /\ wire' = IF x = HomeEx THEN {} ELSE wire
    /\ UNCHANGED <<device, revoked, succession, holding, creds, out, acClock>>

AcTick ==
    /\ acClock < MaxAcTime
    /\ acClock' = acClock + 1
    /\ UNCHANGED <<device, revoked, succession, holding, claims, creds, wire, out>>

RegistryNext ==
    \/ AcTick
    \/ \E a \in Accts, d \in Devs, life \in Lives : Sign(a, d, life)
    \/ \E x \in Registries :
        \/ RegistryRestarts(x)
        \/ \E caller \in Devs, c \in creds : Register(x, caller, c)
        \/ \E caller \in Devs \cup Accts, d \in Devs :
            \/ SignOut(x, caller, d)
            \/ \E a \in Accts : Withdraw(x, caller, a, d)
        \/ \E d \in Devs : CarryCredential(x, d)
        \/ \E a \in Accts, s \in Accts :
            \/ AskSucceed(x, a, s)
            \/ \E keep \in SUBSET Devs, life \in Lives : AskHandover(x, a, s, keep, life)
    \/ \E w \in wire : TakeCarried(w) \/ TakeRevocation(w) \/ WireDrops(w)
    \/ \E k \in claims : Record(k) \/ Refuse(k) \/ Follow(k)

RegistrySpec == RegistryInit /\ [][RegistryNext]_registryVars
-----------------------------------------------------------------------------
(* A device that was revoked, or retired with its account, is not that     *)
(* account's device again on a credential signed at or before then that    *)
(* runs out no later than the one revoked -- by its own request, a         *)
(* sibling's, or a forward that was already on its way -- however the      *)
(* revocation's own record expires (Registry::register, revoke, expire).   *)
RevokedStaysOut ==
    \A x \in Registries, d \in Devs :
        device[x][d] # Nobody /\ out[x][d] # Nobody =>
            LET r == device[x][d] g == out[x][d] IN
            r.account = g.account => r.issued > g.at \/ r.until > g.until

(* A withdrawal takes back only what was signed before it: "A device that  *)
(* comes back with a fresh credential is not revoked any more; the account *)
(* said so by signing it" (Registry::register).                            *)
ReturnedStays ==
    [][\A x \in Registries, d \in Devs :
        device[x][d] # Nobody /\ revoked'[x][d] # revoked[x][d] /\ revoked'[x][d] # Nobody
            /\ revoked'[x][d].paper # Nobody
        => device[x][d].issued <= revoked'[x][d].paper]_registryVars
=============================================================================
