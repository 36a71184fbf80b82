------------------------------- MODULE Homing -------------------------------
(***************************************************************************)
(* An account moves from one exchange to another and its mail follows: the *)
(* mailbox (sqexd/src/mailbox.rs), the Move on record and the origin hints *)
(* (device.rs), the home task's collection (replica.rs), the /mailbox,     *)
(* /account/move and /peer/mailbox routes, and the client's move_home.     *)
(*                                                                         *)
(* The exchanges share nothing: a Move reaches them one after another, the *)
(* collection takes four exchanges of messages, and any of them may be     *)
(* lost or find the world changed.                                         *)
(***************************************************************************)
EXTENDS Naturals, FiniteSets, FiniteSetsExt

CONSTANTS
    Homes,         \* the exchanges
    FirstHome,     \* where the account lives to begin with
    MAX_MESSAGES,  \* messages waiting for one recipient
    MailTTL,
    MaxMoves,      \* bound: Moves signed
    MaxMail,       \* bound: messages sent
    MaxCopies,     \* bound: messages stored at one exchange
    MaxUnnoted,    \* bound: notes one exchange loses
    MaxMailTime,   \* bound: the clock
    Nowhere        \* no exchange on record

ASSUME HomingAssumption ==
    /\ FirstHome \in Homes /\ Nowhere \notin Homes
    /\ MAX_MESSAGES \in Nat /\ MailTTL \in Nat
    /\ MaxMoves \in Nat /\ MaxMail \in Nat /\ MaxCopies \in Nat /\ MaxMailTime \in Nat
    /\ MaxUnnoted \in Nat

VARIABLES
    home,      \* home[x]: the Move on record at x
    hinted,    \* hinted[x]: origins x collects from, and whether it has
    mail,      \* mail[x]: id -> message held or its tombstone
    nextMail,  \* nextMail[x]: the identifier sequence, which never goes back
    seen,      \* seen[x]: what x collected, by origin and identifier
    task,      \* task[x]: the home task
    mover,     \* the client: where its store is filed, and its Move under way
    issued,    \* Moves signed so far; a Move is its number
    sent,      \* messages sent so far; a message is its number
    taken,     \* history: messages the account collected
    unnoted,   \* history: what x stored and did not note as collected
    mailClock

homingVars == <<home, hinted, mail, nextMail, seen, task, mover, issued, sent, taken, unnoted, mailClock>>

NoTask == [at |-> "idle"]
HomingInit ==
    /\ home = [x \in Homes |-> [at |-> Nowhere, issued |-> 0]]
    /\ hinted = [x \in Homes |-> {}]
    /\ mail = [x \in Homes |-> <<>>]
    /\ nextMail = [x \in Homes |-> 1]
    /\ seen = [x \in Homes |-> {}]
    /\ task = [x \in Homes |-> NoTask]
    /\ mover = [filed |-> FirstHome, to |-> Nowhere]
    /\ issued = 0 /\ sent = 0 /\ taken = {} /\ mailClock = 1
    /\ unnoted = [x \in Homes |-> {}]
-----------------------------------------------------------------------------
(* away: a Move on record that names another exchange. *)
Away(x) == home[x].at \notin {x, Nowhere}

(* expire: both tables, by the time of first arrival. *)
Fresh(got) == got + MailTTL >= mailClock
Kept(x) == [i \in {j \in DOMAIN mail[x] : Fresh(mail[x][j].got)} |-> mail[x][i]]
KeptSeen(x) == {s \in seen[x] : Fresh(s.got)}
Waiting(box) == {i \in DOMAIN box : box[i].here}

(* insert: refused over the recipient's quota. `from` is history: where    *)
(* and under which identifier the message was first stored, or collected.  *)
HasRoom(box) == Cardinality(Waiting(box)) < MAX_MESSAGES
Insert(box, id, msg, got, from) ==
    [i \in DOMAIN box \cup {id} |->
        IF i = id THEN [msg |-> msg, got |-> got, here |-> TRUE, from |-> from] ELSE box[i]]
Collect(box, ids) == [i \in DOMAIN box |-> IF i \in ids THEN [box[i] EXCEPT !.here = FALSE] ELSE box[i]]

(* /mailbox/send: named elsewhere, not stored for, once the Move is known. *)
MailSendMutant(x) ==
    /\ sent < MaxMail /\ HasRoom(Kept(x))
    /\ sent' = sent + 1
    /\ mail' = [mail EXCEPT ![x] = Insert(Kept(x), nextMail[x], sent + 1, mailClock, <<x, nextMail[x]>>)]
    /\ nextMail' = [nextMail EXCEPT ![x] = @ + 1]
    /\ seen' = [seen EXCEPT ![x] = KeptSeen(x)]
    /\ UNCHANGED <<home, hinted, task, mover, issued, taken, unnoted, mailClock>>

MailSend(x) ==
    /\ sent < MaxMail /\ ~Away(x) /\ HasRoom(Kept(x))
    /\ sent' = sent + 1
    /\ mail' = [mail EXCEPT ![x] = Insert(Kept(x), nextMail[x], sent + 1, mailClock, <<x, nextMail[x]>>)]
    /\ nextMail' = [nextMail EXCEPT ![x] = @ + 1]
    /\ seen' = [seen EXCEPT ![x] = KeptSeen(x)]
    /\ UNCHANGED <<home, hinted, task, mover, issued, taken, unnoted, mailClock>>

(* fetch and delete, by a device of the account at the exchange its store  *)
(* is filed under.                                                         *)
MailTake(i) ==
    LET x == mover.filed IN
    /\ i \in Waiting(Kept(x))
    /\ taken' = taken \cup {mail[x][i].msg}
    /\ mail' = [mail EXCEPT ![x] = Collect(Kept(x), {i})]
    /\ seen' = [seen EXCEPT ![x] = KeptSeen(x)]
    /\ UNCHANGED <<home, hinted, nextMail, task, mover, issued, sent, unnoted, mailClock>>
-----------------------------------------------------------------------------
(* record_move: the hints are replaced where the Move names this exchange, *)
(* and dropped where it does not. A Move not later than the one on record  *)
(* changes nothing.                                                        *)
Records(x, mv, origins) ==
    IF mv.issued > home[x].issued
    THEN /\ home' = [home EXCEPT ![x] = mv]
         /\ hinted' = [hinted EXCEPT ![x] =
                         IF mv.at = x THEN {[origin |-> o, done |-> FALSE] : o \in origins \ {x}} ELSE {}]
    ELSE UNCHANGED <<home, hinted>>

(* move_home: sign, and present the Move at the new home, naming the one   *)
(* it leaves.                                                              *)
MoveHome(to) ==
    /\ mover.to = Nowhere /\ to # mover.filed /\ issued < MaxMoves
    /\ issued' = issued + 1
    /\ Records(to, [at |-> to, issued |-> issued + 1], {mover.filed})
    /\ mover' = [mover EXCEPT !.to = to]
    /\ UNCHANGED <<mail, nextMail, seen, task, sent, taken, unnoted, mailClock>>

(* Then here, and the store is filed under the new home. *)
MoveTold ==
    /\ mover.to # Nowhere
    /\ Records(mover.filed, [at |-> mover.to, issued |-> issued], {})
    /\ mover' = [filed |-> mover.to, to |-> Nowhere]
    /\ UNCHANGED <<mail, nextMail, seen, task, issued, sent, taken, unnoted, mailClock>>

(* The connection here failed: the store stays filed where it was. *)
MoveUntold ==
    /\ mover.to # Nowhere
    /\ mover' = [mover EXCEPT !.to = Nowhere]
    /\ UNCHANGED <<home, hinted, mail, nextMail, seen, task, issued, sent, taken, unnoted, mailClock>>
-----------------------------------------------------------------------------
(* The home task at x. A cycle begins with what was pending then. *)
HomeCycle(x, o) ==
    /\ task[x] = NoTask /\ home[x].at = x
    /\ [origin |-> o, done |-> FALSE] \in hinted[x]
    /\ task' = [task EXCEPT ![x] = [at |-> "carry", origin |-> o]]
    /\ UNCHANGED <<home, hinted, mail, nextMail, seen, mover, issued, sent, taken, unnoted, mailClock>>

(* The Move is carried to the origin first; a limit of the origin may hold *)
(* the writing off, and the pulls go on.                                   *)
CarryMove(x, held) ==
    /\ task[x].at = "carry"
    /\ IF held THEN UNCHANGED <<home, hinted>> ELSE Records(task[x].origin, home[x], {})
    /\ task' = [task EXCEPT ![x].at = "pull"]
    /\ UNCHANGED <<mail, nextMail, seen, mover, issued, sent, taken, unnoted, mailClock>>

(* /peer/mailbox: answered to the home by the account's own Move. *)
PullMail(x) ==
    LET o == task[x].origin IN
    /\ task[x].at = "pull" /\ home[o].at = x
    /\ task' = [task EXCEPT ![x] = [at |-> "store", origin |-> o, all |-> TRUE, took |-> {},
                   items |-> {[id |-> i, msg |-> mail[o][i].msg, got |-> mail[o][i].got] :
                                i \in Waiting(Kept(o))}]]
    /\ mail' = [mail EXCEPT ![o] = Kept(o)]
    /\ seen' = [seen EXCEPT ![o] = KeptSeen(o)]
    /\ UNCHANGED <<home, hinted, nextMail, mover, issued, sent, taken, unnoted, mailClock>>

(* Refused, or the connection failed; a restart of the exchange. *)
TaskGivesUp(x) ==
    /\ task[x] # NoTask
    /\ task' = [task EXCEPT ![x] = NoTask]
    /\ UNCHANGED <<home, hinted, mail, nextMail, seen, mover, issued, sent, taken, unnoted, mailClock>>

(* deliver, item by item in order; the first the quota will not take ends  *)
(* it. The item is stored and then noted as collected, in two statements   *)
(* that commit one by one: where the second fails its error is dropped,    *)
(* and where the exchange stops between them the task is gone as well      *)
(* (TaskGivesUp).                                                          *)
DeliverHeldMutant(x, it) == FALSE
DeliverHeld(x, it) == \E s \in KeptSeen(x) : s.origin = task[x].origin /\ s.id = it.id

Deliver(x, noted) ==
    LET t == task[x]
        it == CHOOSE i \in t.items : \A j \in t.items : i.id <= j.id IN
    /\ t.at = "store" /\ t.items # {}
    /\ IF DeliverHeld(x, it)
       THEN /\ mail' = [mail EXCEPT ![x] = Kept(x)]
            /\ seen' = [seen EXCEPT ![x] = KeptSeen(x)]
            /\ task' = [task EXCEPT ![x].items = @ \ {it}, ![x].took = @ \cup {it.id}]
            /\ UNCHANGED <<nextMail, unnoted>>
       ELSE IF HasRoom(Kept(x))
       THEN /\ nextMail[x] <= MaxCopies /\ (noted \/ Cardinality(unnoted[x]) < MaxUnnoted)
            /\ mail' = [mail EXCEPT ![x] = Insert(Kept(x), nextMail[x], it.msg, it.got, <<t.origin, it.id>>)]
            /\ seen' = [seen EXCEPT ![x] = KeptSeen(x) \cup
                          IF noted THEN {[origin |-> t.origin, id |-> it.id, got |-> it.got]} ELSE {}]
            /\ unnoted' = [unnoted EXCEPT ![x] = @ \cup IF noted THEN {} ELSE {nextMail[x]}]
            /\ nextMail' = [nextMail EXCEPT ![x] = @ + 1]
            /\ task' = [task EXCEPT ![x].items = @ \ {it}, ![x].took = @ \cup {it.id}]
       ELSE /\ mail' = [mail EXCEPT ![x] = Kept(x)]
            /\ seen' = [seen EXCEPT ![x] = KeptSeen(x)]
            /\ task' = [task EXCEPT ![x].items = {}, ![x].all = FALSE]
            /\ UNCHANGED <<nextMail, unnoted>>
    /\ UNCHANGED <<home, hinted, mover, issued, sent, taken, mailClock>>

(* /peer/mailbox/took: what was stored is deleted at the origin, under the *)
(* same gate. The answer is not looked at, and it may not arrive.          *)
TookMailMutant(x, arrives) ==
    LET t == task[x] IN
    /\ t.at = "store" /\ t.items = {}
    /\ mail' = IF arrives /\ t.took # {}
               THEN [mail EXCEPT ![t.origin] = Collect(Kept(t.origin), Waiting(Kept(t.origin)))] ELSE mail
    /\ task' = [task EXCEPT ![x] = [at |-> "mark", origin |-> t.origin, all |-> t.all]]
    /\ UNCHANGED <<home, hinted, nextMail, seen, mover, issued, sent, taken, unnoted, mailClock>>

TookMail(x, arrives) ==
    LET t == task[x] IN
    /\ t.at = "store" /\ t.items = {}
    /\ mail' = IF arrives /\ home[t.origin].at = x
               THEN [mail EXCEPT ![t.origin] = Collect(Kept(t.origin), t.took)] ELSE mail
    /\ task' = [task EXCEPT ![x] = [at |-> "mark", origin |-> t.origin, all |-> t.all]]
    /\ UNCHANGED <<home, hinted, nextMail, seen, mover, issued, sent, taken, unnoted, mailClock>>

(* mark_mail_collected, where everything was stored: not asked for again.  *)
(* The row is found by the origin alone.                                   *)
MarkCollected(x) ==
    LET t == task[x] IN
    /\ t.at = "mark"
    /\ hinted' = [hinted EXCEPT ![x] =
                    IF t.all THEN {[h EXCEPT !.done = h.done \/ h.origin = t.origin] : h \in @} ELSE @]
    /\ task' = [task EXCEPT ![x] = NoTask]
    /\ UNCHANGED <<home, mail, nextMail, seen, mover, issued, sent, taken, unnoted, mailClock>>

MailTick ==
    /\ mailClock' = IF mailClock < MaxMailTime THEN mailClock + 1 ELSE mailClock
    /\ UNCHANGED <<home, hinted, mail, nextMail, seen, task, mover, issued, sent, taken, unnoted>>

HomingNext ==
    \/ \E x \in Homes:
          \/ MailSend(x) \/ MoveHome(x) \/ PullMail(x) \/ TaskGivesUp(x)
          \/ MarkCollected(x)
          \/ \E noted \in BOOLEAN: Deliver(x, noted)
          \/ \E o \in Homes: HomeCycle(x, o)
          \/ \E held \in BOOLEAN: CarryMove(x, held)
          \/ \E arrives \in BOOLEAN: TookMail(x, arrives)
    \/ \E i \in DOMAIN mail[mover.filed]: MailTake(i)
    \/ MoveTold \/ MoveUntold \/ MailTick

HomingSpec == HomingInit /\ [][HomingNext]_homingVars
-----------------------------------------------------------------------------
(* Where a copy at x of a message gets to the account: x serves it, or the *)
(* home x names has it or has yet to ask, or was itself left for another.  *)
OnItsWay(x, i) ==
    LET y == home[x].at IN
    \/ ~Away(x)
    \/ [origin |-> x, done |-> FALSE] \in hinted[y]
    \/ home[y].at # y

(* A message the account has not taken is never stranded where the account *)
(* no longer lives: some copy of it is where the account lives, or on its  *)
(* way there (collect_mail, record_move).                                  *)
MailIsNotStranded ==
    \A m \in (1..sent) \ taken:
        LET copies == {c \in Homes \X (1..MaxCopies) :
                          c[2] \in Waiting(Kept(c[1])) /\ mail[c[1]][c[2]].msg = m} IN
        copies # {} => \E c \in copies: OnItsWay(c[1], c[2])

(* What an exchange collects is stored again, after a lost answer or a     *)
(* restart, only where the note of the earlier copy was not written: one   *)
(* whose note was is never followed by another (deliver, mailbox.rs).      *)
CollectedOnce ==
    \A x \in Homes: \A i, j \in DOMAIN mail[x]:
        mail[x][i].from = mail[x][j].from /\ i < j => i \in unnoted[x]

(* What is said of the collected_from table: `a pull answered twice --     *)
(* across a restart too -- stores nothing twice` (SCHEMA, mailbox.rs).     *)
StoresNothingTwice ==
    \A x \in Homes: \A i, j \in DOMAIN mail[x]: mail[x][i].from = mail[x][j].from => i = j

(* Nothing accepted is lost: until its time is up, a message is held by    *)
(* some exchange, or the account took it.                                  *)
MailIsKept ==
    \A m \in 1..sent: m \notin taken =>
        \/ \E x \in Homes: \E i \in Waiting(mail[x]): mail[x][i].msg = m
        \/ \A x \in Homes: \A i \in DOMAIN mail[x]: mail[x][i].msg = m => ~Fresh(mail[x][i].got)

(* Mail follows its account: what was accepted and not taken is kept, is *)
(* stored once by an exchange that collects it -- unless it could not    *)
(* note that it did -- and is on its way to where the account lives      *)
(* (send, deliver and delete, mailbox.rs; collect_mail, replica.rs).     *)
MailFollows == MailIsKept /\ CollectedOnce /\ MailIsNotStranded
=============================================================================
