---------------------------- MODULE Notifications ----------------------------
(***************************************************************************)
(* The notifications of the manager (manager/routers/notification_api.py): *)
(* a dictionary in memory that the handlers of concurrent requests share   *)
(* without a lock.  An entry counts equal notifications; the timer of a    *)
(* notification is the time for which its e-mails are frozen after one     *)
(* was sent.                                                               *)
(*                                                                         *)
(* The manager runs on CPython 3.12, which may switch threads when a       *)
(* function is called, and between two calls never: what a handler does    *)
(* between two calls that others can tell apart is one step.  A subscript  *)
(* of an entry that is gone, or of a field it does not have, raises a      *)
(* KeyError and ends the request.                                          *)
(***************************************************************************)
EXTENDS Naturals

CONSTANTS
    Keys,       \* notifications that differ in what __hash__ looks at
    Timer,      \* Timer[k]: the seconds that e-mails of k are frozen, 0: never
    Workers,    \* threads handling requests
    TakeTurns,  \* TRUE: nobody posts a notification that is being posted
    MaxTime,    \* bound: the clock stops there
    MaxCount,   \* bound: no requests for an entry that was posted so often
    None

Entry == [counter : Nat, frozen_until : Nat \cup {None}]

ASSUME NotificationConstants ==
    /\ Timer \in [Keys -> Nat]
    /\ TakeTurns \in BOOLEAN
    /\ MaxTime \in Nat
    /\ MaxCount \in Nat
    /\ None \notin Nat \cup Keys /\ None \notin Entry

VARIABLES
    notifications,  \* NOTIFICATIONS[k], or None
    clock,          \* utcnow
    mailed,         \* mailed[k]: when the last e-mail of the entry was sent
    pc,             \* pc[w]: the next step of worker w
    note,           \* note[w]: the notification w handles, and if it has e-mails
    now             \* now[w]: what w read from the clock and did not yet store

local == <<pc, note, now>>
vars == <<notifications, clock, mailed, local>>

Note == [key : Keys, emails : BOOLEAN]
Steps == {"register", "create", "init", "test", "send", "freeze", "store"}

TypeOK ==
    /\ notifications \in [Keys -> {None} \cup Entry]
    /\ clock \in Nat
    /\ mailed \in [Keys -> Nat \cup {None}]
    /\ pc \in [Workers -> Steps \cup {"idle"}]
    /\ note \in [Workers -> {None} \cup Note]
    /\ now \in [Workers -> Nat \cup {None}]
    /\ \A w \in Workers :
        /\ pc[w] # "idle" => note[w] \in Note
        /\ pc[w] \in {"init", "store"} => now[w] \in Nat

Init ==
    /\ notifications = [k \in Keys |-> None]
    /\ clock = 0
    /\ mailed = [k \in Keys |-> None]
    /\ pc = [w \in Workers |-> "idle"]
    /\ note = [w \in Workers |-> None]
    /\ now = [w \in Workers |-> None]

Key(w) == note[w].key
Exists(k) == notifications[k] # None

(* The entry of k, counted once more, or frozen until t. *)
Counted(k) == [counter |-> notifications[k].counter + 1,
               frozen_until |-> notifications[k].frozen_until]
FrozenUntil(k, t) == [counter |-> notifications[k].counter, frozen_until |-> t]

Goto(w, step) == pc' = [pc EXCEPT ![w] = step]

(* The handler returns or raises. *)
Finish(w) ==
    /\ Goto(w, "idle")
    /\ note' = [note EXCEPT ![w] = None]
    /\ now' = [now EXCEPT ![w] = None]

Handles(w, k) == pc[w] # "idle" /\ Key(w) = k

Start(w, k) ==
    /\ pc[w] = "idle"
    /\ Exists(k) => notifications[k].counter < MaxCount
    /\ TakeTurns => \A x \in Workers : ~Handles(x, k)
    /\ \E emails \in BOOLEAN :
          note' = [note EXCEPT ![w] = [key |-> k, emails |-> emails]]
    /\ Goto(w, "register")
    /\ UNCHANGED <<notifications, clock, mailed, now>>

-----------------------------------------------------------------------------
(* register_notification *)

MutantRegister(w) ==
    /\ pc[w] = "register"
    /\ Goto(w, "create")
    /\ UNCHANGED <<notifications, clock, mailed, note, now>>

Register(w) ==
    /\ pc[w] = "register"
    /\ IF Exists(Key(w))
       THEN /\ notifications' = [notifications EXCEPT ![Key(w)] = Counted(Key(w))]
            /\ Goto(w, "test")
       ELSE Goto(w, "create") /\ UNCHANGED notifications
    /\ UNCHANGED <<clock, mailed, note, now>>

(* notification.dict() was called in between.  Whatever is there is        *)
(* overwritten, and the clock is read after that.                          *)
Create(w) ==
    /\ pc[w] = "create"
    /\ notifications' = [notifications EXCEPT ![Key(w)] =
                            [counter |-> 1, frozen_until |-> None]]
    /\ IF Timer[Key(w)] = 0
       THEN Goto(w, "test") /\ UNCHANGED now
       ELSE Goto(w, "init") /\ now' = [now EXCEPT ![w] = clock]
    /\ UNCHANGED <<clock, mailed, note>>

InitFrozen(w) ==
    /\ pc[w] = "init"
    /\ IF Exists(Key(w))
       THEN /\ notifications' = [notifications EXCEPT ![Key(w)] =
                                    FrozenUntil(Key(w), now[w])]
            /\ Goto(w, "test")
            /\ UNCHANGED <<note, now>>
       ELSE Finish(w) /\ UNCHANGED notifications
    /\ UNCHANGED <<clock, mailed>>

-----------------------------------------------------------------------------
(* notification_is_frozen, the e-mail, and update_freeze_time *)

(* Not frozen: the timer is 0, or the time is over. *)
MayMail(k) ==
    \/ Timer[k] = 0
    \/ /\ notifications[k].frozen_until # None
       /\ notifications[k].frozen_until < clock

(* Frozen or failed, the request ends. *)
TestFrozen(w) ==
    /\ pc[w] = "test"
    /\ IF Exists(Key(w)) /\ MayMail(Key(w))
       THEN Goto(w, "send") /\ UNCHANGED <<note, now>>
       ELSE Finish(w)
    /\ UNCHANGED <<notifications, clock, mailed>>

(* An e-mail about an entry that was cleared opens no window. *)
Send(w) ==
    /\ pc[w] = "send"
    /\ mailed' = IF note[w].emails /\ Exists(Key(w))
                 THEN [mailed EXCEPT ![Key(w)] = clock] ELSE mailed
    /\ Goto(w, "freeze")
    /\ UNCHANGED <<notifications, clock, note, now>>

ReadTime(w) ==
    /\ pc[w] = "freeze"
    /\ IF Exists(Key(w)) /\ Timer[Key(w)] # 0
       THEN /\ now' = [now EXCEPT ![w] = clock]
            /\ Goto(w, "store")
            /\ UNCHANGED note
       ELSE Finish(w)
    /\ UNCHANGED <<notifications, clock, mailed>>

MutantStoreFrozen(w) ==
    /\ pc[w] = "store"
    /\ notifications' =
         IF Exists(Key(w))
         THEN [notifications EXCEPT ![Key(w)] = FrozenUntil(Key(w), now[w])]
         ELSE notifications
    /\ Finish(w)
    /\ UNCHANGED <<clock, mailed>>

StoreFrozen(w) ==
    /\ pc[w] = "store"
    /\ notifications' =
         IF Exists(Key(w))
         THEN [notifications EXCEPT ![Key(w)] =
                 FrozenUntil(Key(w), now[w] + Timer[Key(w)])]
         ELSE notifications
    /\ Finish(w)
    /\ UNCHANGED <<clock, mailed>>

-----------------------------------------------------------------------------
(* DELETE /notifications, or the button on the dashboard, at any time. *)
Clear ==
    /\ notifications' = [k \in Keys |-> None]
    /\ mailed' = [k \in Keys |-> None]
    /\ UNCHANGED <<clock, local>>

(* Two readings of the clock may give the same time. *)
Tick ==
    /\ clock < MaxTime
    /\ clock' = clock + 1
    /\ UNCHANGED <<notifications, mailed, local>>

Step(w) ==
    \/ Register(w) \/ Create(w) \/ InitFrozen(w) \/ TestFrozen(w)
    \/ Send(w) \/ ReadTime(w) \/ StoreFrozen(w)

Next ==
    \/ \E w \in Workers : Step(w) \/ \E k \in Keys : Start(w, k)
    \/ Clear \/ Tick

Spec == Init /\ [][Next]_vars

-----------------------------------------------------------------------------
(* An e-mail about k goes out only when the window of the last one is over.*)
WindowIsOver ==
    \A w \in Workers :
        pc[w] = "send" /\ pc'[w] = "freeze" /\ note[w].emails
        /\ mailed[Key(w)] # None /\ Timer[Key(w)] # 0
          => mailed[Key(w)] + Timer[Key(w)] < clock

(* "The amount of time (in seconds) that has to pass before the same       *)
(* notification can be send again": two e-mails of one notification are    *)
(* more than its timer apart, unless the notifications were cleared.       *)
(* (new_notification, update_freeze_time)                                  *)
MailsKeepWindow == [][WindowIsOver]_vars

(* The counters on the dashboard, and who is about to raise one *)
Count(k) == IF Exists(k) THEN notifications[k].counter ELSE 0
Posting(w) == IF pc[w] \in {"register", "create"} THEN Key(w) ELSE None

Board == INSTANCE NoticeBoard WITH
    Clients <- Workers,
    counts <- [k \in Keys |-> Count(k)],
    posting <- [w \in Workers |-> Posting(w)]

(* Each notification posted counts once and none is forgotten before the   *)
(* notifications are cleared, also while clearing and posting overlap.     *)
(* (register_notification)                                                 *)
CountsPosts == Board!Spec

-----------------------------------------------------------------------------
(* Why these hold when posts of one notification take turns *)

InTurn ==
    \A w, x \in Workers, k \in Keys : Handles(w, k) /\ Handles(x, k) => w = x

(* Who creates an entry overwrites none, and no e-mail was sent about it   *)
(* before its first test; who is about to send one finds the last window   *)
(* over, and who stores a window has read the clock after the e-mail.      *)
Current(w) ==
    /\ pc[w] = "create" => ~Exists(Key(w))
    /\ pc[w] = "init" => mailed[Key(w)] = None
    /\ pc[w] = "send" /\ mailed[Key(w)] # None /\ Timer[Key(w)] # 0
         => mailed[Key(w)] + Timer[Key(w)] < clock
    /\ pc[w] = "store" /\ mailed[Key(w)] # None => mailed[Key(w)] <= now[w]

(* An incomplete entry is in the hands of its creator, e-mails belong to   *)
(* entries that exist, and the window of the last e-mail is stored or will *)
(* be by the one that sent it.                                             *)
Window(k) ==
    /\ Exists(k) /\ Timer[k] # 0 /\ notifications[k].frozen_until = None
         => \E w \in Workers : Handles(w, k) /\ pc[w] = "init"
    /\ mailed[k] # None => Exists(k) /\ mailed[k] <= clock
    /\ mailed[k] # None /\ Timer[k] # 0 =>
         \/ /\ notifications[k].frozen_until # None
            /\ mailed[k] + Timer[k] <= notifications[k].frozen_until
         \/ \E w \in Workers : Handles(w, k) /\ pc[w] \in {"freeze", "store"}

(* Under turns every entry has its freeze time where somebody looks at it, *)
(* and every e-mail its window, also while notifications are cleared.      *)
(* (register_notification, notification_is_frozen, update_freeze_time)     *)
WindowInv ==
    /\ InTurn
    /\ \A w \in Workers : Current(w)
    /\ \A k \in Keys : Window(k)
=============================================================================
