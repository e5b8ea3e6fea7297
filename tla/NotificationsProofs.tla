------------------------- MODULE NotificationsProofs -------------------------
(***************************************************************************)
(* Proofs about Notifications, for every set of notifications and workers  *)
(* and every timer: types, the windows of e-mails and the counters when    *)
(* posts of one notification take turns.                                   *)
(***************************************************************************)
EXTENDS Notifications, TLAPS

LEMMA TypeInit == Init => TypeOK
  BY NotificationConstants DEF Init, TypeOK

LEMMA TypeStep == TypeOK /\ [Next]_vars => TypeOK'
<1> SUFFICES ASSUME TypeOK, [Next]_vars PROVE TypeOK'
  OBVIOUS
<1> USE NotificationConstants
<1>1. ASSUME NEW w \in Workers, NEW k \in Keys, Start(w, k) PROVE TypeOK'
  BY <1>1 DEF TypeOK, Start, Goto, Steps, Note
<1>2. ASSUME NEW w \in Workers, Register(w) PROVE TypeOK'
  <2>1. Key(w) \in Keys
    BY <1>2 DEF TypeOK, Register, Key, Note
  <2>2. notifications' \in [Keys -> {None} \cup Entry]
    <3>1. CASE Exists(Key(w))
      BY <1>2, <2>1, <3>1 DEF TypeOK, Register, Exists, Entry, Counted
    <3>2. CASE ~Exists(Key(w))
      BY <1>2, <3>2 DEF TypeOK, Register
    <3> QED BY <3>1, <3>2
  <2> QED BY <1>2, <2>2 DEF TypeOK, Register, Goto, Steps
<1>3. ASSUME NEW w \in Workers, Create(w) PROVE TypeOK'
  <2>1. Key(w) \in Keys
    BY <1>3 DEF TypeOK, Create, Key, Note
  <2>2. notifications' \in [Keys -> {None} \cup Entry]
    BY <1>3, <2>1 DEF TypeOK, Create, Entry
  <2> QED BY <1>3, <2>2 DEF TypeOK, Create, Goto, Steps
<1>4. ASSUME NEW w \in Workers, InitFrozen(w) PROVE TypeOK'
  <2>1. Key(w) \in Keys /\ now[w] \in Nat
    BY <1>4 DEF TypeOK, InitFrozen, Key, Note
  <2>2. notifications' \in [Keys -> {None} \cup Entry]
    <3>1. CASE Exists(Key(w))
      BY <1>4, <2>1, <3>1 DEF TypeOK, InitFrozen, Exists, Entry, FrozenUntil
    <3>2. CASE ~Exists(Key(w))
      BY <1>4, <3>2 DEF TypeOK, InitFrozen
    <3> QED BY <3>1, <3>2
  <2> QED BY <1>4, <2>2 DEF TypeOK, InitFrozen, Goto, Finish, Steps
<1>5. ASSUME NEW w \in Workers, TestFrozen(w) PROVE TypeOK'
  BY <1>5 DEF TypeOK, TestFrozen, Goto, Finish, Steps
<1>6. ASSUME NEW w \in Workers, Send(w) PROVE TypeOK'
  BY <1>6 DEF TypeOK, Send, Goto, Steps
<1>7. ASSUME NEW w \in Workers, ReadTime(w) PROVE TypeOK'
  BY <1>7 DEF TypeOK, ReadTime, Goto, Finish, Steps
<1>8. ASSUME NEW w \in Workers, StoreFrozen(w) PROVE TypeOK'
  <2>1. Key(w) \in Keys /\ now[w] + Timer[Key(w)] \in Nat
    BY <1>8 DEF TypeOK, StoreFrozen, Key, Note
  <2>2. notifications' \in [Keys -> {None} \cup Entry]
    <3>1. CASE Exists(Key(w))
      BY <1>8, <2>1, <3>1 DEF TypeOK, StoreFrozen, Exists, Entry, FrozenUntil
    <3>2. CASE ~Exists(Key(w))
      BY <1>8, <3>2 DEF TypeOK, StoreFrozen
    <3> QED BY <3>1, <3>2
  <2> QED BY <1>8, <2>2 DEF TypeOK, StoreFrozen, Goto, Finish, Steps
<1>9. CASE Clear
  BY <1>9 DEF TypeOK, Clear, local
<1>10. CASE Tick
  BY <1>10 DEF TypeOK, Tick, local
<1>11. CASE UNCHANGED vars
  BY <1>11 DEF TypeOK, vars, local
<1> QED
  BY <1>1, <1>2, <1>3, <1>4, <1>5, <1>6, <1>7, <1>8, <1>9, <1>10, <1>11
  DEF Next, Step

(* Every field keeps its type, and who is about to store a time has one.   *)
(* (notification_api.py)                                                   *)
THEOREM TypeCorrect == Spec => []TypeOK
  BY TypeInit, TypeStep, PTL DEF Spec

-----------------------------------------------------------------------------
(* What the actions of w leave alone: other workers, other entries. *)

Others(w) ==
    /\ \A x \in Workers : x # w =>
         pc'[x] = pc[x] /\ note'[x] = note[x] /\ now'[x] = now[x]
    /\ \A k \in Keys : k # Key(w) =>
         notifications'[k] = notifications[k] /\ mailed'[k] = mailed[k]
    /\ clock' = clock

LEMMA StepOthers ==
  ASSUME TypeOK, NEW w \in Workers, Step(w)
  PROVE  /\ Others(w)
         /\ pc[w] # "idle" /\ Key(w) \in Keys
         /\ pc'[w] # "idle" => note'[w] = note[w]
<1> Key(w) \in Keys /\ pc[w] # "idle"
  BY DEF TypeOK, Step, Register, Create, InitFrozen, TestFrozen, Send, ReadTime,
         StoreFrozen, Key, Note
<1>1. CASE Register(w)
  BY <1>1 DEF TypeOK, Register, Others, Goto
<1>2. CASE Create(w)
  BY <1>2 DEF TypeOK, Create, Others, Goto
<1>3. CASE InitFrozen(w)
  BY <1>3 DEF TypeOK, InitFrozen, Others, Goto, Finish
<1>4. CASE TestFrozen(w)
  BY <1>4 DEF TypeOK, TestFrozen, Others, Goto, Finish
<1>5. CASE Send(w)
  BY <1>5 DEF TypeOK, Send, Others, Goto
<1>6. CASE ReadTime(w)
  BY <1>6 DEF TypeOK, ReadTime, Others, Goto, Finish
<1>7. CASE StoreFrozen(w)
  BY <1>7 DEF TypeOK, StoreFrozen, Others, Goto, Finish
<1> QED BY <1>1, <1>2, <1>3, <1>4, <1>5, <1>6, <1>7 DEF Step

(* So a step of w keeps the invariant if it keeps what it says of w and    *)
(* of its notification.                                                    *)
LEMMA StepFrame ==
  ASSUME TypeOK, WindowInv, NEW w \in Workers, Step(w)
  PROVE  /\ InTurn'
         /\ \A x \in Workers : x # w => Current(x)'
         /\ \A k \in Keys : k # Key(w) => Window(k)'
<1> USE StepOthers
<1>1. InTurn'
  BY DEF WindowInv, InTurn, Handles, Others, Key
<1>2. ASSUME NEW x \in Workers, x # w PROVE Current(x)'
  <2>1. pc[x] # "idle" => Key(x) \in Keys /\ Key(x) # Key(w)
    BY <1>2 DEF WindowInv, InTurn, Handles, Key, TypeOK, Note
  <2>2. Key(x)' = Key(x)
    BY <1>2 DEF Others, Key
  <2> QED BY <1>2, <2>1, <2>2 DEF WindowInv, Current, Others, Exists
<1>3. ASSUME NEW k \in Keys, k # Key(w) PROVE Window(k)'
  <2>1. \A x \in Workers : Handles(x, k) => x # w /\ Handles(x, k)' /\ pc'[x] = pc[x]
    BY <1>3 DEF Handles, Others, Key
  <2> QED BY <1>3, <2>1 DEF WindowInv, Window, Others, Exists
<1> QED BY <1>1, <1>2, <1>3

(* The part of the invariant that a step of w on the notification k can    *)
(* disturb.                                                                *)
LEMMA OwnStep ==
  ASSUME TypeOK, TypeOK', WindowInv, NEW w \in Workers, Step(w),
         NEW k \in Keys, k = Key(w)
  PROVE  Current(w)' /\ Window(k)'
<1> USE NotificationConstants
<1>0. Handles(w, k) /\ Window(k) /\ Current(w)
  BY StepOthers DEF WindowInv, Handles
<1>1. \A x \in Workers : Handles(x, k) => x = w
  BY <1>0 DEF WindowInv, InTurn
<1>2. pc'[w] # "idle" => Key(w)' = k /\ Handles(w, k)'
  BY StepOthers DEF Handles, Key
<1>3. CASE Register(w)
  <2>1. CASE Exists(k)
    <3>1. notifications'[k] = Counted(k) /\ pc'[w] = "test" /\ pc[w] = "register"
      BY <1>3, <2>1 DEF Register, Goto, TypeOK
    <3>2. UNCHANGED <<mailed, clock>>
      BY <1>3 DEF Register
    <3>3. notifications[k] \in Entry /\ notifications'[k] \in Entry
      BY <2>1, <3>1 DEF Exists, TypeOK, Counted, Entry
    <3> QED BY <1>0, <1>1, <1>2, <3>1, <3>2, <3>3
            DEF Current, Window, Exists, Counted
  <2>2. CASE ~Exists(k)
    BY <1>0, <1>1, <1>2, <1>3, <2>2 DEF Register, Current, Window, Exists, Goto, TypeOK
  <2> QED BY <2>1, <2>2
<1>4. CASE Create(w)
  BY <1>0, <1>1, <1>2, <1>4 DEF Create, Current, Window, Exists, Goto, TypeOK
<1>5. CASE InitFrozen(w)
  <2>1. CASE Exists(k)
    <3>1. notifications'[k] = FrozenUntil(k, now[w]) /\ pc'[w] = "test" /\ pc[w] = "init"
      BY <1>5, <2>1 DEF InitFrozen, Goto, TypeOK
    <3>2. now[w] # None /\ mailed[k] = None /\ mailed' = mailed
      BY <1>0, <1>5, <3>1 DEF InitFrozen, Current, TypeOK
    <3> QED BY <1>2, <3>1, <3>2 DEF Current, Window, Exists, FrozenUntil
  <2>2. CASE ~Exists(k)
    BY <1>0, <1>5, <2>2 DEF InitFrozen, Current, Window, Exists, Finish, Goto, TypeOK
  <2> QED BY <2>1, <2>2
<1>6. CASE TestFrozen(w)
  <2>0. UNCHANGED <<notifications, mailed, clock>> /\ pc[w] = "test"
    BY <1>6 DEF TestFrozen
  <2>1. Window(k)'
    BY <1>0, <1>1, <2>0 DEF Window, Exists
  <2>2. CASE Exists(k) /\ MayMail(k)
    <3>1. pc'[w] = "send"
      BY <1>6, <2>2 DEF TestFrozen, Goto, TypeOK
    <3>2. mailed[k] # None /\ Timer[k] # 0 => mailed[k] + Timer[k] < clock
      <4> SUFFICES ASSUME mailed[k] # None, Timer[k] # 0
                   PROVE  mailed[k] + Timer[k] < clock
        OBVIOUS
      <4>1. mailed[k] + Timer[k] <= notifications[k].frozen_until
        BY <1>0, <1>1, <2>0 DEF Window
      <4>2. notifications[k].frozen_until < clock /\ notifications[k].frozen_until \in Nat
        BY <2>2 DEF MayMail, Exists, TypeOK, Entry
      <4> QED BY <4>1, <4>2 DEF TypeOK
    <3> QED BY <1>2, <2>0, <2>1, <3>1, <3>2 DEF Current
  <2>3. CASE ~(Exists(k) /\ MayMail(k))
    <3>1. pc'[w] = "idle"
      BY <1>6, <2>3 DEF TestFrozen, Finish, Goto, TypeOK
    <3> QED BY <2>1, <3>1 DEF Current
  <2> QED BY <2>2, <2>3
<1>7. CASE Send(w)
  BY <1>0, <1>1, <1>2, <1>7 DEF Send, Current, Window, Exists, Goto, TypeOK
<1>8. CASE ReadTime(w)
  <2>0. UNCHANGED <<notifications, mailed, clock>> /\ pc[w] = "freeze"
    BY <1>8 DEF ReadTime
  <2>1. CASE Exists(k) /\ Timer[k] # 0
    <3>1. pc'[w] = "store" /\ now'[w] = clock
      BY <1>8, <2>1 DEF ReadTime, Goto, TypeOK
    <3> QED BY <1>0, <1>1, <1>2, <2>0, <3>1 DEF Current, Window, Exists
  <2>2. CASE ~(Exists(k) /\ Timer[k] # 0)
    <3>1. pc'[w] = "idle"
      BY <1>8, <2>2 DEF ReadTime, Finish, Goto, TypeOK
    <3> QED BY <1>0, <1>1, <2>0, <2>2, <3>1 DEF Current, Window, Exists
  <2> QED BY <2>1, <2>2
<1>9. CASE StoreFrozen(w)
  <2>0. UNCHANGED <<mailed, clock>> /\ pc[w] = "store" /\ pc'[w] = "idle"
    BY <1>9 DEF StoreFrozen, Finish, Goto, TypeOK
  <2>1. CASE Exists(k)
    <3>1. notifications'[k] = FrozenUntil(k, now[w] + Timer[k])
      BY <1>9, <2>1 DEF StoreFrozen, TypeOK
    <3>2. now[w] \in Nat /\ Timer[k] \in Nat /\ now[w] + Timer[k] # None
      BY <2>0 DEF TypeOK
    <3>3. mailed[k] # None => mailed[k] \in Nat /\ mailed[k] <= now[w]
      BY <1>0, <2>0 DEF Current, TypeOK
    <3>4. notifications'[k] # None /\ notifications'[k].frozen_until = now[w] + Timer[k]
      <4>1. notifications[k] \in Entry
        BY <2>1 DEF Exists, TypeOK
      <4>2. notifications'[k] \in Entry
        BY <3>1, <3>2, <4>1 DEF FrozenUntil, Entry
      <4> QED BY <3>1, <4>2 DEF FrozenUntil
    <3> QED BY <1>0, <2>0, <3>2, <3>3, <3>4 DEF Current, Window, Exists
  <2>2. CASE ~Exists(k)
    BY <1>0, <1>9, <2>0, <2>2 DEF StoreFrozen, Current, Window, Exists
  <2> QED BY <2>1, <2>2
<1> QED BY <1>3, <1>4, <1>5, <1>6, <1>7, <1>8, <1>9 DEF Step

LEMMA WindowStep ==
  ASSUME TypeOK, TypeOK', WindowInv, NEW w \in Workers, Step(w)
  PROVE  WindowInv'
<1>1. Key(w) \in Keys
  BY StepOthers
<1>2. Current(w)' /\ \A k \in Keys : k = Key(w) => Window(k)'
  BY <1>1, OwnStep
<1> QED BY <1>2, StepFrame DEF WindowInv

LEMMA WindowInit == Init => WindowInv
  BY DEF Init, WindowInv, InTurn, Handles, Current, Window, Exists

LEMMA WindowNext ==
  ASSUME TakeTurns, TypeOK, TypeOK', WindowInv, [Next]_vars
  PROVE  WindowInv'
<1> USE NotificationConstants
<1>1. ASSUME NEW w \in Workers, NEW k \in Keys, Start(w, k) PROVE WindowInv'
  <2>1. /\ pc[w] = "idle" /\ pc'[w] = "register" /\ note'[w].key = k
        /\ \A x \in Workers : x # w => pc'[x] = pc[x] /\ note'[x] = note[x]
        /\ UNCHANGED <<notifications, clock, mailed, now>>
        /\ \A x \in Workers : ~Handles(x, k)
    BY <1>1 DEF Start, Goto, TypeOK
  <2>2. InTurn'
    BY <2>1 DEF WindowInv, InTurn, Handles, Key
  <2>3. ASSUME NEW x \in Workers PROVE Current(x)'
    <3>1. CASE x = w
      BY <2>1, <3>1 DEF Current
    <3>2. CASE x # w
      BY <2>1, <3>2 DEF WindowInv, Current, Exists, Key
    <3> QED BY <3>1, <3>2
  <2>4. ASSUME NEW j \in Keys PROVE Window(j)'
    <3>1. \A x \in Workers : Handles(x, j) => Handles(x, j)' /\ pc'[x] = pc[x]
      BY <2>1 DEF Handles, Key
    <3> QED BY <2>1, <3>1 DEF WindowInv, Window, Exists
  <2> QED BY <2>2, <2>3, <2>4 DEF WindowInv
<1>2. CASE Clear
  <2>1. /\ \A k \in Keys : notifications'[k] = None /\ mailed'[k] = None
        /\ UNCHANGED <<clock, pc, note, now>>
    BY <1>2 DEF Clear, local
  <2>2. \A w \in Workers : pc[w] # "idle" => Key(w) \in Keys
    BY DEF TypeOK, Key, Note
  <2> QED BY <2>1, <2>2 DEF WindowInv, InTurn, Handles, Current, Window, Exists, Key
<1>3. CASE Tick
  <2>1. clock \in Nat /\ clock' = clock + 1 /\ mailed \in [Keys -> Nat \cup {None}]
        /\ UNCHANGED <<notifications, mailed, pc, note, now>>
    BY <1>3 DEF Tick, local, TypeOK
  <2>2. \A w \in Workers : pc[w] # "idle" => Key(w) \in Keys
    BY DEF TypeOK, Key, Note
  <2>3. ASSUME NEW w \in Workers PROVE Current(w)'
    <3>1. Current(w) /\ Key(w)' = Key(w)
      BY <2>1 DEF WindowInv, Key
    <3>2. pc[w] = "send" => Key(w) \in Keys /\ Timer[Key(w)] \in Nat
      BY <2>2
    <3> QED BY <2>1, <3>1, <3>2 DEF Current, Exists
  <2>4. ASSUME NEW k \in Keys PROVE Window(k)'
    <3>1. Window(k) /\ \A w \in Workers : Handles(w, k)' = Handles(w, k)
      BY <2>1 DEF WindowInv, Handles, Key
    <3> QED BY <2>1, <3>1 DEF Window, Exists
  <2>5. InTurn'
    BY <2>1 DEF WindowInv, InTurn, Handles, Key
  <2> QED BY <2>3, <2>4, <2>5 DEF WindowInv
<1>4. CASE UNCHANGED vars
  BY <1>4 DEF vars, local, WindowInv, InTurn, Handles, Current, Window, Exists, Key
<1> QED BY WindowStep, <1>1, <1>2, <1>3, <1>4 DEF Next

-----------------------------------------------------------------------------
(* With one post of a notification at a time every e-mail has its window   *)
(* stored, or about to be stored by who sent it, through every clearing.   *)
(* (new_notification, update_freeze_time)                                  *)
THEOREM WindowsAreStored ==
  ASSUME TakeTurns
  PROVE  Spec => []WindowInv
<1> QED BY TypeInit, TypeStep, WindowInit, WindowNext, PTL DEF Spec

LEMMA MailStep ==
  ASSUME TypeOK, WindowInv, NEW w \in Workers, pc[w] = "send",
         mailed[Key(w)] # None, Timer[Key(w)] # 0
  PROVE  mailed[Key(w)] + Timer[Key(w)] < clock
  BY DEF WindowInv, Current

(* With one post of a notification at a time, any two e-mails about it are *)
(* more than its timer apart.  (new_notification, update_freeze_time)      *)
THEOREM MailsAreApart ==
  ASSUME TakeTurns
  PROVE  Spec => MailsKeepWindow
<1>1. TypeOK /\ WindowInv => WindowIsOver
  BY MailStep DEF WindowIsOver
<1> QED
  BY <1>1, TypeInit, TypeStep, WindowInit, WindowNext, PTL DEF Spec, MailsKeepWindow

-----------------------------------------------------------------------------
(* The refinement *)

LEMMA BoardInit == Init => Board!Init
  BY DEF Init, Board!Init, Count, Posting, Exists

(* A step either counts what its worker is posting or changes no counter.  *)
LEMMA BoardStep ==
  ASSUME TypeOK, WindowInv, NEW w \in Workers, Step(w)
  PROVE  \/ /\ Posting(w) \in Keys /\ Posting(w)' = None
            /\ \A k \in Keys :
                 Count(k)' = IF k = Posting(w) THEN Count(k) + 1 ELSE Count(k)
         \/ /\ Posting(w)' = Posting(w)
            /\ \A k \in Keys : Count(k)' = Count(k)
<1> USE NotificationConstants
<1>0. Key(w) \in Keys /\ (pc'[w] # "idle" => Key(w)' = Key(w))
  BY StepOthers DEF Key
<1>1. ASSUME NEW e \in Entry,
             notifications' = [notifications EXCEPT ![Key(w)] = e]
      PROVE  \A k \in Keys : Count(k)' = IF k = Key(w) THEN e.counter ELSE Count(k)
  BY <1>0, <1>1 DEF Count, Exists, TypeOK
<1>2. CASE Register(w)
  <2>1. CASE Exists(Key(w))
    <3>1. Counted(Key(w)) \in Entry /\ Counted(Key(w)).counter = Count(Key(w)) + 1
      BY <1>0, <2>1 DEF Counted, Count, Entry, TypeOK, Exists
    <3>2. notifications' = [notifications EXCEPT ![Key(w)] = Counted(Key(w))]
      BY <1>2, <2>1 DEF Register
    <3>3. Posting(w) = Key(w) /\ Posting(w)' = None
      BY <1>2, <2>1 DEF Register, Posting, Goto, TypeOK
    <3> QED BY <1>0, <1>1, <3>1, <3>2, <3>3
  <2>2. CASE ~Exists(Key(w))
    <3>1. Posting(w)' = Posting(w)
      BY <1>0, <1>2, <2>2 DEF Register, Posting, Goto, TypeOK
    <3> QED BY <1>2, <2>2, <3>1 DEF Register, Count, Exists
  <2> QED BY <2>1, <2>2
<1>3. CASE Create(w)
  <2> DEFINE e == [counter |-> 1, frozen_until |-> None]
  <2>1. e \in Entry /\ e.counter = 1
    BY DEF Entry
  <2>2. Count(Key(w)) = 0
    BY <1>3 DEF Create, WindowInv, Current, Count
  <2>3. notifications' = [notifications EXCEPT ![Key(w)] = e]
    BY <1>3 DEF Create
  <2>4. Posting(w) = Key(w) /\ Posting(w)' = None
    BY <1>3 DEF Create, Posting, Goto, TypeOK
  <2>5. \A k \in Keys : Count(k)' = IF k = Key(w) THEN e.counter ELSE Count(k)
    <3> HIDE DEF e
    <3> QED BY <1>1, <2>1, <2>3
  <2>6. e.counter = Count(Key(w)) + 1
    BY <2>2
  <2> HIDE DEF e
  <2> QED BY <1>0, <2>4, <2>5, <2>6
<1>4. ASSUME pc[w] \notin {"register", "create"}, pc'[w] \notin {"register", "create"},
             \/ UNCHANGED notifications
             \/ \E t \in Nat : /\ Exists(Key(w))
                               /\ notifications' = [notifications EXCEPT ![Key(w)] =
                                                       FrozenUntil(Key(w), t)]
      PROVE  Posting(w)' = Posting(w) /\ \A k \in Keys : Count(k)' = Count(k)
  <2>1. Posting(w)' = Posting(w)
    BY <1>4 DEF Posting
  <2>2. CASE UNCHANGED notifications
    BY <2>1, <2>2 DEF Count, Exists
  <2>3. ASSUME NEW t \in Nat, Exists(Key(w)),
               notifications' = [notifications EXCEPT ![Key(w)] = FrozenUntil(Key(w), t)]
        PROVE  \A k \in Keys : Count(k)' = Count(k)
    <3>1. /\ FrozenUntil(Key(w), t) \in Entry
          /\ FrozenUntil(Key(w), t).counter = Count(Key(w))
      BY <1>0, <2>3 DEF FrozenUntil, Count, Entry, TypeOK, Exists
    <3> QED BY <1>1, <2>3, <3>1
  <2> QED BY <1>4, <2>1, <2>2, <2>3
<1>5. CASE InitFrozen(w)
  BY <1>4, <1>5 DEF InitFrozen, Goto, Finish, TypeOK
<1>6. CASE TestFrozen(w)
  BY <1>4, <1>6 DEF TestFrozen, Goto, Finish, TypeOK
<1>7. CASE Send(w)
  BY <1>4, <1>7 DEF Send, Goto, TypeOK
<1>8. CASE ReadTime(w)
  BY <1>4, <1>8 DEF ReadTime, Goto, Finish, TypeOK
<1>9. CASE StoreFrozen(w)
  <2>1. now[w] + Timer[Key(w)] \in Nat
    BY <1>0, <1>9 DEF StoreFrozen, TypeOK
  <2> QED BY <1>4, <1>9, <2>1 DEF StoreFrozen, Goto, Finish, TypeOK
<1> QED BY <1>2, <1>3, <1>5, <1>6, <1>7, <1>8, <1>9 DEF Step

LEMMA BoardNext ==
  ASSUME TypeOK, WindowInv, [Next]_vars
  PROVE  [Board!Next]_(Board!vars)
<1> USE NotificationConstants
<1> SUFFICES Board!Next \/ /\ \A k \in Keys : Count(k)' = Count(k)
                           /\ \A w \in Workers : Posting(w)' = Posting(w)
  BY DEF Board!vars
<1>1. ASSUME NEW w \in Workers, Step(w)
      PROVE  Board!Next \/ /\ \A k \in Keys : Count(k)' = Count(k)
                           /\ \A x \in Workers : Posting(x)' = Posting(x)
  <2>1. \A x \in Workers : x # w => Posting(x)' = Posting(x)
    BY <1>1, StepOthers DEF Others, Posting, Key
  <2>2. ASSUME Posting(w) \in Keys, Posting(w)' = None,
               \A k \in Keys :
                 Count(k)' = IF k = Posting(w) THEN Count(k) + 1 ELSE Count(k)
        PROVE  Board!Count(w)
    BY <2>1, <2>2 DEF Board!Count
  <2> QED BY <1>1, <2>1, <2>2, BoardStep DEF Board!Next
<1>2. ASSUME NEW w \in Workers, NEW k \in Keys, Start(w, k)
      PROVE  Board!Begin(w, k)
  <2>1. Posting(w) = None /\ Posting(w)' = k
    BY <1>2 DEF Start, Posting, Goto, Key, TypeOK
  <2>2. \A x \in Workers : x # w => Posting(x)' = Posting(x)
    BY <1>2 DEF Start, Posting, Goto, Key, TypeOK
  <2>3. \A j \in Keys : Count(j)' = Count(j)
    BY <1>2 DEF Start, Count, Exists
  <2> QED BY <2>1, <2>2, <2>3 DEF Board!Begin
<1>3. CASE Clear
  <2>1. \A k \in Keys : Count(k)' = 0
    BY <1>3 DEF Clear, Count, Exists
  <2>2. \A w \in Workers : Posting(w)' = Posting(w)
    BY <1>3 DEF Clear, local, Posting, Key
  <2> QED BY <2>1, <2>2 DEF Board!Next, Board!Clear
<1>4. CASE Tick
  BY <1>4 DEF Tick, local, Count, Exists, Posting, Key
<1>5. CASE UNCHANGED vars
  BY <1>5 DEF vars, local, Count, Exists, Posting, Key
<1> QED BY <1>1, <1>2, <1>3, <1>4, <1>5 DEF Next, Board!Next

(* With one post of a notification at a time, and clearing at any time,    *)
(* the counters count.  (register_notification)                            *)
THEOREM PostsAreCounted ==
  ASSUME TakeTurns
  PROVE  Spec => CountsPosts
  BY BoardNext, BoardInit, TypeInit, TypeStep, WindowInit, WindowNext, PTL
  DEF Spec, CountsPosts, Board!Spec
=============================================================================
