--------------------------- MODULE AccountsProofs ---------------------------
(***************************************************************************)
(* Proofs about Accounts, for all users, passwords, threads and bounds:    *)
(* types, the admin's row, the tokens that were issued, and that users     *)
(* come and go as Directory says when requests for one of them take turns. *)
(***************************************************************************)
EXTENDS Accounts, TLAPS

(* What the steps of a start and of a request have established.            *)
Started ==
    /\ phase \in {"drop", "admin", "up"} => secret # None
    /\ phase # "off" => given # None

Prepared(w) ==
    /\ pc[w] # "idle" => phase = "up"
    /\ pc[w] = "delete" => /\ req[w].user \in Names /\ req[w].row \in Row
                           /\ req[w].op = "change" => req[w].password \in Passwords
    /\ pc[w] = "add" => /\ req[w].user \in Names /\ req[w].row \in Row
                        /\ req[w].password \in Passwords
    /\ pc[w] = "issue" => req[w].user \in Users /\ req[w].expires
    /\ pc[w] = "record" => req[w].user \in Uuids

TypeInv == TypeOK /\ Started /\ \A w \in Workers : Prepared(w)

LEMMA NoRequestType == NoRequest \in Request
  BY DEF NoRequest, Request

LEMMA TypeInit == Init => TypeInv
  BY NoRequestType DEF Init, TypeInv, TypeOK, Started, Prepared, Phases, Steps

LEMMA InsertType ==
  ASSUME TypeOK, NEW u \in Users, NEW p \in Passwords, Insert(u, p)
  PROVE  users' \in [Users -> Row \cup {None}]
<1>1. PICK i \in 1..MaxId : users' = [users EXCEPT ![u] = [id |-> i, password |-> p]]
  BY DEF Insert
<1>2. [id |-> i, password |-> p] \in Row
  BY AccountConstants DEF Row
<1> QED BY <1>1, <1>2 DEF TypeOK

(* A request moves one worker, and others stay prepared. *)
LEMMA GotoType ==
  ASSUME TypeInv, NEW w \in Workers, NEW step \in Steps, NEW r \in Request,
         Goto(w, step, r), phase' = phase, Prepared(w)'
  PROVE  /\ pc' \in [Workers -> Steps] /\ req' \in [Workers -> Request]
         /\ \A x \in Workers : Prepared(x)'
  BY DEF TypeInv, TypeOK, Goto, Prepared

LEMMA HandleType ==
  ASSUME TypeInv, NEW w \in Workers, Handle(w)
  PROVE  TypeInv'
<1> USE NoRequestType, AccountConstants DEF boot, table
<1>1. ASSUME NEW u \in Users, NEW p \in Passwords, AddUser(w, u, p) PROVE TypeInv'
  BY <1>1, InsertType DEF AddUser, TypeInv, TypeOK, Started, Prepared
<1>2. ASSUME NEW u \in Users, NEW op \in {"delete", "change"},
             NEW p \in Passwords \cup {None}, op = "change" => p \in Passwords,
             ReadRow(w, u, op, p)
      PROVE  TypeInv'
  <2> DEFINE r == [op |-> op, user |-> u, password |-> p, row |-> users[u],
                   expires |-> FALSE]
  <2>1. users[u] \in Row /\ u \in Names
    BY <1>2 DEF ReadRow, Exists, TypeInv, TypeOK, Users
  <2>2. r \in Request /\ Goto(w, "delete", r) /\ phase = "up"
    BY <1>2, <2>1 DEF ReadRow, Ready, Request, Users
  <2>3. UNCHANGED <<boot, table, issued, revoked>>
    BY <1>2 DEF ReadRow
  <2>4. Prepared(w)'
    BY <1>2, <2>1, <2>2, <2>3 DEF Goto, Prepared, TypeInv, TypeOK
  <2> HIDE DEF r
  <2>5. "delete" \in Steps
    BY DEF Steps
  <2> QED BY <2>2, <2>3, <2>4, <2>5, GotoType DEF TypeInv, TypeOK, Started
<1>3. CASE DeleteRow(w)
  <2>1. WithoutRow(req[w].row.id) \in [Users -> Row \cup {None}]
    BY DEF WithoutRow, TypeInv, TypeOK
  <2>2. /\ UNCHANGED <<boot, secret, tokens, issued, revoked>>
        /\ users' \in [Users -> Row \cup {None}] /\ phase = "up"
    BY <1>3, <2>1 DEF DeleteRow, TypeInv, Prepared
  <2>3. CASE req[w].op = "change"
    <3>1. Goto(w, "add", req[w]) /\ req[w] \in Request
      BY <1>3, <2>3 DEF DeleteRow, TypeInv, TypeOK
    <3>2. Prepared(w)'
      BY <1>3, <2>2, <2>3, <3>1 DEF DeleteRow, Goto, Prepared, TypeInv, TypeOK
    <3> QED BY <2>2, <3>1, <3>2, GotoType DEF TypeInv, TypeOK, Started, Steps
  <2>4. CASE req[w].op # "change"
    <3>1. Goto(w, "idle", NoRequest)
      BY <1>3, <2>4 DEF DeleteRow, Finish
    <3>2. Prepared(w)'
      BY <3>1 DEF Goto, Prepared, TypeInv, TypeOK
    <3> QED BY <2>2, <3>1, <3>2, GotoType DEF TypeInv, TypeOK, Started, Steps
  <2> QED BY <2>3, <2>4
<1>4. CASE AddAgain(w)
  <2>1. /\ UNCHANGED <<boot, secret, tokens, issued, revoked>>
        /\ Goto(w, "idle", NoRequest)
    BY <1>4 DEF AddAgain, Finish
  <2>2. users' \in [Users -> Row \cup {None}]
    <3>1. req[w].user \in Users /\ req[w].password \in Passwords
      BY <1>4 DEF AddAgain, TypeInv, Prepared, Users
    <3> QED BY <1>4, <3>1, InsertType DEF AddAgain, TypeInv, TypeOK
  <2>3. Prepared(w)'
    BY <2>1 DEF Goto, Prepared, TypeInv, TypeOK
  <2> QED BY <2>1, <2>2, <2>3, GotoType DEF TypeInv, TypeOK, Started, Steps
<1>5. ASSUME NEW u \in Users, NEW p \in Passwords, Login(w, u, p) PROVE TypeInv'
  <2> DEFINE r == [NoRequest EXCEPT !.op = "login", !.user = u, !.expires = TRUE]
  <2>1. r \in Request /\ r.user = u /\ r.expires = TRUE
    BY DEF NoRequest, Request
  <2>2. Goto(w, "issue", r) /\ phase = "up" /\ UNCHANGED <<boot, table, issued, revoked>>
    BY <1>5 DEF Login, Ready
  <2> HIDE DEF r
  <2>3. Prepared(w)'
    BY <2>1, <2>2 DEF Goto, Prepared, TypeInv, TypeOK
  <2> QED BY <2>1, <2>2, <2>3, GotoType DEF TypeInv, TypeOK, Started, Steps
<1>6. CASE IssueLogin(w) \/ RecordToken(w)
  <2>1. Signed(w) \in Token
    <3>1. secret \in Secrets /\ req[w].user \in Users \cup Uuids
      BY <1>6 DEF IssueLogin, RecordToken, TypeInv, TypeOK, Started, Prepared
    <3>2. req[w].expires \in BOOLEAN
      BY DEF TypeInv, TypeOK, Request
    <3> QED BY <3>1, <3>2 DEF Signed, Token
  <2>2. /\ UNCHANGED <<boot, users, secret, revoked>> /\ Goto(w, "idle", NoRequest)
        /\ issued' = issued \cup {Signed(w)}
    BY <1>6 DEF IssueLogin, RecordToken, Finish
  <2>3. Prepared(w)'
    BY <2>2 DEF Goto, Prepared, TypeInv, TypeOK
  <2>4. tokens' \in SUBSET Uuids
    BY <1>6 DEF IssueLogin, RecordToken, TypeInv, TypeOK, Prepared
  <2> QED BY <2>1, <2>2, <2>3, <2>4, GotoType DEF TypeInv, TypeOK, Started, Steps
<1>7. ASSUME NEW t \in Uuids, NEW days \in {None, 0, 1}, NewToken(w, t, days)
      PROVE  TypeInv'
  <2> DEFINE r == [NoRequest EXCEPT !.op = "token", !.user = t,
                                    !.expires = days \notin {None, 0}]
  <2>1. r \in Request /\ r.user = t
    BY DEF NoRequest, Request
  <2>2. Goto(w, "record", r) /\ phase = "up" /\ UNCHANGED <<boot, table, issued, revoked>>
    BY <1>7 DEF NewToken, Ready
  <2> HIDE DEF r
  <2>3. Prepared(w)'
    BY <2>1, <2>2 DEF Goto, Prepared, TypeInv, TypeOK
  <2> QED BY <2>1, <2>2, <2>3, GotoType DEF TypeInv, TypeOK, Started, Steps
<1> QED
  BY <1>1, <1>2, <1>3, <1>4, <1>5, <1>6, <1>7
  DEF Handle, DeleteUser, UpdatePassword

LEMMA TypeStep == TypeInv /\ [Next]_vars => TypeInv'
<1> SUFFICES ASSUME TypeInv, [Next]_vars PROVE TypeInv'
  OBVIOUS
<1> USE NoRequestType, AccountConstants DEF boot, table
<1>1. ASSUME NEW t \in Uuids, DeleteToken(t) PROVE TypeInv'
  BY <1>1 DEF DeleteToken, TypeInv, TypeOK, Started, Prepared
<1>2. ASSUME NEW t \in issued, Expire(t) PROVE TypeInv'
  BY <1>2 DEF Expire, TypeInv, TypeOK, Started, Prepared
<1>3. ASSUME NEW p \in Passwords, Start(p) PROVE TypeInv'
  BY <1>3 DEF Start, TypeInv, TypeOK, Started, Prepared, Phases
<1>4. ASSUME NEW s \in Secrets, SetSecret(s) PROVE TypeInv'
  BY <1>4 DEF SetSecret, TypeInv, TypeOK, Started, Prepared, Phases
<1>5. CASE DropAdmin
  BY <1>5 DEF DropAdmin, TypeInv, TypeOK, Started, Prepared, Phases, Users
<1>6. CASE AddAdmin
  <2>1. given \in Passwords /\ Admin \in Users
    BY <1>6 DEF AddAdmin, TypeInv, TypeOK, Started, Users
  <2>2. users' \in [Users -> Row \cup {None}]
    BY <1>6, <2>1, InsertType DEF AddAdmin, TypeInv
  <2> QED BY <1>6, <2>2 DEF AddAdmin, TypeInv, TypeOK, Started, Prepared, Phases
<1>7. CASE Crash
  BY <1>7 DEF Crash, TypeInv, TypeOK, Started, Prepared, Phases, Steps
<1>8. CASE UNCHANGED vars
  BY <1>8 DEF vars, TypeInv, TypeOK, Started, Prepared
<1> QED
  BY <1>1, <1>2, <1>3, <1>4, <1>5, <1>6, <1>7, <1>8, HandleType DEF Next

(* Tables and requests keep their types: no token is signed before there   *)
(* is a secret, no admin is added without a password. (initialize_db)      *)
THEOREM TypeCorrect == Spec => []TypeOK
<1>1. TypeInv => TypeOK
  BY DEF TypeInv
<1> QED BY <1>1, TypeInit, TypeStep, PTL DEF Spec

-----------------------------------------------------------------------------
(* Rows *)

IdsDiffer ==
    \A u, v \in Users : Exists(u) /\ Exists(v) /\ users[u].id = users[v].id => u = v

(* A row that is added has a number no other row has. *)
LEMMA InsertNew ==
  ASSUME TypeOK, IdsDiffer, NEW u \in Users, ~Exists(u), NEW p \in Passwords,
         Insert(u, p)
  PROVE  /\ IdsDiffer' /\ Exists(u)' /\ users'[u].password = p
         /\ \A v \in Users : v # u => users'[v] = users[v]
         /\ \A v \in Users : Exists(v) => users'[u].id # users[v].id
<1>1. PICK i \in 1..MaxId : IsNext(i) /\ users' = [users EXCEPT ![u] = [id |-> i, password |-> p]]
  BY DEF Insert
<1>2. /\ users'[u] = [id |-> i, password |-> p]
      /\ \A v \in Users : v # u => users'[v] = users[v]
  BY <1>1 DEF TypeOK
<1>3. [id |-> i, password |-> p] # None
  BY AccountConstants DEF Row
<1>4. \A v \in Users : Exists(v) => users[v].id < i /\ users[v].id \in Nat
  BY <1>1 DEF IsNext, Ids, Exists, TypeOK, Row
<1>5. \A v \in Users : Exists(v) => users[v].id # i
  BY <1>4
<1>6. IdsDiffer'
  BY <1>2, <1>5 DEF IdsDiffer, Exists
<1> QED BY <1>2, <1>3, <1>5, <1>6 DEF Exists

LEMMA WithoutDiffer ==
  ASSUME IdsDiffer, NEW i, users' = WithoutRow(i) PROVE IdsDiffer'
  BY DEF IdsDiffer, WithoutRow, Exists

(* What no other step than those of a start and of two handlers touches.   *)
LEMMA UsersStay ==
  ASSUME [Next]_vars
  PROVE  \/ UNCHANGED users
         \/ \E w \in Workers, u \in Users, p \in Passwords : AddUser(w, u, p)
         \/ \E w \in Workers : DeleteRow(w) \/ AddAgain(w)
         \/ DropAdmin \/ AddAdmin
  BY DEF Next, Handle, Login, DeleteUser, UpdatePassword, ReadRow, IssueLogin,
         NewToken, RecordToken, DeleteToken, Expire, Start, SetSecret, Crash,
         vars, boot, table

(* While the manager answers, the admin has its row, and no request that   *)
(* read the row of a user has its number.                                  *)
AdminInv ==
    /\ IdsDiffer
    /\ phase = "admin" => ~Exists(Admin)
    /\ AdminCanLogIn
    /\ \A w \in Workers : pc[w] = "delete" => req[w].row.id # users[Admin].id

LEMMA AdminStep == TypeInv /\ AdminInv /\ [Next]_vars => AdminInv'
<1> SUFFICES ASSUME TypeInv, AdminInv, [Next]_vars PROVE AdminInv'
  OBVIOUS
<1> USE DEF boot, table
<1>0. Admin \in Users /\ (phase = "up" => Exists(Admin) /\ users[Admin].password = given)
      /\ TypeOK /\ IdsDiffer
  BY DEF Users, AdminInv, AdminCanLogIn, Exists, TypeInv
<1>1. ASSUME NEW w \in Workers, NEW u \in Users, NEW p \in Passwords, AddUser(w, u, p)
      PROVE  AdminInv'
  <2>1. phase = "up" /\ u # Admin /\ UNCHANGED <<boot, pc, req>>
    BY <1>0, <1>1 DEF AddUser, Ready
  <2>2. IdsDiffer' /\ users'[Admin] = users[Admin]
    BY <1>0, <1>1, <2>1, InsertNew DEF AddUser
  <2> QED BY <2>1, <2>2 DEF AdminInv, AdminCanLogIn
<1>2. ASSUME NEW w \in Workers, NEW u \in Users, NEW op, NEW p, ReadRow(w, u, op, p)
      PROVE  AdminInv'
  <2>1. /\ phase = "up" /\ u # Admin /\ Exists(u) /\ UNCHANGED <<boot, users>>
        /\ pc' = [pc EXCEPT ![w] = "delete"]
        /\ req' = [req EXCEPT ![w] = [op |-> op, user |-> u, password |-> p,
                                      row |-> users[u], expires |-> FALSE]]
    BY <1>2 DEF ReadRow, Ready, Goto
  <2>2. users[u].id # users[Admin].id
    BY <1>0, <2>1 DEF IdsDiffer
  <2>3. ASSUME NEW x \in Workers, pc'[x] = "delete"
        PROVE  req'[x].row.id # users'[Admin].id
    <3>1. CASE x = w
      BY <2>1, <2>2, <3>1 DEF TypeInv, TypeOK
    <3>2. CASE x # w
      BY <2>1, <2>3, <3>2 DEF AdminInv, TypeInv, TypeOK
    <3> QED BY <3>1, <3>2
  <2> QED BY <2>1, <2>3 DEF AdminInv, IdsDiffer, AdminCanLogIn, Exists
<1>3. ASSUME NEW w \in Workers, DeleteRow(w) PROVE AdminInv'
  <2>1. req[w].row.id # users[Admin].id /\ phase = "up"
    BY <1>3 DEF DeleteRow, AdminInv, TypeInv, Prepared
  <2>2. users' = WithoutRow(req[w].row.id) /\ UNCHANGED boot
    BY <1>3 DEF DeleteRow
  <2>3. users'[Admin] = users[Admin]
    BY <1>0, <2>1, <2>2 DEF WithoutRow
  <2>4. \A x \in Workers : pc'[x] = "delete" => pc[x] = "delete" /\ req'[x] = req[x]
    BY <1>3 DEF DeleteRow, Goto, Finish, TypeInv, TypeOK
  <2> QED BY <1>0, <2>1, <2>2, <2>3, <2>4, WithoutDiffer DEF AdminInv, AdminCanLogIn
<1>4. ASSUME NEW w \in Workers, AddAgain(w) PROVE AdminInv'
  <2>1. /\ phase = "up" /\ UNCHANGED boot
        /\ req[w].user \in Users /\ req[w].password \in Passwords
    BY <1>4 DEF AddAgain, TypeInv, Prepared, Users
  <2>2. IdsDiffer' /\ users'[Admin] = users[Admin]
    <3>1. CASE Exists(req[w].user)
      BY <1>0, <1>4, <3>1 DEF AddAgain, IdsDiffer, Exists
    <3>2. CASE ~Exists(req[w].user)
      BY <1>0, <1>4, <2>1, <3>2, InsertNew DEF AddAgain
    <3> QED BY <3>1, <3>2
  <2>3. \A x \in Workers : pc'[x] = "delete" => pc[x] = "delete" /\ req'[x] = req[x]
    BY <1>4 DEF AddAgain, Goto, Finish, TypeInv, TypeOK
  <2> QED BY <2>1, <2>2, <2>3 DEF AdminInv, AdminCanLogIn
<1>5. CASE DropAdmin
  BY <1>0, <1>5 DEF DropAdmin, AdminInv, AdminCanLogIn, IdsDiffer, Exists, TypeInv,
                    TypeOK, Prepared
<1>6. CASE AddAdmin
  <2>1. given \in Passwords /\ ~Exists(Admin) /\ UNCHANGED <<given, pc, req>> /\ phase' = "up"
    BY <1>6 DEF AddAdmin, AdminInv, TypeInv, TypeOK, Started
  <2>2. IdsDiffer' /\ Exists(Admin)' /\ users'[Admin].password = given
    BY <1>0, <1>6, <2>1, InsertNew DEF AddAdmin
  <2>3. \A x \in Workers : pc[x] # "delete"
    BY <1>6 DEF AddAdmin, TypeInv, Prepared
  <2> QED BY <2>1, <2>2, <2>3 DEF AdminInv, AdminCanLogIn, Exists
<1>7. ASSUME UNCHANGED <<users, given>>,
             phase' \in {"admin", "up"} => phase' = phase,
             \A x \in Workers : pc'[x] = "delete" => pc[x] = "delete" /\ req'[x] = req[x]
      PROVE  AdminInv'
  BY <1>7 DEF AdminInv, AdminCanLogIn, IdsDiffer, Exists
<1>8. CASE \E w \in Workers : \/ \E u \in Users, p \in Passwords : Login(w, u, p)
                              \/ IssueLogin(w) \/ RecordToken(w)
                              \/ \E t \in Uuids, days \in {None, 0, 1} : NewToken(w, t, days)
  BY <1>7, <1>8 DEF Login, IssueLogin, RecordToken, NewToken, Goto, Finish, TypeInv, TypeOK
<1>9. CASE \/ \E t \in Uuids : DeleteToken(t)
           \/ \E t \in issued : Expire(t)
           \/ \E s \in Secrets : SetSecret(s)
           \/ Crash \/ UNCHANGED vars
  BY <1>7, <1>9 DEF DeleteToken, Expire, SetSecret, Crash, vars
<1>10. ASSUME NEW p \in Passwords, Start(p) PROVE AdminInv'
  BY <1>10 DEF Start, AdminInv, AdminCanLogIn, IdsDiffer, Exists
<1> QED
  BY <1>1, <1>2, <1>3, <1>4, <1>5, <1>6, <1>8, <1>9, <1>10
  DEF Next, Handle, DeleteUser, UpdatePassword

(* Whenever the manager answers, the admin can log in with the password of *)
(* this start, even when requests overlap. (initialize_db, admin_api)      *)
THEOREM AdminAlwaysLogsIn == Spec => []AdminCanLogIn
<1>1. Init => AdminInv
  BY DEF Init, AdminInv, AdminCanLogIn, IdsDiffer, Exists
<1>2. AdminInv => AdminCanLogIn
  BY DEF AdminInv
<1> QED BY <1>1, <1>2, AdminStep, TypeInit, TypeStep, PTL DEF Spec

-----------------------------------------------------------------------------
(* Tokens *)

TokenInv ==
    \A t \in issued : /\ t.secret = secret
                      /\ t.expires \/ t.id \in tokens \cup revoked

LEMMA TokenStep == TypeInv /\ TokenInv /\ [Next]_vars => TokenInv'
<1> SUFFICES ASSUME TypeInv, TokenInv, [Next]_vars PROVE TokenInv'
  OBVIOUS
<1> USE DEF boot, table
<1>1. ASSUME NEW w \in Workers, IssueLogin(w) \/ RecordToken(w) PROVE TokenInv'
  <2>1. Signed(w).expires \/ Signed(w).id \in tokens'
    BY <1>1 DEF IssueLogin, RecordToken, Signed, TypeInv, Prepared
  <2>2. /\ issued' = issued \cup {Signed(w)} /\ Signed(w).secret = secret
        /\ UNCHANGED <<secret, revoked>> /\ tokens \subseteq tokens'
    BY <1>1 DEF IssueLogin, RecordToken, Signed
  <2> QED BY <2>1, <2>2 DEF TokenInv
<1>2. ASSUME NEW t \in Uuids, DeleteToken(t) PROVE TokenInv'
  BY <1>2 DEF DeleteToken, TokenInv
<1>3. ASSUME NEW t \in issued, Expire(t) PROVE TokenInv'
  BY <1>3 DEF Expire, TokenInv
<1>4. ASSUME NEW s \in Secrets, SetSecret(s) PROVE TokenInv'
  <2>1. \A t \in issued : t.secret # None
    BY AccountConstants DEF TypeInv, TypeOK, Token
  <2> QED BY <1>4, <2>1 DEF SetSecret, TokenInv
<1>5. ASSUME UNCHANGED <<issued, secret, tokens, revoked>> PROVE TokenInv'
  BY <1>5 DEF TokenInv
<1> QED
  BY <1>1, <1>2, <1>3, <1>4, <1>5
  DEF Next, Handle, AddUser, Login, DeleteUser, UpdatePassword, ReadRow, DeleteRow,
      AddAgain, NewToken, Start, DropAdmin, AddAdmin, Crash, vars

(* Every token that was handed out is accepted after any number of starts, *)
(* until it expires or is revoked. (set_jwt_token_secret, verify_request)  *)
THEOREM TokensStayValid == Spec => []IssuedTokensVerify
<1>1. Init => TokenInv
  BY DEF Init, TokenInv
<1>2. TokenInv => IssuedTokensVerify
  BY DEF TokenInv, IssuedTokensVerify, Verifies
<1> QED BY <1>1, <1>2, TokenStep, TypeInit, TypeStep, PTL DEF Spec

-----------------------------------------------------------------------------
(* Users, when requests for one of them take turns *)

Editing == {"delete", "add"}

(* Nobody else changes the user a request deletes or changes: what it read *)
(* is still in the table, and what it deleted is still gone.               *)
EditInv ==
    /\ IdsDiffer
    /\ \A w, x \in Workers :
          pc[w] \in Editing /\ pc[x] \in Editing /\ req[w].user = req[x].user => w = x
    /\ \A w \in Workers :
          /\ pc[w] = "delete" => Exists(req[w].user) /\ users[req[w].user] = req[w].row
          /\ pc[w] = "add" => ~Exists(req[w].user)

(* A step that changes the row of one user at most, of one no request that *)
(* goes on is about. *)
LEMMA EditFrame ==
  ASSUME EditInv, NEW c, IdsDiffer',
         \A v \in Users : v # c => users'[v] = users[v],
         \A x \in Workers : pc'[x] \in Editing =>
            pc[x] = pc'[x] /\ req'[x] = req[x] /\ req[x].user # c /\ req[x].user \in Users
  PROVE  EditInv'
  BY DEF EditInv, Editing, Exists

(* DELETE removes the row of the user the request is about, only.          *)
LEMMA DeletesOne ==
  ASSUME TypeInv, EditInv, NEW w \in Workers, DeleteRow(w)
  PROVE  /\ \A v \in Users : v # req[w].user => users'[v] = users[v]
         /\ users'[req[w].user] = None
         /\ req[w].user \in Names /\ users[req[w].user] = req[w].row
         /\ Exists(req[w].user)
<1>1. /\ req[w].user \in Names /\ users[req[w].user] = req[w].row
      /\ Exists(req[w].user) /\ users' = WithoutRow(req[w].row.id)
  BY DEF DeleteRow, TypeInv, Prepared, EditInv
<1>2. req[w].user \in Users
  BY <1>1 DEF Users
<1>3. \A v \in Users : Exists(v) /\ users[v].id = req[w].row.id => v = req[w].user
  BY <1>1, <1>2 DEF EditInv, IdsDiffer
<1> QED BY <1>1, <1>2, <1>3 DEF WithoutRow

LEMMA EditStep ==
  ASSUME TakeTurns, TypeInv, AdminInv, EditInv, [Next]_vars
  PROVE  EditInv'
<1> USE DEF boot, table
<1>0. /\ TypeOK /\ IdsDiffer /\ Names \subseteq Users /\ Admin \in Users
      /\ \A x \in Workers : pc[x] \in Editing => req[x].user \in Users /\ phase = "up"
  BY DEF Users, EditInv, TypeInv, Prepared, Editing
<1>1. ASSUME NEW w \in Workers, NEW u \in Users, NEW p \in Passwords, AddUser(w, u, p)
      PROVE  EditInv'
  <2>1. /\ IdsDiffer' /\ \A v \in Users : v # u => users'[v] = users[v]
        /\ UNCHANGED <<pc, req>>
    BY <1>0, <1>1, InsertNew DEF AddUser
  <2>2. \A x \in Workers : pc[x] \in Editing => req[x].user # u
    BY <1>1 DEF AddUser, MayEdit, Edits, Editing
  <2> QED BY <1>0, <2>1, <2>2, EditFrame
<1>2. ASSUME NEW w \in Workers, NEW u \in Users, NEW op, NEW p, ReadRow(w, u, op, p)
      PROVE  EditInv'
  <2>1. /\ Exists(u) /\ UNCHANGED <<boot, users>>
        /\ pc' = [pc EXCEPT ![w] = "delete"]
        /\ req' = [req EXCEPT ![w] = [op |-> op, user |-> u, password |-> p,
                                      row |-> users[u], expires |-> FALSE]]
    BY <1>2 DEF ReadRow, Goto
  <2>2. \A x \in Workers : pc[x] \in Editing => req[x].user # u
    BY <1>2 DEF ReadRow, MayEdit, Edits, Editing
  <2>3. /\ pc'[w] = "delete" /\ req'[w].user = u /\ req'[w].row = users[u]
        /\ \A x \in Workers : x # w => pc'[x] = pc[x] /\ req'[x] = req[x]
    BY <1>0, <2>1 DEF TypeOK
  <2>4. \A x, y \in Workers : pc'[x] \in Editing /\ pc'[y] \in Editing
                              /\ req'[x].user = req'[y].user => x = y
    BY <2>2, <2>3 DEF EditInv
  <2>5. \A x \in Workers :
           /\ pc'[x] = "delete" => Exists(req'[x].user) /\ users[req'[x].user] = req'[x].row
           /\ pc'[x] = "add" => ~Exists(req'[x].user)
    BY <2>1, <2>3 DEF EditInv
  <2> QED BY <2>1, <2>4, <2>5 DEF EditInv, IdsDiffer, Exists
<1>3. ASSUME NEW w \in Workers, DeleteRow(w) PROVE EditInv'
  <2> DEFINE u == req[w].user
  <2>1. /\ \A v \in Users : v # u => users'[v] = users[v]
        /\ users'[u] = None /\ u \in Users
    BY <1>0, <1>3, DeletesOne
  <2>2. IdsDiffer'
    BY <1>0, <1>3, WithoutDiffer DEF DeleteRow
  <2>3. /\ pc'[w] \in Editing => pc'[w] = "add" /\ req'[w] = req[w]
        /\ \A x \in Workers : x # w => pc'[x] = pc[x] /\ req'[x] = req[x]
    BY <1>0, <1>3 DEF DeleteRow, Goto, Finish, TypeOK, Editing
  <2>4. \A x \in Workers : x # w /\ pc[x] \in Editing => req[x].user # u
    BY <1>3 DEF EditInv, DeleteRow, Editing
  <2>5. CASE pc'[w] \notin Editing
    BY <1>0, <2>1, <2>2, <2>3, <2>4, <2>5, EditFrame
  <2>6. CASE pc'[w] \in Editing
    <3>1. pc'[w] = "add" /\ req'[w] = req[w] /\ ~Exists(u)'
      BY <2>1, <2>3, <2>6 DEF Exists
    <3>2. \A x, y \in Workers : pc'[x] \in Editing /\ pc'[y] \in Editing
                                /\ req'[x].user = req'[y].user => x = y
      BY <2>3, <2>4, <3>1 DEF EditInv
    <3>3. \A x \in Workers : x # w =>
             /\ pc'[x] = "delete" => /\ users'[req'[x].user] # None
                                     /\ users'[req'[x].user] = req'[x].row
             /\ pc'[x] = "add" => users'[req'[x].user] = None
      BY <1>0, <2>1, <2>3, <2>4 DEF EditInv, Exists, Editing
    <3> QED BY <2>2, <3>1, <3>2, <3>3 DEF EditInv, Exists
  <2> QED BY <2>5, <2>6
<1>4. ASSUME NEW w \in Workers, AddAgain(w) PROVE EditInv'
  <2>1. /\ pc[w] = "add" /\ req[w].user \in Users /\ req[w].password \in Passwords
        /\ ~Exists(req[w].user)
    BY <1>0, <1>4 DEF AddAgain, TypeInv, Prepared, EditInv
  <2>2. IdsDiffer' /\ \A v \in Users : v # req[w].user => users'[v] = users[v]
    BY <1>0, <1>4, <2>1, InsertNew DEF AddAgain
  <2>3. /\ pc'[w] = "idle"
        /\ \A x \in Workers : x # w => pc'[x] = pc[x] /\ req'[x] = req[x]
    BY <1>0, <1>4 DEF AddAgain, Goto, Finish, TypeOK
  <2>4. \A x \in Workers : x # w /\ pc[x] \in Editing => req[x].user # req[w].user
    BY <2>1 DEF EditInv, Editing
  <2>5. "idle" \notin Editing
    BY DEF Editing
  <2> QED BY <1>0, <2>2, <2>3, <2>4, <2>5, EditFrame
<1>5. CASE DropAdmin
  <2>1. \A x \in Workers : pc[x] \notin Editing
    BY <1>0, <1>5 DEF DropAdmin
  <2>2. IdsDiffer'
    BY <1>0, <1>5 DEF DropAdmin, IdsDiffer, Exists, TypeOK
  <2> QED BY <1>5, <2>1, <2>2 DEF DropAdmin, EditInv, Editing
<1>6. CASE AddAdmin
  <2>1. /\ \A x \in Workers : pc[x] \notin Editing
        /\ given \in Passwords /\ ~Exists(Admin)
    BY <1>0, <1>6 DEF AddAdmin, AdminInv, TypeInv, TypeOK, Started
  <2>2. IdsDiffer'
    BY <1>0, <1>6, <2>1, InsertNew DEF AddAdmin
  <2> QED BY <1>6, <2>1, <2>2 DEF AddAdmin, EditInv, Editing
<1>7. ASSUME UNCHANGED users,
             \A x \in Workers : pc'[x] \in Editing => pc[x] = pc'[x] /\ req'[x] = req[x]
      PROVE  EditInv'
  BY <1>7 DEF EditInv, IdsDiffer, Exists, Editing
<1>8. CASE \E w \in Workers : \/ \E u \in Users, p \in Passwords : Login(w, u, p)
                              \/ IssueLogin(w) \/ RecordToken(w)
                              \/ \E t \in Uuids, days \in {None, 0, 1} : NewToken(w, t, days)
  <2>1. CASE \E w \in Workers, u \in Users, p \in Passwords : Login(w, u, p)
    BY <1>7, <2>1 DEF Login, Goto, table, TypeInv, TypeOK, Editing
  <2>2. CASE \E w \in Workers : IssueLogin(w) \/ RecordToken(w)
    BY <1>7, <2>2 DEF IssueLogin, RecordToken, Goto, Finish, table, TypeInv, TypeOK, Editing
  <2>3. CASE \E w \in Workers, t \in Uuids, days \in {None, 0, 1} : NewToken(w, t, days)
    BY <1>7, <2>3 DEF NewToken, Goto, table, TypeInv, TypeOK, Editing
  <2> QED  BY <1>8, <2>1, <2>2, <2>3
<1>9. CASE \/ \E t \in Uuids : DeleteToken(t)
           \/ \E t \in issued : Expire(t)
           \/ \E p \in Passwords : Start(p)
           \/ \E s \in Secrets : SetSecret(s)
           \/ Crash \/ UNCHANGED vars
  BY <1>7, <1>9 DEF DeleteToken, Expire, SetSecret, Start, Crash, vars, Editing
<1> QED
  BY <1>1, <1>2, <1>3, <1>4, <1>5, <1>6, <1>8, <1>9
  DEF Next, Handle, DeleteUser, UpdatePassword

-----------------------------------------------------------------------------
(* The refinement of Directory *)

(* What Account and Changing say of a user, case by case.                  *)
LEMMA AccountOf ==
  EditInv => \A u \in Names :
    /\ Exists(u) => Account[u] = users[u].password /\ u \notin Changing
    /\ \A w \in Workers : pc[w] = "add" /\ req[w].user = u =>
          Account[u] = req[w].row.password /\ u \in Changing
    /\ (\A w \in Workers : ~(pc[w] = "add" /\ req[w].user = u)) =>
          u \notin Changing /\ (~Exists(u) => Account[u] = None)
<1> SUFFICES ASSUME EditInv, NEW u \in Names
             PROVE  /\ Exists(u) => Account[u] = users[u].password /\ u \notin Changing
                    /\ \A w \in Workers : pc[w] = "add" /\ req[w].user = u =>
                          Account[u] = req[w].row.password /\ u \in Changing
                    /\ (\A w \in Workers : ~(pc[w] = "add" /\ req[w].user = u)) =>
                          u \notin Changing /\ (~Exists(u) => Account[u] = None)
  OBVIOUS
<1>1. Exists(u) => Editor(u) = {}
  BY DEF Editor, EditInv
<1>2. ASSUME NEW w \in Workers, pc[w] = "add", req[w].user = u
      PROVE  Editor(u) = {w} /\ ~Exists(u)
  BY <1>2 DEF Editor, EditInv, Editing
<1>3. (\A w \in Workers : ~(pc[w] = "add" /\ req[w].user = u)) => Editor(u) = {}
  BY DEF Editor
<1>4. \A w : (CHOOSE x \in {w} : TRUE) = w
  OBVIOUS
<1> QED BY <1>1, <1>2, <1>3, <1>4 DEF Account, Changing

LEMMA AccountOfNext ==
  ASSUME EditInv'
  PROVE  (\A u \in Names :
    /\ Exists(u) => Account[u] = users[u].password /\ u \notin Changing
    /\ \A w \in Workers : pc[w] = "add" /\ req[w].user = u =>
          Account[u] = req[w].row.password /\ u \in Changing
    /\ (\A w \in Workers : ~(pc[w] = "add" /\ req[w].user = u)) =>
          u \notin Changing /\ (~Exists(u) => Account[u] = None))'
  BY AccountOf, PTL

(* A user whose row and whose change, if any, a step leaves alone.         *)
LEMMA AccountStays ==
  ASSUME EditInv, EditInv', NEW u \in Names, users'[u] = users[u],
         \A x \in Workers :
            /\ (pc'[x] = "add" /\ req'[x].user = u) <=> (pc[x] = "add" /\ req[x].user = u)
            /\ pc[x] = "add" => req'[x].row = req[x].row
  PROVE  Account'[u] = Account[u] /\ (u \in Changing' <=> u \in Changing)
<1>1. CASE Exists(u)
  BY <1>1, AccountOf, AccountOfNext DEF Exists
<1>2. CASE \E x \in Workers : pc[x] = "add" /\ req[x].user = u
  BY <1>2, AccountOf, AccountOfNext
<1>3. CASE ~Exists(u) /\ \A x \in Workers : ~(pc[x] = "add" /\ req[x].user = u)
  BY <1>3, AccountOf, AccountOfNext DEF Exists
<1> QED BY <1>1, <1>2, <1>3

(* A step that leaves all users but one alone.                             *)
LEMMA OthersStay ==
  ASSUME EditInv, EditInv', NEW u \in Names,
         \A v \in Names : v # u => users'[v] = users[v],
         \A x \in Workers : \A v \in Names : v # u =>
            /\ (pc'[x] = "add" /\ req'[x].user = v) <=> (pc[x] = "add" /\ req[x].user = v)
            /\ pc[x] = "add" /\ req[x].user = v => req'[x].row = req[x].row
  PROVE  /\ Account' = [Account EXCEPT ![u] = Account'[u]]
         /\ Changing' \ {u} = Changing \ {u}
<1>1. ASSUME NEW v \in Names, v # u
      PROVE  Account'[v] = Account[v] /\ (v \in Changing' <=> v \in Changing)
  <2>1. CASE Exists(v)
    BY <1>1, <2>1, AccountOf, AccountOfNext DEF Exists
  <2>2. CASE \E x \in Workers : pc[x] = "add" /\ req[x].user = v
    BY <1>1, <2>2, AccountOf, AccountOfNext
  <2>3. CASE ~Exists(v) /\ \A x \in Workers : ~(pc[x] = "add" /\ req[x].user = v)
    BY <1>1, <2>3, AccountOf, AccountOfNext DEF Exists
  <2> QED BY <2>1, <2>2, <2>3
<1>2. /\ Account = [v \in Names |-> Account[v]] /\ Account' = [v \in Names |-> Account'[v]]
      /\ Changing \subseteq Names /\ Changing' \subseteq Names
  BY DEF Account, Changing
<1> HIDE DEF Account, Changing
<1>3. [Account EXCEPT ![u] = Account'[u]]
         = [v \in Names |-> IF v = u THEN Account'[u] ELSE Account[v]]
  BY <1>2
<1>4. Account' = [v \in Names |-> IF v = u THEN Account'[u] ELSE Account[v]]
  BY <1>1, <1>2
<1> QED BY <1>1, <1>2, <1>3, <1>4

LEMMA BookStep ==
  ASSUME TakeTurns, TypeInv, AdminInv, EditInv, EditInv', [Next]_vars
  PROVE  [Book!Next]_(Book!vars)
<1> USE DEF boot, table
<1>0. /\ TypeOK /\ IdsDiffer /\ Names \subseteq Users
      /\ \A v \in Names : v # Admin
      /\ \A x \in Workers : pc[x] \in Editing =>
            req[x].user \in Names /\ req[x].row \in Row /\ phase = "up"
      /\ \A x \in Workers : pc[x] = "add" => pc[x] \in Editing
      /\ \A v \in Users : Exists(v) => users[v].password \in Passwords /\ users[v] # None
  BY AccountConstants DEF Users, EditInv, TypeInv, Prepared, Editing, TypeOK, Exists, Row
<1>1. ASSUME NEW w \in Workers, NEW u \in Users, NEW p \in Passwords, AddUser(w, u, p)
      PROVE  Book!Next
  <2>1. /\ u \in Names /\ ~Exists(u) /\ UNCHANGED <<pc, req>>
        /\ \A x \in Workers : pc[x] = "add" => req[x].user # u
    BY <1>0, <1>1 DEF AddUser, Ready, AdminInv, AdminCanLogIn, Exists, MayEdit, Edits, Editing,
                      Users
  <2>2. /\ Exists(u)' /\ users'[u].password = p
        /\ \A v \in Users : v # u => users'[v] = users[v]
    BY <1>0, <1>1, InsertNew DEF AddUser
  <2>3. Account[u] = None /\ u \notin Changing /\ Account'[u] = p /\ u \notin Changing'
    BY <2>1, <2>2, AccountOf, AccountOfNext
  <2>4. Account' = [Account EXCEPT ![u] = Account'[u]] /\ Changing' \ {u} = Changing \ {u}
    BY <1>0, <2>1, <2>2, OthersStay
  <2>5. Account' = [Account EXCEPT ![u] = p] /\ Changing' = Changing
    BY <2>3, <2>4
  <2>6. Book!Add(u, p)
    BY <2>3, <2>5 DEF Book!Add
  <2> QED BY <2>1, <2>6 DEF Book!Next
<1>2. ASSUME NEW w \in Workers, DeleteRow(w) PROVE Book!Next
  <2> DEFINE u == req[w].user
  <2>1. /\ \A v \in Users : v # u => users'[v] = users[v]
        /\ users'[u] = None /\ u \in Names /\ users[u] = req[w].row /\ Exists(u)
    BY <1>2, DeletesOne
  <2>2. /\ \A x \in Workers : x # w => pc'[x] = pc[x] /\ req'[x] = req[x]
        /\ pc[w] = "delete" /\ \A x \in Workers : x # w /\ pc[x] = "add" => req[x].user # u
    BY <1>0, <1>2 DEF DeleteRow, Goto, Finish, TypeOK, EditInv, Editing
  <2>3. /\ Account[u] = users[u].password /\ u \notin Changing
        /\ Account[u] # None
    BY <1>0, <2>1, AccountOf, AccountConstants
  <2>4. CASE req[w].op = "change"
    <3>1. pc'[w] = "add" /\ req'[w] = req[w]
      BY <1>0, <1>2, <2>4 DEF DeleteRow, Goto, TypeOK
    <3>2. Account'[u] = Account[u] /\ u \in Changing'
      BY <2>1, <2>3, <3>1, AccountOfNext
    <3>3. Account' = [Account EXCEPT ![u] = Account'[u]] /\ Changing' \ {u} = Changing \ {u}
      BY <1>0, <2>1, <2>2, <3>1, OthersStay
    <3>4. Account' = Account
      BY <3>2, <3>3 DEF Account
    <3>5. Changing' = Changing \cup {u}
      BY <3>2, <3>3
    <3>6. Book!BeginChange(u)
      BY <2>3, <3>4, <3>5 DEF Book!BeginChange
    <3> QED BY <2>1, <3>6 DEF Book!Next
  <2>5. CASE req[w].op # "change"
    <3>1. pc'[w] = "idle"
      BY <1>0, <1>2, <2>5 DEF DeleteRow, Finish, Goto, TypeOK
    <3>2. Account'[u] = None /\ u \notin Changing'
      BY <2>1, <2>2, <3>1, AccountOfNext DEF Exists
    <3>3. Account' = [Account EXCEPT ![u] = Account'[u]] /\ Changing' \ {u} = Changing \ {u}
      BY <1>0, <2>1, <2>2, <3>1, OthersStay
    <3>4. Account' = [Account EXCEPT ![u] = None] /\ Changing' = Changing
      BY <2>3, <3>2, <3>3
    <3>5. Book!Remove(u)
      BY <2>3, <3>4 DEF Book!Remove
    <3> QED BY <2>1, <3>5 DEF Book!Next
  <2> QED BY <2>4, <2>5
<1>3. ASSUME NEW w \in Workers, AddAgain(w) PROVE Book!Next
  <2>0. PICK u, p : u = req[w].user /\ p = req[w].password
    OBVIOUS
  <2>1. pc[w] = "add" /\ u \in Names /\ p \in Passwords /\ ~Exists(u)
    BY <1>3, <2>0 DEF AddAgain, TypeInv, Prepared, EditInv
  <2>2. /\ Exists(u)' /\ users'[u].password = p
        /\ \A v \in Users : v # u => users'[v] = users[v]
    BY <1>0, <1>3, <2>0, <2>1, InsertNew DEF AddAgain
  <2>3. /\ \A x \in Workers : x # w => pc'[x] = pc[x] /\ req'[x] = req[x]
        /\ pc'[w] = "idle"
    BY <1>0, <1>3 DEF AddAgain, Goto, Finish, TypeOK
  <2>4. u \in Changing /\ u \notin Changing' /\ Account'[u] = p
    BY <2>0, <2>1, <2>2, <2>3, AccountOf, AccountOfNext
  <2>5. Account' = [Account EXCEPT ![u] = Account'[u]] /\ Changing' \ {u} = Changing \ {u}
    BY <1>0, <2>0, <2>1, <2>2, <2>3, OthersStay
  <2>6. Account' = [Account EXCEPT ![u] = p] /\ Changing' = Changing \ {u}
    BY <2>4, <2>5
  <2>7. Book!EndChange(u, p)
    BY <2>4, <2>6 DEF Book!EndChange
  <2> QED BY <2>1, <2>7 DEF Book!Next
<1>4. CASE Crash
  <2>1. /\ UNCHANGED users /\ \A x \in Workers : pc'[x] = "idle"
    BY <1>4 DEF Crash
  <2>2. \A v \in Names : v \notin Changing'
    BY <2>1, AccountOfNext
  <2>3. Changing' = {}
    BY <2>2 DEF Changing
  <2>4. ASSUME NEW v \in Names
        PROVE  Account'[v] = Account[v] \/ (v \in Changing /\ Account'[v] = None)
    <3>1. CASE Exists(v)
      BY <2>1, <3>1, AccountOf, AccountOfNext DEF Exists
    <3>2. CASE ~Exists(v) /\ \E x \in Workers : pc[x] = "add" /\ req[x].user = v
      BY <2>1, <3>2, AccountOf, AccountOfNext DEF Exists
    <3>3. CASE ~Exists(v) /\ \A x \in Workers : ~(pc[x] = "add" /\ req[x].user = v)
      BY <2>1, <3>3, AccountOf, AccountOfNext DEF Exists
    <3> QED BY <3>1, <3>2, <3>3
  <2> QED BY <2>3, <2>4 DEF Book!Next, Book!Crash
<1>5. ASSUME \A v \in Names : users'[v] = users[v],
             \A x \in Workers :
                /\ pc'[x] = "add" <=> pc[x] = "add"
                /\ pc[x] = "add" => req'[x] = req[x]
      PROVE  UNCHANGED Book!vars
  <2>1. \A v \in Names : Account'[v] = Account[v] /\ (v \in Changing' <=> v \in Changing)
    BY <1>5, AccountStays
  <2>2. Account' = Account
    BY <2>1 DEF Account
  <2>3. Changing' = Changing
    BY <2>1 DEF Changing
  <2> QED BY <2>2, <2>3 DEF Book!vars
<1>6. CASE \E w \in Workers :
              \/ \E u \in Users, op \in {"delete", "change"}, p \in Passwords \cup {None} :
                    ReadRow(w, u, op, p)
              \/ \E u \in Users, p \in Passwords : Login(w, u, p)
              \/ IssueLogin(w) \/ RecordToken(w)
              \/ \E t \in Uuids, days \in {None, 0, 1} : NewToken(w, t, days)
  <2>1. PICK w \in Workers :
          /\ pc[w] # "add" /\ UNCHANGED users
          /\ \E step, r : step # "add" /\ Goto(w, step, r)
    BY <1>6 DEF ReadRow, Login, Ready, IssueLogin, RecordToken, NewToken, Finish
  <2>2. PICK step, r : step # "add" /\ Goto(w, step, r)
    BY <2>1
  <2>3. ASSUME NEW x \in Workers
        PROVE  (pc'[x] = "add" <=> pc[x] = "add") /\ (pc[x] = "add" => req'[x] = req[x])
    BY <1>0, <2>1, <2>2 DEF Goto, TypeOK
  <2>4. \A v \in Names : users'[v] = users[v]
    BY <2>1
  <2> QED BY <1>5, <2>3, <2>4
<1>7. CASE \/ \E t \in Uuids : DeleteToken(t)
           \/ \E t \in issued : Expire(t)
           \/ \E p \in Passwords : Start(p)
           \/ \E s \in Secrets : SetSecret(s)
           \/ UNCHANGED vars
  BY <1>5, <1>7 DEF DeleteToken, Expire, SetSecret, Start, vars
<1>8. CASE DropAdmin
  BY <1>0, <1>5, <1>8 DEF DropAdmin, TypeOK
<1>9. CASE AddAdmin
  <2>1. given \in Passwords /\ ~Exists(Admin) /\ Admin \in Users
    BY <1>9 DEF AddAdmin, AdminInv, TypeInv, TypeOK, Started, Users
  <2>2. \A v \in Users : v # Admin => users'[v] = users[v]
    BY <1>0, <1>9, <2>1, InsertNew DEF AddAdmin
  <2> QED BY <1>0, <1>5, <1>9, <2>2 DEF AddAdmin
<1> QED
  BY <1>1, <1>2, <1>3, <1>4, <1>6, <1>7, <1>8, <1>9
  DEF Next, Handle, DeleteUser, UpdatePassword

(* Users come, change and go one at a time as Directory says, and only a   *)
(* crash in the middle of a change loses one. (admin_api, auth_db)         *)
THEOREM DirectoryIsImplemented ==
  ASSUME TakeTurns PROVE Spec => ImplementsDirectory
<1>1. Init => AdminInv /\ EditInv
  BY DEF Init, AdminInv, AdminCanLogIn, EditInv, IdsDiffer, Exists, Editing
<1>2. Init => Book!Init
  <2> SUFFICES ASSUME Init PROVE Book!Init
    OBVIOUS
  <2>1. \A v \in Users : ~Exists(v)
    BY DEF Init, Exists
  <2>2. \A v \in Names : Editor(v) = {}
    BY DEF Init, Editor
  <2>3. Account = [v \in Names |-> None] /\ Changing = {}
    BY <2>1, <2>2 DEF Account, Changing, Users
  <2> QED BY <2>3 DEF Book!Init
<1>3. TypeInv /\ AdminInv /\ EditInv /\ [Next]_vars => EditInv'
  BY EditStep
<1>4. TypeInv /\ AdminInv /\ EditInv /\ EditInv' /\ [Next]_vars => [Book!Next]_(Book!vars)
  BY BookStep
<1> QED BY <1>1, <1>2, <1>3, <1>4, AdminStep, TypeInit, TypeStep, PTL
        DEF Spec, ImplementsDirectory, Book!Spec
=============================================================================
