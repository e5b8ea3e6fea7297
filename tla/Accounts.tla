------------------------------ MODULE Accounts ------------------------------
(***************************************************************************)
(* Users, API tokens and the secret they are signed with: the handlers of  *)
(* manager/routers/admin_api.py and auth_api.py over the tables users,     *)
(* tokens and config, and what the start of the manager does to them       *)
(* (database.initialize_db).                                               *)
(*                                                                         *)
(* A session reads outside of a transaction and opens one for its first    *)
(* write, so a read and the delete that follows are two steps.  SQLite     *)
(* gives a new row the number behind the largest one in the table.         *)
(***************************************************************************)
EXTENDS Naturals

CONSTANTS
    Names,      \* the users an administrator may add
    Admin,      \* "admin"
    Passwords,
    Secrets,    \* results of os.urandom
    Uuids,      \* results of uuid4
    Workers,    \* threads handling requests
    TakeTurns,  \* TRUE: nobody deletes or changes a user somebody else changes
    MaxId,      \* bound: no row gets a larger number
    MaxStarts,  \* bound: the manager starts so often
    None

Users == Names \cup {Admin}
Row == [id : Nat, password : Passwords]
Token == [id : Users \cup Uuids, secret : Secrets, expires : BOOLEAN]
Request == [op : {"none", "delete", "change", "login", "token"},
            user : Users \cup Uuids \cup {None}, password : Passwords \cup {None},
            row : Row \cup {None}, expires : BOOLEAN]
NoRequest == [op |-> "none", user |-> None, password |-> None, row |-> None,
              expires |-> FALSE]

ASSUME AccountConstants ==
    /\ Admin \notin Names
    /\ Users \cap Uuids = {}
    /\ None \notin Row /\ None \notin Passwords /\ None \notin Secrets
    /\ TakeTurns \in BOOLEAN
    /\ MaxId \in Nat /\ MaxStarts \in Nat

VARIABLES
    phase,    \* where the manager is between its start and its end
    starts,   \* how often it started
    given,    \* DAEPLOY_ADMIN_PASSWORD of this start
    users,    \* users[u]: the row of u, or None
    secret,   \* JWT_TOKEN_SECRET, or None
    tokens,   \* the uuids in the table of tokens
    issued,   \* the tokens that were handed out and did not expire
    revoked,  \* the uuids that were deleted
    pc,       \* pc[w]: the next step of worker w
    req       \* req[w]: the request w handles

boot == <<phase, starts, given>>
table == <<users, secret, tokens>>
vars == <<boot, table, issued, revoked, pc, req>>

Phases == {"off", "secret", "drop", "admin", "up"}
Steps == {"idle", "delete", "add", "issue", "record"}

TypeOK ==
    /\ phase \in Phases
    /\ starts \in Nat
    /\ given \in Passwords \cup {None}
    /\ users \in [Users -> Row \cup {None}]
    /\ secret \in Secrets \cup {None}
    /\ tokens \in SUBSET Uuids
    /\ issued \in SUBSET Token
    /\ revoked \in SUBSET Uuids
    /\ pc \in [Workers -> Steps]
    /\ req \in [Workers -> Request]

Init ==
    /\ phase = "off" /\ starts = 0 /\ given = None
    /\ users = [u \in Users |-> None]
    /\ secret = None
    /\ tokens = {} /\ issued = {} /\ revoked = {}
    /\ pc = [w \in Workers |-> "idle"]
    /\ req = [w \in Workers |-> NoRequest]

-----------------------------------------------------------------------------
(* Helpers *)

Exists(u) == users[u] # None
Ids == {users[u].id : u \in {v \in Users : Exists(v)}}
IsNext(i) == (\A j \in Ids : j < i) /\ (i = 1 \/ i - 1 \in Ids)
Insert(u, p) ==
    \E i \in 1..MaxId :
        IsNext(i) /\ users' = [users EXCEPT ![u] = [id |-> i, password |-> p]]

(* DELETE ... WHERE id = ?, which may be nobody's number any more. *)
WithoutRow(i) == [v \in Users |-> IF Exists(v) /\ users[v].id = i THEN None ELSE users[v]]

Edits(w, u) == pc[w] \in {"delete", "add"} /\ req[w].user = u
MayEdit(u) == TakeTurns => \A w \in Workers : ~Edits(w, u)

Goto(w, step, r) ==
    /\ pc' = [pc EXCEPT ![w] = step]
    /\ req' = [req EXCEPT ![w] = r]
Finish(w) == Goto(w, "idle", NoRequest)

Ready(w) == phase = "up" /\ pc[w] = "idle"
-----------------------------------------------------------------------------
(* admin_api *)

(* Mutation: a user that is there is replaced. *)
MutantAddUser(w, u, p) ==
    /\ Ready(w) /\ MayEdit(u)
    /\ Insert(u, p)
    /\ UNCHANGED <<boot, secret, tokens, issued, revoked, pc, req>>

(* The column name is unique: adding a user again is refused, as is every  *)
(* change of the admin; what is refused leaves no trace.                   *)
AddUser(w, u, p) ==
    /\ Ready(w) /\ MayEdit(u)
    /\ ~Exists(u)
    /\ Insert(u, p)
    /\ UNCHANGED <<boot, secret, tokens, issued, revoked, pc, req>>

(* Mutation: the admin is a user as any other. *)
MutantAdminRow(w, u, op, p) ==
    /\ Ready(w) /\ MayEdit(u)
    /\ Exists(u)
    /\ Goto(w, "delete", [op |-> op, user |-> u, password |-> p,
                          row |-> users[u], expires |-> FALSE])
    /\ UNCHANGED <<boot, table, issued, revoked>>

(* Mutation: the query for the row forgets to filter by the name. *)
MutantAnyRow(w, u, op, p) ==
    /\ Ready(w) /\ MayEdit(u)
    /\ u # Admin
    /\ \E v \in Users :
          /\ Exists(v)
          /\ Goto(w, "delete", [op |-> op, user |-> u, password |-> p,
                                row |-> users[v], expires |-> FALSE])
    /\ UNCHANGED <<boot, table, issued, revoked>>

(* The first half of delete_user_record, of a request to delete u or to    *)
(* change its password. *)
ReadRow(w, u, op, p) ==
    /\ Ready(w) /\ MayEdit(u)
    /\ u # Admin
    /\ Exists(u)
    /\ Goto(w, "delete", [op |-> op, user |-> u, password |-> p,
                          row |-> users[u], expires |-> FALSE])
    /\ UNCHANGED <<boot, table, issued, revoked>>

DeleteUser(w, u) == ReadRow(w, u, "delete", None)
UpdatePassword(w, u, p) == ReadRow(w, u, "change", p)

(* The second half, which the request to delete ends with. *)
DeleteRow(w) ==
    /\ pc[w] = "delete"
    /\ users' = WithoutRow(req[w].row.id)
    /\ IF req[w].op = "change" THEN Goto(w, "add", req[w]) ELSE Finish(w)
    /\ UNCHANGED <<boot, secret, tokens, issued, revoked>>

(* The call of add_user in update_password *)
AddAgain(w) ==
    /\ pc[w] = "add"
    /\ IF Exists(req[w].user) THEN UNCHANGED users
       ELSE Insert(req[w].user, req[w].password)
    /\ Finish(w)
    /\ UNCHANGED <<boot, secret, tokens, issued, revoked>>

-----------------------------------------------------------------------------
(* auth_api *)

(* Who gives the password of the record gets a token. *)
Login(w, u, p) ==
    /\ Ready(w)
    /\ Exists(u) /\ users[u].password = p
    /\ Goto(w, "issue", [NoRequest EXCEPT !.op = "login", !.user = u, !.expires = TRUE])
    /\ UNCHANGED <<boot, table, issued, revoked>>

Signed(w) == [id |-> req[w].user, secret |-> secret, expires |-> req[w].expires]

IssueLogin(w) ==
    /\ pc[w] = "issue" /\ req[w].op = "login"
    /\ issued' = issued \cup {Signed(w)}
    /\ Finish(w)
    /\ UNCHANGED <<boot, table, revoked>>

(* A uuid is drawn once; a token for no days at all never expires. *)
NewToken(w, t, days) ==
    /\ Ready(w)
    /\ t \notin tokens \cup revoked
    /\ \A x \in Workers : req[x].user # t
    /\ Goto(w, "record", [NoRequest EXCEPT !.op = "token", !.user = t,
                                           !.expires = days \notin {None, 0}])
    /\ UNCHANGED <<boot, table, issued, revoked>>

RecordToken(w) ==
    /\ pc[w] = "record"
    /\ tokens' = tokens \cup {req[w].user}
    /\ issued' = issued \cup {Signed(w)}
    /\ Finish(w)
    /\ UNCHANGED <<boot, users, secret, revoked>>

DeleteToken(t) ==
    /\ phase = "up"
    /\ t \in tokens
    /\ tokens' = tokens \ {t}
    /\ revoked' = revoked \cup {t}
    /\ UNCHANGED <<boot, users, secret, issued, pc, req>>

(* verify_request *)
Verifies(t) ==
    /\ t.secret = secret
    /\ ~t.expires => t.id \in tokens

Expire(t) ==
    /\ t \in issued /\ t.expires
    /\ issued' = issued \ {t}
    /\ UNCHANGED <<boot, table, revoked, pc, req>>

-----------------------------------------------------------------------------
(* initialize_db, between a start and the first request *)

Start(p) ==
    /\ phase = "off"
    /\ starts < MaxStarts
    /\ phase' = "secret"
    /\ starts' = starts + 1
    /\ given' = p
    /\ UNCHANGED <<table, issued, revoked, pc, req>>

(* Mutation: every start makes a new secret. *)
MutantNewSecret(s) ==
    /\ phase = "secret"
    /\ phase' = "drop"
    /\ secret' = s
    /\ UNCHANGED <<starts, given, users, tokens, issued, revoked, pc, req>>

SetSecret(s) ==
    /\ phase = "secret"
    /\ phase' = "drop"
    /\ secret' = IF secret = None THEN s ELSE secret
    /\ UNCHANGED <<starts, given, users, tokens, issued, revoked, pc, req>>

DropAdmin ==
    /\ phase = "drop"
    /\ phase' = "admin"
    /\ users' = [users EXCEPT ![Admin] = None]
    /\ UNCHANGED <<starts, given, secret, tokens, issued, revoked, pc, req>>

AddAdmin ==
    /\ phase = "admin"
    /\ phase' = "up"
    /\ Insert(Admin, given)
    /\ UNCHANGED <<starts, given, secret, tokens, issued, revoked, pc, req>>

Crash ==
    /\ phase # "off"
    /\ phase' = "off"
    /\ pc' = [w \in Workers |-> "idle"]
    /\ req' = [w \in Workers |-> NoRequest]
    /\ UNCHANGED <<starts, given, table, issued, revoked>>

Handle(w) ==
    \/ \E u \in Users, p \in Passwords : AddUser(w, u, p) \/ Login(w, u, p)
    \/ \E u \in Users : DeleteUser(w, u)
    \/ \E u \in Users, p \in Passwords : UpdatePassword(w, u, p)
    \/ DeleteRow(w) \/ AddAgain(w)
    \/ IssueLogin(w)
    \/ \E t \in Uuids, days \in {None, 0, 1} : NewToken(w, t, days)
    \/ RecordToken(w)

Next ==
    \/ \E w \in Workers : Handle(w)
    \/ \E t \in Uuids : DeleteToken(t)
    \/ \E t \in issued : Expire(t)
    \/ \E p \in Passwords : Start(p)
    \/ \E s \in Secrets : SetSecret(s)
    \/ DropAdmin \/ AddAdmin \/ Crash

Spec == Init /\ [][Next]_vars

-----------------------------------------------------------------------------
(* Whenever the manager answers, the admin can log in with the password of *)
(* this start: after a crash in the middle of any earlier start, and       *)
(* whatever requests did to users.  (initialize_db, admin_api)             *)
AdminCanLogIn ==
    phase = "up" => users[Admin] # None /\ users[Admin].password = given

(* A token that was handed out is accepted until it expires or is revoked, *)
(* after any number of restarts.  (set_jwt_token_secret, new_api_token,    *)
(* login_user, verify_request)                                             *)
IssuedTokensVerify ==
    phase = "up" => \A t \in issued : Verifies(t) \/ t.id \in revoked

(* A request to delete or to change a user removes the row of that user    *)
(* and of nobody else: the number it read is still that user's.            *)
(* "Delete a user from the database ... username (str): Username of of     *)
(* user to be deleted"  (delete_user_record)                               *)
SparesOthers(w) ==
    DeleteRow(w) => \A v \in Users \ {req[w].user} : users'[v] = users[v]
DeletesSpareOthers == [][\A w \in Workers : SparesOthers(w)]_vars

Editor(u) == {w \in Workers : pc[w] = "add" /\ req[w].user = u}

(* Users as an administrator sees them: one whose password is being        *)
(* changed has the one it had. *)
Account ==
    [u \in Names |-> IF Exists(u) THEN users[u].password
                     ELSE IF Editor(u) # {}
                     THEN req[CHOOSE w \in Editor(u) : TRUE].row.password
                     ELSE None]
Changing == {u \in Names : Editor(u) # {}}

Book == INSTANCE Directory WITH account <- Account, changing <- Changing

(* Users come, change and go as an administrator says, one at a time, and  *)
(* only a crash while a password is changed may lose one.                  *)
(* (admin_api, auth_db)                                                    *)
ImplementsDirectory == Book!Spec
=============================================================================
