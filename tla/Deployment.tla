----------------------------- MODULE Deployment -----------------------------
(***************************************************************************)
(* The service life cycle of the daeploy manager.  FastAPI runs every      *)
(* synchronous endpoint in a thread of its pool, so several requests are   *)
(* handled at once and interleave at every database session, docker call   *)
(* and proxy file.  A worker is one such thread.  The handlers are those   *)
(* of manager/routers/service_api.py: deploying a version (the endpoints   *)
(* ~git, ~tar, ~pickle and ~image share everything modelled here), killing *)
(* a version, and assigning the main version.                              *)
(*                                                                         *)
(* Four stores have to agree, and none of them shares a transaction with   *)
(* another: the database tables "services" and "tokens", the containers of *)
(* the docker host, and the files traefik routes by (one for each service, *)
(* one for each name, which mirrors the calls of the main to its shadows). *)
(*                                                                         *)
(* A session_scope that reads and then writes takes two steps: pysqlite    *)
(* opens a transaction at the first INSERT, UPDATE or DELETE, so what the  *)
(* SELECTs saw may be outdated at the commit.  The SELECTs of one session  *)
(* are one step.  Requests refused before they change anything (a name     *)
(* that is taken, a malformed tar file, a failed s2i build, a main with    *)
(* shadows) leave the state as it is and are not steps.                    *)
(***************************************************************************)
CONSTANTS
    Names, Versions,  \* of services
    Ports,            \* internal ports: with the name they make the url
    Tokens,           \* the uuids drawn for API tokens (bounds the deployments)
    Workers,          \* threads handling requests
    TakeTurns,        \* TRUE: clients have one request per name in flight
    UsersRevoke,      \* TRUE: users delete API tokens of services
    Crashes,          \* how the manager may stop: "process", "container"
    None

ASSUME DeploymentConstants ==
    /\ TakeTurns \in BOOLEAN
    /\ UsersRevoke \in BOOLEAN
    /\ Crashes \subseteq {"process", "container"}
    /\ None \notin Names \cup Versions \cup Ports \cup Tokens
                   \cup (Names \X Versions)

Service == Names \X Versions

VARIABLES
    services,     \* table "services": a set of records
    tokens,       \* table "tokens": the uuids of the live tokens
    container,    \* container[s]: the container of s on the docker host
    serviceFile,  \* serviceFile[s]: the port traefik routes /services/n_v to
    mirrorFile,   \* mirrorFile[n]: what traefik does with /services/n
    up,           \* the manager serves requests
    pc,           \* pc[w]: the next step of worker w
    req,          \* req[w]: the request w handles
    tok,          \* tok[w]: the uuid of the token w made for a deployment
    seen          \* seen[w]: the records the last session of w read

database == <<services, tokens>>
files == <<serviceFile, mirrorFile>>
local == <<pc, req, tok, seen>>
vars == <<database, container, files, up, local>>

Record == [name : Names, version : Versions, role : {"main", "shadow"},
           token : Tokens, url : Ports]
Container == [token : Tokens, url : Ports]
ASSUME NoContainer == None \notin Container
Mirror == [main : Versions \cup {None}, shadows : SUBSET Versions]
Request == [op : {"deploy", "kill", "assign"}, name : Names,
            version : Versions, port : Ports \cup {None}]

DeploySteps == {"token", "create", "add", "insert", "roles", "service_file"}
KillSteps == {"remove", "record", "revoke", "revoke_commit", "delete",
              "delete_commit", "unlink_service", "unlink_mirror"}
Steps == DeploySteps \cup KillSteps
         \cup {"assign_commit", "roles_left", "mirror_file"}

TypeOK ==
    /\ services \subseteq Record
    /\ tokens \subseteq Tokens
    /\ container \in [Service -> Container \cup {None}]
    /\ serviceFile \in [Service -> Ports \cup {None}]
    /\ mirrorFile \in [Names -> Mirror \cup {None}]
    /\ up \in BOOLEAN
    /\ pc \in [Workers -> Steps \cup {"idle"}]
    /\ req \in [Workers -> Request \cup {None}]
    /\ tok \in [Workers -> Tokens \cup {None}]
    /\ seen \in [Workers -> SUBSET Record]
    /\ \A w \in Workers :
        /\ pc[w] # "idle" => up /\ req[w] \in Request
        /\ pc[w] \in DeploySteps => tok[w] \in Tokens /\ req[w].port \in Ports

-----------------------------------------------------------------------------
(* Queries on the services table, and on what a session read of it. *)

RowsOf(n) == {r \in services : r.name = n}
Mains(rows) == {r \in rows : r.role = "main"}
Shadows(rows) == {r \in rows : r.role = "shadow"}
Matching(rows, v) == {r \in rows : r.version = v}
VersionsOf(rows) == {r.version : r \in rows}
TokensOf(rows) == {r.token : r \in rows}

(* More than one answer: get_main_service_record and get_service_record    *)
(* raise a DatabaseConflictException.                                      *)
Conflict(rows) == \E r, s \in rows : r # s

(* get_main_and_shadow_versions, when it does not raise. *)
MirrorOf(rows) ==
    [main |-> IF Mains(rows) = {} THEN None
                                  ELSE (CHOOSE r \in Mains(rows) : TRUE).version,
     shadows |-> VersionsOf(Shadows(rows))]

(* The role add_new_service_record gives to a new record. *)
MutantRoleFor(rows) == "main"
RoleFor(rows) == IF Mains(rows) = {} THEN "main" ELSE "shadow"

(* The guard of kill_service. *)
MayKill(rows, v) == MirrorOf(rows).main = v => Shadows(rows) = {}

(* Only a name with a main gets its mirror file back after a kill. *)
MutantMirrorLeft(rows) == ~Conflict(Mains(rows)) /\ Shadows(rows) # {}
MutantMirrorAlways(rows) == ~Conflict(Mains(rows))
MirrorLeft(rows) == ~Conflict(Mains(rows)) /\ Mains(rows) # {}

Target(w) == <<req[w].name, req[w].version>>
OwnRows(w) == RowsOf(req[w].name)
MutantOwnRecord(w) == OwnRows(w)
OwnRecord(w) == Matching(OwnRows(w), req[w].version)

-----------------------------------------------------------------------------
Init ==
    /\ services = {}
    /\ tokens = {}
    /\ container = [s \in Service |-> None]
    /\ serviceFile = [s \in Service |-> None]
    /\ mirrorFile = [n \in Names |-> None]
    /\ up = TRUE
    /\ pc = [w \in Workers |-> "idle"]
    /\ req = [w \in Workers |-> None]
    /\ tok = [w \in Workers |-> None]
    /\ seen = [w \in Workers |-> {}]

Goto(w, step) == pc' = [pc EXCEPT ![w] = step]

(* Mutation: all threads read through the same session. *)
MutantRemember(w, rows) == seen' = [x \in Workers |-> rows]
Remember(w, rows) == seen' = [seen EXCEPT ![w] = rows]

(* The handler returns or raises: the thread goes back to its pool. *)
Finish(w) ==
    /\ Goto(w, "idle")
    /\ req' = [req EXCEPT ![w] = None]
    /\ tok' = [tok EXCEPT ![w] = None]
    /\ seen' = [seen EXCEPT ![w] = {}]

(* The handlers take no lock; that two requests for a name do not overlap  *)
(* is up to the clients.                                                   *)
MayStart(w, n) ==
    /\ up
    /\ pc[w] = "idle"
    /\ TakeTurns => \A x \in Workers : pc[x] # "idle" => req[x].name # n

(* uuid4 never repeats.  The uuid is drawn when the request is accepted,   *)
(* so that running out of Tokens holds up requests and never a handler.    *)
Fresh(t) ==
    /\ t \notin tokens
    /\ \A r \in services : r.token # t
    /\ \A s \in Service : container[s] # None => container[s].token # t
    /\ \A w \in Workers : tok[w] # t /\ \A r \in seen[w] : r.token # t

-----------------------------------------------------------------------------
(* Deploying a version *)

(* check_service_exists finds no container of that name. *)
StartDeploy(w, n, v, p) ==
    /\ MayStart(w, n)
    /\ container[<<n, v>>] = None
    /\ \E t \in Tokens : Fresh(t) /\ tok' = [tok EXCEPT ![w] = t]
    /\ Goto(w, "token")
    /\ req' = [req EXCEPT ![w] = [op |-> "deploy", name |-> n, version |-> v,
                                  port |-> p]]
    /\ UNCHANGED <<database, container, files, up, seen>>

NewApiToken(w) ==
    /\ pc[w] = "token"
    /\ tokens' = tokens \cup {tok[w]}
    /\ Goto(w, "create")
    /\ UNCHANGED <<services, container, files, up, req, tok, seen>>

(* docker refuses a container name that is in use. *)
CreateService(w) ==
    /\ pc[w] = "create"
    /\ container[Target(w)] = None
    /\ container' = [container EXCEPT ![Target(w)] =
                        [token |-> tok[w], url |-> req[w].port]]
    /\ Goto(w, "add")
    /\ UNCHANGED <<database, files, up, req, tok, seen>>

(* No image, bad run_args or a name in use: the token stays. *)
CreateServiceFails(w) ==
    /\ pc[w] = "create"
    /\ Finish(w)
    /\ UNCHANGED <<database, container, files, up>>

(* docker created the container and could not start it: it stays, too. *)
StartContainerFails(w) ==
    /\ pc[w] = "create"
    /\ container[Target(w)] = None
    /\ container' = [container EXCEPT ![Target(w)] =
                        [token |-> tok[w], url |-> req[w].port]]
    /\ Finish(w)
    /\ UNCHANGED <<database, files, up>>

IsRecorded(w) == OwnRecord(w) # {}

(* add_new_service_record, up to the commit.  A conflict (several mains,   *)
(* or the version is recorded already) is logged and the record left alone.*)
AddRecordRead(w) ==
    /\ pc[w] = "add"
    /\ IF Conflict(Mains(OwnRows(w))) \/ IsRecorded(w)
       THEN Goto(w, "roles") /\ UNCHANGED seen
       ELSE Goto(w, "insert") /\ Remember(w, OwnRows(w))
    /\ UNCHANGED <<database, container, files, up, req, tok>>

AddRecordCommit(w) ==
    /\ pc[w] = "insert"
    /\ services' = services \cup
           {[name |-> req[w].name, version |-> req[w].version,
             role |-> RoleFor(seen[w]),
             token |-> tok[w], url |-> req[w].port]}
    /\ Goto(w, "roles")
    /\ UNCHANGED <<tokens, container, files, up, req, tok, seen>>

ReadRoles(w) ==
    /\ pc[w] = "roles"
    /\ IF Conflict(Mains(OwnRows(w)))
       THEN Finish(w)
       ELSE Goto(w, "service_file") /\ Remember(w, OwnRows(w))
            /\ UNCHANGED <<req, tok>>
    /\ UNCHANGED <<database, container, files, up>>

MutantWriteServiceFile(w) ==
    /\ pc[w] = "service_file"
    /\ \E r \in OwnRecord(w) :
          serviceFile' = [serviceFile EXCEPT ![Target(w)] = r.url]
    /\ Goto(w, "mirror_file")
    /\ UNCHANGED <<database, container, mirrorFile, up, req, tok, seen>>

WriteServiceFile(w) ==
    /\ pc[w] = "service_file"
    /\ serviceFile' = [serviceFile EXCEPT ![Target(w)] = req[w].port]
    /\ Goto(w, "mirror_file")
    /\ UNCHANGED <<database, container, mirrorFile, up, req, tok, seen>>

(* The last step of every handler that ends well. *)
WriteMirror(w) ==
    /\ pc[w] = "mirror_file"
    /\ mirrorFile' = [mirrorFile EXCEPT ![req[w].name] = MirrorOf(seen[w])]
    /\ Finish(w)
    /\ UNCHANGED <<database, container, serviceFile, up>>

-----------------------------------------------------------------------------
(* Killing a version *)

(* The guard: a main with shadows is not killed. *)
StartKill(w, n, v) ==
    /\ MayStart(w, n)
    /\ ~Conflict(Mains(RowsOf(n)))
    /\ MayKill(RowsOf(n), v)
    /\ Goto(w, "remove")
    /\ req' = [req EXCEPT ![w] = [op |-> "kill", name |-> n, version |-> v,
                                  port |-> None]]
    /\ UNCHANGED <<database, container, files, up, tok, seen>>

(* The request ends with a 404 when docker does not know the container. *)
RemoveContainer(w) ==
    /\ pc[w] = "remove"
    /\ IF container[Target(w)] = None
       THEN Finish(w) /\ UNCHANGED container
       ELSE /\ container' = [container EXCEPT ![Target(w)] = None]
            /\ Goto(w, "record")
            /\ UNCHANGED <<req, tok, seen>>
    /\ UNCHANGED <<database, files, up>>

(* No record: the rest of the handler still runs.  Two: the request fails. *)
LookUp(w, next) ==
    /\ IF Conflict(OwnRecord(w))
       THEN Finish(w)
       ELSE /\ UNCHANGED <<req, tok>>
            /\ IF OwnRecord(w) = {}
               THEN Goto(w, "unlink_service") /\ UNCHANGED seen
               ELSE Goto(w, next) /\ Remember(w, OwnRecord(w))
    /\ UNCHANGED <<database, container, files, up>>

ReadRecord(w) == pc[w] = "record" /\ LookUp(w, "revoke")

(* delete_token raises a 410 when the token is gone already. *)
DeleteTokenRead(w) ==
    /\ pc[w] = "revoke"
    /\ IF TokensOf(seen[w]) \subseteq tokens
       THEN Goto(w, "revoke_commit") /\ UNCHANGED <<req, tok, seen>>
       ELSE Finish(w)
    /\ UNCHANGED <<database, container, files, up>>

(* Somebody else may have deleted it meanwhile: then this deletes nothing, *)
(* and says so in the log only.                                            *)
DeleteTokenCommit(w) ==
    /\ pc[w] = "revoke_commit"
    /\ tokens' = tokens \ TokensOf(seen[w])
    /\ Goto(w, "delete")
    /\ UNCHANGED <<services, container, files, up, req, tok, seen>>

DeleteRecordRead(w) == pc[w] = "delete" /\ LookUp(w, "delete_commit")

MutantDeleteRecordCommit(w) ==
    /\ pc[w] = "delete_commit"
    /\ services' = services \ OwnRows(w)
    /\ Goto(w, "unlink_service")
    /\ UNCHANGED <<tokens, container, files, up, req, tok, seen>>

(* By primary key: the token identifies the row, whatever its role is now. *)
DeleteRecordCommit(w) ==
    /\ pc[w] = "delete_commit"
    /\ services' = {r \in services : \A s \in seen[w] : r.token # s.token}
    /\ Goto(w, "unlink_service")
    /\ UNCHANGED <<tokens, container, files, up, req, tok, seen>>

MutantUnlinkServiceFile(w) ==
    /\ pc[w] = "unlink_service"
    /\ Goto(w, "unlink_mirror")
    /\ UNCHANGED <<database, container, files, up, req, tok, seen>>

UnlinkServiceFile(w) ==
    /\ pc[w] = "unlink_service"
    /\ serviceFile' = [serviceFile EXCEPT ![Target(w)] = None]
    /\ Goto(w, "unlink_mirror")
    /\ UNCHANGED <<database, container, mirrorFile, up, req, tok, seen>>

UnlinkMirror(w) ==
    /\ pc[w] = "unlink_mirror"
    /\ mirrorFile' = [mirrorFile EXCEPT ![req[w].name] = None]
    /\ Goto(w, "roles_left")
    /\ UNCHANGED <<database, container, serviceFile, up, req, tok, seen>>

(* Mutation: the name is routed again as after a deployment, by the routine *)
(* that writes the file of the service, too.                                *)
MutantRolesLeft(w) ==
    /\ pc[w] = "roles_left"
    /\ IF MirrorLeft(OwnRows(w))
       THEN Goto(w, "roles") /\ UNCHANGED <<req, tok, seen>>
       ELSE Finish(w)
    /\ UNCHANGED <<database, container, files, up>>

MutantReadRolesLeft(w) ==
    /\ pc[w] = "roles_left"
    /\ MirrorLeft(OwnRows(w))
    /\ Goto(w, "mirror_file")
    /\ UNCHANGED <<database, container, files, up, req, tok, seen>>

ReadRolesLeft(w) ==
    /\ pc[w] = "roles_left"
    /\ IF MirrorLeft(OwnRows(w))
       THEN Goto(w, "mirror_file") /\ Remember(w, OwnRows(w))
            /\ UNCHANGED <<req, tok>>
       ELSE Finish(w)
    /\ UNCHANGED <<database, container, files, up>>

-----------------------------------------------------------------------------
(* Assigning the main version *)

(* assign_main_version needs one old main and one record of the version. *)
StartAssign(w, n, v) ==
    /\ MayStart(w, n)
    /\ LET rows == RowsOf(n)
       IN /\ Mains(rows) # {} /\ ~Conflict(Mains(rows))
          /\ Matching(rows, v) # {} /\ ~Conflict(Matching(rows, v))
          /\ Remember(w, rows)
    /\ Goto(w, "assign_commit")
    /\ req' = [req EXCEPT ![w] = [op |-> "assign", name |-> n, version |-> v,
                                  port |-> None]]
    /\ UNCHANGED <<database, container, files, up, tok>>

(* What the two UPDATEs make of the rows of the table. *)
Reassigned(rows, old, new) ==
    {[r EXCEPT !.role = IF r.token \in new THEN "main"
                        ELSE IF r.token \in old THEN "shadow" ELSE @] : r \in rows}

MutantAssignCommit(w) ==
    /\ pc[w] = "assign_commit"
    /\ services' = Reassigned(services \cup seen[w], TokensOf(Mains(seen[w])),
                     TokensOf(Matching(seen[w], req[w].version)))
    /\ Goto(w, "roles_left")
    /\ UNCHANGED <<tokens, container, files, up, req, tok, seen>>

(* Two UPDATEs by primary key; a row that is gone makes the commit fail.   *)
(* A main assigned again changes nothing and updates nothing.              *)
AssignCommit(w) ==
    /\ pc[w] = "assign_commit"
    /\ LET old == TokensOf(Mains(seen[w]))
           new == TokensOf(Matching(seen[w], req[w].version))
       IN IF old = new \/ old \cup new \subseteq TokensOf(services)
          THEN /\ services' = IF old = new THEN services
                              ELSE Reassigned(services, old, new)
               /\ Goto(w, "roles_left")
               /\ UNCHANGED <<req, tok, seen>>
          ELSE Finish(w) /\ UNCHANGED services
    /\ UNCHANGED <<tokens, container, files, up>>

-----------------------------------------------------------------------------
(* Outside the service handlers *)

(* DELETE /auth/token: nothing keeps a user from revoking a service token. *)
RevokeToken(t) ==
    /\ UsersRevoke /\ up
    /\ t \in tokens
    /\ tokens' = tokens \ {t}
    /\ UNCHANGED <<services, container, files, up, local>>

Stop ==
    /\ up
    /\ up' = FALSE
    /\ pc' = [w \in Workers |-> "idle"]
    /\ req' = [w \in Workers |-> None]
    /\ tok' = [w \in Workers |-> None]
    /\ seen' = [w \in Workers |-> {}]
    /\ UNCHANGED <<database, container>>

NoFiles ==
    /\ serviceFile' = [s \in Service |-> None]
    /\ mirrorFile' = [n \in Names |-> None]

(* The process is killed: docker restarts the manager container as it was. *)
ProcessCrash == "process" \in Crashes /\ Stop /\ UNCHANGED files

(* The exit handler removes the proxy files, or the manager container is   *)
(* removed and created again; the database is on a volume of its own.      *)
ContainerCrash == "container" \in Crashes /\ Stop /\ NoFiles

NamesInDatabase == {r.name : r \in services}

(* recreate_proxy_configurations, before requests are served.  Files of    *)
(* services that are not in the database are not looked at.                *)
Startup ==
    /\ ~up
    /\ \A n \in Names : ~Conflict(Mains(RowsOf(n)))
    /\ up' = TRUE
    /\ serviceFile' \in
         {f \in [Service -> Ports \cup {None}] : \A s \in Service :
            LET rows == Matching(RowsOf(s[1]), s[2])
            IN IF rows = {} THEN f[s] = serviceFile[s]
                            ELSE \E r \in rows : f[s] = r.url}
    /\ mirrorFile' = [n \in Names |-> IF n \in NamesInDatabase
                                      THEN MirrorOf(RowsOf(n))
                                      ELSE mirrorFile[n]]
    /\ UNCHANGED <<database, container, local>>

(* A name with two mains: the exception ends the process, and its exit     *)
(* handler removes the files.                                              *)
StartupFails ==
    /\ ~up
    /\ \E n \in Names : Conflict(Mains(RowsOf(n)))
    /\ NoFiles
    /\ UNCHANGED <<database, container, up, local>>

-----------------------------------------------------------------------------
DeployStep(w) ==
    \/ NewApiToken(w) \/ CreateService(w) \/ CreateServiceFails(w)
    \/ StartContainerFails(w) \/ AddRecordRead(w) \/ AddRecordCommit(w)
    \/ ReadRoles(w) \/ WriteServiceFile(w) \/ WriteMirror(w)

KillStep(w) ==
    \/ RemoveContainer(w) \/ ReadRecord(w) \/ DeleteTokenRead(w)
    \/ DeleteTokenCommit(w) \/ DeleteRecordRead(w) \/ DeleteRecordCommit(w)
    \/ UnlinkServiceFile(w) \/ UnlinkMirror(w) \/ ReadRolesLeft(w)

Step(w) == DeployStep(w) \/ KillStep(w) \/ AssignCommit(w)

Accept(w) ==
    \E n \in Names, v \in Versions :
        \/ \E p \in Ports : StartDeploy(w, n, v, p)
        \/ StartKill(w, n, v)
        \/ StartAssign(w, n, v)

Next ==
    \/ \E w \in Workers : Accept(w) \/ Step(w)
    \/ \E t \in Tokens : RevokeToken(t)
    \/ ProcessCrash \/ ContainerCrash \/ Startup \/ StartupFails

(* A thread of the pool runs on (docker and s2i answer), and docker        *)
(* restarts the manager.  Nobody has to send requests, and nothing has to  *)
(* crash.                                                                  *)
Fairness == WF_vars(Startup) /\ \A w \in Workers : WF_vars(Step(w))

Spec == Init /\ [][Next]_vars
FairSpec == Spec /\ Fairness

-----------------------------------------------------------------------------
(* What a name looks like when no request for it is being handled *)

Quiet(n) == up /\ \A w \in Workers : pc[w] # "idle" => req[w].name # n

Exists(rows, v) == \E r \in rows : r.version = v

(* A name never has two main versions.  The main route, the guard of a     *)
(* kill and the restart of the manager all depend on it.                   *)
(* (add_new_service_record, assign_main_version)                           *)
OneMain == \A n \in Names : ~Conflict(Mains(RowsOf(n)))

(* A name with records has a main version: deployments, kills and          *)
(* assignments, interrupted anywhere, never leave shadows of nothing.      *)
(* (add_new_service_record, the guard of kill_service)                     *)
SomeMain == \A n \in Names : RowsOf(n) # {} => Mains(RowsOf(n)) # {}

(* A version is recorded once, although the table has no such constraint.  *)
(* (add_new_service_record)                                                *)
OneRecord == \A n \in Names, v \in Versions : ~Conflict(Matching(RowsOf(n), v))

(* While nobody works on a name, traefik has the routes of its records:    *)
(* one for each version, and one for the name that answers with the main   *)
(* and mirrors to exactly the shadows.  It holds after every handler,      *)
(* successful or not, and after every crash and restart.                   *)
RecordsAreRouted ==
    \A n \in Names : Quiet(n) /\ RowsOf(n) # {} =>
        /\ mirrorFile[n] = MirrorOf(RowsOf(n))
        /\ \A r \in RowsOf(n) : serviceFile[<<n, r.version>>] # None

(* The converse: traefik routes to nothing that is not in the database.    *)
(* It needs the files to be gone after a crash, since a restart overwrites *)
(* files and removes none.                                                 *)
RoutesAreRecorded ==
    \A n \in Names : Quiet(n) =>
        /\ mirrorFile[n] # None => RowsOf(n) # {}
        /\ \A v \in Versions : serviceFile[<<n, v>>] # None
                                 => Exists(RowsOf(n), v)

-----------------------------------------------------------------------------
(* Why OneMain, SomeMain and OneRecord hold when clients take turns *)

(* Tokens identify records and deployments: this one needs no turns. *)
TokensIdentify ==
    /\ \A r, s \in services : r.token = s.token => r = s
    /\ \A w \in Workers :
         pc[w] \in {"token", "create", "add", "insert"}
           => \A r \in services : r.token # tok[w]
    /\ \A w, x \in Workers : w # x /\ tok[w] # None => tok[w] # tok[x]

InTurn ==
    \A w, x \in Workers :
        pc[w] # "idle" /\ pc[x] # "idle" /\ req[w].name = req[x].name => w = x

(* What w read before is still so when w commits, and the guard of a kill  *)
(* holds up to the commit.                                                 *)
Current(w) ==
    /\ pc[w] = "insert" => seen[w] = OwnRows(w) /\ ~IsRecorded(w)
    /\ pc[w] \in {"remove", "record", "revoke", "revoke_commit", "delete",
                  "delete_commit"}
         => MayKill(OwnRows(w), req[w].version)
    /\ pc[w] = "delete_commit" => seen[w] = OwnRecord(w)
    /\ pc[w] = "assign_commit" =>
         /\ seen[w] = OwnRows(w)
         /\ Mains(seen[w]) # {}
         /\ Matching(seen[w], req[w].version) # {}

(* The state of the records under turns: the requests in flight are for    *)
(* different names, none of them acts on outdated records, and every name  *)
(* with records has exactly one main and each version once.                *)
(* (add_new_service_record, delete_service_record, assign_main_version)    *)
TurnsInv ==
    /\ TokensIdentify
    /\ InTurn
    /\ \A w \in Workers : Current(w)
    /\ OneMain
    /\ SomeMain
    /\ OneRecord

-----------------------------------------------------------------------------
(* Why a kill spares the other services, whether clients take turns or not *)

(* The token t belongs to s: in its record, in its container, or in the    *)
(* hands of a handler.                                                     *)
Uses(t, s) ==
    \/ \E r \in services : r.token = t /\ <<r.name, r.version>> = s
    \/ container[s] # None /\ container[s].token = t
    \/ \E w \in Workers :
         \/ pc[w] # "idle" /\ tok[w] = t /\ Target(w) = s
         \/ \E r \in seen[w] : r.token = t /\ <<r.name, r.version>> = s

(* No token belongs to two services, through outdated readings, vanished   *)
(* records and redeployments; and the token a kill is about to delete is   *)
(* one of the version it kills.  (start_service_from_image, kill_service)  *)
OneOwner ==
    /\ \A t \in Tokens, s, q \in Service : Uses(t, s) /\ Uses(t, q) => s = q
    /\ \A w \in Workers : pc[w] \in {"revoke", "revoke_commit"} =>
         \A r \in seen[w] : <<r.name, r.version>> = Target(w)
    /\ \A w \in Workers : pc[w] = "idle" => tok[w] = None

-----------------------------------------------------------------------------
(* What a step may never do *)

Ends(w) == pc[w] # "idle" /\ pc'[w] = "idle" /\ up'

(* A deployment answered "Accepted" is served: the container runs, it is   *)
(* in the database, its route leads to the url of this very container and  *)
(* the route of the name reaches it, as main or as shadow.                 *)
(* (start_service_from_image, new_service_configuration)                   *)
AcceptedIsServed ==
    [][\A w \in Workers :
         Ends(w) /\ pc[w] = "mirror_file" /\ req[w].op = "deploy" =>
           LET n == req[w].name
               v == req[w].version
           IN /\ container[<<n, v>>] # None
              /\ serviceFile[<<n, v>>] = container[<<n, v>>].url
              /\ Exists(services, v) /\ Exists(RowsOf(n), v)
              /\ v \in {mirrorFile'[n].main} \cup mirrorFile'[n].shadows]_vars

Gone(n, v) ==
    /\ container[<<n, v>>] = None
    /\ ~Exists(RowsOf(n), v)
    /\ serviceFile[<<n, v>>] = None
    /\ mirrorFile'[n] # None =>
         v \notin {mirrorFile'[n].main} \cup mirrorFile'[n].shadows

(* A kill that has removed its container ends, short of a crash of the     *)
(* manager, with the service gone from the database and from the proxy as  *)
(* well: it is never left half killed.  (kill_service)                     *)
KilledIsGone ==
    [][\A w \in Workers :
         Ends(w) /\ req[w].op = "kill" /\ pc[w] # "remove"
           => Gone(req[w].name, req[w].version)]_vars

(* The same, but for the kills that find their token gone: what a crash or *)
(* a failed request left behind of earlier deployments and kills does not  *)
(* keep a kill from cleaning up, unless the token is missing.              *)
(* (kill_service)                                                          *)
KillCleansUp ==
    [][\A w \in Workers :
         Ends(w) /\ req[w].op = "kill" /\ pc[w] \notin {"remove", "revoke"}
           => Gone(req[w].name, req[w].version)]_vars

(* An assignment ends with the version as the main one, in the database    *)
(* and in the route of the name, and the old main is mirrored as a shadow. *)
(* (assign_main_service)                                                   *)
AssignedIsMain ==
    [][\A w \in Workers :
         Ends(w) /\ req[w].op = "assign" =>
           LET n == req[w].name
           IN /\ Exists(Mains(RowsOf(n)), req[w].version)
              /\ mirrorFile'[n] = [main |-> req[w].version,
                   shadows |-> VersionsOf(RowsOf(n)) \ {req[w].version}]]_vars

(* A service keeps its credentials while its container runs: a handler     *)
(* takes no token from a container that stays, its own or another one.     *)
(* (kill_service deletes the token of the record, not of the container)    *)
TokenOutlivesContainer ==
    [][\A s \in Service :
         container[s] # None /\ container'[s] = container[s]
         /\ container[s].token \in tokens
           => container[s].token \in tokens']_vars

(* Killing a version takes the token of no other service, whatever runs at *)
(* the same time: a token is never shared by the records or containers of  *)
(* two services.  (new_api_token, kill_service)                            *)
KillSparesOthers ==
    [][\A w \in Workers, s \in Service :
         pc[w] = "revoke_commit" /\ pc'[w] = "delete" /\ container[s] # None
         /\ container[s].token \in tokens \ tokens' => s = Target(w)]_vars

(* A record that is gone stays gone: whatever a handler read before, its   *)
(* commit brings back no record that another request has deleted since;    *)
(* the only new records are those of deployments.                          *)
(* (assign_main_version, add_new_service_record)                           *)
NoResurrection ==
    [][\A r \in services' :
         \/ \E q \in services : q.token = r.token
         \/ \E w \in Workers : pc[w] = "insert" /\ tok[w] = r.token]_vars

-----------------------------------------------------------------------------
(* What has to happen *)

(* A manager that stopped serves again: no state that it can leave in the  *)
(* database keeps startup_event from completing.                           *)
ManagerRestarts == ~up ~> up

(* A recorded version gets its routes, or its record goes; the window in   *)
(* which a kill has removed the route of the whole name closes, too.       *)
RecordsGetRouted ==
    \A n \in Names, v \in Versions :
        Exists(RowsOf(n), v) ~>
            \/ ~Exists(RowsOf(n), v)
            \/ /\ serviceFile[<<n, v>>] # None
               /\ mirrorFile[n] # None
               /\ v \in {mirrorFile[n].main} \cup mirrorFile[n].shadows

-----------------------------------------------------------------------------
(* The services table seen through the eyes of a user: the catalog. *)

C == INSTANCE Catalog WITH
       versions <- [n \in Names |-> VersionsOf(RowsOf(n))],
       main <- [n \in Names |-> MirrorOf(RowsOf(n)).main]

(* Every handler changes the catalog in at most one step, the one that     *)
(* commits, and that step adds a version, removes a shadow or a last       *)
(* version, or promotes a version.                                         *)
ImplementsCatalog == C!Spec

=============================================================================
