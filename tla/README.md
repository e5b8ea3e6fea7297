# Verification of daeploy

Daeploy hosts Python services.  A *manager* (FastAPI behind a traefik proxy)
builds an image for every deployed service, runs it as a docker container,
records it in an SQLite database and writes the files by which the proxy routes
to it.  An *SDK* runs inside the services, and a *command line interface* talks
to managers.  This directory holds TLA+ modules translated from that code, the
TLC configurations that check them on small instances, and proofs of the most
important properties for instances of every size.

    tlc -workers 2 -config DeploymentTwoNames.cfg MCDeployment.tla    # a run
    tlapm DeploymentProofs.tla                                        # proofs

## 1. Inventory

### Service life cycle — `manager/routers/service_api.py`, `manager/database/service_db.py`

* State: the table `services` (name, version, main, url, image, token_uuid),
  with an artificial primary key and no other constraint.
* Operations: `POST /services/~git, ~tar, ~image, ~pickle` (check that no such
  container exists, build an image, `start_service_from_image`,
  `new_service_configuration`), `DELETE /services/` (`kill_service`),
  `PUT /services/~assign` (`assign_main_service`), `GET /services/`
  (`read_services`, which compares containers and records), upload of images,
  logs and inspection.
* Interactions: one deployment makes an API token (table `tokens`), a container
  (docker), a record (table `services`) and two proxy files, each in a step of
  its own.  A kill undoes the five in another order.
* Hard: FastAPI runs the synchronous endpoints in a thread pool, and no handler
  takes a lock.  Every database session reads and then commits; every handler
  consists of several sessions with docker calls and file writes between them.
  An exception or a crash at any point leaves the rest undone, and nothing
  rolls back another store.
* Correct when: a name has one main version; a main is not killed while it has
  shadows; what is recorded is routed and what is answered "Accepted" is served;
  a kill leaves nothing behind and touches no other service; a restart
  reconstructs the routes.

### Proxy configuration — `manager/proxy.py`, `manager/app.py`

* State: one TOML file for each service (routers `/services/<name>_<version>`),
  one for each name (router `/services/<name>`, which calls the main and mirrors
  to the shadows), and a static configuration.
* Operations: write, overwrite and unlink; `recreate_proxy_configurations` at
  startup; an exit handler that removes the directory.
* Hard: the files are derived from the database at times when it may change;
  after a crash some of them are out of date.

### Runtime connector — `manager/runtime_connectors.py`

* State: containers and images of the docker host.
* Operations: `create_service` (a loop that looks for a free port, 295-344, and
  a thread that sets the restart policy after five seconds), `remove_service`,
  `service_logs`, image clean-up.
* Hard: the loop ends only on success or a docker error; when a port is taken
  the container is looked up again by its name and removed; the thread
  outlives the request that started it; other programs take and give back ports.
* Correct when: the search ends; it removes nothing that runs; a service that
  runs gets its restart policy.

### Users and authentication — `manager/routers/auth_api.py`, `admin_api.py`, `manager/database/auth_db.py`, `config_db.py`

* State: tables `auth` (users and password hashes) and `tokens` (uuids of long-lived
  tokens), the JWT secret, cookies held by clients.
* Operations: log in, log out, verify (called by traefik for every request),
  create and delete tokens, add and delete users, change a password.
* Hard: `update_password` deletes and adds the user in two transactions;
  `initialize_db` does the same with the admin user at every start; a row is
  read before the transaction that deletes it by its number begins.
* Correct when: users come, change and go as an administrator says; the admin
  can log in whenever the manager serves; what was handed out stays valid until
  it expires or is revoked, over restarts.

### Notifications — `manager/routers/notification_api.py`

* State: the dictionary `NOTIFICATIONS`, by hash: counter, time stamp and the
  time until which e-mails are frozen.
* Hard: handlers in several threads share the dictionary without a lock;
  `DELETE` clears it between two steps of another request.
* Correct when: counters count, and no two e-mails of one notification go out
  within its freeze time.

### Monitoring database of a service — `daeploy/_service/db.py`, `monitoring_api.py`, `service.py`

* State: a queue of values, a writer thread, one table for each variable in an
  SQLite file, the dictionary `TABLES` and the classes declared on `Base`, a
  lock, and the timer loop that cleans.
* Operations: `store` and `write_to_ts`, the writer loop, `clean_database`,
  `get_monitored_data_db` (a copy of the file), `initialize_db`, `remove_db`.
* Hard: `initialize_db` replaces the queue, the writer creates tables lazily in
  two steps, cleaning runs in one transaction over all tables while the writer
  adds to the dictionary it iterates over; it does not take the lock of the
  writer, but keeps it out of the file from its first DELETE to its commit.
* Correct when: what was stored is written and kept as long as the limit says;
  what the process believes to be there is there; cleaning goes on; a stop ends.

### Service runtime — `daeploy/_service/service.py`, `communication.py`, `utilities.py`

* State: parameters with their values, the entry points, the timers of `call_every`.
* Operations: `add_parameter` while the service is loading; setting a parameter,
  by `POST /~parameters/<name>` or `set_parameter` in any thread; a call of an
  entry point, which runs its function in a thread.  With `monitor=True` each
  of them stores what it did.
* Hard: the timer loop of `call_every` and what ends it; the value of a parameter,
  the time it is stored with and its place on the queue are set one after the
  other, in threads; a call stores two values with one time, which is a primary key.
* Correct when: the history of a parameter ends with the value it has; a response
  in the history can be told from those of other calls.

### Command line interface — `daeploy/cli/`

* State: `~/.config/daeploy/daeployconfig.json` with the active host and the tokens.
* Operations: `login`, `logout`, `deploy`, `assign`, `kill`, and commands that
  ask a manager something.
* Hard: every request reads the file again, login and logout write all of it
  back, and opening it to be written empties it; a kill of all versions is a
  sequence of requests, whose order matters, after a listing and a question.
* Correct when: the active host has a token; a login stays until its logout; a
  kill removes what it listed, where it was listed, mains last.

### No behaviour of their own

Dashboard and log streaming (they render what the other components return),
constants, templates, documentation and examples.

## 2. Modules

| Module | Models | Extends / instantiates |
| --- | --- | --- |
| `Catalog` | what a user is promised: a set of versions under each name, one of them main | – |
| `Deployment` | the service life cycle with its four stores, handlers, crashes and restarts; its properties | instantiates `Catalog` |
| `MCDeployment` | model values and the symmetry set of the runs | `Deployment`, `TLC` |
| `DeploymentProofs` | types, the invariant under turns; tokens and records under overlapping requests | `Deployment`, `TLAPS` |
| `DeploymentTurns` | under turns: `Deployment` implements `Catalog`, the files follow the records, what handlers have done when they end | `DeploymentProofs` |
| `Connector` | the containers of the docker host: the search for a port, the restart policy, removal | – |
| `MCConnector` | model values | `Connector` |
| `ConnectorProofs` | types; the search spares running containers; who sets the restart policy | `Connector`, `TLAPS` |
| `Directory` | what an administrator is promised about users | – |
| `Accounts` | users, tokens, the secret, and the start of the manager | instantiates `Directory` |
| `MCAccounts` | model values and the symmetry set | `Accounts`, `TLC` |
| `AccountsProofs` | types, the admin, tokens, deletions, the refinement of `Directory` | `Accounts`, `TLAPS` |
| `NoticeBoard` | what a reader of the dashboard is promised about notifications | – |
| `Notifications` | posting and clearing notifications in several threads; their properties | instantiates `NoticeBoard` |
| `MCNotifications` | model values and timers | `Notifications`, `TLC` |
| `NotificationsProofs` | types, freeze windows, counters | `Notifications`, `TLAPS` |
| `Journal` | what a service is promised about the values it stores | – |
| `Monitoring` | the queue, the writer, the cleaning, copies, start, stop and kill of a service | instantiates `Journal` |
| `MCMonitoring` | model values and the symmetry set | `Monitoring`, `TLC` |
| `MonitoringProofs` | types, tables, the refinement of `Journal`, what keeps the threads going | `Monitoring`, `TLAPS` |
| `Runtime` | parameters and monitored entry points of a service, and the history of both | – |
| `MCRuntime` | model values and the symmetry set | `Runtime`, `TLC` |
| `RuntimeProofs` | types, the order of a history, the pairs of calls, the refinement of `Journal` | `Runtime`, `TLAPS`; instantiates `Journal` |
| `Cli` | shells, the state file, and what commands do to managers | – |
| `MCCli` | model values and the symmetry set | `Cli`, `TLC` |
| `CliProofs` | types, the state file, kills, managers as catalogs | `Cli`, `TLAPS`; instantiates `Catalog` |

`Connector` takes apart what is one step of `Deployment` (`CreateService`,
`RemoveContainer`).  The other components meet in an abstract specification:
`Runtime` takes the database as a queue with rows behind it, `Monitoring` takes it apart,
and both are proved to implement `Journal`; `Cli` deals with each manager as
`Catalog` describes it (proved), which `Deployment` implements (proved).

### From `Deployment` to the code

| TLA+ | code |
| --- | --- |
| `services`, `tokens` | tables of `database.py`; a row of `services` is a record of name, version, role, token and url. The token identifies the row, as its primary key does |
| `container[s]` | the docker container `daeploy-<name>-<version>`: its token (in its environment) and its url |
| `serviceFile[s]`, `mirrorFile[n]` | the files of `proxy.py`; a mirror file is a main and a set of shadows |
| `up` | the manager is past `startup_event` |
| `pc`, `req`, `tok`, `seen` | for each worker thread: where it is, the arguments of its handler, the uuid it drew and what its last session read |
| `StartDeploy`, `NewApiToken`, `CreateService`, `AddRecordRead`, `AddRecordCommit`, `ReadRoles`, `WriteServiceFile`, `WriteMirror` | a deployment: `check_service_exists`, `new_api_token`, `create_service`, the two halves of `add_new_service_record`, `get_main_and_shadow_versions`, `create_new_service_configuration`, `create_mirror_configuration` |
| `CreateServiceFails`, `StartContainerFails` | docker refuses (name in use, no image, bad `run_args`), or creates and cannot start |
| `StartKill`, `RemoveContainer`, `ReadRecord`, `DeleteTokenRead`, `DeleteTokenCommit`, `DeleteRecordRead`, `DeleteRecordCommit`, `UnlinkServiceFile`, `UnlinkMirror`, `ReadRolesLeft`, `WriteMirror` | `kill_service`, line by line |
| `StartAssign`, `AssignCommit`, `ReadRolesLeft`, `WriteMirror` | `assign_main_service` |
| `RevokeToken` | `DELETE /auth/token/<uuid>` by a user |
| `ProcessCrash`, `ContainerCrash`, `Startup`, `StartupFails` | how the manager stops and what `startup_event` makes of what it finds |

Interleaving and atomicity:

* pysqlite opens a transaction at the first INSERT, UPDATE or DELETE.  A session
  that selects and then writes is therefore two steps: the read may be outdated
  at the commit.  A token that somebody else deletes in between is deleted again,
  which removes no row and raises nothing; only a token that is gone at the
  SELECT gives a 410.  The SELECTs of one session are one step (`LookUp`,
  `ReadRoles`), although each of them sees what is committed by then: with
  overlapping requests the rows they find may be of different moments.
* A docker call, a file write and an unlink are one step each.
* Requests that are refused before anything changes are not steps.
* `StartDeploy` draws the uuid.  The code draws it in `new_api_token`; drawing
  it earlier changes no behaviour, and the finite set `Tokens` then
  only delays requests and never stops a handler half way.
* `Startup` is one step: no request is served before it ends, and a crash in the
  middle is followed by another startup that writes the same files again.
* `ProcessCrash` keeps the files (the process is killed and docker restarts the
  container), `ContainerCrash` loses them (a graceful exit runs the exit handler;
  a recreated container starts empty; the database is on the volume `/data`).
* A token deleted by a kill, a row deleted by another request and a conflict all
  take the path the code takes: 410 and half a kill, a failed commit, an
  exception between two steps.

Abstracted: image building and its failures before `start_service_from_image`
(nothing has changed yet), removal of images, the contents of routers and
middlewares, logging, `run_args`.  SQLite may give a freed primary key to a
later row; the model never does.

### From `Notifications` to the code

| TLA+ | code |
| --- | --- |
| `notifications[k]` | the entry of `NOTIFICATIONS` for a hash: counter and `frozen_until` (`None`: the field is not there) |
| `mailed[k]` | when the last e-mail about the entry was submitted; the code keeps no record of it |
| `Register`, `Create`, `InitFrozen` | `register_notification` up to `notification.dict()`, up to `utcnow()`, and the last assignment |
| `TestFrozen`, `Send`, `ReadTime`, `StoreFrozen` | `notification_is_frozen`, the e-mail, and `update_freeze_time` before and after `utcnow()` |
| `Clear`, `Tick` | `delete_notifications` (the endpoint and the button of the dashboard), the passing of time |

The manager runs on CPython 3.12 (`Dockerfile`), whose interpreter switches threads
at calls and backward jumps; `NOTIFICATIONS[h]["counter"] += 1` has neither, so
it is one step, and the model cuts the handlers at the calls.  A `KeyError`
ends the request.  The clock has no unit: `Timer` is in ticks, and a step may
take no time at all.  The delivery of an e-mail by the thread pool changes
nothing here.

### From `Connector` to the code

| TLA+ | code |
| --- | --- |
| `containers[s]` | the container named after a version: its id, the ports it asks for, whether it runs, its restart policy. `orphan` marks those that will not get the policy: the manager stopped before their thread was through, or docker refused |
| `contained` | `manager_in_container()`: then a service needs no port of the host of its own |
| `held` | ports other programs use |
| `asleep` | the threads of `_update_restart_policy` in their sleep, by the container |
| `Deploy`, `Create`, `CreateFails`, `Start`, `StartFails` | `check_service_exists`, and `containers.run` in its two calls of docker: create by name, start by id |
| `StartThread` | the start of the thread, when `containers.run` has returned |
| `Get`, `Remove` | `containers.get(name)` and `.remove(force=True)`, in the search and in `remove_service` |
| `UpdateRestartPolicy`, `UpdateFails` | the thread after its sleep: `container.update`, and the `APIError` it does not repeat after |

`Arguments` are the `run_args` that matter: none, the port `Fixed`, or types
docker-py stumbles over.  Ids are those of live containers.  `LastPort` ends the
range of ports, behind which docker answers with another error.  The names of
images, labels and the environment are left out.  `KillsWait` says that nobody
kills a version while somebody deploys it.

### From `Accounts` to the code

| TLA+ | code |
| --- | --- |
| `users[u]` | the row of table `users`: its number and password. SQLite numbers a new row one behind the largest |
| `secret`, `tokens` | the record `JWT_TOKEN_SECRET` and the table of uuids |
| `issued`, `revoked` | what clients hold and has not expired; the code keeps no record of it |
| `phase`: `Start`, `SetSecret`, `DropAdmin`, `AddAdmin` | the transactions of `initialize_db` |
| `AddUser`, `ReadRow`, `DeleteRow`, `AddAgain` | `add_user`; the two halves of `delete_user_record`; the call of `add_user` in `update_password` |
| `Login`, `IssueLogin`, `NewToken`, `RecordToken`, `DeleteToken`, `Verifies` | `auth_api` |

Passwords are compared, not hashed.  Who may call what is left out: the handlers
of `admin_api` are called by the admin.  `MaxId` and `MaxStarts` are bounds.

### From `Monitoring` to the code

| TLA+ | code |
| --- | --- |
| `queue`, `item`, `writer` | `QUEUE`, and what `_writer` has in hand and does next |
| `TABLES`, `mapped`, `created`, `rows` | the dictionary, the classes on `Base`, and the file |
| `LOCK` | `LOCK`, held by the writer or by a copy |
| `cleaner`, `todo`, `known`, `limitRow`, `locked`, `marked` | the pass of `clean_database` inside the loop of `call_every`: the tables left, the dictionary when it began, the time it deletes up to, and its transaction |
| `Store`, `Put` | one `store()`: a reading of the clock, then a `put` for each variable |
| `WriterGet`, `Acquire`, `CreateTable`, `AddTable`, `WriteRow` | one turn of the writer loop; creating a table in the file and entering it in `TABLES` are two steps under one hold of the lock |
| `CleanStart`, `CleanVisit`, `CleanDelete`, `CleanCommit`, `CleanInterrupted`, `Notify` | a pass, table by table, and what follows it |
| `Load`, `Startup`, `BeginStop`, `EndStop`, `Kill` | import of the service, `initialize_db`, `remove_db` up to and after the join, and the end of the process |

A value is its variable and its time, so that a second value of a variable in
the same microsecond, which the primary key refuses, is the same value here.
Variables whose names differ only in case share a table in SQLite; names of the
model do not.  SQLite lets one transaction write: from its first DELETE to its
commit the cleaning holds the file (`locked`), and others wait for five seconds and
fail.  A creation that fails leaves the class declared, and the variable is
stored no more; a row that fails is dropped.  `CleansAreFast` says that neither
happens, since passes are shorter; the safety run and all proofs do without it.
For the journal the file is then `busy` and the variable `refused`.  What the
copy holds is not modelled.  Values put on the queue before `initialize_db` are
lost with the old queue; the journal counts a value as handed over once the
writer runs.  That `BeginStop` waits for a copy is uvicorn's doing: it emits the
shutdown event when the running requests are answered.

### From `Runtime` to the code

| TLA+ | code |
| --- | --- |
| `parameters[p]` | `self.parameters[p]["value"]`; `None` until `add_parameter` |
| `queue`, `rows` | `QUEUE` and the tables, with the times that are their primary keys |
| `pc`, `name`, `value`, `stamp` | a thread inside `update_parameter`, or a call inside the wrapper of its entry point |
| `loop` | the call that keeps the event loop while it stores |
| `Load`, `AddParameter`, `Startup` | import of the service's module, and `initialize_db`, called when the application starts |
| `BeginSet`, `Assign`, `Stamp`, `StoreSet` | `update_parameter`: the assignment; `store`: its reading of the clock, and `write_to_ts` |
| `BeginCall`, `CallFails`, `Return`, `StoreRequest`, `StoreResponse` | the wrapper: `run_in_threadpool`, an exception, `store` with two variables |
| `Write` | one turn of the writer |
| `Stop`, `Kill` | `service_shutdown` after the last answer; the process ends and the container starts again |

The wrapper is a coroutine.  The body of its request has been read by the time
it waits for it, so that no other call runs from the end of the function until
both values are on the queue; threads do.  A parameter that is not monitored, or
that is set to a value of another type, stores nothing and is left out.  The
functions of entry points are the threads: what they may do is set parameters.
A response is told apart by the argument it answers.  `Startup` takes a tick of the
clock: a container needs longer to come up than that.

### From `Cli` to the code

| TLA+ | code |
| --- | --- |
| `file` | the state file: a state, `Absent`, or `Torn` (opened to be written, nothing in it yet, or for good when the command is cut off) |
| `mem[s]` | the `CliState` a login or a logout works on |
| `Begin`, `Run`, `Reaches` | `_callback` and `CliState()`, the announcement of the active host, `cli_request` |
| `FirstUse`, `Open`, `DumpBlank` | `CliState()` when there is no file: the test, and `save_state` of a blank state, over what another shell may have written since |
| `Login`, `CheckToken`, `GivePassword`, `Logout` | `login` and `logout` |
| `Open`, `DumpAdded`, `DumpActivated`, `DumpForgotten` | `save_state`: `open(..., "w+")` and the dump |
| `Deploy`, `Assign`, `Send` | one request each |
| `Kill`, `List`, `Delete`, `Refused` | `kill`: the listing that is confirmed, and the requests in the order of `sort_main_service_last` |
| `Ask` | commands that change neither the file nor a service |
| `Quit`, `CutOff`, `RemoveFile`, `Expire` | a command fails, is declined or interrupted; one is cut off between `open` and the dump, which leaves the file empty and every login lost; the user removes a file no command can read; a token ends |

`valid`, `versions` and `main` are the managers; `logged` and `disturbed`
remember, for the properties, the login to a host that should be in the file and whether another shell
changed a manager during a kill.  A login is taken out of `logged` by a logout
from its host and by `CutOff`, never by `RemoveFile`.  Reading the file for the callback and for the
command are one step.  The second listing that `kill` prints (`ls`) is not modelled.

## 3. Runs

Bounds are the CONSTANTS of each cfg: sets of names, versions, ports, tokens and
workers.  `Tokens` bounds the deployments that can be alive at once;
since a token is free again when nothing refers to it, histories are
unbounded.  Symmetry is used in safety runs only.

| cfg | instance | checks |
| --- | --- | --- |
| `DeploymentTwoNames` | 2 names, 2 versions, 3 tokens, 2 workers, turns, all crashes | `TypeOK`, `OneMain`, `TurnsInv` (with its conjuncts `SomeMain`, `OneRecord`), `RecordsAreRouted`, `TokenOutlivesContainer`, `AssignedIsMain`, `KillCleansUp`, `ImplementsCatalog` |
| `DeploymentConcurrent` | 1 name, 2 versions, 3 tokens, 2 workers, **overlapping requests**, tokens revoked by users, process crashes | `OneOwner`, `KillSparesOthers`, `NoResurrection` |
| `DeploymentRestarts` | 1 name, 2 versions, 2 ports, 3 tokens, turns, restarts without files, fairness | `RoutesAreRecorded`, `AcceptedIsServed`, `ManagerRestarts`, `RecordsGetRouted` |
| `DeploymentHalfKilled` | turns, process crashes | `KilledIsGone` is violated |
| `Connector` | 1 version, 2 threads, 2 ports to search and one asked for, 3 container ids, other programs, refusals of docker, manager crashes, fairness | `SearchSparesRunning`, `SearchEnds`, `PolicyGetsSet` |
| `Accounts` | 2 users and the admin, 2 passwords, 2 secrets, 2 threads, turns on a user, 2 starts, crashes anywhere | `AdminCanLogIn`, `IssuedTokensVerify`, `DeletesSpareOthers`, `ImplementsDirectory` |
| `Notifications` | 2 notifications (timers 0 and 2), 2 workers, turns for each notification, clearing at any time | `WindowInv`, `MailsKeepWindow`, `CountsPosts` |
| `Monitoring` | 2 variables and one that cannot be stored, a limit of 1 in rows and in time, queue of 2, kills and restarts, refused notifications, passes that hold the file for any time | `KnownTablesExist`, `RowsAreKnown`, `ImplementsJournal` |
| `MonitoringGoesOn` | 2 variables and one that cannot be stored, a limit of 0, fairness | `ValuesGetWritten`, `StopEnds`, `CleaningGoesOn`, `OldValuesGo` |
| `MonitoringRowLimit` | 2 variables, fairness | `RowLimitHolds` is violated |
| `Runtime` | 1 parameter, 2 values, 1 thread that sets it, 2 overlapping calls, kills and restarts | `HistoryFollows`, `PairsMatch` |
| `Cli` | 2 shells, 2 hosts, 2 tokens, 1 name with 2 versions, the first use of a new file, commands interrupted and cut off anywhere, turns for logins | `ActiveHostIsKnown`, `LoginsAreKept`, `OrderlyKill`, `KillEndsClean` |

Why these bounds are enough to meet the interesting cases: two versions are a
main and its shadow, and a third one, which would be a shadow that stays while
another one moves, is left to the proofs; two names give cross-talk
between names (the mutant that drops the version from a look-up is only harmful
when somebody else's row can be hit); two workers give
every pairwise overlap of requests, in the run without turns for one name and
under turns for different names; three tokens leave a
stale one behind when one of two versions is redeployed; two ports, in the run with
restarts, make an old url differ from a new one.  For
notifications, `MaxTime` 4 is enough for an e-mail, its window of two ticks and
the next e-mail after it, and `MaxCount` 3 for an entry that is created, counted and
counted again.  For the connector, two threads are a search and whoever gets in
its way, two ports are one that is taken and one behind it, and three ids leave one
for a container made while two others are still in somebody's hands.  For
accounts, a second start follows a crash in the first, and three users give a
number that passes from one row to another.  For the monitoring database, one
value per variable is the limit, so that two times make a value too old or one too many; a
table is created while a pass goes through another; the queue of two holds a
value behind the one in hand.  The liveness run has a limit of 0 (`"0days"` is a limit
the code takes), which makes every row due at once, so that one time and a
queue of one are enough for it: a pass may
have deleted the rows of one variable when the table of the other one ends it.  For the runtime, three ticks are enough
for a value that is stored, a kill and a second start, or for two values of
one process; both calls can get the same time; and the queue of two holds a
pair, or half of one behind a value of the parameter.  Nothing is stored that
would not fit.  For the command line, two hosts let a login
in another shell redirect a command, and two versions are a main and its shadow.

### TakeTurns

With `TakeTurns = TRUE` clients have at most one request per name in flight;
requests for different names overlap freely, and crashes cut handlers anywhere.
This is how the documentation uses the manager (one developer, one CLI call
after the other), and no code enforces it.  Most promises need it:

* `OneMain`: two first deployments that overlap both see no main.  The name is
  then stuck: its versions can be neither
  killed nor assigned, since `get_main_and_shadow_versions` raises, and at the
  next start `recreate_proxy_configurations` raises and the manager exits
  (`StartupFails`; `ManagerRestarts` does not hold with overlapping requests).
* `SomeMain`: a deployment that overlaps the kill of the last version becomes
  the shadow of nothing.
  `kill_service` tests for shadows once, at the start, so a shadow
  that is deployed after the test loses its main as well.  Under turns
  `TurnsInv` (`Current`) says that what the guard found is still so when the
  record goes, whatever the other threads do.

What does hold with overlapping requests, users revoking tokens and crashes is
`OneOwner`, `KillSparesOthers` and `NoResurrection`.

In `Notifications`, `TakeTurns` means one post of one notification at a time,
posts of others and clearings overlap with it.  A service whose code
calls `notify` from one thread behaves so, because `notify` waits for the answer.
With overlapping posts nothing holds: both threads may find no entry and the second creation
resets the counter (`CountsPosts`), the second may find an entry that has no
`frozen_until` yet and fail with a `KeyError`, and both may send
(`MailsKeepWindow`).

In `Accounts` it means that nobody deletes a user, or changes its password,
while somebody else does.  Without it two deletions of one user may
remove another one (`DeletesSpareOthers`): the first frees the number, a new user
gets it, and the second deletes by number.  With turns `DeletesSpareOthers` is about the look-up
by name and the numbering of rows only, and is not proved for that reason.  `AdminCanLogIn` and
`IssuedTokensVerify` hold without turns.

In `Cli` it means that nobody logs in or out while another shell runs a command.
Without it `ActiveHostIsKnown` still holds, since each state that is written is
consistent in itself; two logins lose one another, a first use that has found no
file overwrites a login (`LoginsAreKept`), and a login between the listing of a kill and its requests sends them to another manager
(`OrderlyKill`, `KillEndsClean`).

In `Runtime` it means that nobody sets a parameter while somebody else sets it.
Without it one thread may assign first and store last (`HistoryFollows`).
`PairsMatch` holds without turns.

### KillsWait, CleansAreFast, NotifyFails, ClockAdvances

* `KillsWait` (`Connector`): nobody kills a version while it is deployed.
  Without it `SearchSparesRunning` is violated: A finds its port taken; a kill
  removes A's container; B creates the version again and starts it; A
  looks the name up and removes B's.
* `CleansAreFast` (`Monitoring`): a cleaning pass holds the file for less than
  the five seconds SQLite waits.  Only the liveness run and `row_limit` assume it.
  Without it a table may not be created after
  its class was declared, which cannot be declared again,
  and the variable is never stored any more, nor is a value
  whose row could not be written (`ValuesGetWritten`).  `ImplementsJournal` is checked and
  proved without it: the journal has refusals, when the file is busy and then of
  that variable.
* `NotifyFails` (`Monitoring`): the manager refuses a notification. `call_every`
  notifies outside of its `try`, when the function was late; a refusal ends the
  timer, and `CleaningGoesOn` does not hold.  The safety run has refusals.
* `ClockAdvances` (`Runtime`): two values of parameters get different times, in
  microseconds.  Without it the second of two values that are set within one
  microsecond is refused by the primary key, and the history ends with the
  first (`HistoryFollows`).  Calls may have equal times in any case.

### What the violated properties show

* `half_killed` — `kill_service` deletes the token before the record.  If it is
  interrupted in between, the record survives with a dead token.  After
  a redeployment (which keeps the old record) every kill removes the container, gets
  a 410 from `delete_token` and leaves the record and the routes; the exception
  is not the one the handler tolerates.  `KillCleansUp` says that this is the
  only way: a kill that gets past the token leaves nothing.
* `row_limit` — with a limit in rows, `clean_database` takes `[0]` of the row
  behind the newest ones.  A table with no more rows than the limit has none:
  the `TypeError` rolls back what the pass deleted from other tables, so a
  variable that is stored rarely keeps all others from being cleaned.

Four things the models show without a run of their own:

* Redeploying a missing service keeps its record with the old url, so that the new
  one, which is in the proxy file only, is lost at the next restart
  (`AddRecordRead`, `Startup`).
* `compare_runtime_db` takes container names apart at dashes, so that a version
  such as `1.0.0-rc.1`, which the API accepts, makes `GET /services/` answer 412.
* `add_parameter` stores the first value of a parameter while the module of the
  service is loading.  When the application starts, `initialize_db` puts a new
  queue in the place of the one that value is on, and it is never written
  (`AddParameter`, `Startup` of `Runtime`), although the documentation
  (`getting_started/monitoring.rst`) has it stored "every time it's updated".
  After a kill and a restart, the history even ends with a value the parameter no
  longer has: this is why `HistoryFollows` asks for values of this process.
* `save_state` empties the file when it opens it (`config.py:54`).  A login, a logout or a first use that is
  cut off before the dump (`CutOff`) leaves a file no command can read, and the
  logins to all hosts are lost, although the documentation has them "last for a
  week" (`getting_started/getting_started.rst:62`).  `LoginsAreKept` says that this
  is the only way to lose them.

### Fairness

* `Deployment!FairSpec` (run `restarts`): weak fairness of every worker's steps (a thread
  of the pool is scheduled, docker and SQLite answer) and of `Startup` (the manager
  runs with docker's `--restart always`).  Clients need not send requests and
  nothing needs to crash.
* `Connector!FairSpec`: weak fairness of every worker's steps and of the threads
  that set the restart policy.  Other programs may take and give back ports for
  ever.  `SearchEnds` excludes two kinds of `run_args` with which it really does not end: those
  whose types make docker-py raise a `TypeError` with another text, which the
  loop swallows, and a port of the host that stays taken when the
  manager runs in a container and searches for no other.
* `Monitoring!FairSpec`: weak fairness of the cleaning, of copies and of the end of a
  stop; strong fairness of the writer, because the lock and the file it needs
  may be taken and given back again and again.  Both are free most of the
  time: a copy takes a request and the next pass an interval, while the
  writer tries again within milliseconds.

## 4. Proofs

The theorems hold for all values of the constants that satisfy the assumptions
named in each module (the kinds of constants, and that `None` is none of the
others; for `Deployment` these are `DeploymentConstants` and `NoContainer`).
All theorems of `DeploymentTurns`, and `ReadingsStayCurrent` and `TurnsSuffice`,
also assume `TakeTurns`.  What a theorem assumes beyond that is said below.

`Deployment`, in `DeploymentProofs`:

* `TypeCorrect`: `Spec => []TypeOK`.
* `TokensIdentifyRecords`: `Spec => []TokensIdentify`, without turns.
* `ReadingsStayCurrent`, `TurnsSuffice`: under turns `OneMain`, `SomeMain` and `OneRecord` always hold.
  None of them is inductive: a commit writes what a session read earlier, and a
  removal relies on a guard tested several steps before.  `TurnsInv` adds what
  is missing: the workers are on different names (`InTurn`); what a worker has
  read is still the case when it commits, and the guard of a kill holds up to
  its commit (`Current`); and tokens identify rows (`TokensIdentify`).  Each
  handler touches rows of its own name only (`RowsFrame`), so that the readings
  of the other workers stay current.
* `OneOwnerAlways`, `KillsSpareOthers`, `DeletedStaysDeleted`: under
  overlapping requests.  `OneOwner` is inductive on top of `TypeOK`: `Uses(t, s)`
  collects everything that ties a token to a service, the readings of workers
  included, and every step only moves such ties around.

`Deployment`, in `DeploymentTurns`, all on top of `TurnsInv`:

* `CatalogImplemented`: the refinement.  The three commits map to `Add`,
  `Remove` and `Promote`, everything else stutters.
* `RecordsStayRouted`.  `RecordsAreRouted` speaks of names nobody works on, and so
  says nothing that a handler could rely on.  `RoutingInv` adds, for each
  program counter, what the handler has done so far to the stores of its name
  (`SoFar`): before its first write to records or files the name is `Routed`
  as it was (`RoutesSoFar`); a deployment has its container, then its record, then
  its file (`DeployedSoFar`); a kill has taken them away one by one (`KilledSoFar`);
  an assignment has its main (`AssignedSoFar`).  A step changes the stores of its own
  name only (`StepSpares`, `SameStores`), so what the others have done stays; each of the
  three handlers advances its own part (`DeploySoFar`, `KillSoFar`, `AssignSoFar`);
  a handler that ends, in whichever way, leaves its name routed (`EndsRouted`),
  and a startup routes all names (`StartupRoutes`), after a crash that cut handlers
  off anywhere.
* `RoutesStayRecorded` assumes that the files are gone after a crash
  (`"process" \notin Crashes`), since a restart removes none.  `RecordedInv` is the converse
  of `RoutingInv`: what is routed is recorded, but for what the handler of the name
  has yet to remove.
* `AcceptedAreServed`, `KillsCleanUp`, `AssignedAreMain`: what the last step of
  a handler finds, by `RoutingInv`, is what it answers.
* `TokensOutliveContainers` assumes that users revoke no tokens of services.  A kill takes
  the token of a record after its container is gone (`KilledSoFar`), and by `OneOwner`
  that token is in no other container.
* `RestartsSucceed`: `StartupFails` never happens.  `ManagerRestarts` needs fairness
  on top of that and nothing else.

The other components:

* `WindowsAreStored`, `MailsAreApart`, `PostsAreCounted`: the notifications under turns, for any timers and numbers of
  threads.  `WindowInv` is the
  inductive invariant: a window that is not stored yet is in the hands of the
  thread that sent the e-mail (`Window`), and what each thread knows between two
  calls is still so (`Current`).  `StepFrame` shows that a step disturbs neither
  the other threads nor the other notifications, and `PostsAreCounted` is the
  refinement of `NoticeBoard`: each posted notification is counted in one step
  and exactly once.

* `ConnectorProofs`: `TypeCorrect`, and `SearchesSpareRunning` under `KillsWait`.
  `SearchInv` is inductive: those who work on a version at the same time all
  deploy it or all kill it (`Apart`); one of them has created the container,
  since the name was free (`OneSearch`); and the container with the name is the
  one it has in hand and does not run (`OwnContainer`), until it starts or removes it.
  `PoliciesAreAwaited`, without assumptions: a container that runs without
  its policy has a thread asleep that will set it, or is about to get one (`Pending`),
  unless the manager stopped meanwhile or docker refused.
* `AccountsProofs`: `AdminAlwaysLogsIn` and `TokensStayValid` hold with
  overlapping requests.  `AdminInv` adds that rows have different numbers and
  that no request has read the number of the admin's row: deletions by number
  miss it, although the number of a deleted user may be given out again.
  `TokenInv` adds that every token is signed with the secret that is stored.
  Under turns `DirectoryIsImplemented`: what a
  request read is still in the table, and what it deleted still gone (`EditInv`).
* `MonitoringProofs`, with passes of any length: `KnownTablesAreThere`; `RowsAreReadable`, which needs
  to know that the table of a row was created and never forgotten, nor taken away from
  under the writer, through failed creations, kills and restarts; and
  `StoredValuesAreKept`, the refinement of `Journal`.
  `CleanInv` says that the row a pass found may go, also when the writer adds rows before the first
  DELETE, and that what it has marked may go when all other rows stay; the commit then is
  a `Trim`, and every other step accepts, keeps or refuses one value, removes all of them or stutters.
  `StopsAreHeard`, without assumptions: a service that stops has the end in its queue until the
  writer meets it, and whoever holds the lock is at a step that gives it back (`StopInv`).
  `CleaningOutlivesPasses`, when notifications are not refused: the timer survives every pass.
  `LimitRowIsFound`, without assumptions: the query of a pass finds a row exactly in the tables with
  more rows than the limit.  Of the rows with enough newer ones one has the fewest
  (`LeastNatural`), and the oldest of those newer than it has one less (`OldestHasNewer`).
* `RuntimeProofs`: under turns and `ClockAdvances` `SetsAreInOrder` and
  `HistoriesFollow`.  `HistoryInv` is inductive: what is stored of a parameter, on the
  queue or in its table, has times of the past (`IsPast`) in the order in which it
  gets written (`InOrder`), and the last of it has the value of the parameter, or
  whoever sets the parameter has (`LastIsCurrent`).  `ResponsesMatch` needs no
  assumption.  `PairsInv` says what the history shows for a time, or will show once
  the queue is written (`Shows`): the response that is shown belongs to the request
  that is shown, and a request without a response is that of the call that has
  the event loop.  A kill or a new queue takes a request only together with all that
  comes behind it, its response included; so a request may be left alone, which
  later calls, at later times, do not touch.  `HistoryIsAJournal` needs no assumption
  either: a `put` is an `Accept`, a turn of the writer a `Keep`, and a value that is refused
  by the primary key is one that is kept already.
* `CliProofs`: `ActiveHostStaysKnown` with any overlapping commands
  (`KnownInv`: every state in some shell's memory may be written whole at any
  time).  Under turns `LoginsSurvive` (`FileInv`): what a login or a logout has
  in memory is up to date but for its own host (`LoginInv`), and whoever is about to write a blank
  file found none, when no login was left to lose (`FreshInv`).
  `KillsAreOrderly` and `KillsEndClean`: a command works on the host it announced (`HostInv`), and
  what a kill has yet to delete is what is left on the manager (`KillInv`).
  `ManagersAreCatalogs` needs no turns: a request a manager accepts is a step of `Catalog`
  there and leaves the other managers alone.

Every safety invariant and action property of the passing runs but `DeletesSpareOthers`
is stated by one of these theorems.  Only model-checked are the liveness properties (`ManagerRestarts`,
`RecordsGetRouted`, `SearchEnds`, `PolicyGetsSet`, `ValuesGetWritten`,
`StopEnds`, `CleaningGoesOn`, `OldValuesGo`): fairness and ENABLED are beyond the prover.
Their safety parts, without which no fairness would help, are proved: `RestartsSucceed`,
`RoutingInv`, `PoliciesAreAwaited`, `StopsAreHeard`, `CleaningOutlivesPasses` and
`LimitRowIsFound`.

## 5. Plan

All components with a state that more than one thread, process or start
touches are modelled.  What is left is a refinement:

* The containers of `Deployment` implemented by those of `Connector`.  A container in
   the middle of a search for a port is not yet one of `Deployment`, and a crash then turns it
   into one that could not be started: the mapping has to hide the first and `Deployment`
   to allow for the second in the step of the crash.

### Not modelled

* Image building: s2i, git and the unpacking of archives are external and fail
  before any state changes; removal of images is best effort and nothing else
  depends on it.
* The dashboard and the streaming of logs: they render what other components
  return and keep no state.
* The contents of TOML files, HTML pages and answers: formatting.
* `daeploy init` and `daeploy test`: cookiecutter and pytest.
* What the functions of entry points compute, and calls between services: user
  code, and HTTP requests without state.  `token <lifetime>` of the command line sends its argument as JSON,
  where the manager takes a query parameter; a single request shows it.
* Delivery of e-mails by the thread pool, and the reading of notifications.
