----------------------------- MODULE Connector -----------------------------
(***************************************************************************)
(* The containers of the docker host as LocalDockerConnector makes and     *)
(* removes them (manager/runtime_connectors.py): what is one step of       *)
(* Deployment is taken apart here.  create_service creates and starts a    *)
(* container, and when a port is taken removes it by its name and tries    *)
(* the next port; a thread sets the restart policy five seconds later.     *)
(* remove_service looks a container up and removes it by its id.           *)
(***************************************************************************)
EXTENDS Naturals

CONSTANTS
    Services,   \* a name and a version each: they make the container name
    Ids,        \* of containers (bounds those alive at once)
    LastPort,   \* the largest port number; the search begins with 1
    Fixed,      \* a port of the host that a user asks for in run_args
    Workers,    \* threads handling requests
    KillsWait,  \* TRUE: nobody kills a version while somebody deploys it
    None

Ports == 1..LastPort
Arguments == {"plain",      \* no run_args that matter here
              "fixed",      \* with the port Fixed
              "mistyped"}   \* of types docker-py stumbles over
Container == [id : Ids, ports : SUBSET (Ports \cup {Fixed}), running : BOOLEAN,
              restart : BOOLEAN,   \* its policy is to restart always
              orphan : BOOLEAN]    \* nobody will: the thread went with the
                                   \* manager, or docker refused
Job == [op : {"none", "deploy", "kill"}, service : Services \cup {None},
        arguments : Arguments, port : Nat, id : Ids \cup {None}]
NoJob == [op |-> "none", service |-> None, arguments |-> "plain", port |-> 1,
          id |-> None]

ASSUME ConnectorConstants ==
    /\ None \notin Container /\ None \notin Services /\ None \notin Ids
    /\ LastPort \in Nat
    /\ Fixed \notin Ports
    /\ KillsWait \in BOOLEAN

VARIABLES
    contained,   \* manager_in_container: no port but Fixed is needed
    containers,  \* containers[s]: the container with the name of s, or None
    held,        \* the ports of the host other programs use
    asleep,      \* the containers whose policy a thread is about to set
    pc,          \* pc[w]: the next step of worker w
    job          \* job[w]: what w does, and the container it has in hand

vars == <<contained, containers, held, asleep, pc, job>>

Steps == {"idle", "create", "start", "thread", "get", "remove"}

TypeOK ==
    /\ contained \in BOOLEAN
    /\ containers \in [Services -> Container \cup {None}]
    /\ held \in SUBSET (Ports \cup {Fixed})
    /\ asleep \in SUBSET Ids
    /\ pc \in [Workers -> Steps]
    /\ job \in [Workers -> Job]
    /\ \A w \in Workers : pc[w] # "idle" => job[w].service \in Services
    /\ \A w \in Workers : pc[w] \in {"create", "start", "thread"} => job[w].op = "deploy"
    /\ \A w \in Workers : pc[w] \in {"start", "thread", "remove"} => job[w].id \in Ids

Init ==
    /\ contained \in BOOLEAN
    /\ containers = [s \in Services |-> None]
    /\ held = {} /\ asleep = {}
    /\ pc = [w \in Workers |-> "idle"]
    /\ job = [w \in Workers |-> NoJob]

-----------------------------------------------------------------------------
(* Helpers *)

Is(s, i) == containers[s] # None /\ containers[s].id = i
Fresh(i) ==
    /\ \A s \in Services : ~Is(s, i)
    /\ \A w \in Workers : job[w].id # i
    /\ i \notin asleep

Taken ==
    held \cup UNION {containers[s].ports :
                     s \in {x \in Services : containers[x] # None /\ containers[x].running}}
Needs(w) ==
    (IF contained THEN {} ELSE {job[w].port})
        \cup (IF job[w].arguments = "fixed" THEN {Fixed} ELSE {})

Goto(w, step, j) ==
    /\ pc' = [pc EXCEPT ![w] = step]
    /\ job' = [job EXCEPT ![w] = j]
(* The call returns or raises. *)
Finish(w) == Goto(w, "idle", NoJob)

MayStart(s, op) ==
    KillsWait => \A w \in Workers : job[w].service = s => job[w].op = op
-----------------------------------------------------------------------------
(* create_service *)

Deploy(w, s, arguments) ==
    /\ pc[w] = "idle" /\ MayStart(s, "deploy")
    /\ containers[s] = None
    /\ Goto(w, "create", [NoJob EXCEPT !.op = "deploy", !.service = s,
                                       !.arguments = arguments])
    /\ UNCHANGED <<contained, containers, held, asleep>>

(* Mutation: a name that is taken is treated as a port that is taken. *)
MutantCreate(w) ==
    LET s == job[w].service IN
    /\ pc[w] = "create"
    /\ job[w].arguments # "mistyped"
    /\ contained \/ job[w].port \in Ports
    /\ IF containers[s] # None
       THEN Goto(w, "get", job[w]) /\ UNCHANGED containers
       ELSE \E i \in Ids :
              /\ Fresh(i)
              /\ containers' = [containers EXCEPT ![s] =
                    [id |-> i, ports |-> Needs(w), running |-> FALSE,
                     restart |-> FALSE, orphan |-> FALSE]]
              /\ Goto(w, "start", [job[w] EXCEPT !.id = i])
    /\ UNCHANGED <<contained, held, asleep>>

(* The first half of containers.run.  A name that is taken is an error;    *)
(* what is mistyped raises the same TypeError again and again.             *)
Create(w) ==
    LET s == job[w].service IN
    /\ pc[w] = "create"
    /\ job[w].arguments # "mistyped"
    /\ contained \/ job[w].port \in Ports
    /\ containers[s] = None
    /\ \E i \in Ids :
          /\ Fresh(i)
          /\ containers' = [containers EXCEPT ![s] =
                [id |-> i, ports |-> Needs(w), running |-> FALSE,
                 restart |-> FALSE, orphan |-> FALSE]]
          /\ Goto(w, "start", [job[w] EXCEPT !.id = i])
    /\ UNCHANGED <<contained, held, asleep>>

(* The name or the port is refused, an argument or the image unknown. *)
CreateFails(w) ==
    /\ pc[w] = "create"
    /\ job[w].arguments # "mistyped"
    /\ Finish(w)
    /\ UNCHANGED <<contained, containers, held, asleep>>

(* The second half, by the id: the container runs, or a port is taken. *)
Start(w) ==
    LET s == job[w].service IN
    /\ pc[w] = "start"
    /\ Is(s, job[w].id)
    /\ \/ /\ Needs(w) \cap Taken = {}
          /\ containers' = [containers EXCEPT ![s].running = TRUE]
          /\ Goto(w, "thread", job[w])
       \/ /\ Needs(w) \cap Taken # {}
          /\ Goto(w, "get", job[w])
          /\ UNCHANGED containers
    /\ UNCHANGED <<contained, held, asleep>>

(* Mutation: the thread is only started for the first port. *)
MutantStartThread(w) ==
    /\ pc[w] = "thread"
    /\ asleep' = IF job[w].port = 1 THEN asleep \cup {job[w].id} ELSE asleep
    /\ Finish(w)
    /\ UNCHANGED <<contained, containers, held>>

StartThread(w) ==
    /\ pc[w] = "thread"
    /\ asleep' = asleep \cup {job[w].id}
    /\ Finish(w)
    /\ UNCHANGED <<contained, containers, held>>

(* Any other error, such as a container that is gone. *)
StartFails(w) ==
    /\ pc[w] = "start"
    /\ Finish(w)
    /\ UNCHANGED <<contained, containers, held, asleep>>

(* _update_restart_policy, after its sleep: it fails when the container is *)
(* gone, and nobody minds. *)
UpdateRestartPolicy(i) ==
    /\ i \in asleep
    /\ asleep' = asleep \ {i}
    /\ containers' = [s \in Services |->
          IF Is(s, i) THEN [containers[s] EXCEPT !.restart = TRUE] ELSE containers[s]]
    /\ UNCHANGED <<contained, held, pc, job>>

(* Docker refuses the update: the thread ends without trying again. *)
UpdateFails(i) ==
    /\ i \in asleep
    /\ asleep' = asleep \ {i}
    /\ containers' = [s \in Services |->
          IF Is(s, i) THEN [containers[s] EXCEPT !.orphan = TRUE] ELSE containers[s]]
    /\ UNCHANGED <<contained, held, pc, job>>

-----------------------------------------------------------------------------
(* remove_service, and the removal in the port search *)

Kill(w, s) ==
    /\ pc[w] = "idle" /\ MayStart(s, "kill")
    /\ Goto(w, "get", [NoJob EXCEPT !.op = "kill", !.service = s])
    /\ UNCHANGED <<contained, containers, held, asleep>>

(* containers.get, by the name *)
Get(w) ==
    LET s == job[w].service IN
    /\ pc[w] = "get"
    /\ IF containers[s] = None THEN Finish(w)
       ELSE Goto(w, "remove", [job[w] EXCEPT !.id = containers[s].id])
    /\ UNCHANGED <<contained, containers, held, asleep>>

(* Mutation: the same port is tried again. *)
MutantNextPort(p) == p

(* Behind the last port the number counts no further. *)
NextPort(p) == IF p \in Ports THEN p + 1 ELSE p

(* remove(force=True), by the id *)
Remove(w) ==
    LET s == job[w].service IN
    /\ pc[w] = "remove"
    /\ IF Is(s, job[w].id)
       THEN /\ containers' = [containers EXCEPT ![s] = None]
            /\ IF job[w].op = "deploy"
               THEN Goto(w, "create", [job[w] EXCEPT !.id = None, !.port = NextPort(@)])
               ELSE Finish(w)
       ELSE Finish(w) /\ UNCHANGED containers
    /\ UNCHANGED <<contained, held, asleep>>

-----------------------------------------------------------------------------
(* What happens on the host *)

Hold(p) ==
    /\ p \notin Taken
    /\ held' = held \cup {p}
    /\ UNCHANGED <<contained, containers, asleep, pc, job>>

Release(p) ==
    /\ p \in held
    /\ held' = held \ {p}
    /\ UNCHANGED <<contained, containers, asleep, pc, job>>

(* The process of a service ends, and docker does not start it again. *)
Exit(s) ==
    /\ containers[s] # None
    /\ containers[s].running /\ ~containers[s].restart
    /\ containers' = [containers EXCEPT ![s].running = FALSE]
    /\ UNCHANGED <<contained, held, asleep, pc, job>>

(* Whose policy is still to be set. *)
Pending == asleep \cup {job[w].id : w \in {x \in Workers : pc[x] = "thread"}}

(* The manager stops, with its threads; it will be started again. *)
Crash ==
    /\ asleep' = {}
    /\ containers' = [s \in Services |->
          IF \E i \in Pending : Is(s, i)
          THEN [containers[s] EXCEPT !.orphan = TRUE] ELSE containers[s]]
    /\ pc' = [w \in Workers |-> "idle"]
    /\ job' = [w \in Workers |-> NoJob]
    /\ UNCHANGED <<contained, held>>

Step(w) ==
    \/ Create(w) \/ CreateFails(w) \/ Start(w) \/ StartThread(w) \/ StartFails(w)
    \/ Get(w) \/ Remove(w)

Next ==
    \/ \E w \in Workers, s \in Services :
          Kill(w, s) \/ \E arguments \in Arguments : Deploy(w, s, arguments)
    \/ \E w \in Workers : Step(w)
    \/ \E i \in Ids : UpdateRestartPolicy(i) \/ UpdateFails(i)
    \/ \E p \in Ports \cup {Fixed} : Hold(p) \/ Release(p)
    \/ \E s \in Services : Exit(s)
    \/ Crash

Spec == Init /\ [][Next]_vars

(* docker answers, and threads run. *)
FairSpec ==
    /\ Spec
    /\ \A w \in Workers : WF_vars(Step(w))
    /\ \A i \in Ids : WF_vars(UpdateRestartPolicy(i) \/ UpdateFails(i))

-----------------------------------------------------------------------------
(* Why the search for a port takes away only its own container *)

Searching(w) == job[w].op = "deploy" /\ pc[w] \in {"start", "get", "remove"}

(* Who works on a version at the same time does the same to it. *)
Apart ==
    \A w, x \in Workers :
        job[w].service # None /\ job[w].service = job[x].service
            => job[w].op = job[x].op

(* A version has one search, and its container is the one it has in hand.  *)
OneSearch ==
    \A w, x \in Workers :
        Searching(w) /\ Searching(x) /\ job[w].service = job[x].service => w = x
OwnContainer ==
    \A w \in Workers : Searching(w) =>
        /\ Is(job[w].service, job[w].id)
        /\ ~containers[job[w].service].running

SearchInv == Apart /\ OneSearch /\ OwnContainer

(* The search for a port takes away only what could not be started: never  *)
(* the running container of another deployment of the same version.        *)
(* (create_service)                                                        *)
SearchSparesRunning ==
    [][\A w \in Workers, s \in Services :
          Remove(w) /\ job[w].op = "deploy" /\ containers'[s] # containers[s]
            => ~containers[s].running]_vars

(* The search ends, whatever ports other programs take and give back.      *)
(* Two kinds of run_args keep it going: those of a wrong type, and a port  *)
(* that stays taken, when the manager needs no other.  (create_service)    *)
Ending(w) ==
    /\ pc[w] # "idle"
    /\ job[w].arguments # "mistyped"
    /\ job[w].arguments = "fixed" => ~contained
SearchEnds == \A w \in Workers : Ending(w) ~> pc[w] = "idle"

(* A service that runs gets its restart policy, unless it ends or is       *)
(* killed before, the manager is stopped, or docker refuses. (create_      *)
(* service, _update_restart_policy)                                        *)
Runs(s, i) == Is(s, i) /\ containers[s].running
PolicyGetsSet ==
    \A s \in Services, i \in Ids :
        Runs(s, i) ~> (~Runs(s, i) \/ containers[s].restart \/ containers[s].orphan)
=============================================================================
