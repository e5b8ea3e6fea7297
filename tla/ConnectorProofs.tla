-------------------------- MODULE ConnectorProofs --------------------------
(***************************************************************************)
(* Proofs about Connector, for any numbers of versions, threads and ports. *)
(***************************************************************************)
EXTENDS Connector, TLAPS

USE DEF Is, Goto, Finish, Arguments

(* No job is a job of its own. *)
LEMMA NoJobIsJob == NoJob \in Job
  BY DEF NoJob, Job

(* What the connector keeps has its type: who is busy has a version, and   *)
(* who is about to start or to remove a container has its id.              *)
(* (create_service, remove_service)                                        *)
LEMMA TypeInit == ASSUME ConnectorConstants PROVE Init => TypeOK
  BY NoJobIsJob DEF Init, TypeOK, Steps

LEMMA TypeStep ==
  ASSUME TypeOK, ConnectorConstants, [Next]_vars PROVE TypeOK'
<1> USE NoJobIsJob DEF ConnectorConstants, Steps
<1>1. ASSUME NEW w \in Workers, NEW s \in Services, Kill(w, s) PROVE TypeOK'
  BY <1>1 DEF TypeOK, Kill, Job, NoJob
<1>2. ASSUME NEW w \in Workers, NEW s \in Services, NEW a \in Arguments, Deploy(w, s, a)
      PROVE TypeOK'
  <2>1. PICK j \in Job : /\ j = [NoJob EXCEPT !.op = "deploy", !.service = s, !.arguments = a]
                         /\ j.op = "deploy" /\ j.service = s
    <3> DEFINE j == [NoJob EXCEPT !.op = "deploy", !.service = s, !.arguments = a]
    <3>1. j \in Job
      BY DEF Job
    <3>2. j.op = "deploy" /\ j.service = s
      BY DEF Job
    <3> QED  BY <3>1, <3>2
  <2>2. Goto(w, "create", j) /\ UNCHANGED <<contained, containers, held, asleep>>
    BY <1>2, <2>1 DEF Deploy
  <2>3. /\ pc' \in [Workers -> Steps] /\ job' \in [Workers -> Job]
        /\ pc'[w] = "create" /\ job'[w] = j
        /\ \A x \in Workers : x # w => pc'[x] = pc[x] /\ job'[x] = job[x]
    BY <2>2 DEF TypeOK
  <2> QED  BY <2>1, <2>2, <2>3 DEF TypeOK
<1>3. ASSUME NEW w \in Workers, Create(w) PROVE TypeOK'
  <2>1. PICK i \in Ids :
          /\ containers' = [containers EXCEPT ![job[w].service] =
                [id |-> i, ports |-> Needs(w), running |-> FALSE,
                 restart |-> FALSE, orphan |-> FALSE]]
          /\ Goto(w, "start", [job[w] EXCEPT !.id = i])
    BY <1>3 DEF Create
  <2>2. Needs(w) \in SUBSET (Ports \cup {Fixed})
    <3>1. contained \/ job[w].port \in Ports
      BY <1>3 DEF Create
    <3> QED  BY <3>1 DEF Needs
  <2>3. containers' \in [Services -> Container \cup {None}]
    BY <2>1, <2>2 DEF TypeOK, Container
  <2>4. [job[w] EXCEPT !.id = i] \in Job
    BY DEF TypeOK, Job
  <2> QED  BY <1>3, <2>1, <2>3, <2>4 DEF TypeOK, Create, Job
<1>4. ASSUME NEW w \in Workers, CreateFails(w) PROVE TypeOK'
  BY <1>4 DEF TypeOK, CreateFails
<1>5. ASSUME NEW w \in Workers, Start(w) PROVE TypeOK'
  <2>1. containers' \in [Services -> Container \cup {None}]
    <3>1. CASE UNCHANGED containers
      BY <3>1 DEF TypeOK
    <3>2. CASE containers' = [containers EXCEPT ![job[w].service].running = TRUE]
      <4>1. containers[job[w].service] \in Container /\ job[w].service \in Services
        BY <1>5 DEF TypeOK, Start
      <4>2. [containers[job[w].service] EXCEPT !.running = TRUE] \in Container
        BY <4>1 DEF Container
      <4> QED  BY <3>2, <4>1, <4>2 DEF TypeOK
    <3> QED  BY <1>5, <3>1, <3>2 DEF Start
  <2> QED  BY <1>5, <2>1 DEF TypeOK, Start
<1>14. ASSUME NEW w \in Workers, StartThread(w) PROVE TypeOK'
  BY <1>14 DEF TypeOK, StartThread
<1>6. ASSUME NEW w \in Workers, StartFails(w) PROVE TypeOK'
  BY <1>6 DEF TypeOK, StartFails
<1>7. ASSUME NEW w \in Workers, Get(w) PROVE TypeOK'
  <2>1. containers[job[w].service] # None => containers[job[w].service].id \in Ids
    BY <1>7 DEF TypeOK, Get, Container
  <2>2. job \in [Workers -> Job] /\ pc \in [Workers -> Steps] /\ job[w] \in Job
    BY DEF TypeOK
  <2>3. UNCHANGED <<contained, containers, held, asleep>>
    BY <1>7 DEF Get
  <2>4. CASE Finish(w)
    BY <2>3, <2>4 DEF TypeOK
  <2>5. CASE /\ containers[job[w].service] # None
             /\ Goto(w, "remove", [job[w] EXCEPT !.id = containers[job[w].service].id])
    <3>1. PICK j \in Job : /\ j = [job[w] EXCEPT !.id = containers[job[w].service].id]
                           /\ j.service = job[w].service /\ j.id \in Ids
      BY <2>1, <2>2, <2>5 DEF Job
    <3>2. Goto(w, "remove", j)
      BY <2>5, <3>1
    <3>3. job[w].service \in Services
      BY <1>7 DEF TypeOK, Get
    <3> QED  BY <2>2, <2>3, <3>1, <3>2, <3>3 DEF TypeOK
  <2> QED  BY <1>7, <2>4, <2>5 DEF Get
<1>8. ASSUME NEW w \in Workers, Remove(w) PROVE TypeOK'
  <2>1. [job[w] EXCEPT !.id = None, !.port = NextPort(@)] \in Job
    <3>1. job[w] \in Job /\ job[w].port \in Nat
      BY DEF TypeOK, Job
    <3>2. NextPort(job[w].port) \in Nat
      BY <3>1 DEF NextPort
    <3> QED  BY <3>1, <3>2 DEF Job
  <2>2. containers' \in [Services -> Container \cup {None}]
    BY <1>8 DEF TypeOK, Remove
  <2>3. job' \in [Workers -> Job] /\ pc' \in [Workers -> Steps]
    BY <1>8, <2>1 DEF TypeOK, Remove
  <2>4. \A x \in Workers : x # w => job'[x] = job[x] /\ pc'[x] = pc[x]
    BY <1>8 DEF TypeOK, Remove
  <2>5. \/ pc'[w] = "idle"
        \/ /\ pc'[w] = "create" /\ job'[w].op = "deploy"
           /\ job'[w].service \in Services
    <3>1. \/ pc' = [pc EXCEPT ![w] = "idle"]
          \/ /\ pc' = [pc EXCEPT ![w] = "create"]
             /\ job' = [job EXCEPT ![w] = [job[w] EXCEPT !.id = None, !.port = NextPort(@)]]
             /\ job[w].op = "deploy"
      BY <1>8 DEF Remove
    <3>2. job[w].service \in Services /\ job[w] \in Job
      BY <1>8 DEF TypeOK, Remove
    <3>3. /\ [job[w] EXCEPT !.id = None, !.port = NextPort(@)].op = job[w].op
          /\ [job[w] EXCEPT !.id = None, !.port = NextPort(@)].service = job[w].service
      BY <3>2 DEF Job
    <3>4. pc \in [Workers -> Steps] /\ job \in [Workers -> Job]
      BY DEF TypeOK
    <3>5. CASE pc' = [pc EXCEPT ![w] = "idle"]
      BY <3>5, <3>4
    <3>6. CASE /\ pc' = [pc EXCEPT ![w] = "create"]
               /\ job' = [job EXCEPT ![w] = [job[w] EXCEPT !.id = None, !.port = NextPort(@)]]
               /\ job[w].op = "deploy"
      <4>1. pc'[w] = "create"
        BY <3>6, <3>4
      <4>2. job'[w] = [job[w] EXCEPT !.id = None, !.port = NextPort(@)]
        BY <3>6, <3>4
      <4> QED  BY <4>1, <4>2, <3>2, <3>3, <3>6
    <3> QED  BY <3>1, <3>5, <3>6
  <2>6. UNCHANGED <<contained, held, asleep>>
    BY <1>8 DEF Remove
  <2> QED  BY <2>2, <2>3, <2>4, <2>5, <2>6 DEF TypeOK
<1>9. ASSUME NEW i \in Ids, UpdateRestartPolicy(i) PROVE TypeOK'
  <2>1. ASSUME NEW s \in Services, containers[s] # None
        PROVE [containers[s] EXCEPT !.restart = TRUE] \in Container
    BY <2>1 DEF TypeOK, Container
  <2>2. containers' \in [Services -> Container \cup {None}]
    BY <1>9, <2>1 DEF TypeOK, UpdateRestartPolicy
  <2> QED  BY <1>9, <2>2 DEF TypeOK, UpdateRestartPolicy
<1>15. ASSUME NEW i \in Ids, UpdateFails(i) PROVE TypeOK'
  <2>1. ASSUME NEW s \in Services, containers[s] # None
        PROVE [containers[s] EXCEPT !.orphan = TRUE] \in Container
    BY <2>1 DEF TypeOK, Container
  <2>2. containers' \in [Services -> Container \cup {None}]
    BY <1>15, <2>1 DEF TypeOK, UpdateFails
  <2> QED  BY <1>15, <2>2 DEF TypeOK, UpdateFails
<1>10. ASSUME NEW p \in Ports \cup {Fixed}, Hold(p) \/ Release(p) PROVE TypeOK'
  BY <1>10 DEF TypeOK, Hold, Release
<1>11. ASSUME NEW s \in Services, Exit(s) PROVE TypeOK'
  <2>1. containers[s] \in Container
    BY <1>11 DEF TypeOK, Exit
  <2>2. [containers[s] EXCEPT !.running = FALSE] \in Container
    BY <2>1 DEF Container
  <2>3. containers' \in [Services -> Container \cup {None}]
    BY <1>11, <2>2 DEF TypeOK, Exit
  <2> QED  BY <1>11, <2>3 DEF TypeOK, Exit
<1>12. ASSUME Crash PROVE TypeOK'
  <2>1. ASSUME NEW s \in Services, containers[s] # None
        PROVE [containers[s] EXCEPT !.orphan = TRUE] \in Container
    BY <2>1 DEF TypeOK, Container
  <2>2. containers' \in [Services -> Container \cup {None}]
    BY <1>12, <2>1 DEF TypeOK, Crash
  <2> QED  BY <1>12, <2>2 DEF TypeOK, Crash
<1>13. ASSUME UNCHANGED vars PROVE TypeOK'
  BY <1>13 DEF TypeOK, vars
<1> QED
  BY <1>1, <1>2, <1>3, <1>4, <1>5, <1>6, <1>7, <1>8, <1>9, <1>10, <1>11, <1>12, <1>13,
     <1>14, <1>15 DEF Next, Step

(* Every variable keeps its type. *)
THEOREM TypeCorrect == Spec => []TypeOK
<1>1. Init => TypeOK
  BY TypeInit, ConnectorConstants
<1>2. TypeOK /\ [Next]_vars => TypeOK'
  BY TypeStep, ConnectorConstants
<1> QED  BY <1>1, <1>2, PTL DEF Spec

-----------------------------------------------------------------------------
(* Kills wait for deployments *)

(* A step that begins no search, and leaves the containers of those that   *)
(* go on as they are.                                                      *)
LEMMA SearchFrame ==
  ASSUME SearchInv,
         \A x \in Workers :
            \/ job'[x].service = job[x].service /\ job'[x].op = job[x].op
            \/ job'[x].service = None,
         \A x \in Workers : Searching(x)' =>
            /\ Searching(x)
            /\ job'[x].service = job[x].service
            /\ Is(job[x].service, job[x].id) =>
                 Is(job[x].service, job[x].id)' /\ job'[x].id = job[x].id
            /\ ~containers[job[x].service].running =>
                 ~containers'[job[x].service].running
  PROVE  SearchInv'
<1>1. Apart'
  BY DEF SearchInv, Apart
<1>2. OneSearch'
  BY DEF SearchInv, OneSearch
<1>3. OwnContainer'
  BY DEF SearchInv, OwnContainer
<1> QED  BY <1>1, <1>2, <1>3 DEF SearchInv

LEMMA SearchStep ==
  ASSUME TypeOK, SearchInv, ConnectorConstants, KillsWait, [Next]_vars
  PROVE  SearchInv'
<1> USE DEF ConnectorConstants
<1>1. ASSUME NEW w \in Workers, NEW s \in Services, Kill(w, s) PROVE SearchInv'
  <2>1. Apart'
    BY <1>1 DEF TypeOK, SearchInv, Apart, Kill, MayStart, NoJob
  <2>2. OneSearch' /\ OwnContainer'
    BY <1>1 DEF TypeOK, SearchInv, OneSearch, OwnContainer, Searching, Kill, NoJob
  <2> QED  BY <2>1, <2>2 DEF SearchInv
<1>2. ASSUME NEW w \in Workers, NEW s \in Services, NEW a \in Arguments, Deploy(w, s, a)
      PROVE SearchInv'
  <2>1. Apart'
    BY <1>2 DEF TypeOK, SearchInv, Apart, Deploy, MayStart, NoJob
  <2>2. OneSearch' /\ OwnContainer'
    BY <1>2 DEF TypeOK, SearchInv, OneSearch, OwnContainer, Searching, Deploy, NoJob
  <2> QED  BY <2>1, <2>2 DEF SearchInv
<1>3. ASSUME NEW w \in Workers, Create(w) PROVE SearchInv'
  <2>1. PICK i \in Ids :
          /\ containers' = [containers EXCEPT ![job[w].service] =
                [id |-> i, ports |-> Needs(w), running |-> FALSE,
                 restart |-> FALSE, orphan |-> FALSE]]
          /\ Goto(w, "start", [job[w] EXCEPT !.id = i])
    BY <1>3 DEF Create
  <2>2. pc[w] = "create" /\ containers[job[w].service] = None /\ job[w].service \in Services
    BY <1>3 DEF Create, TypeOK
  <2>3. \A x \in Workers : Searching(x) => job[x].service # job[w].service
    BY <2>2 DEF SearchInv, OwnContainer
  <2>4. \A x \in Workers : /\ job'[x].service = job[x].service
                           /\ job'[x].op = job[x].op
                           /\ x # w => job'[x] = job[x] /\ pc'[x] = pc[x]
    BY <2>1 DEF TypeOK, Job
  <2>5. Apart'
    BY <2>4 DEF SearchInv, Apart
  <2>6. OneSearch'
    BY <2>3, <2>4 DEF SearchInv, OneSearch, Searching
  <2>7. ASSUME NEW x \in Workers, Searching(x)'
        PROVE (Is(job[x].service, job[x].id) /\ ~containers[job[x].service].running)'
    <3>1. CASE x = w
      <4>1. job[w] \in Job /\ job \in [Workers -> Job]
        BY DEF TypeOK
      <4>2. [job[w] EXCEPT !.id = i].id = i
        BY <4>1 DEF Job
      <4>3. job'[w].id = i /\ job'[w].service = job[w].service
        BY <4>1, <4>2, <2>1, <2>4
      <4>4. containers'[job[w].service] =
              [id |-> i, ports |-> Needs(w), running |-> FALSE,
               restart |-> FALSE, orphan |-> FALSE]
        BY <2>1, <2>2 DEF TypeOK
      <4>5. containers'[job[w].service] # None
        <5>1. Needs(w) \in SUBSET (Ports \cup {Fixed})
          <6>1. contained \/ job[w].port \in Ports
            BY <1>3 DEF Create
          <6> QED  BY <6>1 DEF Needs
        <5>2. [id |-> i, ports |-> Needs(w), running |-> FALSE,
               restart |-> FALSE, orphan |-> FALSE] \in Container
          BY <5>1 DEF Container
        <5> QED  BY <4>4, <5>2
      <4> QED  BY <3>1, <4>3, <4>4, <4>5
    <3>2. CASE x # w
      <4>1. Searching(x)
        BY <2>7, <3>2, <2>4 DEF Searching
      <4> QED  BY <4>1, <3>2, <2>1, <2>3, <2>4 DEF SearchInv, OwnContainer, TypeOK
    <3> QED  BY <3>1, <3>2
  <2>8. OwnContainer'
    BY <2>7 DEF OwnContainer
  <2> QED  BY <2>5, <2>6, <2>8 DEF SearchInv
<1>4. ASSUME NEW w \in Workers, CreateFails(w) \/ StartFails(w) PROVE SearchInv'
  BY <1>4 DEF TypeOK, SearchInv, Apart, OneSearch, OwnContainer, Searching,
              CreateFails, StartFails, NoJob
<1>5. ASSUME NEW w \in Workers, Start(w) PROVE SearchInv'
  <2>1. CASE Needs(w) \cap Taken = {}
    BY <1>5, <2>1 DEF TypeOK, SearchInv, Apart, OneSearch, OwnContainer, Searching,
                      Start, NoJob
  <2>2. CASE Needs(w) \cap Taken # {}
    BY <1>5, <2>2 DEF TypeOK, SearchInv, Apart, OneSearch, OwnContainer, Searching, Start
  <2> QED  BY <2>1, <2>2
<1>13. ASSUME NEW w \in Workers, StartThread(w) PROVE SearchInv'
  BY <1>13 DEF TypeOK, SearchInv, Apart, OneSearch, OwnContainer, Searching, StartThread, NoJob
<1>6. ASSUME NEW w \in Workers, Get(w) PROVE SearchInv'
  <2>1. pc[w] = "get" /\ UNCHANGED containers
    BY <1>6 DEF Get
  <2>2. job \in [Workers -> Job] /\ pc \in [Workers -> Steps] /\ job[w] \in Job
    BY DEF TypeOK
  <2>3. CASE Finish(w)
    <3>1. \A x \in Workers : x # w => job'[x] = job[x] /\ pc'[x] = pc[x]
      BY <2>2, <2>3
    <3>2. job'[w].service = None /\ pc'[w] = "idle"
      BY <2>2, <2>3 DEF NoJob
    <3> QED  BY <2>1, <3>1, <3>2, SearchFrame DEF Searching
  <2>4. CASE Goto(w, "remove", [job[w] EXCEPT !.id = containers[job[w].service].id])
    <3>1. \A x \in Workers : x # w => job'[x] = job[x] /\ pc'[x] = pc[x]
      BY <2>2, <2>4
    <3>2. job'[w] = [job[w] EXCEPT !.id = containers[job[w].service].id]
      BY <2>2, <2>4
    <3>3. /\ job'[w].service = job[w].service /\ job'[w].op = job[w].op
          /\ job'[w].id = containers[job[w].service].id
      BY <2>2, <3>2 DEF Job
    <3>4. ASSUME NEW x \in Workers, Searching(x)'
          PROVE /\ Searching(x) /\ job'[x].service = job[x].service
                /\ Is(job[x].service, job[x].id) => job'[x].id = job[x].id
      <4>1. CASE x = w
        BY <4>1, <3>3, <3>4, <2>1 DEF Searching
      <4>2. CASE x # w
        BY <4>2, <3>1, <3>4 DEF Searching
      <4> QED  BY <4>1, <4>2
    <3>5. \A x \in Workers : job'[x].service = job[x].service /\ job'[x].op = job[x].op
      BY <3>1, <3>3
    <3>6. ASSUME NEW x \in Workers, Searching(x)', Is(job[x].service, job[x].id)
          PROVE Is(job[x].service, job[x].id)'
      BY <3>4, <3>6, <2>1
    <3> QED  BY <2>1, <3>4, <3>5, <3>6, SearchFrame
  <2> QED  BY <1>6, <2>3, <2>4 DEF Get
<1>7. ASSUME NEW w \in Workers, Remove(w) PROVE SearchInv'
  <2> DEFINE s == job[w].service
             next == [job[w] EXCEPT !.id = None, !.port = NextPort(@)]
  <2>1. pc[w] = "remove" /\ s \in Services
    BY <1>7 DEF Remove, TypeOK
  <2>2. /\ job \in [Workers -> Job] /\ pc \in [Workers -> Steps] /\ job[w] \in Job
        /\ containers \in [Services -> Container \cup {None}]
    BY DEF TypeOK
  <2>3. \/ Finish(w)
        \/ Goto(w, "create", next)
    BY <1>7 DEF Remove
  <2>4. next.service = job[w].service /\ next.op = job[w].op
    BY <2>2 DEF Job
  <2>5. /\ \A x \in Workers : x # w => job'[x] = job[x] /\ pc'[x] = pc[x]
        /\ pc'[w] \in {"idle", "create"}
        /\ \/ job'[w].service = None
           \/ job'[w].service = s /\ job'[w].op = job[w].op
    <3> HIDE DEF next
    <3>1. CASE Finish(w)
      BY <2>2, <3>1 DEF NoJob
    <3>2. CASE Goto(w, "create", next)
      BY <2>2, <2>4, <3>2
    <3> QED  BY <2>3, <3>1, <3>2
  <2>6. \/ UNCHANGED containers
        \/ containers' = [containers EXCEPT ![s] = None] /\ job[w].service # None
    BY <1>7, <2>1 DEF Remove
  <2>7. ASSUME NEW x \in Workers, Searching(x)'
        PROVE /\ x # w /\ Searching(x) /\ job'[x] = job[x]
              /\ containers'[job[x].service] = containers[job[x].service]
    <3>1. x # w /\ job'[x] = job[x] /\ pc'[x] = pc[x]
      BY <2>5, <2>7 DEF Searching
    <3>2. Searching(x)
      BY <2>7, <3>1 DEF Searching
    <3>3. job[x].service # s
      <4>1. SUFFICES ASSUME job[x].service = s PROVE FALSE
        OBVIOUS
      <4>2. job[w].op = "deploy"
        BY <2>1, <3>2, <4>1 DEF SearchInv, Apart, Searching
      <4>3. Searching(w)
        BY <2>1, <4>2 DEF Searching
      <4> QED  BY <3>1, <3>2, <4>1, <4>3 DEF SearchInv, OneSearch
    <3>4. containers'[job[x].service] = containers[job[x].service]
      <4>1. CASE UNCHANGED containers
        BY <4>1
      <4>2. CASE containers' = [containers EXCEPT ![s] = None]
        <5>1. job[x].service \in Services
          BY <3>2 DEF TypeOK, Searching
        <5> QED  BY <4>2, <5>1, <3>3, <2>2
      <4> QED  BY <4>1, <4>2, <2>6
    <3> QED  BY <3>1, <3>2, <3>4
  <2>8. \A x \in Workers :
           \/ job'[x].service = job[x].service /\ job'[x].op = job[x].op
           \/ job'[x].service = None
    BY <2>5
  <2>9. ASSUME NEW x \in Workers, Searching(x)'
        PROVE /\ Searching(x)
              /\ job'[x].service = job[x].service
              /\ Is(job[x].service, job[x].id) =>
                   Is(job[x].service, job[x].id)' /\ job'[x].id = job[x].id
              /\ ~containers[job[x].service].running =>
                   ~containers'[job[x].service].running
    BY <2>7, <2>9
  <2> HIDE DEF s, next
  <2> QED  BY <2>8, <2>9, SearchFrame
<1>8. ASSUME NEW i \in Ids, UpdateRestartPolicy(i) \/ UpdateFails(i) PROVE SearchInv'
  <2>1. UNCHANGED <<pc, job>>
    BY <1>8 DEF UpdateRestartPolicy, UpdateFails
  <2>2. ASSUME NEW s \in Services
        PROVE /\ containers'[s] # None <=> containers[s] # None
              /\ containers[s] # None =>
                   /\ containers'[s].id = containers[s].id
                   /\ containers'[s].running = containers[s].running
    <3>1. containers[s] \in Container \cup {None}
      BY DEF TypeOK
    <3>2. CASE Is(s, i)
      <4>1. PICK c \in Container : c = containers[s]
        BY <3>1, <3>2
      <4>2. \/ containers'[s] = [c EXCEPT !.restart = TRUE]
            \/ containers'[s] = [c EXCEPT !.orphan = TRUE]
        BY <1>8, <3>2, <4>1 DEF UpdateRestartPolicy, UpdateFails
      <4>3. /\ containers'[s] \in Container
            /\ containers'[s].id = c.id /\ containers'[s].running = c.running
        BY <4>2 DEF Container
      <4> QED  BY <4>1, <4>3
    <3>3. CASE ~Is(s, i)
      BY <1>8, <3>3 DEF UpdateRestartPolicy, UpdateFails
    <3> QED  BY <3>2, <3>3
  <2>3. \A x \in Workers : Searching(x) => job[x].service \in Services
    BY DEF Searching, TypeOK
  <2>4. Apart' /\ OneSearch'
    BY <2>1 DEF SearchInv, Apart, OneSearch, Searching
  <2>5. OwnContainer'
    BY <2>1, <2>2, <2>3 DEF SearchInv, OwnContainer, Searching
  <2> QED  BY <2>4, <2>5 DEF SearchInv
<1>9. ASSUME NEW p \in Ports \cup {Fixed}, Hold(p) \/ Release(p) PROVE SearchInv'
  BY <1>9 DEF SearchInv, Apart, OneSearch, OwnContainer, Searching, Hold, Release
<1>10. ASSUME NEW s \in Services, Exit(s) PROVE SearchInv'
  BY <1>10 DEF TypeOK, SearchInv, Apart, OneSearch, OwnContainer, Searching, Exit, Container
<1>11. ASSUME Crash PROVE SearchInv'
  BY <1>11 DEF SearchInv, Apart, OneSearch, OwnContainer, Searching, Crash, NoJob
<1>12. ASSUME UNCHANGED vars PROVE SearchInv'
  BY <1>12 DEF SearchInv, Apart, OneSearch, OwnContainer, Searching, vars
<1> QED
  BY <1>1, <1>2, <1>3, <1>4, <1>5, <1>6, <1>7, <1>8, <1>9, <1>10, <1>11, <1>12, <1>13
     DEF Next, Step

(* While kills wait for deployments, a search for a port never takes away  *)
(* a container that runs: not even one that another deployment of the same *)
(* version has started meanwhile.  (create_service)                        *)
THEOREM SearchesSpareRunning == ASSUME KillsWait PROVE Spec => SearchSparesRunning
<1>1. Init => SearchInv
  BY DEF Init, SearchInv, Apart, OneSearch, OwnContainer, Searching, NoJob
<1>2. TypeOK /\ SearchInv /\ [Next]_vars => SearchInv'
  BY SearchStep, ConnectorConstants
<1>3. TypeOK /\ SearchInv =>
        \A w \in Workers, s \in Services :
          Remove(w) /\ job[w].op = "deploy" /\ containers'[s] # containers[s]
            => ~containers[s].running
  BY DEF TypeOK, SearchInv, OwnContainer, Searching, Remove
<1> QED  BY <1>1, <1>2, <1>3, TypeCorrect, PTL DEF Spec, SearchSparesRunning

-----------------------------------------------------------------------------
(* Who sets the restart policy *)

Awaits(s) ==
    containers[s] # None /\ containers[s].running =>
        \/ containers[s].restart
        \/ containers[s].orphan
        \/ containers[s].id \in Pending
PolicyAwaited == \A s \in Services : Awaits(s)

(* A container stays as it is, or is changed to one that awaits its policy. *)
LEMMA AwaitsFrame ==
  ASSUME PolicyAwaited, Pending \subseteq Pending',
         \A s \in Services : containers'[s] = containers[s] \/ Awaits(s)'
  PROVE  PolicyAwaited'
  BY DEF PolicyAwaited, Awaits

(* Who is about to start a thread goes on to do so. *)
LEMMA PendingFrame ==
  ASSUME asleep \subseteq asleep',
         \A w \in Workers : pc[w] = "thread" =>
            \/ pc'[w] = "thread" /\ job'[w].id = job[w].id
            \/ job[w].id \in asleep'
  PROVE  Pending \subseteq Pending'
<1>1. ASSUME NEW i \in Pending PROVE i \in Pending'
  <2>1. CASE i \in asleep
    BY <2>1 DEF Pending
  <2>2. CASE \E w \in Workers : pc[w] = "thread" /\ job[w].id = i
    BY <2>2 DEF Pending
  <2> QED  BY <1>1, <2>1, <2>2 DEF Pending
<1> QED  BY <1>1

(* The thread has set the policy of its container, or given it up; the     *)
(* other containers keep theirs.                                           *)
LEMMA AwaitsSet ==
  ASSUME TypeOK, PolicyAwaited, NEW i \in Ids, UpdateRestartPolicy(i) \/ UpdateFails(i)
  PROVE  PolicyAwaited'
<1> SUFFICES ASSUME NEW s \in Services PROVE Awaits(s)'
  BY DEF PolicyAwaited
<1>1. containers[s] \in Container \cup {None}
  BY DEF TypeOK
<1>2. CASE Is(s, i)
  <2>1. PICK c \in Container : c = containers[s]
    BY <1>1, <1>2
  <2>2. \/ containers'[s] = [c EXCEPT !.restart = TRUE]
        \/ containers'[s] = [c EXCEPT !.orphan = TRUE]
    BY <1>2, <2>1 DEF UpdateRestartPolicy, UpdateFails
  <2>3. containers'[s].restart = TRUE \/ containers'[s].orphan = TRUE
    BY <2>2 DEF Container
  <2> QED  BY <2>3 DEF Awaits
<1>3. CASE ~Is(s, i)
  <2>1. containers'[s] = containers[s] /\ asleep' = asleep \ {i} /\ UNCHANGED <<pc, job>>
    BY <1>3 DEF UpdateRestartPolicy, UpdateFails
  <2>2. Pending \ {i} \subseteq Pending'
    BY <2>1 DEF Pending
  <2> QED  BY <1>3, <2>1, <2>2 DEF PolicyAwaited, Awaits
<1> QED  BY <1>2, <1>3

LEMMA AwaitsCrash ==
  ASSUME TypeOK, PolicyAwaited, Crash PROVE PolicyAwaited'
<1> SUFFICES ASSUME NEW s \in Services PROVE Awaits(s)'
  BY DEF PolicyAwaited
<1>1. containers[s] \in Container \cup {None}
  BY DEF TypeOK
<1>2. CASE \E i \in Pending : Is(s, i)
  <2>1. containers[s] \in Container
    BY <1>1, <1>2
  <2>2. containers'[s] = [containers[s] EXCEPT !.orphan = TRUE]
    BY <1>2 DEF Crash
  <2>3. containers'[s].orphan = TRUE
    BY <2>1, <2>2 DEF Container
  <2> QED  BY <2>3 DEF Awaits
<1>3. CASE ~\E i \in Pending : Is(s, i)
  <2>1. containers'[s] = containers[s]
    BY <1>3 DEF Crash
  <2> QED  BY <1>3, <2>1 DEF PolicyAwaited, Awaits
<1> QED  BY <1>2, <1>3

LEMMA AwaitsStep ==
  ASSUME TypeOK, ConnectorConstants, PolicyAwaited, [Next]_vars
  PROVE  PolicyAwaited'
<1>0. pc \in [Workers -> Steps] /\ job \in [Workers -> Job]
  BY DEF TypeOK
<1>1. ASSUME NEW w \in Workers, NEW s \in Services,
             Kill(w, s) \/ \E a \in Arguments : Deploy(w, s, a)
      PROVE  PolicyAwaited'
  <2>1. Pending \subseteq Pending'
    BY <1>0, <1>1, PendingFrame DEF Kill, Deploy
  <2> QED  BY <1>1, <2>1, AwaitsFrame DEF Kill, Deploy
<1>2. ASSUME NEW w \in Workers, Create(w) PROVE PolicyAwaited'
  <2>1. PICK i \in Ids :
          /\ containers' = [containers EXCEPT ![job[w].service] =
                [id |-> i, ports |-> Needs(w), running |-> FALSE,
                 restart |-> FALSE, orphan |-> FALSE]]
          /\ Goto(w, "start", [job[w] EXCEPT !.id = i])
    BY <1>2 DEF Create
  <2>2. ASSUME NEW s \in Services PROVE containers'[s] = containers[s] \/ Awaits(s)'
    BY <2>1 DEF TypeOK, Awaits
  <2>3. Pending \subseteq Pending'
    BY <1>0, <1>2, <2>1, PendingFrame DEF Create
  <2> QED  BY <2>2, <2>3, AwaitsFrame
<1>3. ASSUME NEW w \in Workers, Start(w) PROVE PolicyAwaited'
  <2>0. Pending \subseteq Pending'
    BY <1>0, <1>3, PendingFrame DEF Start
  <2>1. CASE UNCHANGED containers
    BY <2>0, <2>1, AwaitsFrame
  <2>2. CASE /\ containers' = [containers EXCEPT ![job[w].service].running = TRUE]
             /\ Goto(w, "thread", job[w])
    <3>1. Is(job[w].service, job[w].id) /\ job[w].service \in Services
      BY <1>3 DEF TypeOK, Start
    <3>2. containers[job[w].service] \in Container
      BY <3>1 DEF TypeOK
    <3>3. containers'[job[w].service].id = job[w].id
      BY <2>2, <3>1, <3>2 DEF TypeOK, Container
    <3>4. \A s \in Services : s # job[w].service => containers'[s] = containers[s]
      BY <2>2 DEF TypeOK
    <3>5. job[w].id \in Pending'
      BY <1>0, <2>2 DEF Pending
    <3>6. ASSUME NEW s \in Services PROVE containers'[s] = containers[s] \/ Awaits(s)'
      BY <3>3, <3>4, <3>5 DEF Awaits
    <3> QED  BY <2>0, <3>6, AwaitsFrame
  <2> QED  BY <1>3, <2>1, <2>2 DEF Start
<1>4. ASSUME NEW w \in Workers,
             CreateFails(w) \/ StartThread(w) \/ StartFails(w) \/ Get(w)
      PROVE  PolicyAwaited'
  <2>1. Pending \subseteq Pending'
    BY <1>0, <1>4, PendingFrame DEF CreateFails, StartThread, StartFails, Get
  <2> QED  BY <1>4, <2>1, AwaitsFrame DEF CreateFails, StartThread, StartFails, Get
<1>5. ASSUME NEW w \in Workers, Remove(w) PROVE PolicyAwaited'
  <2>1. ASSUME NEW s \in Services PROVE containers'[s] = containers[s] \/ Awaits(s)'
    BY <1>5 DEF TypeOK, Remove, Awaits
  <2>2. Pending \subseteq Pending'
    BY <1>0, <1>5, PendingFrame DEF Remove
  <2> QED  BY <2>1, <2>2, AwaitsFrame
<1>6. ASSUME NEW p \in Ports \cup {Fixed}, Hold(p) \/ Release(p) PROVE PolicyAwaited'
  <2>1. UNCHANGED <<containers, asleep, pc, job>>
    BY <1>6 DEF Hold, Release
  <2> QED  BY <2>1, PendingFrame, AwaitsFrame
<1>7. ASSUME NEW s \in Services, Exit(s) PROVE PolicyAwaited'
  <2>1. containers[s] \in Container
    BY <1>7 DEF TypeOK, Exit
  <2>2. containers'[s].running = FALSE
    BY <1>7, <2>1 DEF TypeOK, Exit, Container
  <2>3. ASSUME NEW q \in Services PROVE containers'[q] = containers[q] \/ Awaits(q)'
    BY <1>7, <2>2 DEF TypeOK, Exit, Awaits
  <2> QED  BY <1>7, <2>3, PendingFrame, AwaitsFrame DEF Exit
<1>8. CASE UNCHANGED vars
  BY <1>8, PendingFrame, AwaitsFrame DEF vars
<1> QED
  BY <1>1, <1>2, <1>3, <1>4, <1>5, <1>6, <1>7, <1>8, AwaitsSet, AwaitsCrash
     DEF Next, Step

(* A container that runs without its restart policy has a thread that is   *)
(* going to set it, or is about to get one, unless the manager was stopped *)
(* or docker refused: no port tried in vain, no kill, exit or redeployment *)
(* loses that thread.  PolicyGetsSet adds that the thread wakes up.        *)
(* (create_service, _update_restart_policy)                                *)
THEOREM PoliciesAreAwaited == Spec => []PolicyAwaited
<1>1. Init => PolicyAwaited
  BY DEF Init, PolicyAwaited, Awaits
<1>2. TypeOK /\ PolicyAwaited /\ [Next]_vars => PolicyAwaited'
  BY AwaitsStep, ConnectorConstants
<1> QED  BY <1>1, <1>2, TypeCorrect, PTL DEF Spec
=============================================================================
