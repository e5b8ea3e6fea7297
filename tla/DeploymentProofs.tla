-------------------------- MODULE DeploymentProofs --------------------------
(* What is proved of Deployment for all names, versions, ports, tokens and *)
(* workers.                                                                *)
EXTENDS Deployment, TLAPS

-----------------------------------------------------------------------------
(* Types *)

LEMMA FinishTyped ==
    ASSUME TypeOK, NEW w \in Workers, Finish(w)
    PROVE  /\ pc' \in [Workers -> Steps \cup {"idle"}]
           /\ req' \in [Workers -> Request \cup {None}]
           /\ tok' \in [Workers -> Tokens \cup {None}]
           /\ seen' \in [Workers -> SUBSET Record]
           /\ pc'[w] = "idle"
           /\ \A x \in Workers :
                /\ pc'[x] # "idle" => up /\ req'[x] \in Request
                /\ pc'[x] \in DeploySteps
                     => tok'[x] \in Tokens /\ req'[x].port \in Ports
<1>1. ASSUME NEW x \in Workers, x # w
      PROVE  pc'[x] = pc[x] /\ req'[x] = req[x] /\ tok'[x] = tok[x]
  BY <1>1 DEF TypeOK, Finish, Goto
<1>2. pc'[w] = "idle" /\ pc'[w] \notin DeploySteps
  BY DEF TypeOK, Finish, Goto, DeploySteps
<1>3. QED BY <1>1, <1>2 DEF TypeOK, Finish, Goto

LEMMA RowsTyped ==
    ASSUME TypeOK, NEW n
    PROVE  RowsOf(n) \subseteq Record
  BY DEF TypeOK, RowsOf

LEMMA MirrorTyped ==
    ASSUME NEW rows \in SUBSET Record
    PROVE  MirrorOf(rows) \in Mirror
<1>1. (IF Mains(rows) = {} THEN None
                           ELSE (CHOOSE r \in Mains(rows) : TRUE).version)
        \in Versions \cup {None}
  BY DEF Mains, Record
<1>2. VersionsOf(Shadows(rows)) \subseteq Versions
  BY DEF VersionsOf, Shadows, Record
<1>3. QED BY <1>1, <1>2 DEF MirrorOf, Mirror

(* Every variable keeps its type, and a worker that handles a request      *)
(* holds a request of that kind; handlers exist only while the manager is  *)
(* up.                                                                     *)
THEOREM TypeCorrect == Spec => []TypeOK
<1>1. Init => TypeOK
  BY DEF Init, TypeOK, Steps, DeploySteps, KillSteps
<1>2. TypeOK /\ [Next]_vars => TypeOK'
  <2> SUFFICES ASSUME TypeOK, [Next]_vars PROVE TypeOK'
    OBVIOUS
  <2> USE DEF TypeOK, Goto, Remember, database, files
  <2>1. ASSUME NEW w \in Workers, Accept(w) PROVE TypeOK'
    <3>1. ASSUME NEW n \in Names, NEW v \in Versions, NEW p \in Ports,
                 StartDeploy(w, n, v, p)
          PROVE  TypeOK'
      BY <3>1 DEF StartDeploy, MayStart, Request, Steps, DeploySteps, KillSteps
    <3>2. ASSUME NEW n \in Names, NEW v \in Versions, StartKill(w, n, v)
          PROVE  TypeOK'
      BY <3>2 DEF StartKill, MayStart, Request, Steps, DeploySteps, KillSteps
    <3>3. ASSUME NEW n \in Names, NEW v \in Versions, StartAssign(w, n, v)
          PROVE  TypeOK'
      BY <3>3, RowsTyped
      DEF StartAssign, MayStart, Request, Steps, DeploySteps, KillSteps
    <3>4. QED BY <2>1, <3>1, <3>2, <3>3 DEF Accept
  <2>2. ASSUME NEW w \in Workers, DeployStep(w) PROVE TypeOK'
    <3>1. CASE NewApiToken(w)
      BY <3>1 DEF NewApiToken, Steps, DeploySteps, KillSteps
    <3>2. CASE CreateService(w)
      BY <3>2 DEF CreateService, Steps, DeploySteps, KillSteps, Service, Target,
                  Container, Request
    <3>3. CASE CreateServiceFails(w)
      BY <3>3, FinishTyped DEF CreateServiceFails
    <3>4. CASE StartContainerFails(w)
      BY <3>4, FinishTyped DEF StartContainerFails, Service, Target, Container,
                               Request, DeploySteps
    <3>5. CASE AddRecordRead(w)
      BY <3>5, RowsTyped DEF AddRecordRead, OwnRows, Steps, DeploySteps, KillSteps
    <3>6. CASE AddRecordCommit(w)
      BY <3>6 DEF AddRecordCommit, RoleFor, Record, Request, Steps, DeploySteps,
                  KillSteps
    <3>7. CASE ReadRoles(w)
      BY <3>7, FinishTyped, RowsTyped
      DEF ReadRoles, OwnRows, Steps, DeploySteps, KillSteps
    <3>8. CASE WriteServiceFile(w)
      BY <3>8 DEF WriteServiceFile, Service, Target, Request, Steps,
                  DeploySteps, KillSteps
    <3>9. CASE WriteMirror(w)
      BY <3>9, FinishTyped, MirrorTyped DEF WriteMirror, Request
    <3>10. QED
      BY <2>2, <3>1, <3>2, <3>3, <3>4, <3>5, <3>6, <3>7, <3>8, <3>9
      DEF DeployStep
  <2>3. ASSUME NEW w \in Workers, KillStep(w) PROVE TypeOK'
    <3>1. CASE RemoveContainer(w)
      BY <3>1, FinishTyped DEF RemoveContainer, Steps, DeploySteps, KillSteps
    <3>2. ASSUME NEW next \in {"revoke", "delete_commit"}, pc[w] # "idle",
                 LookUp(w, next)
          PROVE  TypeOK'
      BY <3>2, FinishTyped, RowsTyped
      DEF LookUp, OwnRecord, OwnRows, Matching, Steps, DeploySteps, KillSteps
    <3>3. CASE ReadRecord(w)
      BY <3>2, <3>3 DEF ReadRecord
    <3>4. CASE DeleteTokenRead(w)
      BY <3>4, FinishTyped DEF DeleteTokenRead, Steps, DeploySteps, KillSteps
    <3>4a. CASE DeleteTokenCommit(w)
      BY <3>4a DEF DeleteTokenCommit, Steps, DeploySteps, KillSteps
    <3>5. CASE DeleteRecordRead(w)
      BY <3>2, <3>5 DEF DeleteRecordRead
    <3>6. CASE DeleteRecordCommit(w)
      BY <3>6 DEF DeleteRecordCommit, Steps, DeploySteps, KillSteps
    <3>7. CASE UnlinkServiceFile(w)
      BY <3>7 DEF UnlinkServiceFile, Steps, DeploySteps, KillSteps
    <3>8. CASE UnlinkMirror(w)
      BY <3>8 DEF UnlinkMirror, Steps, DeploySteps, KillSteps
    <3>9. CASE ReadRolesLeft(w)
      BY <3>9, FinishTyped, RowsTyped
      DEF ReadRolesLeft, OwnRows, Steps, DeploySteps, KillSteps
    <3>10. QED
      BY <2>3, <3>1, <3>3, <3>4, <3>4a, <3>5, <3>6, <3>7, <3>8, <3>9
      DEF KillStep
  <2>4. ASSUME NEW w \in Workers, AssignCommit(w) PROVE TypeOK'
    <3>1. \A old, new : Reassigned(services, old, new) \subseteq Record
      BY DEF Reassigned, Record
    <3>2. QED
      BY <2>4, <3>1, FinishTyped DEF AssignCommit, Steps, DeploySteps, KillSteps
  <2>5. ASSUME NEW t \in Tokens, RevokeToken(t) PROVE TypeOK'
    BY <2>5 DEF RevokeToken, local
  <2>6. CASE ProcessCrash
    BY <2>6 DEF ProcessCrash, Stop, Steps, DeploySteps, KillSteps
  <2>7. CASE ContainerCrash
    BY <2>7 DEF ContainerCrash, Stop, NoFiles, Steps, DeploySteps, KillSteps
  <2>8. CASE Startup
    <3>1. \A n \in Names : MirrorOf(RowsOf(n)) \in Mirror
      BY MirrorTyped, RowsTyped
    <3>2. QED BY <2>8, <3>1 DEF Startup, local
  <2>9. CASE StartupFails
    BY <2>9 DEF StartupFails, NoFiles, local
  <2>10. CASE UNCHANGED vars
    BY <2>10 DEF vars, local
  <2>11. QED
    BY <2>1, <2>2, <2>3, <2>4, <2>5, <2>6, <2>7, <2>8, <2>9, <2>10 DEF Next, Step
<1>3. QED BY <1>1, <1>2, PTL DEF Spec

-----------------------------------------------------------------------------
(* What a step of one worker leaves alone *)

LEMMA AcceptFrame ==
    ASSUME TypeOK, NEW w \in Workers, Accept(w)
    PROVE  /\ \A x \in Workers \ {w} :
                pc'[x] = pc[x] /\ req'[x] = req[x] /\ tok'[x] = tok[x]
                /\ seen'[x] = seen[x]
           /\ services' = services
           /\ container' = container
  BY DEF TypeOK, Accept, StartDeploy, StartKill, StartAssign, Goto, Remember, database

LEMMA StepFrame ==
    ASSUME TypeOK, NEW w \in Workers, Step(w)
    PROVE  \A x \in Workers \ {w} :
             pc'[x] = pc[x] /\ req'[x] = req[x] /\ tok'[x] = tok[x]
             /\ seen'[x] = seen[x]
<1> SUFFICES ASSUME NEW x \in Workers \ {w}
             PROVE  pc'[x] = pc[x] /\ req'[x] = req[x] /\ tok'[x] = tok[x]
                    /\ seen'[x] = seen[x]
  OBVIOUS
<1> USE DEF TypeOK, Goto, Remember, Finish
<1>1. CASE DeployStep(w)
  BY <1>1 DEF DeployStep, NewApiToken, CreateService, CreateServiceFails,
       StartContainerFails, AddRecordRead, AddRecordCommit, ReadRoles,
       WriteServiceFile, WriteMirror
<1>2. CASE KillStep(w)
  BY <1>2 DEF KillStep, RemoveContainer, ReadRecord, DeleteTokenRead,
       DeleteTokenCommit,
       DeleteRecordRead, LookUp, DeleteRecordCommit, UnlinkServiceFile,
       UnlinkMirror, ReadRolesLeft
<1>3. CASE AssignCommit(w)
  BY <1>3 DEF AssignCommit
<1>4. QED BY <1>1, <1>2, <1>3 DEF Step

BeforeInsert == {"token", "create", "add", "insert"}

(* A handler ends or goes on with its request.                             *)
LEMMA StepRequest ==
    ASSUME TypeOK, NEW w \in Workers, Step(w)
    PROVE  /\ pc[w] # "idle"
           /\ \/ pc'[w] = "idle" /\ tok'[w] = None /\ seen'[w] = {}
              \/ req'[w] = req[w] /\ tok'[w] = tok[w]
           /\ pc'[w] \in BeforeInsert => pc[w] \in BeforeInsert
<1> USE DEF TypeOK, Goto, Remember, Finish, BeforeInsert
<1>1. CASE DeployStep(w)
  BY <1>1 DEF DeployStep, NewApiToken, CreateService, CreateServiceFails,
       StartContainerFails, AddRecordRead, AddRecordCommit, ReadRoles,
       WriteServiceFile, WriteMirror
<1>2. CASE KillStep(w)
  BY <1>2 DEF KillStep, RemoveContainer, ReadRecord, DeleteTokenRead,
       DeleteTokenCommit,
       DeleteRecordRead, LookUp, DeleteRecordCommit, UnlinkServiceFile,
       UnlinkMirror, ReadRolesLeft
<1>3. CASE AssignCommit(w)
  BY <1>3 DEF AssignCommit
<1>4. QED BY <1>1, <1>2, <1>3 DEF Step

(* Only three steps write the services table.                              *)
LEMMA StepServices ==
    ASSUME NEW w \in Workers, Step(w), ~AddRecordCommit(w),
           ~DeleteRecordCommit(w), ~AssignCommit(w)
    PROVE  services' = services
<1>1. CASE DeployStep(w)
  BY <1>1 DEF DeployStep, NewApiToken, CreateService, CreateServiceFails,
       StartContainerFails, AddRecordRead, AddRecordCommit, ReadRoles,
       WriteServiceFile, WriteMirror, database
<1>2. CASE KillStep(w)
  BY <1>2 DEF KillStep, RemoveContainer, ReadRecord, DeleteTokenRead,
       DeleteTokenCommit,
       DeleteRecordRead, LookUp, DeleteRecordCommit, UnlinkServiceFile,
       UnlinkMirror, ReadRolesLeft, database
<1>3. QED BY <1>1, <1>2 DEF Step

(* No step of the manager as a whole writes the services table, and none   *)
(* of them starts a handler.                                               *)
ManagerStep == (\E t \in Tokens : RevokeToken(t)) \/ ProcessCrash
               \/ ContainerCrash \/ Startup \/ StartupFails \/ UNCHANGED vars

LEMMA ManagerFrame ==
    ASSUME TypeOK, ManagerStep
    PROVE  /\ services' = services
           /\ container' = container
           /\ \/ UNCHANGED local
              \/ \A w \in Workers : pc'[w] = "idle" /\ tok'[w] = None /\ seen'[w] = {}
  BY DEF ManagerStep, RevokeToken, ProcessCrash, ContainerCrash, Stop, Startup,
         StartupFails, database, local, vars

LEMMA NextCases ==
    ASSUME [Next]_vars
    PROVE  \/ \E w \in Workers : Accept(w)
           \/ \E w \in Workers : Step(w)
           \/ ManagerStep
  BY DEF Next, ManagerStep

-----------------------------------------------------------------------------
(* Tokens *)

LEMMA TokensIdentifyStep ==
    TypeOK /\ TokensIdentify /\ [Next]_vars => TokensIdentify'
<1> SUFFICES ASSUME TypeOK, TokensIdentify, [Next]_vars PROVE TokensIdentify'
  OBVIOUS
<1>1. ASSUME NEW w \in Workers, Accept(w) PROVE TokensIdentify'
  <2>1. ASSUME NEW n \in Names, NEW v \in Versions, NEW p \in Ports,
               StartDeploy(w, n, v, p)
        PROVE  TokensIdentify'
    <3>1. PICK t \in Tokens : Fresh(t) /\ tok' = [tok EXCEPT ![w] = t]
      BY <2>1 DEF StartDeploy
    <3>2. tok'[w] = t /\ \A x \in Workers : tok[x] # t
      BY <3>1 DEF Fresh, TypeOK
    <3>3. \A r \in services : r.token # t
      BY <3>1 DEF Fresh
    <3>4. QED BY <1>1, <3>2, <3>3, AcceptFrame DEF TokensIdentify
  <2>2. ASSUME NEW n \in Names, NEW v \in Versions,
               StartKill(w, n, v) \/ StartAssign(w, n, v)
        PROVE  TokensIdentify'
    <3>1. services' = services /\ tok' = tok
      BY <2>2 DEF StartKill, StartAssign, database
    <3>2. pc'[w] \in {"remove", "assign_commit"}
      BY <2>2 DEF StartKill, StartAssign, Goto, TypeOK
    <3>3. QED BY <1>1, <3>1, <3>2, AcceptFrame DEF TokensIdentify
  <2>3. QED BY <1>1, <2>1, <2>2 DEF Accept
<1>2. ASSUME NEW w \in Workers, Step(w) PROVE TokensIdentify'
  <2>1. \A x \in Workers : /\ tok'[x] \in {tok[x], None}
                           /\ pc'[x] \in BeforeInsert =>
                                pc[x] \in BeforeInsert /\ tok'[x] = tok[x]
    <3>1. pc'[w] = "idle" => pc'[w] \notin BeforeInsert
      BY DEF BeforeInsert
    <3>2. QED BY <1>2, <3>1, StepFrame, StepRequest
  <2>2. \A x, y \in Workers : x # y /\ tok'[x] # None => tok'[x] # tok'[y]
    BY <2>1 DEF TokensIdentify
  <2>3. CASE AddRecordCommit(w)
    <3> DEFINE new == [name |-> req[w].name, version |-> req[w].version,
                       role |-> RoleFor(seen[w]), token |-> tok[w],
                       url |-> req[w].port]
    <3>1. services' = services \cup {new} /\ new.token = tok[w]
      BY <2>3 DEF AddRecordCommit
    <3> HIDE DEF new
    <3>2. \A r \in services : r.token # tok[w]
      BY <2>3 DEF AddRecordCommit, TokensIdentify
    <3>3. \A r, s \in services' : r.token = s.token => r = s
      BY <3>1, <3>2 DEF TokensIdentify
    <3>4. tok[w] # None
      BY <2>3, DeploymentConstants DEF AddRecordCommit, TypeOK, DeploySteps
    <3>5. pc'[w] \notin BeforeInsert
      BY <2>3 DEF AddRecordCommit, Goto, TypeOK, BeforeInsert
    <3>6. ASSUME NEW x \in Workers, pc'[x] \in BeforeInsert, NEW r \in services'
          PROVE  r.token # tok'[x]
      <4>1. tok'[x] = tok[x] /\ x # w /\ tok[x] # tok[w]
        BY <2>1, <3>4, <3>5, <3>6 DEF TokensIdentify
      <4>2. r \in services => r.token # tok[x]
        BY <2>1, <3>6 DEF TokensIdentify, BeforeInsert
      <4>3. QED BY <3>1, <4>1, <4>2
    <3>7. QED BY <2>2, <3>3, <3>6 DEF TokensIdentify, BeforeInsert
  <2>4. ASSUME \A r \in services' : \E q \in services : q.token = r.token,
               \A r, s \in services' : r.token = s.token => r = s
        PROVE  TokensIdentify'
    <3>1. ASSUME NEW x \in Workers, pc'[x] \in BeforeInsert, NEW r \in services'
          PROVE  r.token # tok'[x]
      BY <2>1, <2>4, <3>1 DEF TokensIdentify, BeforeInsert
    <3>2. QED BY <2>2, <2>4, <3>1 DEF TokensIdentify, BeforeInsert
  <2>5. CASE DeleteRecordCommit(w)
    BY <2>4, <2>5 DEF DeleteRecordCommit, TokensIdentify
  <2>6. CASE AssignCommit(w)
    <3>1. CASE services' = services
      BY <2>4, <3>1 DEF TokensIdentify
    <3>2. ASSUME NEW old, NEW new, services' = Reassigned(services, old, new)
          PROVE  TokensIdentify'
      <4> DEFINE R(r) == [r EXCEPT !.role = IF r.token \in new THEN "main"
                             ELSE IF r.token \in old THEN "shadow" ELSE @]
      <4>1. \A r \in services : R(r).token = r.token
        BY DEF TypeOK, Record
      <4>2. services' = {R(r) : r \in services}
        BY <3>2 DEF Reassigned
      <4> HIDE DEF R
      <4>3. QED BY <2>4, <4>1, <4>2 DEF TokensIdentify
    <3>3. QED BY <2>6, <3>1, <3>2 DEF AssignCommit
  <2>7. CASE services' = services
    BY <2>4, <2>7 DEF TokensIdentify
  <2>8. QED BY <1>2, <2>3, <2>5, <2>6, <2>7, StepServices
<1>3. CASE ManagerStep
  BY <1>3, ManagerFrame DEF TokensIdentify, local
<1>4. QED BY <1>1, <1>2, <1>3, NextCases

(* A token names at most one record and at most one deployment, however    *)
(* many requests run at the same time.                                     *)
THEOREM TokensIdentifyRecords == Spec => []TokensIdentify
<1>1. Init => TokensIdentify
  BY DEF Init, TokensIdentify
<1>2. QED BY <1>1, TypeCorrect, TokensIdentifyStep, PTL DEF Spec

-----------------------------------------------------------------------------
(* Turns *)

LEMMA InTurnStep ==
    TakeTurns /\ TypeOK /\ InTurn /\ [Next]_vars => InTurn'
<1> SUFFICES ASSUME TakeTurns, TypeOK, InTurn, [Next]_vars PROVE InTurn'
  OBVIOUS
<1>1. ASSUME NEW w \in Workers, Accept(w) PROVE InTurn'
  <2>1. \A x \in Workers \ {w} : pc'[x] # "idle" => req'[x].name # req'[w].name
    <3>1. \E n \in Names : MayStart(w, n) /\ req'[w].name = n
      BY <1>1 DEF Accept, StartDeploy, StartKill, StartAssign, TypeOK
    <3>2. QED BY <1>1, <3>1, AcceptFrame DEF MayStart
  <2>2. QED BY <1>1, <2>1, AcceptFrame DEF InTurn
<1>2. ASSUME NEW w \in Workers, Step(w) PROVE InTurn'
  BY <1>2, StepFrame, StepRequest DEF InTurn
<1>3. CASE ManagerStep
  BY <1>3, ManagerFrame DEF InTurn, local
<1>4. QED BY <1>1, <1>2, <1>3, NextCases

(* What a worker has read of a name changes only with the rows of that     *)
(* name.                                                                   *)
LEMMA CurrentFrame ==
    ASSUME NEW x \in Workers, Current(x),
           pc'[x] = pc[x], req'[x] = req[x], seen'[x] = seen[x],
           pc[x] # "idle" => RowsOf(req[x].name)' = RowsOf(req[x].name)
    PROVE  Current(x)'
<1>1. CASE pc[x] = "idle"
  BY <1>1 DEF Current
<1>2. CASE pc[x] # "idle"
  <2>1. OwnRows(x)' = OwnRows(x)
    BY <1>2 DEF OwnRows
  <2>2. OwnRecord(x)' = OwnRecord(x) /\ IsRecorded(x)' = IsRecorded(x)
    BY <2>1 DEF OwnRecord, IsRecorded
  <2>3. QED BY <2>1, <2>2 DEF Current
<1>3. QED BY <1>1, <1>2

LEMMA RowsFrame ==
    ASSUME services' = services
    PROVE  \A n : RowsOf(n)' = RowsOf(n)
  BY DEF RowsOf

(* The own step of a worker either is a commit, after which it holds no    *)
(* reading, or keeps its reading, or has just made it.                     *)
LEMMA CurrentStep ==
    ASSUME TypeOK, NEW w \in Workers, Current(w), Step(w)
    PROVE  Current(w)'
<1> USE DEF Goto, Remember, Finish, TypeOK
<1>1. ASSUME pc'[w] \notin {"insert", "remove", "record", "revoke", "revoke_commit",
                            "delete", "delete_commit", "assign_commit"}
      PROVE  Current(w)'
  BY <1>1 DEF Current
<1>2. CASE DeployStep(w)
  <2>1. CASE AddRecordRead(w)
    <3>1. CASE pc'[w] = "insert"
      <4>1. services' = services /\ req' = req /\ seen'[w] = OwnRows(w)
            /\ ~IsRecorded(w)
        BY <2>1, <3>1 DEF AddRecordRead, database
      <4>2. OwnRows(w)' = OwnRows(w)
        BY <4>1 DEF OwnRows, RowsOf
      <4>3. IsRecorded(w)' = IsRecorded(w)
        BY <4>1, <4>2 DEF IsRecorded, OwnRecord
      <4>4. QED BY <3>1, <4>1, <4>2, <4>3 DEF Current
    <3>2. QED BY <1>1, <2>1, <3>1 DEF AddRecordRead
  <2>2. CASE ~AddRecordRead(w)
    BY <1>1, <1>2, <2>2 DEF DeployStep, NewApiToken, CreateService,
         CreateServiceFails, StartContainerFails, AddRecordCommit, ReadRoles,
         WriteServiceFile, WriteMirror
  <2>3. QED BY <2>1, <2>2
<1>3. CASE KillStep(w)
  <2>1. ASSUME services' = services, req'[w] = req[w],
               MayKill(OwnRows(w), req[w].version),
               pc'[w] \in {"record", "revoke", "revoke_commit", "delete"}
        PROVE  Current(w)'
    <3>1. OwnRows(w)' = OwnRows(w)
      BY <2>1 DEF OwnRows, RowsOf
    <3>2. MayKill(OwnRows(w), req[w].version)'
      BY <2>1, <3>1 DEF MayKill
    <3>3. QED BY <2>1, <3>2 DEF Current
  <2>2. CASE RemoveContainer(w)
    <3>1. CASE pc'[w] = "record"
      BY <2>1, <2>2, <3>1 DEF RemoveContainer, Current, database
    <3>2. QED BY <1>1, <2>2, <3>1 DEF RemoveContainer
  <2>3. CASE ReadRecord(w)
    <3>1. CASE pc'[w] = "revoke"
      BY <2>1, <2>3, <3>1 DEF ReadRecord, LookUp, Current, database
    <3>2. QED BY <1>1, <2>3, <3>1 DEF ReadRecord, LookUp
  <2>4. CASE DeleteTokenRead(w)
    <3>1. CASE pc'[w] = "revoke_commit"
      BY <2>1, <2>4, <3>1 DEF DeleteTokenRead, Current, database
    <3>2. QED BY <1>1, <2>4, <3>1 DEF DeleteTokenRead
  <2>4a. CASE DeleteTokenCommit(w)
    BY <2>1, <2>4a DEF DeleteTokenCommit, Current
  <2>5. CASE DeleteRecordRead(w)
    <3>1. CASE pc'[w] = "delete_commit"
      <4>1. services' = services /\ req'[w] = req[w] /\ seen'[w] = OwnRecord(w)
            /\ MayKill(OwnRows(w), req[w].version)
        BY <2>5, <3>1 DEF DeleteRecordRead, LookUp, Current, database
      <4>2. OwnRows(w)' = OwnRows(w) /\ OwnRecord(w)' = OwnRecord(w)
        BY <4>1 DEF OwnRows, OwnRecord, RowsOf, Matching
      <4>3. MayKill(OwnRows(w), req[w].version)'
        BY <4>1, <4>2 DEF MayKill
      <4>4. QED BY <3>1, <4>1, <4>2, <4>3 DEF Current
    <3>2. QED BY <1>1, <2>5, <3>1 DEF DeleteRecordRead, LookUp
  <2>6. QED
    BY <1>1, <1>3, <2>2, <2>3, <2>4, <2>4a, <2>5 DEF KillStep,
         DeleteRecordCommit, UnlinkServiceFile, UnlinkMirror, ReadRolesLeft
<1>4. CASE AssignCommit(w)
  BY <1>1, <1>4 DEF AssignCommit
<1>5. QED BY <1>2, <1>3, <1>4 DEF Step

LEMMA CurrentAccept ==
    ASSUME TypeOK, NEW w \in Workers, Accept(w)
    PROVE  Current(w)'
<1>1. services' = services /\ \A n : RowsOf(n)' = RowsOf(n)
  BY AcceptFrame, RowsFrame
<1>2. ASSUME NEW n \in Names, NEW v \in Versions, NEW p \in Ports,
             StartDeploy(w, n, v, p)
      PROVE  Current(w)'
  BY <1>2 DEF StartDeploy, Goto, TypeOK, Current
<1>3. ASSUME NEW n \in Names, NEW v \in Versions, StartKill(w, n, v)
      PROVE  Current(w)'
  <2>1. req'[w].name = n /\ req'[w].version = v /\ pc'[w] = "remove"
    BY <1>3 DEF StartKill, Goto, TypeOK
  <2>2. MayKill(OwnRows(w), req[w].version)'
    BY <1>1, <1>3, <2>1 DEF StartKill, MayKill, OwnRows
  <2>3. QED BY <2>1, <2>2 DEF Current
<1>4. ASSUME NEW n \in Names, NEW v \in Versions, StartAssign(w, n, v)
      PROVE  Current(w)'
  <2>1. req'[w].name = n /\ req'[w].version = v /\ pc'[w] = "assign_commit"
        /\ seen'[w] = RowsOf(n)
    BY <1>4 DEF StartAssign, Goto, Remember, TypeOK
  <2>2. OwnRows(w)' = RowsOf(n)
    BY <1>1, <2>1 DEF OwnRows
  <2>3. Mains(RowsOf(n)) # {} /\ Matching(RowsOf(n), v) # {}
    BY <1>4 DEF StartAssign
  <2>4. QED BY <2>1, <2>2, <2>3 DEF Current
<1>5. QED BY <1>2, <1>3, <1>4 DEF Accept

-----------------------------------------------------------------------------
(* The rows of one name, before and after a commit *)

Consistent(rows) ==
    /\ ~Conflict(Mains(rows))
    /\ rows # {} => Mains(rows) # {}
    /\ \A v \in Versions : ~Conflict(Matching(rows, v))

LEMMA ConsistentNames ==
    (OneMain /\ SomeMain /\ OneRecord) <=> \A n \in Names : Consistent(RowsOf(n))
  BY DEF OneMain, SomeMain, OneRecord, Consistent

LEMMA MainOf ==
    ASSUME NEW rows, ~Conflict(Mains(rows)), NEW r \in Mains(rows)
    PROVE  MirrorOf(rows).main = r.version
<1>1. \A s \in Mains(rows) : s = r
  BY DEF Conflict
<1>2. (CHOOSE s \in Mains(rows) : TRUE) = r
  BY <1>1
<1>3. Mains(rows) # {}
  OBVIOUS
<1>4. QED BY <1>2, <1>3 DEF MirrorOf

(* A new version becomes main exactly when there is none.                  *)
LEMMA AddKeeps ==
    ASSUME NEW rows \in SUBSET Record, NEW new \in Record, Consistent(rows),
           Matching(rows, new.version) = {}, new.role = RoleFor(rows)
    PROVE  Consistent(rows \cup {new})
<1>1. Mains(rows \cup {new}) = IF Mains(rows) = {} THEN {new} ELSE Mains(rows)
  BY DEF Mains, RoleFor
<1>2. ~Conflict(Mains(rows \cup {new})) /\ Mains(rows \cup {new}) # {}
  BY <1>1 DEF Consistent, Conflict
<1>3. ASSUME NEW v \in Versions PROVE ~Conflict(Matching(rows \cup {new}, v))
  <2>1. CASE v = new.version
    <3>1. Matching(rows \cup {new}, v) = {new}
      BY <2>1 DEF Matching
    <3>2. QED BY <3>1 DEF Conflict
  <2>2. CASE v # new.version
    <3>1. Matching(rows \cup {new}, v) = Matching(rows, v)
      BY <2>2 DEF Matching
    <3>2. QED BY <3>1 DEF Consistent
  <2>3. QED BY <2>1, <2>2
<1>4. QED BY <1>2, <1>3 DEF Consistent

(* With the guard of a kill, what goes is a shadow or all there is.        *)
LEMMA RemoveKeeps ==
    ASSUME NEW rows \in SUBSET Record, NEW v \in Versions, Consistent(rows),
           MayKill(rows, v)
    PROVE  Consistent(rows \ Matching(rows, v))
<1> DEFINE left == rows \ Matching(rows, v)
<1>1. ~Conflict(Mains(left))
  BY DEF Consistent, Conflict, Mains
<1>2. \A u \in Versions : ~Conflict(Matching(left, u))
  BY DEF Consistent, Conflict, Matching
<1>3. ASSUME left # {} PROVE Mains(left) # {}
  <2>1. PICK m \in Mains(rows) : TRUE
    BY <1>3 DEF Consistent
  <2>2. CASE m.version # v
    BY <2>1, <2>2 DEF Mains, Matching
  <2>3. CASE m.version = v
    <3>1. Shadows(rows) = {}
      BY <2>1, <2>3, MainOf DEF Consistent, MayKill
    <3>2. \A r \in rows : r \in Mains(rows)
      BY <3>1 DEF Shadows, Mains, Record
    <3>3. \A r \in rows : r = m
      BY <2>1, <3>2 DEF Consistent, Conflict
    <3>4. QED BY <1>3, <2>3, <3>3 DEF Matching
  <2>4. QED BY <2>2, <2>3
<1>4. QED BY <1>1, <1>2, <1>3 DEF Consistent

(* The old main and the new one, both still there, swap their roles.       *)
LEMMA AssignKeeps ==
    ASSUME NEW rows \in SUBSET Record, NEW v \in Versions, Consistent(rows),
           \A r, s \in rows : r.token = s.token => r = s,
           Matching(rows, v) # {},
           NEW old, old = TokensOf(Mains(rows)),
           NEW new, new = TokensOf(Matching(rows, v))
    PROVE  /\ Consistent(Reassigned(rows, old, new))
           /\ VersionsOf(Reassigned(rows, old, new)) = VersionsOf(rows)
           /\ \A r \in Mains(Reassigned(rows, old, new)) : r.version = v
<1> DEFINE R(r) == [r EXCEPT !.role = IF r.token \in new THEN "main"
                                      ELSE IF r.token \in old THEN "shadow" ELSE @]
<1>1. Reassigned(rows, old, new) = {R(r) : r \in rows}
  BY DEF Reassigned
<1>2. PICK q \in rows : q.version = v /\ \A r \in rows : r.version = v => r = q
  BY DEF Consistent, Conflict, Matching
<1>3. \A r \in rows : r.token \in new <=> r = q
  BY <1>2 DEF TokensOf, Matching
<1>4. \A r \in rows : r.token \in old <=> r.role = "main"
  BY DEF TokensOf, Mains
<1>5. \A r \in rows : /\ R(r) \in Record
                      /\ R(r).version = r.version
                      /\ R(r).role = "main" <=> r = q
  BY <1>3, <1>4 DEF Record
<1> HIDE DEF R
<1>6. Mains({R(r) : r \in rows}) = {R(q)}
  BY <1>5 DEF Mains
<1>7. \A u \in Versions : ~Conflict(Matching({R(r) : r \in rows}, u))
  BY <1>5 DEF Consistent, Conflict, Matching
<1>8. VersionsOf({R(r) : r \in rows}) = VersionsOf(rows)
  BY <1>5 DEF VersionsOf
<1>9. ~Conflict({R(q)}) /\ R(q).version = v
  BY <1>2, <1>5 DEF Conflict
<1>10. Consistent({R(r) : r \in rows})
  BY <1>6, <1>7, <1>9 DEF Consistent
<1>11. \A r \in Mains({R(r) : r \in rows}) : r.version = v
  BY <1>6, <1>9
<1>12. QED BY <1>1, <1>8, <1>10, <1>11

-----------------------------------------------------------------------------
(* What the commits do to the rows of the name, and of other names *)

LEMMA AddCommit ==
    ASSUME TypeOK, TurnsInv, NEW w \in Workers, AddRecordCommit(w)
    PROVE  LET new == [name |-> req[w].name, version |-> req[w].version,
                       role |-> RoleFor(seen[w]), token |-> tok[w],
                       url |-> req[w].port]
           IN /\ new \in Record
              /\ Matching(OwnRows(w), new.version) = {}
              /\ new.role = RoleFor(OwnRows(w))
              /\ \A n \in Names : RowsOf(n)' = IF n = req[w].name
                                              THEN OwnRows(w) \cup {new}
                                              ELSE RowsOf(n)
<1> DEFINE new == [name |-> req[w].name, version |-> req[w].version,
                   role |-> RoleFor(seen[w]), token |-> tok[w],
                   url |-> req[w].port]
<1>1. pc[w] = "insert" /\ services' = services \cup {new} /\ req'[w] = req[w]
  BY DEF AddRecordCommit
<1>2. new \in Record
  BY <1>1 DEF TypeOK, Record, Request, RoleFor, DeploySteps
<1>3. seen[w] = OwnRows(w) /\ OwnRecord(w) = {}
  BY <1>1 DEF TurnsInv, Current, IsRecorded
<1>4. new.name = req[w].name /\ new.version = req[w].version
      /\ new.role = RoleFor(seen[w])
  OBVIOUS
<1> HIDE DEF new
<1>5. \A n \in Names : RowsOf(n)' = IF n = req[w].name
                                     THEN OwnRows(w) \cup {new} ELSE RowsOf(n)
  BY <1>1, <1>4 DEF RowsOf, OwnRows
<1>6. Matching(OwnRows(w), new.version) = {} /\ new.role = RoleFor(OwnRows(w))
  BY <1>3, <1>4 DEF OwnRecord
<1>7. QED BY <1>2, <1>5, <1>6 DEF new

LEMMA DeleteCommit ==
    ASSUME TypeOK, TurnsInv, NEW w \in Workers, DeleteRecordCommit(w)
    PROVE  /\ MayKill(OwnRows(w), req[w].version)
           /\ \A n \in Names :
                RowsOf(n)' = IF n = req[w].name
                             THEN OwnRows(w) \ Matching(OwnRows(w), req[w].version)
                             ELSE RowsOf(n)
<1>1. pc[w] = "delete_commit" /\ req'[w] = req[w]
      /\ services' = {r \in services : \A s \in seen[w] : r.token # s.token}
  BY DEF DeleteRecordCommit
<1>2. seen[w] = OwnRecord(w) /\ MayKill(OwnRows(w), req[w].version)
  BY <1>1 DEF TurnsInv, Current
<1>3. services' = services \ OwnRecord(w)
  BY <1>1, <1>2 DEF TurnsInv, TokensIdentify, OwnRecord, OwnRows, RowsOf, Matching
<1>4. QED BY <1>2, <1>3 DEF OwnRecord, OwnRows, RowsOf, Matching

LEMMA AssignRows ==
    ASSUME TypeOK, TurnsInv, NEW w \in Workers, AssignCommit(w)
    PROVE  LET rows == OwnRows(w)
               old == TokensOf(Mains(rows))
               new == TokensOf(Matching(rows, req[w].version))
           IN /\ Mains(rows) # {} /\ Matching(rows, req[w].version) # {}
              /\ pc'[w] = "roles_left" /\ UNCHANGED <<req, tok>>
              /\ \/ services' = services /\ old = new
                 \/ \A n \in Names : RowsOf(n)' = IF n = req[w].name
                                                 THEN Reassigned(rows, old, new)
                                                 ELSE RowsOf(n)
<1> DEFINE rows == OwnRows(w)
           old == TokensOf(Mains(rows))
           new == TokensOf(Matching(rows, req[w].version))
           R(r) == [r EXCEPT !.role = IF r.token \in new THEN "main"
                                      ELSE IF r.token \in old THEN "shadow" ELSE @]
<1>1. seen[w] = rows /\ Mains(rows) # {} /\ Matching(rows, req[w].version) # {}
      /\ old \cup new \subseteq TokensOf(services)
  BY DEF AssignCommit, TurnsInv, Current, TokensOf, Mains, Matching, OwnRows, RowsOf
<1> HIDE DEF old, new
<1>2. SUFFICES ASSUME services' = Reassigned(services, old, new)
               PROVE  \A n \in Names : RowsOf(n)' = IF n = req[w].name
                                                    THEN Reassigned(rows, old, new)
                                                    ELSE RowsOf(n)
  <2>1. old = TokensOf(Mains(seen[w])) /\ new = TokensOf(Matching(seen[w], req[w].version))
    BY <1>1 DEF old, new
  <2>2. /\ pc'[w] = "roles_left" /\ UNCHANGED <<req, tok>>
        /\ services' = IF old = new THEN services ELSE Reassigned(services, old, new)
    BY <1>1, <2>1 DEF AssignCommit, Goto, TypeOK
  <2>3. QED BY <1>1, <1>2, <2>2 DEF old, new
<1> USE DEF old, new
<1>3. pc[w] = "assign_commit" /\ req[w] \in Request
  BY DEF AssignCommit, TypeOK
<1>4. \A r \in services : R(r).name = r.name
  BY DEF TypeOK, Record
<1>5. \A r \in services : r.name # req[w].name => R(r) = r
  <2>1. \A r \in services : r.token \in old \cup new => r \in rows
    BY DEF TurnsInv, TokensIdentify, TokensOf, Mains, Matching, OwnRows, RowsOf
  <2>2. \A r \in services : r.name # req[w].name => r.token \notin old \cup new
    BY <2>1 DEF OwnRows, RowsOf
  <2>3. QED BY <2>2 DEF TypeOK, Record
<1>6. services' = {R(r) : r \in services}
  BY <1>2 DEF Reassigned
<1>7. Reassigned(rows, old, new) = {R(r) : r \in rows}
  BY DEF Reassigned
<1> HIDE DEF R, old, new
<1>8. {r \in services' : r.name = req[w].name} = {R(r) : r \in rows}
  BY <1>4, <1>6 DEF OwnRows, RowsOf
<1>9. \A n : n # req[w].name => {r \in services' : r.name = n} = RowsOf(n)
  BY <1>4, <1>5, <1>6 DEF RowsOf
<1>10. QED BY <1>7, <1>8, <1>9 DEF RowsOf

-----------------------------------------------------------------------------
(* The invariant of turns *)

LEMMA TurnsInvStep ==
    TakeTurns /\ TypeOK /\ TurnsInv /\ [Next]_vars => TurnsInv'
<1> SUFFICES ASSUME TakeTurns, TypeOK, TurnsInv, [Next]_vars PROVE TurnsInv'
  OBVIOUS
<1>1. TokensIdentify' /\ InTurn'
  BY TokensIdentifyStep, InTurnStep DEF TurnsInv
<1>2. \A n \in Names : Consistent(RowsOf(n)) /\ RowsOf(n) \in SUBSET Record
  BY ConsistentNames, RowsTyped DEF TurnsInv
<1>3. ASSUME \A n \in Names : Consistent(RowsOf(n)')
      PROVE  (OneMain /\ SomeMain /\ OneRecord)'
  BY <1>3 DEF OneMain, SomeMain, OneRecord, Consistent
<1>4. ASSUME NEW w \in Workers, Accept(w) PROVE TurnsInv'
  <2>1. services' = services /\ \A n : RowsOf(n)' = RowsOf(n)
    BY <1>4, AcceptFrame, RowsFrame
  <2>2. \A x \in Workers : Current(x)'
    <3>1. ASSUME NEW x \in Workers, x # w PROVE Current(x)'
      BY <1>4, <2>1, <3>1, AcceptFrame, CurrentFrame DEF TurnsInv
    <3>2. QED BY <1>4, <3>1, CurrentAccept
  <2>3. QED BY <1>1, <1>2, <1>3, <2>1, <2>2 DEF TurnsInv
<1>5. ASSUME NEW w \in Workers, Step(w) PROVE TurnsInv'
  <2>1. ASSUME NEW x \in Workers, x # w, pc[x] # "idle"
        PROVE  req[x].name # req[w].name /\ req[x].name \in Names
    BY <1>5, <2>1, StepRequest DEF TurnsInv, InTurn, TypeOK, Request
  <2>2. req[w].name \in Names /\ req[w].version \in Versions
    BY <1>5, StepRequest DEF TypeOK, Request
  <2>3. ASSUME \A n \in Names : n # req[w].name => RowsOf(n)' = RowsOf(n),
               \A n \in Names : n = req[w].name => Consistent(RowsOf(n)')
        PROVE  TurnsInv'
    <3>1. \A x \in Workers : Current(x)'
      <4>1. ASSUME NEW x \in Workers, x # w PROVE Current(x)'
        BY <1>5, <2>1, <2>3, <4>1, StepFrame, CurrentFrame DEF TurnsInv
      <4>2. QED BY <1>5, <4>1, CurrentStep DEF TurnsInv
    <3>2. \A n \in Names : Consistent(RowsOf(n)')
      BY <1>2, <2>3
    <3>3. QED BY <1>1, <1>3, <3>1, <3>2 DEF TurnsInv
  <2>4. CASE services' = services
    BY <1>2, <2>3, <2>4, RowsFrame
  <2>5. CASE AddRecordCommit(w)
    <3> DEFINE new == [name |-> req[w].name, version |-> req[w].version,
                       role |-> RoleFor(seen[w]), token |-> tok[w],
                       url |-> req[w].port]
    <3>1. /\ new \in Record
          /\ Matching(OwnRows(w), new.version) = {}
          /\ new.role = RoleFor(OwnRows(w))
          /\ \A n \in Names : RowsOf(n)' = IF n = req[w].name
                                          THEN OwnRows(w) \cup {new}
                                          ELSE RowsOf(n)
      BY <2>5, AddCommit
    <3> HIDE DEF new
    <3>2. Consistent(OwnRows(w) \cup {new})
      BY <1>2, <2>2, <3>1, AddKeeps DEF OwnRows
    <3>3. QED BY <2>3, <3>1, <3>2
  <2>6. CASE DeleteRecordCommit(w)
    BY <1>2, <2>2, <2>3, <2>6, DeleteCommit, RemoveKeeps DEF OwnRows
  <2>7. CASE AssignCommit(w)
    <3>1. \A r, s \in OwnRows(w) : r.token = s.token => r = s
      BY DEF TurnsInv, TokensIdentify, OwnRows, RowsOf
    <3>2. QED
      BY <1>2, <2>2, <2>3, <2>4, <2>7, <3>1, AssignRows, AssignKeeps DEF OwnRows
  <2>8. QED BY <1>5, <2>4, <2>5, <2>6, <2>7, StepServices
<1>6. CASE ManagerStep
  <2>1. \A n : RowsOf(n)' = RowsOf(n)
    BY <1>6, ManagerFrame, RowsFrame
  <2>2. \A x \in Workers : Current(x)'
    <3>1. CASE UNCHANGED local
      BY <2>1, <3>1, CurrentFrame DEF TurnsInv, local
    <3>2. CASE \A w \in Workers : pc'[w] = "idle"
      BY <3>2 DEF Current
    <3>3. QED BY <1>6, <3>1, <3>2, ManagerFrame
  <2>3. QED BY <1>1, <1>2, <1>3, <2>1, <2>2 DEF TurnsInv
<1>7. QED BY <1>4, <1>5, <1>6, NextCases

LEMMA TurnsInvInit == Init => TurnsInv
  BY DEF Init, TurnsInv, TokensIdentify, InTurn, Current, OneMain, SomeMain,
         OneRecord, Conflict, Mains, Matching, RowsOf

(* When clients take turns on a name, what a worker has read of its name   *)
(* is still so when it commits, and the guard of a kill still holds.       *)
(* (add_new_service_record, assign_main_version, kill_service)             *)
THEOREM ReadingsStayCurrent == ASSUME TakeTurns PROVE Spec => []TurnsInv
<1>1. TypeOK /\ TurnsInv /\ [Next]_vars => TurnsInv'
  BY TurnsInvStep
<1>2. QED BY <1>1, TypeCorrect, TurnsInvInit, PTL DEF Spec

(* When clients take turns on a name, every name with records has exactly  *)
(* one main version and no version twice, through every interleaving with  *)
(* requests for other names, every failure and every crash.                *)
THEOREM TurnsSuffice ==
    ASSUME TakeTurns
    PROVE  Spec => [](OneMain /\ SomeMain /\ OneRecord)
<1>1. TurnsInv => OneMain /\ SomeMain /\ OneRecord
  BY DEF TurnsInv
<1>2. QED BY <1>1, ReadingsStayCurrent, PTL

-----------------------------------------------------------------------------
(* Tokens and records without turns: any number of requests for the same   *)
(* name may overlap.                                                       *)

(* Where rows, readings and containers come from *)

SameService(r, q) == r.token = q.token /\ r.name = q.name /\ r.version = q.version

LEMMA StepRows ==
    ASSUME TypeOK, NEW w \in Workers, Step(w), NEW r \in services'
    PROVE  \/ \E q \in services : SameService(r, q)
           \/ /\ pc[w] = "insert" /\ r.token = tok[w]
              /\ <<r.name, r.version>> = Target(w)
<1>1. CASE AddRecordCommit(w)
  BY <1>1 DEF AddRecordCommit, SameService, Target
<1>2. CASE DeleteRecordCommit(w)
  BY <1>2 DEF DeleteRecordCommit, SameService
<1>3. CASE AssignCommit(w)
  <2>1. CASE services' = services
    BY <2>1 DEF SameService
  <2>2. ASSUME NEW old, NEW new, services' = Reassigned(services, old, new)
        PROVE  \E q \in services : SameService(r, q)
    <3>1. PICK q \in services :
            r = [q EXCEPT !.role = IF q.token \in new THEN "main"
                                   ELSE IF q.token \in old THEN "shadow" ELSE @]
      BY <2>2 DEF Reassigned
    <3>2. SameService(r, q)
      BY <3>1 DEF TypeOK, Record, SameService
    <3>3. QED BY <3>2
  <2>3. QED BY <1>3, <2>1, <2>2 DEF AssignCommit
<1>4. CASE services' = services
  BY <1>4 DEF SameService
<1>5. QED BY <1>1, <1>2, <1>3, <1>4, StepServices

LEMMA StepReads ==
    ASSUME TypeOK, NEW w \in Workers, Step(w), NEW r \in seen'[w]
    PROVE  r \in services \/ r \in seen[w]
<1> USE DEF TypeOK, Goto, Remember, Finish, OwnRecord, OwnRows, RowsOf, Matching
<1>1. CASE DeployStep(w)
  BY <1>1 DEF DeployStep, NewApiToken, CreateService, CreateServiceFails,
       StartContainerFails, AddRecordRead, AddRecordCommit, ReadRoles,
       WriteServiceFile, WriteMirror
<1>2. CASE KillStep(w)
  BY <1>2 DEF KillStep, RemoveContainer, ReadRecord, DeleteTokenRead,
       DeleteTokenCommit,
       DeleteRecordRead, LookUp, DeleteRecordCommit, UnlinkServiceFile,
       UnlinkMirror, ReadRolesLeft
<1>3. CASE AssignCommit(w)
  BY <1>3 DEF AssignCommit
<1>4. QED BY <1>1, <1>2, <1>3 DEF Step

LEMMA StepRuns ==
    ASSUME TypeOK, NEW w \in Workers, Step(w), NEW s \in Service,
           container'[s] # None
    PROVE  \/ container'[s] = container[s]
           \/ s = Target(w) /\ container'[s].token = tok[w]
<1> USE DEF TypeOK
<1>1. CASE DeployStep(w)
  BY <1>1 DEF DeployStep, NewApiToken, CreateService, CreateServiceFails,
       StartContainerFails, AddRecordRead, AddRecordCommit, ReadRoles,
       WriteServiceFile, WriteMirror
<1>2. CASE KillStep(w)
  BY <1>2 DEF KillStep, RemoveContainer, ReadRecord, DeleteTokenRead,
       DeleteTokenCommit,
       DeleteRecordRead, LookUp, DeleteRecordCommit, UnlinkServiceFile,
       UnlinkMirror, ReadRolesLeft
<1>3. CASE AssignCommit(w)
  BY <1>3 DEF AssignCommit
<1>4. QED BY <1>1, <1>2, <1>3 DEF Step

-----------------------------------------------------------------------------
(* Owners of tokens *)

(* A step of a handler gives no token to a service that did not have it.   *)
LEMMA StepUses ==
    ASSUME TypeOK, NEW w \in Workers, Step(w), NEW t \in Tokens,
           NEW s \in Service, Uses(t, s)'
    PROVE  Uses(t, s)
<1>1. ASSUME NEW r \in services, r.token = t, <<r.name, r.version>> = s
      PROVE  Uses(t, s)
  BY <1>1 DEF Uses
<1>2. ASSUME NEW x \in Workers, NEW r \in seen[x], r.token = t,
             <<r.name, r.version>> = s
      PROVE  Uses(t, s)
  BY <1>2 DEF Uses
<1>3. ASSUME NEW x \in Workers, pc[x] # "idle", tok[x] = t, Target(x) = s
      PROVE  Uses(t, s)
  BY <1>3 DEF Uses
<1>4. ASSUME NEW r \in services', r.token = t, <<r.name, r.version>> = s
      PROVE  Uses(t, s)
  BY <1>1, <1>3, <1>4, StepRows DEF SameService
<1>5. ASSUME container'[s] # None, container'[s].token = t
      PROVE  Uses(t, s)
  <2>1. pc[w] # "idle"
    BY StepRequest
  <2>2. CASE container'[s] = container[s]
    BY <1>5, <2>2 DEF Uses
  <2>3. CASE s = Target(w) /\ container'[s].token = tok[w]
    BY <1>3, <1>5, <2>1, <2>3
  <2>4. QED BY <1>5, <2>2, <2>3, StepRuns
<1>6. ASSUME NEW x \in Workers, pc'[x] # "idle", tok'[x] = t, Target(x)' = s
      PROVE  Uses(t, s)
  <2>1. pc[x] # "idle" /\ tok[x] = t /\ req'[x] = req[x]
    BY <1>6, StepFrame, StepRequest
  <2>2. QED BY <1>3, <1>6, <2>1 DEF Target
<1>7. ASSUME NEW x \in Workers, NEW r \in seen'[x], r.token = t,
             <<r.name, r.version>> = s
      PROVE  Uses(t, s)
  BY <1>1, <1>2, <1>7, StepFrame, StepReads
<1>8. QED BY <1>4, <1>5, <1>6, <1>7 DEF Uses

(* A reading is of the version the handler kills.                          *)
LEMMA StepRevoke ==
    ASSUME TypeOK, OneOwner, NEW w \in Workers, Step(w),
           pc'[w] \in {"revoke", "revoke_commit"}, NEW r \in seen'[w]
    PROVE  <<r.name, r.version>> = Target(w)'
<1> USE DEF TypeOK, Goto, Finish
<1>1. ReadRecord(w) \/ DeleteTokenRead(w)
  <2>1. CASE DeployStep(w)
    BY <2>1 DEF DeployStep, NewApiToken, CreateService, CreateServiceFails,
         StartContainerFails, AddRecordRead, AddRecordCommit, ReadRoles,
         WriteServiceFile, WriteMirror
  <2>2. CASE KillStep(w)
    BY <2>2 DEF KillStep, RemoveContainer, DeleteTokenCommit, DeleteRecordRead,
         LookUp, DeleteRecordCommit, UnlinkServiceFile, UnlinkMirror,
         ReadRolesLeft
  <2>3. CASE AssignCommit(w)
    BY <2>3 DEF AssignCommit
  <2>4. QED BY <2>1, <2>2, <2>3 DEF Step
<1>2. CASE ReadRecord(w)
  <2>1. seen'[w] = OwnRecord(w) /\ req'[w] = req[w]
    BY <1>2 DEF ReadRecord, LookUp, Remember
  <2>2. QED BY <2>1 DEF OwnRecord, OwnRows, RowsOf, Matching, Target
<1>3. CASE DeleteTokenRead(w)
  <2>1. seen'[w] = seen[w] /\ req'[w] = req[w] /\ pc[w] = "revoke"
    BY <1>3 DEF DeleteTokenRead
  <2>2. QED BY <2>1 DEF OneOwner, Target
<1>4. QED BY <1>1, <1>2, <1>3

LEMMA StepIdle ==
    ASSUME TypeOK, NEW w \in Workers, Step(w), pc'[w] = "idle"
    PROVE  tok'[w] = None
<1> USE DEF TypeOK, Goto, Finish
<1>1. CASE DeployStep(w)
  BY <1>1 DEF DeployStep, NewApiToken, CreateService, CreateServiceFails,
       StartContainerFails, AddRecordRead, AddRecordCommit, ReadRoles,
       WriteServiceFile, WriteMirror
<1>2. CASE KillStep(w)
  BY <1>2 DEF KillStep, RemoveContainer, ReadRecord, DeleteTokenRead,
       DeleteTokenCommit,
       DeleteRecordRead, LookUp, DeleteRecordCommit, UnlinkServiceFile,
       UnlinkMirror, ReadRolesLeft
<1>3. CASE AssignCommit(w)
  BY <1>3 DEF AssignCommit
<1>4. QED BY <1>1, <1>2, <1>3 DEF Step

(* The token of a new deployment is nobody's yet.                          *)
LEMMA AcceptUses ==
    ASSUME TypeOK, OneOwner, NEW w \in Workers, Accept(w)
    PROVE  /\ \A t \in Tokens, s, q \in Service : Uses(t, s)' /\ Uses(t, q)' => s = q
           /\ pc'[w] \notin {"idle", "revoke", "revoke_commit"}
<1>1. ASSUME NEW n \in Names, NEW v \in Versions, NEW p \in Ports,
             StartDeploy(w, n, v, p)
      PROVE  /\ \A t \in Tokens, s, q \in Service : Uses(t, s)' /\ Uses(t, q)' => s = q
             /\ pc'[w] \notin {"idle", "revoke", "revoke_commit"}
  <2>1. PICK t \in Tokens : Fresh(t) /\ tok' = [tok EXCEPT ![w] = t]
    BY <1>1 DEF StartDeploy
  <2>2. \A s \in Service : ~Uses(t, s)
    BY <2>1 DEF Fresh, Uses
  <2>3. /\ services' = services /\ container' = container /\ seen' = seen
        /\ tok'[w] = t /\ pc'[w] = "token"
    BY <1>1, <2>1 DEF StartDeploy, database, Goto, TypeOK
  <2>4. ASSUME NEW u \in Tokens, NEW s \in Service, Uses(u, s)'
        PROVE  Uses(u, s) \/ (u = t /\ s = Target(w)')
    <3>1. ASSUME NEW x \in Workers, x # w, pc'[x] # "idle", tok'[x] = u,
                 Target(x)' = s
          PROVE  Uses(u, s)
      BY <1>1, <3>1, AcceptFrame DEF Accept, Uses, Target
    <3>2. QED BY <2>3, <2>4, <3>1 DEF Uses
  <2>5. QED BY <2>2, <2>3, <2>4 DEF OneOwner
<1>2. ASSUME NEW n \in Names, NEW v \in Versions,
             StartKill(w, n, v) \/ StartAssign(w, n, v)
      PROVE  /\ \A t \in Tokens, s, q \in Service : Uses(t, s)' /\ Uses(t, q)' => s = q
             /\ pc'[w] \notin {"idle", "revoke", "revoke_commit"}
  <2>1. /\ services' = services /\ container' = container /\ tok' = tok
        /\ pc'[w] \in {"remove", "assign_commit"}
        /\ seen'[w] \subseteq seen[w] \cup services
    BY <1>2 DEF StartKill, StartAssign, database, Goto, Remember, TypeOK, RowsOf
  <2>2. tok[w] = None
    BY <1>2 DEF StartKill, StartAssign, MayStart, OneOwner
  <2>3. ASSUME NEW u \in Tokens, NEW s \in Service, Uses(u, s)'
        PROVE  Uses(u, s)
    <3>1. ASSUME NEW x \in Workers, pc'[x] # "idle", tok'[x] = u, Target(x)' = s
          PROVE  Uses(u, s)
      <4>1. x # w
        BY <2>1, <2>2, <3>1, DeploymentConstants
      <4>2. QED BY <1>2, <3>1, <4>1, AcceptFrame DEF Accept, Uses, Target
    <3>2. ASSUME NEW x \in Workers, NEW r \in seen'[x], r.token = u,
                 <<r.name, r.version>> = s
          PROVE  Uses(u, s)
      BY <1>2, <2>1, <3>2, AcceptFrame DEF Accept, Uses
    <3>3. QED BY <2>1, <2>3, <3>1, <3>2 DEF Uses
  <2>4. QED BY <2>1, <2>3 DEF OneOwner
<1>3. QED BY <1>1, <1>2 DEF Accept

LEMMA OneOwnerStep == TypeOK /\ OneOwner /\ [Next]_vars => OneOwner'
<1> SUFFICES ASSUME TypeOK, OneOwner, [Next]_vars PROVE OneOwner'
  OBVIOUS
<1>1. ASSUME NEW w \in Workers, Accept(w) PROVE OneOwner'
  <2>1. ASSUME NEW x \in Workers, x # w
        PROVE  /\ pc'[x] = "idle" => tok'[x] = None
               /\ pc'[x] \in {"revoke", "revoke_commit"} =>
                    \A r \in seen'[x] : <<r.name, r.version>> = Target(x)'
    BY <1>1, <2>1, AcceptFrame DEF OneOwner, Target
  <2>2. QED BY <1>1, <2>1, AcceptUses DEF OneOwner
<1>2. ASSUME NEW w \in Workers, Step(w) PROVE OneOwner'
  <2>1. \A t \in Tokens, s, q \in Service : Uses(t, s)' /\ Uses(t, q)' => s = q
    BY <1>2, StepUses DEF OneOwner
  <2>2. ASSUME NEW x \in Workers, pc'[x] \in {"revoke", "revoke_commit"},
               NEW r \in seen'[x]
        PROVE  <<r.name, r.version>> = Target(x)'
    <3>1. CASE x = w
      BY <1>2, <2>2, <3>1, StepRevoke
    <3>2. CASE x # w
      BY <1>2, <2>2, <3>2, StepFrame DEF OneOwner, Target
    <3>3. QED BY <3>1, <3>2
  <2>3. ASSUME NEW x \in Workers, pc'[x] = "idle" PROVE tok'[x] = None
    <3>1. CASE x = w
      BY <1>2, <2>3, <3>1, StepIdle
    <3>2. CASE x # w
      BY <1>2, <2>3, <3>2, StepFrame DEF OneOwner
    <3>3. QED BY <3>1, <3>2
  <2>4. QED BY <2>1, <2>2, <2>3 DEF OneOwner
<1>3. CASE ManagerStep
  <2>1. CASE UNCHANGED local
    BY <1>3, <2>1, ManagerFrame DEF OneOwner, Uses, Target, local
  <2>2. CASE \A w \in Workers : pc'[w] = "idle" /\ tok'[w] = None /\ seen'[w] = {}
    BY <1>3, <2>2, ManagerFrame DEF OneOwner, Uses
  <2>3. QED BY <1>3, <2>1, <2>2, ManagerFrame
<1>4. QED BY <1>1, <1>2, <1>3, NextCases

LEMMA OneOwnerInit == Init => OneOwner
  BY DEF Init, OneOwner, Uses

(* No token ever belongs to two services, and a kill reads the token of    *)
(* its own version only: for any number of overlapping requests, crashes   *)
(* and redeployments.                                                      *)
THEOREM OneOwnerAlways == Spec => []OneOwner
  BY TypeCorrect, OneOwnerInit, OneOwnerStep, PTL DEF Spec

-----------------------------------------------------------------------------
(* What the steps of handlers do to other services and to records *)

LEMMA RevokeStep ==
    ASSUME TypeOK, [Next]_vars, NEW w \in Workers,
           pc[w] = "revoke_commit", pc'[w] = "delete"
    PROVE  tokens' = tokens \ TokensOf(seen[w])
<1>1. PICK x \in Workers : Step(x)
  <2>1. \A x \in Workers : Accept(x) => pc'[w] # "delete"
    BY AcceptFrame DEF Accept, StartDeploy, StartKill, StartAssign, MayStart,
                       Goto, TypeOK
  <2>2. ManagerStep => pc'[w] # "delete"
    BY ManagerFrame DEF local
  <2>3. QED BY <2>1, <2>2, NextCases
<1>2. x = w
  BY <1>1, StepFrame
<1>3. DeleteTokenCommit(w)
  <2> USE DEF TypeOK, Goto, Finish
  <2>1. CASE DeployStep(w)
    BY <2>1 DEF DeployStep, NewApiToken, CreateService, CreateServiceFails,
         StartContainerFails, AddRecordRead, AddRecordCommit, ReadRoles,
         WriteServiceFile, WriteMirror
  <2>2. CASE KillStep(w)
    BY <2>2 DEF KillStep, RemoveContainer, ReadRecord, LookUp,
         DeleteTokenRead, DeleteRecordRead, DeleteRecordCommit,
         UnlinkServiceFile, UnlinkMirror, ReadRolesLeft
  <2>3. CASE AssignCommit(w)
    BY <2>3 DEF AssignCommit
  <2>4. QED BY <1>1, <1>2, <2>1, <2>2, <2>3 DEF Step
<1>4. QED BY <1>3 DEF DeleteTokenCommit

(* Killing a version takes the token of no other service, whatever runs at *)
(* the same time and whatever crashed before.                              *)
THEOREM KillsSpareOthers == Spec => KillSparesOthers
<1>1. ASSUME TypeOK, OneOwner, [Next]_vars, NEW w \in Workers, NEW s \in Service,
             pc[w] = "revoke_commit", pc'[w] = "delete", container[s] # None,
             container[s].token \in tokens \ tokens'
      PROVE  s = Target(w)
  <2>1. PICK r \in seen[w] : r.token = container[s].token
    BY <1>1, RevokeStep DEF TokensOf
  <2>2. <<r.name, r.version>> = Target(w) /\ Target(w) \in Service
    BY <1>1, <2>1 DEF OneOwner, TypeOK, Target, Service, Request
  <2>3. Uses(r.token, s) /\ Uses(r.token, Target(w)) /\ r.token \in Tokens
    BY <1>1, <2>1, <2>2 DEF Uses, TypeOK
  <2>4. QED BY <1>1, <2>2, <2>3 DEF OneOwner
<1>2. TypeOK /\ OneOwner /\ [Next]_vars =>
        [\A w \in Workers, s \in Service :
           pc[w] = "revoke_commit" /\ pc'[w] = "delete" /\ container[s] # None
           /\ container[s].token \in tokens \ tokens' => s = Target(w)]_vars
  BY <1>1
<1>3. QED BY <1>2, TypeCorrect, OneOwnerAlways, PTL DEF Spec, KillSparesOthers

(* A deleted record never comes back, whatever a handler has read before   *)
(* its commit.                                                             *)
THEOREM DeletedStaysDeleted == Spec => NoResurrection
<1>1. ASSUME TypeOK, [Next]_vars, NEW r \in services'
      PROVE  \/ \E q \in services : q.token = r.token
             \/ \E w \in Workers : pc[w] = "insert" /\ tok[w] = r.token
  <2>1. CASE services' = services
    BY <2>1
  <2>2. ASSUME NEW w \in Workers, Step(w)
        PROVE  \/ \E q \in services : q.token = r.token
               \/ pc[w] = "insert" /\ tok[w] = r.token
    BY <1>1, <2>2, StepRows DEF SameService
  <2>3. QED BY <1>1, <2>1, <2>2, NextCases, AcceptFrame, ManagerFrame
<1>2. TypeOK /\ [Next]_vars =>
        [\A r \in services' :
           \/ \E q \in services : q.token = r.token
           \/ \E w \in Workers : pc[w] = "insert" /\ tok[w] = r.token]_vars
  BY <1>1
<1>3. QED BY <1>2, TypeCorrect, PTL DEF Spec, NoResurrection
=============================================================================
