------------------------- MODULE DeploymentTurns -------------------------
(***************************************************************************)
(* What is proved of Deployment when clients take turns on a name: the     *)
(* manager implements the catalog, the files follow the records, and every *)
(* handler that ends well has done what it answers.                        *)
(***************************************************************************)
EXTENDS DeploymentProofs

-----------------------------------------------------------------------------
(* Rows and the catalog *)

LEMMA NoMainOf ==
    ASSUME NEW rows, Mains(rows) = {}
    PROVE  MirrorOf(rows).main = None
  BY DEF MirrorOf

LEMMA CatalogFrame ==
    ASSUME services' = services
    PROVE  UNCHANGED C!vars
<1>1. \A n : RowsOf(n)' = RowsOf(n)
  BY RowsFrame
<1>2. \A n \in Names : /\ VersionsOf(RowsOf(n))' = VersionsOf(RowsOf(n))
                       /\ MirrorOf(RowsOf(n)).main' = MirrorOf(RowsOf(n)).main
  BY <1>1 DEF VersionsOf, MirrorOf, Mains
<1>3. QED BY <1>2 DEF C!vars

LEMMA CatalogInit == Init => C!Init
<1> SUFFICES ASSUME Init PROVE C!Init
  OBVIOUS
<1>1. \A n \in Names : RowsOf(n) = {} /\ Mains(RowsOf(n)) = {}
  BY DEF Init, RowsOf, Mains
<1>2. \A n \in Names : VersionsOf(RowsOf(n)) = {} /\ MirrorOf(RowsOf(n)).main = None
  BY <1>1, NoMainOf DEF VersionsOf
<1>3. QED BY <1>2 DEF C!Init

(* The commit of a worker on the rows of its name, seen in the catalog.    *)
LEMMA CatalogCommit ==
    ASSUME NEW m \in Names, NEW rows,
           \A n \in Names : RowsOf(n)' = IF n = m THEN rows ELSE RowsOf(n)
    PROVE  /\ [n \in Names |-> VersionsOf(RowsOf(n))]'
                = [[n \in Names |-> VersionsOf(RowsOf(n))] EXCEPT
                     ![m] = VersionsOf(rows)]
           /\ [n \in Names |-> MirrorOf(RowsOf(n)).main]'
                = [[n \in Names |-> MirrorOf(RowsOf(n)).main] EXCEPT
                     ![m] = MirrorOf(rows).main]
  OBVIOUS

LEMMA CatalogAdd ==
    ASSUME TypeOK, TurnsInv, TurnsInv', NEW w \in Workers, AddRecordCommit(w)
    PROVE  C!Add(req[w].name, req[w].version)
<1> DEFINE new == [name |-> req[w].name, version |-> req[w].version,
                   role |-> RoleFor(seen[w]), token |-> tok[w],
                   url |-> req[w].port]
           n == req[w].name
           rows == RowsOf(n)
<1>1. /\ new \in Record
      /\ Matching(rows, new.version) = {}
      /\ new.role = RoleFor(rows)
      /\ new.version = req[w].version
      /\ \A m \in Names : RowsOf(m)' = IF m = n THEN rows \cup {new} ELSE RowsOf(m)
  BY AddCommit DEF OwnRows
<1>2. n \in Names /\ rows \in SUBSET Record
  BY RowsTyped DEF AddRecordCommit, TypeOK, Request
<1> HIDE DEF new
<1>3. req[w].version \notin VersionsOf(rows)
  BY <1>1 DEF VersionsOf, Matching
<1>4. VersionsOf(rows \cup {new}) = VersionsOf(rows) \cup {req[w].version}
  BY <1>1 DEF VersionsOf
<1>5. Consistent(rows) /\ Consistent(rows \cup {new})
  BY <1>1, <1>2, AddKeeps, ConsistentNames DEF TurnsInv
<1>6. MirrorOf(rows \cup {new}).main =
        IF MirrorOf(rows).main = None THEN req[w].version ELSE MirrorOf(rows).main
  <2>1. CASE Mains(rows) = {}
    <3>1. new \in Mains(rows \cup {new})
      BY <1>1, <2>1 DEF RoleFor, Mains
    <3>2. QED BY <1>1, <1>5, <2>1, <3>1, MainOf, NoMainOf DEF Consistent
  <2>2. ASSUME NEW r \in Mains(rows)
        PROVE  MirrorOf(rows \cup {new}).main = r.version
               /\ MirrorOf(rows).main = r.version /\ r.version # None
    <3>1. r \in Mains(rows \cup {new})
      BY DEF Mains
    <3>2. r.version # None
      BY <1>2, DeploymentConstants DEF Mains, Record
    <3>3. QED BY <1>5, <3>1, <3>2, MainOf DEF Consistent
  <2>3. QED BY <2>1, <2>2
<1> HIDE DEF n, rows
<1>7. QED BY <1>1, <1>2, <1>3, <1>4, <1>6, CatalogCommit DEF C!Add, rows, n

LEMMA CatalogRemove ==
    ASSUME TypeOK, TurnsInv, TurnsInv', NEW w \in Workers, DeleteRecordCommit(w),
           UNCHANGED services => FALSE
    PROVE  C!Remove(req[w].name, req[w].version)
<1> DEFINE n == req[w].name
           v == req[w].version
           rows == RowsOf(n)
           left == rows \ Matching(rows, v)
<1>1. /\ MayKill(rows, v)
      /\ \A m \in Names : RowsOf(m)' = IF m = n THEN left ELSE RowsOf(m)
  BY DeleteCommit DEF OwnRows
<1>2. n \in Names /\ rows \in SUBSET Record /\ v \in Versions
  BY RowsTyped DEF DeleteRecordCommit, TypeOK, Request
<1>3. Consistent(rows) /\ Consistent(left)
  BY <1>1, <1>2, RemoveKeeps, ConsistentNames DEF TurnsInv
<1>4. PICK q \in rows : q.version = v
  <2>1. services' = {r \in services : \A s \in seen[w] : r.token # s.token}
        /\ seen[w] = OwnRecord(w)
    BY DEF DeleteRecordCommit, TurnsInv, Current
  <2>2. OwnRecord(w) # {}
    BY <2>1
  <2>3. QED BY <2>2 DEF OwnRecord, OwnRows, Matching
<1>5. v \in VersionsOf(rows) /\ VersionsOf(left) = VersionsOf(rows) \ {v}
  BY <1>4 DEF VersionsOf, Matching
<1>6. \A r \in rows : r.version = v => r = q
  BY <1>2, <1>3, <1>4 DEF Consistent, Conflict, Matching
<1>7. PICK m \in Mains(rows) : MirrorOf(rows).main = m.version
  BY <1>3, <1>4, MainOf DEF Consistent
<1>8. CASE m.version = v
  <2>1. rows = {q}
    <3>1. Shadows(rows) = {}
      BY <1>1, <1>7, <1>8 DEF MayKill
    <3>2. \A r \in rows : r \in Mains(rows)
      BY <1>2, <3>1 DEF Shadows, Mains, Record
    <3>3. QED BY <1>3, <1>4, <3>2 DEF Consistent, Conflict
  <2>2. left = {} /\ Mains(left) = {}
    BY <1>4, <2>1 DEF Matching, Mains
  <2>3. MirrorOf(left).main = None
    BY <2>2, NoMainOf
  <2>4. VersionsOf(rows) = {v}
    BY <1>4, <2>1 DEF VersionsOf
  <2> HIDE DEF n, v, rows, left
  <2>5. QED
    BY <1>1, <1>2, <1>5, <1>7, <1>8, <2>3, <2>4, CatalogCommit
    DEF C!Remove, n, v, rows
<1>9. CASE m.version # v
  <2>1. m \in Mains(left)
    BY <1>9 DEF Mains, Matching
  <2>2. MirrorOf(left).main = m.version
    BY <1>3, <2>1, MainOf DEF Consistent
  <2> HIDE DEF n, v, rows, left
  <2>3. QED
    BY <1>1, <1>2, <1>5, <1>7, <1>9, <2>2, CatalogCommit DEF C!Remove, n, v, rows
<1>10. QED BY <1>8, <1>9

LEMMA CatalogPromote ==
    ASSUME TypeOK, TurnsInv, NEW w \in Workers, AssignCommit(w)
    PROVE  services' = services \/ C!Promote(req[w].name, req[w].version)
<1> DEFINE n == req[w].name
           v == req[w].version
           rows == RowsOf(n)
           old == TokensOf(Mains(rows))
           new == TokensOf(Matching(rows, v))
           swapped == Reassigned(rows, old, new)
<1>1. SUFFICES ASSUME services' # services PROVE C!Promote(n, v)
  OBVIOUS
<1>2. /\ Matching(rows, v) # {}
      /\ \A m \in Names : RowsOf(m)' = IF m = n THEN swapped ELSE RowsOf(m)
  BY <1>1, AssignRows DEF OwnRows
<1>3. n \in Names /\ rows \in SUBSET Record /\ v \in Versions
  BY RowsTyped DEF AssignCommit, TypeOK, Request
<1>4. Consistent(rows) /\ \A r, s \in rows : r.token = s.token => r = s
  BY <1>3, ConsistentNames DEF TurnsInv, TokensIdentify, RowsOf
<1>5. /\ Consistent(swapped)
      /\ VersionsOf(swapped) = VersionsOf(rows)
      /\ \A r \in Mains(swapped) : r.version = v
  BY <1>2, <1>3, <1>4, AssignKeeps
<1>6. v \in VersionsOf(rows)
  BY <1>2 DEF VersionsOf, Matching
<1>7. MirrorOf(swapped).main = v
  <2>1. swapped # {}
    BY <1>5, <1>6 DEF VersionsOf
  <2>2. PICK r \in Mains(swapped) : TRUE
    BY <1>5, <2>1 DEF Consistent
  <2>3. QED BY <1>5, <2>2, MainOf DEF Consistent
<1> HIDE DEF n, v, rows, swapped
<1>8. QED BY <1>2, <1>3, <1>5, <1>6, <1>7, CatalogCommit DEF C!Promote, rows

(* Every step of the manager is a step of the catalog or leaves it alone.  *)
LEMMA CatalogStep ==
    TypeOK /\ TurnsInv /\ TurnsInv' /\ [Next]_vars => [C!Next]_(C!vars)
<1> SUFFICES ASSUME TypeOK, TurnsInv, TurnsInv', [Next]_vars
             PROVE  C!Next \/ UNCHANGED C!vars
  OBVIOUS
<1>1. ASSUME NEW w \in Workers, Accept(w) PROVE UNCHANGED C!vars
  BY <1>1, AcceptFrame, CatalogFrame
<1>2. ASSUME NEW w \in Workers, Step(w) PROVE C!Next \/ UNCHANGED C!vars
  <2>1. req[w].name \in Names /\ req[w].version \in Versions
    BY <1>2, StepRequest DEF TypeOK, Request
  <2>2. CASE services' = services
    BY <2>2, CatalogFrame
  <2>3. CASE AddRecordCommit(w)
    BY <2>1, <2>3, CatalogAdd DEF C!Next
  <2>4. CASE DeleteRecordCommit(w) /\ services' # services
    BY <2>1, <2>4, CatalogRemove DEF C!Next
  <2>5. CASE AssignCommit(w)
    BY <2>1, <2>2, <2>5, CatalogPromote DEF C!Next
  <2>6. QED BY <1>2, <2>2, <2>3, <2>4, <2>5, StepServices
<1>3. CASE ManagerStep
  BY <1>3, ManagerFrame, CatalogFrame
<1>4. QED BY <1>1, <1>2, <1>3, NextCases

(* When clients take turns on a name, the manager implements the catalog:  *)
(* users see versions come and go and the main version move in single      *)
(* steps that are all allowed by the catalog.                              *)
THEOREM CatalogImplemented ==
    ASSUME TakeTurns
    PROVE  Spec => ImplementsCatalog
<1>1. TypeOK /\ TurnsInv /\ [Next]_vars => TurnsInv'
  BY TurnsInvStep
<1>2. QED
  BY <1>1, TypeCorrect, TurnsInvInit, CatalogInit, CatalogStep, PTL
  DEF Spec, ImplementsCatalog, C!Spec

-----------------------------------------------------------------------------
(* What a handler has done so far to the stores of its name *)

ServicesRouted(n) == \A r \in RowsOf(n) : serviceFile[<<n, r.version>>] # None
Routed(n) == RowsOf(n) # {} =>
                 mirrorFile[n] = MirrorOf(RowsOf(n)) /\ ServicesRouted(n)

(* Neither the rows nor the files of the name are written yet.             *)
Pending == {"token", "create", "add", "insert", "remove", "record", "revoke",
            "revoke_commit", "delete", "delete_commit", "assign_commit"}
Recorded == {"roles", "service_file", "mirror_file"}
Unrecorded == {"unlink_service", "unlink_mirror", "roles_left", "mirror_file"}

OperationOf(w) ==
    /\ pc[w] \in DeploySteps => req[w].op = "deploy"
    /\ pc[w] \in KillSteps => req[w].op = "kill"
    /\ pc[w] = "assign_commit" => req[w].op = "assign"
    /\ pc[w] = "roles_left" => req[w].op # "deploy"

RoutesSoFar(w) ==
    /\ pc[w] \in Pending => Routed(req[w].name)
    /\ pc[w] \in {"roles", "service_file"} =>
         \A r \in OwnRows(w) : r.version # req[w].version
                               => serviceFile[<<req[w].name, r.version>>] # None
    /\ pc[w] \in Unrecorded => ServicesRouted(req[w].name)
    /\ pc[w] \in {"service_file", "mirror_file"} => seen[w] = OwnRows(w)

DeployedSoFar(w) ==
    req[w].op = "deploy" =>
      /\ pc[w] \in {"add", "insert"} \cup Recorded =>
           /\ container[Target(w)] # None
           /\ container[Target(w)] = [token |-> tok[w], url |-> req[w].port]
      /\ pc[w] \in Recorded => IsRecorded(w)
      /\ pc[w] = "mirror_file" => serviceFile[Target(w)] = req[w].port

KilledSoFar(w) ==
    req[w].op = "kill" =>
      /\ pc[w] # "remove" => container[Target(w)] = None
      /\ pc[w] \in Unrecorded => ~IsRecorded(w)
      /\ pc[w] \in Unrecorded \ {"unlink_service"} => serviceFile[Target(w)] = None
      /\ pc[w] = "roles_left" => mirrorFile[req[w].name] = None

AssignedSoFar(w) ==
    req[w].op = "assign" /\ pc[w] # "assign_commit"
      => Exists(Mains(OwnRows(w)), req[w].version)

SoFar(w) ==
    pc[w] # "idle" => /\ OperationOf(w)
                      /\ RoutesSoFar(w)
                      /\ DeployedSoFar(w)
                      /\ KilledSoFar(w)
                      /\ AssignedSoFar(w)

(* Under turns a name that nobody works on is routed as it is recorded,    *)
(* and a handler finds the stores as its own steps left them.              *)
RoutingInv == RecordsAreRouted /\ \A w \in Workers : SoFar(w)

SameStores(n) ==
    /\ RowsOf(n)' = RowsOf(n)
    /\ mirrorFile'[n] = mirrorFile[n]
    /\ \A v \in Versions : /\ container'[<<n, v>>] = container[<<n, v>>]
                           /\ serviceFile'[<<n, v>>] = serviceFile[<<n, v>>]

(* A step of a handler leaves the stores of other names alone.             *)
LEMMA StepSpares ==
    ASSUME TypeOK, TurnsInv, NEW w \in Workers, Step(w),
           NEW n \in Names, n # req[w].name
    PROVE  SameStores(n)
<1> USE DEF TypeOK
<1>1. RowsOf(n)' = RowsOf(n)
  BY StepServices, RowsFrame, AddCommit, DeleteCommit, AssignRows
<1>2. /\ mirrorFile'[n] = mirrorFile[n]
      /\ \A v \in Versions : /\ container'[<<n, v>>] = container[<<n, v>>]
                             /\ serviceFile'[<<n, v>>] = serviceFile[<<n, v>>]
  <2>1. \A v \in Versions : <<n, v>> # Target(w) /\ <<n, v>> \in Service
    BY DEF Target, Service
  <2>2. CASE DeployStep(w)
    BY <2>1, <2>2 DEF DeployStep, NewApiToken, CreateService, CreateServiceFails,
         StartContainerFails, AddRecordRead, AddRecordCommit, ReadRoles,
         WriteServiceFile, WriteMirror, files
  <2>3. CASE KillStep(w)
    BY <2>1, <2>3 DEF KillStep, RemoveContainer, ReadRecord, DeleteTokenRead,
         DeleteTokenCommit,
         DeleteRecordRead, LookUp, DeleteRecordCommit, UnlinkServiceFile,
         UnlinkMirror, ReadRolesLeft, files
  <2>4. CASE AssignCommit(w)
    BY <2>4 DEF AssignCommit, files
  <2>5. QED BY <2>2, <2>3, <2>4 DEF Step
<1>3. QED BY <1>1, <1>2 DEF SameStores

(* What is routed is a matter of the stores of the name only.              *)
LEMMA RoutedFrame ==
    ASSUME TypeOK, NEW n \in Names, SameStores(n)
    PROVE  /\ Routed(n) => Routed(n)'
           /\ ServicesRouted(n) => ServicesRouted(n)'
<1>1. \A r \in RowsOf(n) : r.version \in Versions
  BY RowsTyped DEF Record
<1>2. ServicesRouted(n) => ServicesRouted(n)'
  BY <1>1 DEF SameStores, ServicesRouted
<1>3. MirrorOf(RowsOf(n))' = MirrorOf(RowsOf(n))
  BY DEF SameStores, MirrorOf, Mains, Shadows, VersionsOf
<1>4. QED BY <1>2, <1>3 DEF SameStores, Routed

LEMMA SoFarFrame ==
    ASSUME TypeOK, NEW x \in Workers, SoFar(x),
           pc'[x] = pc[x], req'[x] = req[x], tok'[x] = tok[x], seen'[x] = seen[x],
           pc[x] # "idle" => SameStores(req[x].name)
    PROVE  SoFar(x)'
<1> SUFFICES ASSUME pc[x] # "idle" PROVE SoFar(x)'
  BY DEF SoFar
<1>1. PICK n \in Names, v \in Versions : n = req[x].name /\ v = req[x].version
  BY DEF TypeOK, Request
<1>2. SameStores(n)
  BY <1>1 DEF SameStores, RowsOf
<1>3. OwnRows(x) = RowsOf(n) /\ OwnRows(x)' = RowsOf(n)
  BY <1>1, <1>2 DEF SameStores, OwnRows
<1>4. Target(x) = <<n, v>> /\ Target(x)' = <<n, v>> /\ IsRecorded(x)' = IsRecorded(x)
  BY <1>1, <1>3 DEF Target, IsRecorded, OwnRecord
<1>5. RoutesSoFar(x)'
  <2>1. \A r \in OwnRows(x) : r.version \in Versions
    BY <1>3, RowsTyped DEF Record
  <2>2. (Routed(n) => Routed(n)') /\ (ServicesRouted(n) => ServicesRouted(n)')
    BY <1>2, RoutedFrame
  <2>3. QED BY <1>1, <1>2, <1>3, <2>1, <2>2
            DEF SoFar, RoutesSoFar, SameStores
<1>6. DeployedSoFar(x)' /\ KilledSoFar(x)'
  BY <1>1, <1>2, <1>4 DEF SoFar, DeployedSoFar, KilledSoFar, SameStores
<1>7. AssignedSoFar(x)'
  BY <1>1, <1>3 DEF SoFar, AssignedSoFar, Exists, Mains
<1>8. OperationOf(x)'
  BY DEF SoFar, OperationOf
<1>9. QED BY <1>5, <1>6, <1>7, <1>8 DEF SoFar

(* What stays when a step of w writes neither rows nor files.              *)
LEMMA OwnFrame ==
    ASSUME TypeOK, NEW w \in Workers, NEW n \in Names, n = req[w].name,
           services' = services, req'[w] = req[w]
    PROVE  /\ OwnRows(w)' = OwnRows(w) /\ OwnRows(w) = RowsOf(n)
           /\ RowsOf(n)' = RowsOf(n) /\ MirrorOf(RowsOf(n))' = MirrorOf(RowsOf(n))
           /\ IsRecorded(w)' = IsRecorded(w)
           /\ Mains(OwnRows(w))' = Mains(OwnRows(w))
           /\ Target(w)' = Target(w)
<1>1. OwnRows(w)' = OwnRows(w) /\ OwnRows(w) = RowsOf(n) /\ RowsOf(n)' = RowsOf(n)
  BY DEF OwnRows, RowsOf
<1>2. QED
  BY <1>1 DEF IsRecorded, OwnRecord, Mains, MirrorOf, Shadows, VersionsOf, Target

LEMMA DeploySoFar ==
    ASSUME TypeOK, TurnsInv, NEW w \in Workers, SoFar(w), DeployStep(w)
    PROVE  SoFar(w)'
<1> USE DEF TypeOK, Goto, Remember, Finish
<1> SUFFICES ASSUME pc'[w] # "idle" PROVE SoFar(w)'
  BY DEF SoFar
<1>1. PICK n \in Names, v \in Versions : n = req[w].name /\ v = req[w].version
  BY DEF DeployStep, NewApiToken, CreateService, CreateServiceFails,
         StartContainerFails, AddRecordRead, AddRecordCommit, ReadRoles,
         WriteServiceFile, WriteMirror, Request
<1>2. Target(w) = <<n, v>> /\ <<n, v>> \in Service
  BY <1>1 DEF Target, Service
<1>3. \A r \in RowsOf(n) : r.version \in Versions
  BY RowsTyped DEF Record
<1> USE DEF SoFar, OperationOf, RoutesSoFar, DeployedSoFar, KilledSoFar,
            AssignedSoFar, Pending, Recorded, Unrecorded, DeploySteps, KillSteps
<1>4. ASSUME services' = services, UNCHANGED <<files, req>>,
             pc[w] \in Pending, pc'[w] \in Pending
      PROVE  Routed(req[w].name)'
  BY <1>1, <1>4, OwnFrame DEF Routed, ServicesRouted, files
<1>5. CASE NewApiToken(w)
  BY <1>4, <1>5 DEF NewApiToken
<1>6. CASE CreateService(w)
  <2>1. pc[w] = "create" /\ pc'[w] = "add" /\ services' = services
        /\ UNCHANGED <<files, req, tok>>
        /\ container'[<<n, v>>] = [token |-> tok[w], url |-> req[w].port]
        /\ container'[<<n, v>>] # None
    BY <1>2, <1>6, NoContainer DEF CreateService, database, Container, DeploySteps
  <2>2. QED BY <1>1, <1>2, <1>4, <2>1, OwnFrame
<1>7. CASE AddRecordRead(w)
  <2>1. pc[w] = "add" /\ services' = services
        /\ UNCHANGED <<container, files, req, tok>>
    BY <1>7 DEF AddRecordRead, database
  <2>2. CASE pc'[w] = "insert"
    BY <1>1, <1>2, <1>4, <2>1, <2>2, OwnFrame
  <2>3. CASE pc'[w] = "roles"
    <3>1. IsRecorded(w) /\ OwnRows(w) # {}
      BY <1>1, <1>7, <2>3
      DEF AddRecordRead, TurnsInv, OneMain, OwnRows, IsRecorded, OwnRecord, Matching
    <3>2. QED
      BY <1>1, <1>2, <2>1, <2>3, <3>1, OwnFrame DEF Routed, ServicesRouted, files
  <2>4. QED BY <1>7, <2>2, <2>3 DEF AddRecordRead
<1>8. CASE AddRecordCommit(w)
  <2>1. pc[w] = "insert" /\ pc'[w] = "roles"
        /\ UNCHANGED <<container, files, req, tok>>
    BY <1>8 DEF AddRecordCommit
  <2>2. \A r \in OwnRows(w)' : r \in OwnRows(w) \/ r.version = v
    BY <1>1, <1>8, <2>1 DEF AddRecordCommit, OwnRows, RowsOf
  <2>3. IsRecorded(w)'
    <3> DEFINE record == [name |-> req[w].name, version |-> req[w].version,
                          role |-> RoleFor(seen[w]), token |-> tok[w],
                          url |-> req[w].port]
    <3>0. record \in services' /\ record.name = n /\ record.version = v
      BY <1>1, <1>8 DEF AddRecordCommit
    <3>1. PICK new \in services' : new.name = n /\ new.version = v
      BY <3>0
    <3>2. new \in OwnRecord(w)'
      BY <1>1, <2>1, <3>1 DEF OwnRecord, OwnRows, RowsOf, Matching
    <3>3. QED BY <3>2 DEF IsRecorded
  <2>4. QED
    BY <1>1, <1>2, <2>1, <2>2, <2>3 DEF Routed, ServicesRouted, OwnRows, Target, files
<1>9. CASE ReadRoles(w)
  <2>1. pc[w] = "roles" /\ pc'[w] = "service_file" /\ services' = services
        /\ seen'[w] = OwnRows(w) /\ UNCHANGED <<container, files, req, tok>>
    BY <1>9 DEF ReadRoles, database
  <2>2. QED BY <1>1, <1>2, <2>1, OwnFrame DEF files
<1>10. CASE WriteServiceFile(w)
  <2>1. pc[w] = "service_file" /\ pc'[w] = "mirror_file" /\ services' = services
        /\ req[w].port \in Ports /\ UNCHANGED <<container, req, tok, seen>>
        /\ serviceFile' = [serviceFile EXCEPT ![<<n, v>>] = req[w].port]
    BY <1>2, <1>10 DEF WriteServiceFile, database
  <2>2. serviceFile'[<<n, v>>] = req[w].port
        /\ \A u \in Versions : u # v => serviceFile'[<<n, u>>] = serviceFile[<<n, u>>]
    BY <1>2, <2>1 DEF Service
  <2>3. req[w].port # None
    BY <2>1, DeploymentConstants
  <2>4. ServicesRouted(n)'
    BY <1>1, <1>3, <2>1, <2>2, <2>3, OwnFrame DEF ServicesRouted
  <2>5. QED BY <1>1, <1>2, <2>1, <2>2, <2>4, OwnFrame
<1>11. QED
  BY <1>5, <1>6, <1>7, <1>8, <1>9, <1>10
  DEF DeployStep, CreateServiceFails, StartContainerFails, WriteMirror

LEMMA KillSoFar ==
    ASSUME TypeOK, TurnsInv, NEW w \in Workers, SoFar(w), KillStep(w)
    PROVE  SoFar(w)'
<1> USE DEF TypeOK, Goto, Remember, Finish
<1> SUFFICES ASSUME pc'[w] # "idle" PROVE SoFar(w)'
  BY DEF SoFar
<1>1. PICK n \in Names, v \in Versions : n = req[w].name /\ v = req[w].version
  BY DEF KillStep, RemoveContainer, ReadRecord, DeleteTokenRead,
         DeleteTokenCommit, DeleteRecordRead, DeleteRecordCommit,
         UnlinkServiceFile, UnlinkMirror, ReadRolesLeft, Request
<1>2. Target(w) = <<n, v>> /\ <<n, v>> \in Service
  BY <1>1 DEF Target, Service
<1>3. \A r \in RowsOf(n) : r.version \in Versions
  BY RowsTyped DEF Record
<1> USE DEF SoFar, OperationOf, RoutesSoFar, DeployedSoFar, KilledSoFar,
            AssignedSoFar, Pending, Recorded, Unrecorded, DeploySteps, KillSteps
<1>4. ASSUME services' = services, UNCHANGED <<container, files, req, tok>>,
             pc[w] \in {"record", "revoke", "revoke_commit", "delete"},
             pc'[w] \in Pending \ {"remove"}, pc'[w] \in KillSteps
      PROVE  SoFar(w)'
  BY <1>1, <1>2, <1>4, OwnFrame DEF Routed, ServicesRouted, files
<1>5. CASE RemoveContainer(w)
  <2>1. pc[w] = "remove" /\ pc'[w] = "record" /\ services' = services
        /\ UNCHANGED <<files, req, tok>> /\ container'[<<n, v>>] = None
    BY <1>2, <1>5 DEF RemoveContainer, database
  <2>2. QED
    BY <1>1, <1>2, <2>1, OwnFrame DEF Routed, ServicesRouted, files
<1>6. ASSUME NEW next \in {"revoke", "delete_commit"}, LookUp(w, next),
             pc[w] \in {"record", "delete"}
      PROVE  SoFar(w)'
  <2>1. services' = services /\ UNCHANGED <<container, files, req, tok>>
        /\ pc'[w] \in {next, "unlink_service"}
    BY <1>6 DEF LookUp, database
  <2>2. CASE pc'[w] = next
    BY <1>4, <1>6, <2>1, <2>2
  <2>3. CASE pc'[w] = "unlink_service"
    <3>1. ~IsRecorded(w)
      BY <1>6, <2>3 DEF LookUp, IsRecorded
    <3>2. ServicesRouted(n)
      BY <1>1, <1>6 DEF Routed, ServicesRouted
    <3>3. QED
      BY <1>1, <1>2, <1>6, <2>1, <2>3, <3>1, <3>2, OwnFrame DEF ServicesRouted, files
  <2>4. QED BY <2>1, <2>2, <2>3
<1>7. CASE DeleteTokenRead(w) \/ DeleteTokenCommit(w)
  BY <1>4, <1>7 DEF DeleteTokenRead, DeleteTokenCommit, database
<1>8. CASE DeleteRecordCommit(w)
  <2>1. pc[w] = "delete_commit" /\ pc'[w] = "unlink_service"
        /\ UNCHANGED <<container, files, req, tok>>
    BY <1>8 DEF DeleteRecordCommit
  <2>2. RowsOf(n)' = RowsOf(n) \ Matching(RowsOf(n), v)
    BY <1>1, <1>8, DeleteCommit DEF OwnRows
  <2>3. OwnRows(w)' = RowsOf(n)'
    BY <1>1, <2>1 DEF OwnRows, RowsOf
  <2>4. ~IsRecorded(w)'
    BY <1>1, <2>1, <2>2, <2>3 DEF IsRecorded, OwnRecord, Matching
  <2>5. ServicesRouted(n)'
    BY <1>1, <2>1, <2>2 DEF Routed, ServicesRouted, files
  <2>6. QED BY <1>1, <1>2, <2>1, <2>4, <2>5 DEF Target
<1>9. CASE UnlinkServiceFile(w)
  <2>1. pc[w] = "unlink_service" /\ pc'[w] = "unlink_mirror" /\ services' = services
        /\ UNCHANGED <<container, req, tok>>
        /\ serviceFile' = [serviceFile EXCEPT ![<<n, v>>] = None]
    BY <1>2, <1>9 DEF UnlinkServiceFile, database
  <2>2. serviceFile'[<<n, v>>] = None
        /\ \A u \in Versions : u # v => serviceFile'[<<n, u>>] = serviceFile[<<n, u>>]
    BY <1>2, <2>1 DEF Service
  <2>3. \A r \in RowsOf(n) : r.version # v
    BY <1>1, <2>1 DEF IsRecorded, OwnRecord, OwnRows, Matching
  <2>4. ServicesRouted(n)'
    BY <1>1, <1>3, <2>1, <2>2, <2>3, OwnFrame DEF ServicesRouted
  <2>5. QED BY <1>1, <1>2, <2>1, <2>2, <2>4, OwnFrame
<1>10. CASE UnlinkMirror(w)
  <2>1. pc[w] = "unlink_mirror" /\ pc'[w] = "roles_left" /\ services' = services
        /\ UNCHANGED <<container, serviceFile, req, tok>> /\ mirrorFile'[n] = None
    BY <1>1, <1>10 DEF UnlinkMirror, database
  <2>2. QED BY <1>1, <1>2, <2>1, OwnFrame DEF ServicesRouted
<1>11. CASE ReadRolesLeft(w)
  <2>1. pc[w] = "roles_left" /\ pc'[w] = "mirror_file" /\ services' = services
        /\ seen'[w] = OwnRows(w) /\ UNCHANGED <<container, files, req, tok>>
    BY <1>11 DEF ReadRolesLeft, database
  <2>2. QED BY <1>1, <1>2, <2>1, OwnFrame DEF ServicesRouted, Exists, files
<1>12. QED
  BY <1>5, <1>6, <1>7, <1>8, <1>9, <1>10, <1>11
  DEF KillStep, ReadRecord, DeleteRecordRead

(* The old main and the new one have swapped when the assignment goes on.  *)
LEMMA AssignSwaps ==
    ASSUME TypeOK, TurnsInv, NEW w \in Workers, AssignCommit(w),
           NEW n \in Names, n = req[w].name
    PROVE  /\ pc[w] = "assign_commit" /\ pc'[w] = "roles_left"
           /\ UNCHANGED <<container, files, req, tok>>
           /\ VersionsOf(RowsOf(n)') = VersionsOf(RowsOf(n))
           /\ Exists(Mains(RowsOf(n)'), req[w].version)
           /\ Exists(RowsOf(n), req[w].version)
<1> DEFINE v == req[w].version
           rows == RowsOf(n)
           old == TokensOf(Mains(rows))
           new == TokensOf(Matching(rows, v))
<1>1. /\ Mains(rows) # {} /\ Matching(rows, v) # {}
      /\ pc[w] = "assign_commit" /\ pc'[w] = "roles_left" /\ UNCHANGED <<req, tok>>
      /\ UNCHANGED <<container, files>>
      /\ \/ services' = services /\ old = new
         \/ RowsOf(n)' = Reassigned(rows, old, new)
  BY AssignRows DEF OwnRows, AssignCommit
<1>2. rows \in SUBSET Record /\ v \in Versions
  BY <1>1, RowsTyped DEF TypeOK, Request
<1>3. Consistent(rows) /\ \A r, s \in rows : r.token = s.token => r = s
  BY ConsistentNames DEF TurnsInv, TokensIdentify, RowsOf
<1>4. PICK q \in rows : q.version = v
  BY <1>1 DEF Matching
<1>5. VersionsOf(RowsOf(n)') = VersionsOf(rows) /\ Exists(Mains(RowsOf(n)'), v)
  <2>1. CASE services' = services /\ old = new
    <3>1. RowsOf(n)' = rows
      BY <2>1 DEF RowsOf
    <3>2. q \in Mains(rows)
      BY <1>3, <1>4, <2>1 DEF Mains, TokensOf, Matching
    <3>3. QED BY <1>4, <3>1, <3>2 DEF Exists
  <2>2. CASE RowsOf(n)' = Reassigned(rows, old, new)
    <3> DEFINE swapped == Reassigned(rows, old, new)
    <3>1. /\ Consistent(swapped) /\ VersionsOf(swapped) = VersionsOf(rows)
          /\ \A r \in Mains(swapped) : r.version = v
      BY <1>1, <1>2, <1>3, AssignKeeps
    <3>2. swapped # {}
      BY <1>4, <3>1 DEF VersionsOf
    <3>3. QED BY <2>2, <3>1, <3>2 DEF Consistent, Exists
  <2>3. QED BY <1>1, <2>1, <2>2
<1>6. QED BY <1>1, <1>4, <1>5 DEF Exists

LEMMA AssignSoFar ==
    ASSUME TypeOK, TurnsInv, NEW w \in Workers, SoFar(w), AssignCommit(w)
    PROVE  SoFar(w)' /\ pc'[w] = "roles_left"
<1>1. PICK n \in Names, v \in Versions : n = req[w].name /\ v = req[w].version
  BY DEF AssignCommit, TypeOK, Request
<1>2. /\ pc[w] = "assign_commit" /\ pc'[w] = "roles_left"
      /\ UNCHANGED <<container, files, req, tok>>
      /\ VersionsOf(RowsOf(n)') = VersionsOf(RowsOf(n))
      /\ Exists(Mains(RowsOf(n)'), v) /\ Exists(RowsOf(n), v)
  BY <1>1, AssignSwaps
<1>3. OwnRows(w)' = RowsOf(n)'
  BY <1>1, <1>2 DEF OwnRows, RowsOf
<1>4. ServicesRouted(n)'
  <2>1. \A r \in RowsOf(n) : serviceFile[<<n, r.version>>] # None
    BY <1>1, <1>2 DEF SoFar, RoutesSoFar, Pending, Routed, ServicesRouted
  <2>2. \A r \in RowsOf(n)' : \E s \in RowsOf(n) : s.version = r.version
    BY <1>2 DEF VersionsOf
  <2>3. QED BY <1>2, <2>1, <2>2 DEF ServicesRouted, files
<1>5. QED
  BY <1>1, <1>2, <1>3, <1>4
  DEF SoFar, OperationOf, RoutesSoFar, DeployedSoFar, KilledSoFar, AssignedSoFar,
      Pending, Recorded, Unrecorded, DeploySteps, KillSteps, Exists, Mains

(* When a handler ends, its name is routed as it is recorded.              *)
LEMMA EndsRouted ==
    ASSUME TypeOK, TurnsInv, NEW w \in Workers, SoFar(w), Step(w), pc'[w] = "idle"
    PROVE  \A n \in Names : n = req[w].name => Routed(n)'
<1> USE DEF TypeOK, Goto, Remember, Finish
<1> SUFFICES ASSUME NEW n \in Names, n = req[w].name PROVE Routed(n)'
  OBVIOUS
<1>1. pc[w] # "idle"
  BY StepRequest
<1>2. ASSUME services' = services
      PROVE  RowsOf(n)' = RowsOf(n) /\ MirrorOf(RowsOf(n))' = MirrorOf(RowsOf(n))
  BY <1>2 DEF RowsOf, MirrorOf, Mains, Shadows, VersionsOf
<1>3. ASSUME services' = services, UNCHANGED files, pc[w] \in Pending
      PROVE  Routed(n)'
  BY <1>1, <1>2, <1>3 DEF SoFar, RoutesSoFar, Routed, ServicesRouted, files
<1>4. ~Conflict(Mains(RowsOf(n))) /\ ~Conflict(OwnRecord(w)) /\ OwnRows(w) = RowsOf(n)
  BY <1>1 DEF TurnsInv, OneMain, OneRecord, OwnRecord, OwnRows, Request
<1>5. CASE DeployStep(w)
  <2>1. CASE WriteMirror(w)
    <3>1. services' = services /\ serviceFile' = serviceFile
          /\ mirrorFile'[n] = MirrorOf(RowsOf(n)) /\ ServicesRouted(n)
      BY <1>4, <2>1 DEF WriteMirror, database, SoFar, RoutesSoFar, Unrecorded
    <3>2. QED BY <1>2, <3>1 DEF Routed, ServicesRouted
  <2>2. CASE CreateServiceFails(w) \/ StartContainerFails(w)
    BY <1>3, <2>2 DEF CreateServiceFails, StartContainerFails, database, Pending
  <2>3. QED
    BY <1>4, <1>5, <2>1, <2>2 DEF DeployStep, NewApiToken, CreateService,
         AddRecordRead, AddRecordCommit, ReadRoles, WriteServiceFile
<1>6. CASE KillStep(w)
  <2>1. CASE RemoveContainer(w) \/ DeleteTokenRead(w)
    BY <1>3, <2>1 DEF RemoveContainer, DeleteTokenRead, database, Pending
  <2>2. CASE ReadRolesLeft(w)
    <3>1. services' = services /\ Mains(RowsOf(n)) = {}
      BY <1>4, <2>2 DEF ReadRolesLeft, MirrorLeft, database
    <3>2. RowsOf(n) = {}
      BY <3>1 DEF TurnsInv, SomeMain
    <3>3. QED BY <1>2, <3>1, <3>2 DEF Routed
  <2>3. QED
    BY <1>4, <1>6, <2>1, <2>2 DEF KillStep, ReadRecord, DeleteTokenCommit,
         DeleteRecordRead, LookUp, DeleteRecordCommit, UnlinkServiceFile, UnlinkMirror
<1>7. QED BY <1>5, <1>6, AssignSoFar DEF Step

-----------------------------------------------------------------------------
(* The routing invariant *)

LEMMA QuietRouted ==
    RecordsAreRouted <=> \A n \in Names : Quiet(n) => Routed(n)
  BY DEF RecordsAreRouted, Routed, ServicesRouted

LEMMA AcceptStores ==
    ASSUME TypeOK, NEW w \in Workers, Accept(w)
    PROVE  UNCHANGED files /\ \A n : SameStores(n)
<1>1. UNCHANGED files
  BY DEF Accept, StartDeploy, StartKill, StartAssign
<1>2. QED BY <1>1, AcceptFrame, RowsFrame DEF SameStores, files

(* A request is accepted for a name that nobody works on.                  *)
LEMMA AcceptSoFar ==
    ASSUME TakeTurns, TypeOK, RecordsAreRouted, NEW w \in Workers, Accept(w)
    PROVE  /\ SoFar(w)'
           /\ \A n \in Names : Quiet(n)' => Quiet(n)
<1>1. PICK n \in Names, v \in Versions :
        /\ MayStart(w, n) /\ req'[w].name = n /\ req'[w].version = v
        /\ \/ pc'[w] = "token" /\ req'[w].op = "deploy"
           \/ pc'[w] = "remove" /\ req'[w].op = "kill"
           \/ pc'[w] = "assign_commit" /\ req'[w].op = "assign"
  BY DEF Accept, StartDeploy, StartKill, StartAssign, Goto, TypeOK
<1>2. Quiet(n)
  BY <1>1 DEF MayStart, Quiet
<1>3. Routed(n)'
  BY <1>2, QuietRouted, AcceptStores, RoutedFrame
<1>4. SoFar(w)'
  BY <1>1, <1>3
  DEF SoFar, OperationOf, RoutesSoFar, DeployedSoFar, KilledSoFar, AssignedSoFar,
      Pending, Recorded, Unrecorded, DeploySteps, KillSteps, Routed, ServicesRouted
<1>5. \A m \in Names : Quiet(m)' => Quiet(m)
  BY <1>1, AcceptFrame DEF MayStart, Quiet
<1>6. QED BY <1>4, <1>5

(* What the restart writes for a name is what the table says.              *)
LEMMA StartupRoutes ==
    ASSUME TypeOK, Startup, NEW n \in Names
    PROVE  Routed(n)'
<1>1. RowsOf(n)' = RowsOf(n)
  BY DEF Startup, database, RowsOf
<1>2. SUFFICES ASSUME RowsOf(n) # {}
               PROVE  mirrorFile'[n] = MirrorOf(RowsOf(n)) /\ ServicesRouted(n)'
  BY <1>1 DEF Routed, MirrorOf, Mains, Shadows, VersionsOf
<1>3. mirrorFile'[n] = MirrorOf(RowsOf(n))
  BY <1>2 DEF Startup, NamesInDatabase, RowsOf
<1>4. ASSUME NEW r \in RowsOf(n) PROVE serviceFile'[<<n, r.version>>] # None
  <2>1. r \in Record /\ <<n, r.version>> \in Service
        /\ r \in Matching(RowsOf(n), r.version)
    BY RowsTyped DEF Record, Service, Matching
  <2>2. \E q \in Matching(RowsOf(n), r.version) : serviceFile'[<<n, r.version>>] = q.url
    BY <2>1 DEF Startup
  <2>3. QED
    BY <2>2, RowsTyped, DeploymentConstants DEF Matching, Record
<1>5. QED BY <1>1, <1>3, <1>4 DEF ServicesRouted

LEMMA RoutingInvStep ==
    TakeTurns /\ TypeOK /\ TurnsInv /\ RoutingInv /\ [Next]_vars => RoutingInv'
<1> SUFFICES ASSUME TakeTurns, TypeOK, TurnsInv, RoutingInv, [Next]_vars
             PROVE  RoutingInv'
  OBVIOUS
<1>1. \A n \in Names : Quiet(n) => Routed(n)
  BY QuietRouted DEF RoutingInv
<1>2. ASSUME \A n \in Names : Quiet(n)' => Routed(n)' PROVE RecordsAreRouted'
  BY <1>2 DEF RecordsAreRouted, Routed, ServicesRouted
<1>3. ASSUME NEW w \in Workers, Accept(w) PROVE RoutingInv'
  <2>1. SoFar(w)' /\ \A n \in Names : Quiet(n)' => Quiet(n)
    BY <1>3, AcceptSoFar DEF RoutingInv
  <2>2. ASSUME NEW x \in Workers, x # w PROVE SoFar(x)'
    BY <1>3, <2>2, AcceptFrame, AcceptStores, SoFarFrame DEF RoutingInv
  <2>3. RecordsAreRouted'
    BY <1>1, <1>2, <1>3, <2>1, AcceptStores, RoutedFrame
  <2>4. QED BY <2>1, <2>2, <2>3 DEF RoutingInv
<1>4. ASSUME NEW w \in Workers, Step(w) PROVE RoutingInv'
  <2>1. SoFar(w)'
    BY <1>4, DeploySoFar, KillSoFar, AssignSoFar DEF RoutingInv, Step
  <2>2. ASSUME NEW x \in Workers, x # w PROVE SoFar(x)'
    <3>1. pc[x] # "idle" => req[x].name \in Names /\ req[x].name # req[w].name
      BY <1>4, <2>2, StepRequest DEF TurnsInv, InTurn, TypeOK, Request
    <3>2. pc[x] # "idle" => SameStores(req[x].name)
      <4> SUFFICES ASSUME pc[x] # "idle" PROVE SameStores(req[x].name)
        OBVIOUS
      <4>1. PICK n \in Names : n = req[x].name /\ SameStores(n)
        BY <1>4, <3>1, StepSpares
      <4>2. req'[x] = req[x]
        BY <1>4, <2>2, StepFrame
      <4>3. QED BY <4>1, <4>2 DEF SameStores, RowsOf
    <3>3. QED BY <1>4, <2>2, <3>2, StepFrame, SoFarFrame DEF RoutingInv
  <2>3. ASSUME NEW n \in Names, Quiet(n)' PROVE Routed(n)'
    <3>1. CASE n = req[w].name
      <4>1. pc'[w] = "idle"
        BY <1>4, <2>3, <3>1, StepRequest DEF Quiet
      <4>2. QED BY <1>4, <3>1, <4>1, EndsRouted DEF RoutingInv
    <3>2. CASE n # req[w].name
      <4>1. Quiet(n)
        BY <1>4, <2>3, <3>2, StepFrame, StepRequest DEF Quiet, TypeOK
      <4>2. QED BY <1>1, <1>4, <3>2, <4>1, StepSpares, RoutedFrame
    <3>3. QED BY <3>1, <3>2
  <2>4. QED BY <1>2, <2>1, <2>2, <2>3 DEF RoutingInv
<1>5. ASSUME UNCHANGED <<services, container, files, up, local>> PROVE RoutingInv'
  <2>1. \A n : SameStores(n)
    BY <1>5 DEF SameStores, RowsOf, files
  <2>2. \A x \in Workers : SoFar(x)'
    BY <1>5, <2>1, SoFarFrame DEF RoutingInv, local
  <2>3. \A n \in Names : Quiet(n)' => Quiet(n)
    BY <1>5 DEF Quiet, local
  <2>4. QED BY <1>1, <1>2, <2>1, <2>2, <2>3, RoutedFrame DEF RoutingInv
<1>6. ASSUME \A w \in Workers : pc'[w] = "idle",
             up' => \A n \in Names : Routed(n)'
      PROVE  RoutingInv'
  BY <1>2, <1>6 DEF RoutingInv, SoFar, Quiet
<1>7. CASE ManagerStep
  <2>1. CASE \E t \in Tokens : RevokeToken(t)
    BY <1>5, <2>1 DEF RevokeToken
  <2>2. CASE ProcessCrash \/ ContainerCrash
    BY <1>6, <2>2 DEF ProcessCrash, ContainerCrash, Stop
  <2>3. CASE Startup
    BY <1>6, <2>3, StartupRoutes DEF Startup, local, TypeOK
  <2>4. CASE StartupFails
    BY <1>6, <2>4 DEF StartupFails, local, TypeOK
  <2>5. CASE UNCHANGED vars
    BY <1>5, <2>5 DEF vars, database
  <2>6. QED BY <1>7, <2>1, <2>2, <2>3, <2>4, <2>5 DEF ManagerStep
<1>8. QED BY <1>3, <1>4, <1>7, NextCases

LEMMA RoutingInvInit == Init => RoutingInv
  BY DEF Init, RoutingInv, RecordsAreRouted, SoFar, RowsOf

(* TurnsInv and RoutingInv are inductive together.                         *)
LEMMA RoutingInvAlways ==
    ASSUME TakeTurns
    PROVE  Spec => [](TypeOK /\ TurnsInv /\ RoutingInv)
<1>1. TypeOK /\ TurnsInv /\ RoutingInv /\ [Next]_vars => TurnsInv' /\ RoutingInv'
  BY TurnsInvStep, RoutingInvStep
<1>2. QED BY <1>1, TypeCorrect, TurnsInvInit, RoutingInvInit, PTL DEF Spec

(* When clients take turns on a name, traefik has the routes of all its    *)
(* records whenever nobody works on it: after every handler that succeeds, *)
(* fails or is cut off by a crash of the process or of the container.      *)
(* (create_new_service_configuration, recreate_proxy_configurations)       *)
THEOREM RecordsStayRouted ==
    ASSUME TakeTurns
    PROVE  Spec => []RecordsAreRouted
<1>1. RoutingInv => RecordsAreRouted
  BY DEF RoutingInv
<1>2. QED BY <1>1, RoutingInvAlways, PTL

-----------------------------------------------------------------------------
(* The converse: what is routed is recorded, when no crash leaves files    *)

ServicesRecorded(n, versions) ==
    \A v \in versions : serviceFile[<<n, v>>] # None => Exists(RowsOf(n), v)
NameRecorded(n) ==
    /\ ServicesRecorded(n, Versions)
    /\ mirrorFile[n] # None => RowsOf(n) # {}

(* A kill unlinks the routes of a record after it has deleted the record.  *)
RecordedSoFar(n, v, step) ==
    /\ step \notin {"unlink_service", "unlink_mirror"} => NameRecorded(n)
    /\ step = "unlink_service" => ServicesRecorded(n, Versions \ {v})
    /\ step = "unlink_mirror" => ServicesRecorded(n, Versions)
    /\ step = "mirror_file" => RowsOf(n) # {}

RecordedInv ==
    /\ RoutesAreRecorded
    /\ \A w \in Workers : pc[w] # "idle" =>
         RecordedSoFar(req[w].name, req[w].version, pc[w])
    /\ ~up => /\ \A s \in Service : serviceFile[s] = None
              /\ \A n \in Names : mirrorFile[n] = None

LEMMA QuietRecorded ==
    RoutesAreRecorded <=> \A n \in Names : Quiet(n) => NameRecorded(n)
  BY DEF RoutesAreRecorded, NameRecorded, ServicesRecorded

LEMMA RecordedFrame ==
    ASSUME NEW n \in Names, SameStores(n), NEW v \in Versions, NEW step
    PROVE  /\ NameRecorded(n) => NameRecorded(n)'
           /\ RecordedSoFar(n, v, step) => RecordedSoFar(n, v, step)'
  BY DEF SameStores, NameRecorded, ServicesRecorded, RecordedSoFar, Exists

LEMMA StepUp == ASSUME NEW w \in Workers, Step(w) PROVE up' = up
<1>1. CASE DeployStep(w)
  BY <1>1 DEF DeployStep, NewApiToken, CreateService, CreateServiceFails,
       StartContainerFails, AddRecordRead, AddRecordCommit, ReadRoles,
       WriteServiceFile, WriteMirror
<1>2. CASE KillStep(w)
  BY <1>2 DEF KillStep, RemoveContainer, ReadRecord, DeleteTokenRead,
       DeleteTokenCommit,
       DeleteRecordRead, LookUp, DeleteRecordCommit, UnlinkServiceFile,
       UnlinkMirror, ReadRolesLeft
<1>3. CASE AssignCommit(w)
  BY <1>3 DEF AssignCommit
<1>4. QED BY <1>1, <1>2, <1>3 DEF Step

LEMMA RecordedStep ==
    ASSUME TypeOK, TurnsInv, NEW w \in Workers, SoFar(w), Step(w),
           NEW n \in Names, n = req[w].name,
           NEW v \in Versions, v = req[w].version,
           RecordedSoFar(n, v, pc[w]),
           NEW step, step = pc'[w]
    PROVE  RecordedSoFar(n, v, step)'
<1> USE DEF TypeOK, Goto, Remember, Finish
<1>1. Target(w) = <<n, v>> /\ <<n, v>> \in Service /\ OwnRows(w) = RowsOf(n)
  BY DEF Target, Service, OwnRows
<1>2. ASSUME services' = services PROVE RowsOf(n)' = RowsOf(n)
  BY <1>2, RowsFrame
<1>3. ASSUME services' = services, UNCHANGED files,
             pc[w] \notin {"unlink_service", "unlink_mirror"},
             step = "mirror_file" => RowsOf(n) # {}
      PROVE  RecordedSoFar(n, v, step)'
  BY <1>2, <1>3 DEF RecordedSoFar, NameRecorded, ServicesRecorded, files
<1>4. pc[w] \in Recorded /\ req[w].op = "deploy" => Exists(RowsOf(n), v)
  BY <1>1 DEF SoFar, DeployedSoFar, Recorded, IsRecorded, OwnRecord, Matching, Exists
<1>5. CASE DeployStep(w)
  <2>1. CASE AddRecordCommit(w)
    <3>1. pc[w] = "insert" /\ step = "roles" /\ UNCHANGED files
      BY <2>1 DEF AddRecordCommit
    <3>2. RowsOf(n) \subseteq RowsOf(n)'
      BY <2>1 DEF AddRecordCommit, RowsOf
    <3>3. QED
      BY <3>1, <3>2 DEF RecordedSoFar, NameRecorded, ServicesRecorded, Exists, files
  <2>2. CASE WriteServiceFile(w)
    <3>1. /\ pc[w] = "service_file" /\ step = "mirror_file"
          /\ services' = services /\ mirrorFile' = mirrorFile
          /\ \A u \in Versions : u # v => serviceFile'[<<n, u>>] = serviceFile[<<n, u>>]
      BY <1>1, <2>2 DEF WriteServiceFile, database, Service
    <3>2. Exists(RowsOf(n), v)
      BY <1>4, <3>1 DEF SoFar, OperationOf, DeploySteps, Recorded
    <3>3. QED
      BY <1>2, <3>1, <3>2 DEF RecordedSoFar, NameRecorded, ServicesRecorded, Exists
  <2>3. CASE WriteMirror(w)
    <3>1. /\ pc[w] = "mirror_file" /\ step = "idle"
          /\ services' = services /\ serviceFile' = serviceFile
      BY <2>3 DEF WriteMirror, database
    <3>2. QED BY <1>2, <3>1 DEF RecordedSoFar, NameRecorded, ServicesRecorded
  <2>4. CASE ~AddRecordCommit(w) /\ ~WriteServiceFile(w) /\ ~WriteMirror(w)
    BY <1>3, <1>5, <2>4 DEF DeployStep, NewApiToken, CreateService,
         CreateServiceFails, StartContainerFails, AddRecordRead, ReadRoles, database
  <2>5. QED BY <2>1, <2>2, <2>3, <2>4
<1>6. CASE KillStep(w)
  <2>1. CASE DeleteRecordCommit(w)
    <3>1. pc[w] = "delete_commit" /\ step = "unlink_service" /\ UNCHANGED files
      BY <2>1 DEF DeleteRecordCommit
    <3>2. RowsOf(n)' = RowsOf(n) \ Matching(RowsOf(n), v)
      BY <1>1, <2>1, DeleteCommit
    <3>3. QED
      BY <3>1, <3>2
      DEF RecordedSoFar, NameRecorded, ServicesRecorded, Exists, Matching, files
  <2>2. CASE UnlinkServiceFile(w)
    <3>1. /\ pc[w] = "unlink_service" /\ step = "unlink_mirror" /\ services' = services
          /\ serviceFile'[<<n, v>>] = None
          /\ \A u \in Versions : u # v => serviceFile'[<<n, u>>] = serviceFile[<<n, u>>]
      BY <1>1, <2>2 DEF UnlinkServiceFile, database, Service
    <3>2. QED BY <1>2, <3>1 DEF RecordedSoFar, ServicesRecorded
  <2>3. CASE UnlinkMirror(w)
    <3>1. /\ pc[w] = "unlink_mirror" /\ step = "roles_left" /\ services' = services
          /\ mirrorFile'[n] = None /\ serviceFile' = serviceFile
      BY <2>3 DEF UnlinkMirror, database
    <3>2. QED BY <1>2, <3>1 DEF RecordedSoFar, NameRecorded, ServicesRecorded
  <2>4. CASE ReadRolesLeft(w)
    BY <1>1, <1>3, <2>4 DEF ReadRolesLeft, MirrorLeft, Mains, database
  <2>5. CASE RemoveContainer(w) \/ ReadRecord(w) \/ DeleteRecordRead(w)
             \/ DeleteTokenRead(w) \/ DeleteTokenCommit(w)
    BY <1>3, <2>5 DEF RemoveContainer, ReadRecord, DeleteTokenRead, DeleteTokenCommit,
                DeleteRecordRead, LookUp, database
  <2>6. QED BY <1>6, <2>1, <2>2, <2>3, <2>4, <2>5 DEF KillStep
<1>7. CASE AssignCommit(w)
  <2>1. /\ pc[w] = "assign_commit" /\ step = "roles_left" /\ UNCHANGED files
        /\ VersionsOf(RowsOf(n)') = VersionsOf(RowsOf(n))
        /\ Exists(Mains(RowsOf(n)'), v)
    BY <1>7, AssignSwaps
  <2>2. \A u \in Versions : Exists(RowsOf(n), u) => Exists(RowsOf(n)', u)
    <3>1. \A rows : \A u : Exists(rows, u) <=> u \in VersionsOf(rows)
      BY DEF Exists, VersionsOf
    <3>2. QED BY <2>1, <3>1
  <2>3. RowsOf(n)' # {}
    BY <2>1 DEF Exists, Mains
  <2>4. QED
    BY <2>1, <2>2, <2>3 DEF RecordedSoFar, NameRecorded, ServicesRecorded, Exists, files
<1>8. QED BY <1>5, <1>6, <1>7 DEF Step

LEMMA StartupRecords ==
    ASSUME TypeOK, RecordedInv, Startup, NEW n \in Names
    PROVE  NameRecorded(n)'
<1>1. RowsOf(n)' = RowsOf(n)
  BY DEF Startup, database, RowsOf
<1>2. ASSUME NEW v \in Versions, ~Exists(RowsOf(n), v)
      PROVE  serviceFile'[<<n, v>>] = None
  <2>1. Matching(RowsOf(n), v) = {} /\ <<n, v>> \in Service
    BY <1>2 DEF Exists, Matching, Service
  <2>2. QED BY <2>1 DEF Startup, RecordedInv
<1>3. RowsOf(n) = {} => mirrorFile'[n] = None
  BY DEF Startup, RecordedInv, NamesInDatabase, RowsOf
<1>4. QED BY <1>1, <1>2, <1>3 DEF NameRecorded, ServicesRecorded, Exists

LEMMA RecordedInvStep ==
    ASSUME TakeTurns, "process" \notin Crashes
    PROVE  TypeOK /\ TurnsInv /\ RoutingInv /\ RecordedInv /\ [Next]_vars => RecordedInv'
<1> SUFFICES ASSUME TypeOK, TurnsInv, RoutingInv, RecordedInv, [Next]_vars
             PROVE  RecordedInv'
  OBVIOUS
<1>1. \A n \in Names : Quiet(n) => NameRecorded(n)
  BY QuietRecorded DEF RecordedInv
<1>2. ASSUME \A n \in Names : Quiet(n)' => NameRecorded(n)' PROVE RoutesAreRecorded'
  BY <1>2 DEF RoutesAreRecorded, NameRecorded, ServicesRecorded
<1>3. ASSUME NEW x \in Workers, pc[x] # "idle", pc'[x] = pc[x], req'[x] = req[x],
             \A n \in Names : n = req[x].name => SameStores(n)
      PROVE  RecordedSoFar(req[x].name, req[x].version, pc[x])'
  <2>1. PICK n \in Names, v \in Versions : n = req[x].name /\ v = req[x].version
    BY <1>3 DEF TypeOK, Request
  <2>2. PICK step : step = pc[x]
    OBVIOUS
  <2>3. RecordedSoFar(n, v, step)'
    BY <1>3, <2>1, <2>2, RecordedFrame DEF RecordedInv
  <2>4. QED
    BY <1>3, <2>1, <2>2, <2>3 DEF RecordedSoFar, NameRecorded, ServicesRecorded, Exists, RowsOf
<1>4. ASSUME NEW w \in Workers, Accept(w) PROVE RecordedInv'
  <2>1. PICK n \in Names, v \in Versions :
          /\ MayStart(w, n) /\ req'[w].name = n /\ req'[w].version = v
          /\ pc'[w] \in {"token", "remove", "assign_commit"} /\ up'
    BY <1>4 DEF Accept, StartDeploy, StartKill, StartAssign, Goto, TypeOK, MayStart
  <2>2. NameRecorded(n)'
    BY <1>1, <1>4, <2>1, AcceptStores, RecordedFrame DEF MayStart, Quiet
  <2>3. RecordedSoFar(req[w].name, req[w].version, pc[w])'
    BY <2>1, <2>2 DEF RecordedSoFar, NameRecorded, ServicesRecorded, Exists, RowsOf
  <2>4. \A m \in Names : Quiet(m)' => NameRecorded(m)'
    BY <1>1, <1>4, AcceptSoFar, AcceptStores, RecordedFrame DEF RoutingInv
  <2>5. QED BY <1>2, <1>3, <1>4, <2>1, <2>3, <2>4, AcceptFrame, AcceptStores
            DEF RecordedInv
<1>5. ASSUME NEW w \in Workers, Step(w) PROVE RecordedInv'
  <2>1. PICK n \in Names, v \in Versions : n = req[w].name /\ v = req[w].version
    BY <1>5, StepRequest DEF TypeOK, Request
  <2>2. PICK step : step = pc'[w]
    OBVIOUS
  <2>3. RecordedSoFar(n, v, step)'
    BY <1>5, <2>1, <2>2, StepRequest, RecordedStep DEF RecordedInv, RoutingInv
  <2>4. pc'[w] # "idle" => RecordedSoFar(req[w].name, req[w].version, pc[w])'
    <3> SUFFICES ASSUME pc'[w] # "idle"
                 PROVE  RecordedSoFar(req[w].name, req[w].version, pc[w])'
      OBVIOUS
    <3>1. req'[w] = req[w]
      BY <1>5, StepRequest
    <3>2. QED
      BY <2>1, <2>2, <2>3, <3>1 DEF RecordedSoFar, NameRecorded, ServicesRecorded, Exists, RowsOf
  <2>5. ASSUME NEW x \in Workers, x # w, pc'[x] # "idle"
        PROVE  RecordedSoFar(req[x].name, req[x].version, pc[x])'
    <3>1. pc[x] # "idle" /\ req[x].name # req[w].name
      BY <1>5, <2>5, StepFrame, StepRequest DEF TurnsInv, InTurn
    <3>2. QED BY <1>3, <1>5, <2>5, <3>1, StepFrame, StepSpares
  <2>6. ASSUME NEW m \in Names, Quiet(m)' PROVE NameRecorded(m)'
    <3>1. CASE m = n
      <4>1. step = "idle"
        BY <1>5, <2>1, <2>2, <2>6, <3>1, StepRequest DEF Quiet
      <4>2. QED BY <2>3, <3>1, <4>1 DEF RecordedSoFar
    <3>2. CASE m # n
      <4>1. Quiet(m)
        BY <1>5, <2>1, <2>6, <3>2, StepFrame, StepRequest DEF Quiet, TypeOK
      <4>2. QED BY <1>1, <1>5, <2>1, <3>2, <4>1, StepSpares, RecordedFrame
    <3>3. QED BY <3>1, <3>2
  <2>7. up'
    BY <1>5, StepUp, StepRequest DEF TypeOK
  <2>8. QED BY <1>2, <2>4, <2>5, <2>6, <2>7 DEF RecordedInv
<1>6. ASSUME UNCHANGED <<services, container, files, up, local>> PROVE RecordedInv'
  <2>1. \A n : SameStores(n)
    BY <1>6 DEF SameStores, RowsOf, files
  <2>2. ASSUME NEW n \in Names, Quiet(n)' PROVE NameRecorded(n)'
    <3>1. Quiet(n)
      BY <1>6, <2>2 DEF Quiet, local
    <3>2. QED BY <1>1, <1>6, <2>1, <3>1 DEF NameRecorded, ServicesRecorded, SameStores, Exists
  <2>3. QED BY <1>2, <1>3, <1>6, <2>1, <2>2 DEF RecordedInv, files, local
<1>7. ASSUME \A w \in Workers : pc'[w] = "idle",
             IF up' THEN \A n \in Names : NameRecorded(n)' ELSE NoFiles
      PROVE  RecordedInv'
  BY <1>2, <1>7 DEF RecordedInv, NoFiles, Quiet
<1>8. CASE ManagerStep
  <2>1. CASE \E t \in Tokens : RevokeToken(t)
    BY <1>6, <2>1 DEF RevokeToken
  <2>2. CASE ContainerCrash
    BY <1>7, <2>2 DEF ContainerCrash, Stop
  <2>3. CASE Startup
    BY <1>7, <2>3, StartupRecords DEF Startup, local, TypeOK
  <2>4. CASE StartupFails
    BY <1>7, <2>4 DEF StartupFails, local, TypeOK
  <2>5. CASE UNCHANGED vars
    BY <1>6, <2>5 DEF vars, database
  <2>6. ~ProcessCrash
    BY DEF ProcessCrash
  <2>7. QED BY <1>8, <2>1, <2>2, <2>3, <2>4, <2>5, <2>6 DEF ManagerStep
<1>9. QED BY <1>4, <1>5, <1>8, NextCases

LEMMA RecordedInvInit == Init => RecordedInv
  BY DEF Init, RecordedInv, RoutesAreRecorded, Service

(* When clients take turns on a name and every crash takes the files with  *)
(* it, traefik routes to nothing that is not in the database whenever      *)
(* nobody works on the name: no handler, however it ends, leaves a route   *)
(* behind.  (kill_service, remove_service_configuration)                   *)
THEOREM RoutesStayRecorded ==
    ASSUME TakeTurns, "process" \notin Crashes
    PROVE  Spec => []RoutesAreRecorded
<1>1. TypeOK /\ TurnsInv /\ RoutingInv /\ RecordedInv /\ [Next]_vars => RecordedInv'
  BY RecordedInvStep
<1>2. RecordedInv => RoutesAreRecorded
  BY DEF RecordedInv
<1>3. QED BY <1>1, <1>2, RoutingInvAlways, RecordedInvInit, PTL DEF Spec

-----------------------------------------------------------------------------
(* How handlers end under turns *)

(* The mirror of consistent rows has every version once.                   *)
LEMMA MirrorHas ==
    ASSUME NEW rows \in SUBSET Record, Consistent(rows), NEW v \in Versions
    PROVE  /\ Exists(rows, v) <=>
                v \in {MirrorOf(rows).main} \cup MirrorOf(rows).shadows
           /\ Exists(Mains(rows), v) =>
                MirrorOf(rows) = [main |-> v, shadows |-> VersionsOf(rows) \ {v}]
<1>1. \A r \in rows : r \in Mains(rows) \/ r \in Shadows(rows)
  BY DEF Record, Mains, Shadows
<1>2. \A r \in Mains(rows) : MirrorOf(rows).main = r.version
  BY MainOf DEF Consistent
<1>3. MirrorOf(rows).shadows = VersionsOf(Shadows(rows))
  BY DEF MirrorOf
<1>4. ASSUME Mains(rows) = {} PROVE MirrorOf(rows).main # v
  BY <1>4, DeploymentConstants DEF MirrorOf
<1>5. Exists(rows, v) <=> v \in {MirrorOf(rows).main} \cup MirrorOf(rows).shadows
  BY <1>1, <1>2, <1>3, <1>4 DEF Exists, VersionsOf, Mains, Shadows
<1>6. ASSUME NEW m \in Mains(rows), m.version = v
      PROVE  MirrorOf(rows) = [main |-> v, shadows |-> VersionsOf(rows) \ {v}]
  <2>1. \A r \in rows : r.version = v => r = m
    BY <1>6 DEF Consistent, Conflict, Matching, Mains
  <2>2. \A r \in rows : r = m \/ r \in Shadows(rows)
    BY <1>1 DEF Consistent, Conflict
  <2>3. m \notin Shadows(rows)
    BY DEF Mains, Shadows
  <2>4. VersionsOf(Shadows(rows)) = VersionsOf(rows) \ {v}
    BY <1>6, <2>1, <2>2, <2>3 DEF VersionsOf, Shadows
  <2>5. QED BY <1>2, <1>6, <2>4 DEF MirrorOf
<1>7. QED BY <1>5, <1>6 DEF Exists

LEMMA EndsByStep ==
    ASSUME TypeOK, [Next]_vars, NEW w \in Workers, Ends(w)
    PROVE  Step(w)
<1>1. pc[w] # "idle" /\ pc'[w] = "idle" /\ up'
  BY DEF Ends
<1>2. ASSUME NEW x \in Workers, Accept(x) PROVE FALSE
  <2>1. pc[x] = "idle"
    BY <1>2 DEF Accept, StartDeploy, StartKill, StartAssign, MayStart
  <2>2. QED BY <1>1, <1>2, <2>1, AcceptFrame
<1>3. ASSUME NEW x \in Workers, Step(x) PROVE x = w
  BY <1>1, <1>3, StepFrame
<1>4. ~ManagerStep
  <2>1. pc[w] # "idle" => up
    BY DEF TypeOK
  <2>2. QED
    BY <1>1, <2>1 DEF ManagerStep, RevokeToken, ProcessCrash, ContainerCrash, Stop,
                      Startup, StartupFails, local, vars
<1>5. QED BY <1>2, <1>3, <1>4, NextCases

(* The rows that a handler sees at its end are consistent.                 *)
LEMMA OwnConsistent ==
    ASSUME TypeOK, TurnsInv, NEW w \in Workers, pc[w] # "idle"
    PROVE  /\ req[w].name \in Names /\ req[w].version \in Versions
           /\ OwnRows(w) \in SUBSET Record /\ Consistent(OwnRows(w))
           /\ ~Conflict(OwnRecord(w))
<1>1. req[w].name \in Names /\ req[w].version \in Versions
  BY DEF TypeOK, Request
<1>2. OwnRows(w) \in SUBSET Record /\ Consistent(OwnRows(w))
  BY <1>1, RowsTyped, ConsistentNames DEF TurnsInv, OwnRows
<1>3. QED BY <1>1, <1>2 DEF Consistent, OwnRecord

(* A step at "mirror_file" writes the mirror of the rows as they are.      *)
LEMMA MirrorEnds ==
    ASSUME TypeOK, NEW w \in Workers, SoFar(w), Step(w), pc[w] = "mirror_file",
           NEW n \in Names, n = req[w].name
    PROVE  mirrorFile'[n] = MirrorOf(RowsOf(n))
<1>1. WriteMirror(w)
  BY DEF Step, DeployStep, NewApiToken, CreateService, CreateServiceFails,
         StartContainerFails, AddRecordRead, AddRecordCommit, ReadRoles,
         WriteServiceFile, KillStep, RemoveContainer, ReadRecord,
         DeleteTokenRead, DeleteTokenCommit,
         DeleteRecordRead, DeleteRecordCommit, UnlinkServiceFile, UnlinkMirror,
         ReadRolesLeft, AssignCommit
<1>2. seen[w] = RowsOf(n)
  BY DEF SoFar, RoutesSoFar, OwnRows
<1>3. QED BY <1>1, <1>2 DEF WriteMirror, TypeOK

(* When clients take turns on a name, an accepted deployment is served:    *)
(* container, record and both routes are in place, and no other request,   *)
(* failure or earlier crash has taken one of them away in between.         *)
(* (start_service_from_image, new_service_configuration)                   *)
THEOREM AcceptedAreServed ==
    ASSUME TakeTurns
    PROVE  Spec => AcceptedIsServed
<1> DEFINE Served(w) ==
             LET n == req[w].name
                 v == req[w].version
             IN /\ container[<<n, v>>] # None
                /\ serviceFile[<<n, v>>] = container[<<n, v>>].url
                /\ Exists(services, v) /\ Exists(RowsOf(n), v)
                /\ v \in {mirrorFile'[n].main} \cup mirrorFile'[n].shadows
<1>1. ASSUME TypeOK, TurnsInv, RoutingInv, [Next]_vars, NEW w \in Workers,
             Ends(w), pc[w] = "mirror_file", req[w].op = "deploy"
      PROVE  Served(w)
  <2> DEFINE n == req[w].name
             v == req[w].version
  <2>1. n \in Names /\ v \in Versions /\ OwnRows(w) = RowsOf(n)
        /\ RowsOf(n) \in SUBSET Record /\ Consistent(RowsOf(n))
    BY <1>1, OwnConsistent DEF OwnRows
  <2>2. /\ container[<<n, v>>] # None /\ container[<<n, v>>].url = req[w].port
        /\ serviceFile[<<n, v>>] = req[w].port /\ IsRecorded(w)
    <3>1. DeployedSoFar(w) /\ Target(w) = <<n, v>>
      BY <1>1 DEF RoutingInv, SoFar, Target
    <3>2. QED BY <1>1, <3>1 DEF DeployedSoFar, Recorded
  <2>3. Exists(services, v) /\ Exists(RowsOf(n), v)
    BY <2>1, <2>2 DEF IsRecorded, OwnRecord, Matching, Exists, RowsOf
  <2>4. mirrorFile'[n] = MirrorOf(RowsOf(n))
    BY <1>1, <2>1, EndsByStep, MirrorEnds DEF RoutingInv
  <2>5. v \in {mirrorFile'[n].main} \cup mirrorFile'[n].shadows
    BY <2>1, <2>3, <2>4, MirrorHas
  <2>6. QED BY <2>2, <2>3, <2>5
<1>2. TypeOK /\ TurnsInv /\ RoutingInv /\ [Next]_vars =>
        [\A w \in Workers :
           Ends(w) /\ pc[w] = "mirror_file" /\ req[w].op = "deploy" => Served(w)]_vars
  BY <1>1
<1>3. QED BY <1>2, RoutingInvAlways, PTL DEF Spec, AcceptedIsServed

(* Kills and assignments that end late end at one of their last two steps. *)
LEMMA LateEnds ==
    ASSUME TypeOK, TurnsInv, NEW w \in Workers, SoFar(w), Step(w), pc'[w] = "idle",
           req[w].op # "deploy", pc[w] \notin {"remove", "revoke"}
    PROVE  \/ pc[w] = "mirror_file"
           \/ pc[w] = "roles_left" /\ UNCHANGED mirrorFile /\ OwnRows(w) = {}
<1> USE DEF TypeOK, Goto, Remember, Finish
<1>1. ~Conflict(OwnRecord(w)) /\ Consistent(OwnRows(w))
  BY OwnConsistent, StepRequest
<1>2. CASE DeployStep(w)
  <2>1. pc[w] \in DeploySteps \cup {"mirror_file"}
    BY <1>2 DEF DeployStep, NewApiToken, CreateService, CreateServiceFails,
         StartContainerFails, AddRecordRead, AddRecordCommit, ReadRoles,
         WriteServiceFile, WriteMirror, DeploySteps
  <2>2. pc[w] \in DeploySteps => pc[w] # "idle"
    BY DEF DeploySteps
  <2>3. QED BY <2>1, <2>2 DEF SoFar, OperationOf
<1>3. CASE ReadRolesLeft(w)
  BY <1>1, <1>3 DEF ReadRolesLeft, MirrorLeft, Consistent, files
<1>4. CASE KillStep(w) /\ ~ReadRolesLeft(w)
  BY <1>1, <1>4 DEF KillStep, RemoveContainer, ReadRecord, DeleteTokenRead,
       DeleteTokenCommit,
       DeleteRecordRead, LookUp, DeleteRecordCommit, UnlinkServiceFile, UnlinkMirror
<1>5. QED BY <1>2, <1>3, <1>4, AssignSoFar DEF Step

(* When clients take turns on a name, a kill that gets past its token ends *)
(* with container, record and routes of the version gone, and the route of *)
(* the name no longer reaches it; also when an earlier deployment or kill  *)
(* was cut off halfway.  (kill_service, new_service_configuration)         *)
THEOREM KillsCleanUp ==
    ASSUME TakeTurns
    PROVE  Spec => KillCleansUp
<1>1. ASSUME TypeOK, TurnsInv, RoutingInv, [Next]_vars, NEW w \in Workers,
             Ends(w), req[w].op = "kill", pc[w] \notin {"remove", "revoke"}
      PROVE  Gone(req[w].name, req[w].version)
  <2> DEFINE n == req[w].name
             v == req[w].version
  <2>1. n \in Names /\ v \in Versions /\ OwnRows(w) = RowsOf(n)
        /\ RowsOf(n) \in SUBSET Record /\ Consistent(RowsOf(n))
    BY <1>1, OwnConsistent DEF OwnRows, Ends
  <2>2. SoFar(w) /\ Step(w) /\ pc'[w] = "idle"
    BY <1>1, EndsByStep DEF RoutingInv, Ends
  <2>3. \/ pc[w] = "mirror_file"
        \/ pc[w] = "roles_left" /\ UNCHANGED mirrorFile
    BY <1>1, <2>2, LateEnds
  <2>4. KilledSoFar(w) /\ Target(w) = <<n, v>>
    BY <2>2, <2>3 DEF SoFar, Target
  <2>5. container[<<n, v>>] = None /\ serviceFile[<<n, v>>] = None /\ ~IsRecorded(w)
    BY <1>1, <2>3, <2>4 DEF KilledSoFar, Unrecorded
  <2>6. ~Exists(RowsOf(n), v)
    BY <2>1, <2>5 DEF Exists, IsRecorded, OwnRecord, Matching
  <2>7. mirrorFile'[n] # None =>
          v \notin {mirrorFile'[n].main} \cup mirrorFile'[n].shadows
    <3>1. CASE pc[w] = "mirror_file"
      <4>1. mirrorFile'[n] = MirrorOf(RowsOf(n))
        BY <1>1, <2>1, <2>2, <3>1, MirrorEnds
      <4>2. QED BY <2>1, <2>6, <4>1, MirrorHas
    <3>2. CASE pc[w] = "roles_left" /\ UNCHANGED mirrorFile
      BY <1>1, <2>4, <3>2 DEF KilledSoFar
    <3>3. QED BY <2>3, <3>1, <3>2
  <2>8. QED BY <2>5, <2>6, <2>7 DEF Gone
<1>2. TypeOK /\ TurnsInv /\ RoutingInv /\ [Next]_vars =>
        [\A w \in Workers :
           Ends(w) /\ req[w].op = "kill" /\ pc[w] \notin {"remove", "revoke"}
             => Gone(req[w].name, req[w].version)]_vars
  BY <1>1
<1>3. QED BY <1>2, RoutingInvAlways, PTL DEF Spec, KillCleansUp

(* When clients take turns on a name, an assignment that ends has made the *)
(* version the main one in the table and in the route of the name, which   *)
(* mirrors to all other versions.  (assign_main_service)                   *)
THEOREM AssignedAreMain ==
    ASSUME TakeTurns
    PROVE  Spec => AssignedIsMain
<1> DEFINE Assigned(w) ==
             LET n == req[w].name
             IN /\ Exists(Mains(RowsOf(n)), req[w].version)
                /\ mirrorFile'[n] = [main |-> req[w].version,
                     shadows |-> VersionsOf(RowsOf(n)) \ {req[w].version}]
<1>1. ASSUME TypeOK, TurnsInv, RoutingInv, [Next]_vars, NEW w \in Workers,
             Ends(w), req[w].op = "assign"
      PROVE  Assigned(w)
  <2> DEFINE n == req[w].name
             v == req[w].version
  <2>1. n \in Names /\ v \in Versions /\ OwnRows(w) = RowsOf(n)
        /\ RowsOf(n) \in SUBSET Record /\ Consistent(RowsOf(n))
    BY <1>1, OwnConsistent DEF OwnRows, Ends
  <2>2. SoFar(w) /\ Step(w) /\ pc'[w] = "idle" /\ pc[w] # "idle"
    BY <1>1, EndsByStep DEF RoutingInv, Ends
  <2>3. pc[w] \notin KillSteps
    BY <1>1, <2>2 DEF SoFar, OperationOf
  <2>4. \/ pc[w] = "mirror_file"
        \/ pc[w] = "roles_left" /\ OwnRows(w) = {}
    BY <1>1, <2>2, <2>3, LateEnds DEF KillSteps
  <2>5. Exists(Mains(RowsOf(n)), v)
    BY <1>1, <2>1, <2>2, <2>4 DEF SoFar, AssignedSoFar
  <2>6. mirrorFile'[n] = MirrorOf(RowsOf(n))
    BY <1>1, <2>1, <2>2, <2>4, <2>5, MirrorEnds DEF Exists, Mains
  <2>7. QED BY <2>1, <2>5, <2>6, MirrorHas
<1>2. TypeOK /\ TurnsInv /\ RoutingInv /\ [Next]_vars =>
        [\A w \in Workers : Ends(w) /\ req[w].op = "assign" => Assigned(w)]_vars
  BY <1>1
<1>3. QED BY <1>2, RoutingInvAlways, PTL DEF Spec, AssignedIsMain

(* A handler that deletes a token has read it in a record of its version.  *)
LEMMA TokensGone ==
    ASSUME TypeOK, [Next]_vars, ~UsersRevoke, NEW t \in tokens \ tokens'
    PROVE  \E w \in Workers : pc[w] = "revoke_commit" /\ t \in TokensOf(seen[w])
<1>1. ASSUME NEW w \in Workers, Accept(w) PROVE FALSE
  BY <1>1 DEF Accept, StartDeploy, StartKill, StartAssign, database
<1>2. ~ManagerStep
  BY DEF ManagerStep, RevokeToken, ProcessCrash, ContainerCrash, Stop, Startup,
         StartupFails, database, vars
<1>3. PICK w \in Workers : Step(w)
  BY <1>1, <1>2, NextCases
<1>4. DeleteTokenCommit(w)
  <2>1. CASE DeployStep(w)
    BY <2>1 DEF DeployStep, NewApiToken, CreateService, CreateServiceFails,
         StartContainerFails, AddRecordRead, AddRecordCommit, ReadRoles,
         WriteServiceFile, WriteMirror, database
  <2>2. CASE KillStep(w)
    BY <2>2 DEF KillStep, RemoveContainer, ReadRecord, DeleteTokenRead,
         DeleteRecordRead, LookUp, DeleteRecordCommit, UnlinkServiceFile,
         UnlinkMirror, ReadRolesLeft, database
  <2>3. CASE AssignCommit(w)
    BY <2>3 DEF AssignCommit
  <2>4. QED BY <1>3, <2>1, <2>2, <2>3 DEF Step
<1>5. QED BY <1>4 DEF DeleteTokenCommit

(* When clients take turns on a name and users revoke no service tokens, a *)
(* container keeps its token for as long as it runs: the token a kill      *)
(* deletes is that of its own version, and that container is gone by then, *)
(* whatever earlier deployments left behind.  (kill_service)               *)
THEOREM TokensOutliveContainers ==
    ASSUME TakeTurns, ~UsersRevoke
    PROVE  Spec => TokenOutlivesContainer
<1>1. ASSUME TypeOK, OneOwner, RoutingInv, [Next]_vars, NEW s \in Service,
             container[s] # None, container[s].token \in tokens
      PROVE  container[s].token \in tokens'
  <2>1. SUFFICES ASSUME container[s].token \notin tokens' PROVE FALSE
    OBVIOUS
  <2>2. PICK w \in Workers : pc[w] = "revoke_commit"
                              /\ container[s].token \in TokensOf(seen[w])
    BY <1>1, <2>1, TokensGone
  <2>3. PICK r \in seen[w] : r.token = container[s].token
    BY <2>2 DEF TokensOf
  <2>4. <<r.name, r.version>> = Target(w) /\ Target(w) \in Service
    BY <1>1, <2>2, <2>3 DEF OneOwner, TypeOK, Target, Service, Request
  <2>5. Uses(r.token, s) /\ Uses(r.token, Target(w)) /\ r.token \in Tokens
    BY <1>1, <2>3, <2>4 DEF Uses, TypeOK
  <2>6. s = Target(w)
    BY <1>1, <2>4, <2>5 DEF OneOwner
  <2>7. container[Target(w)] = None
    BY <1>1, <2>2 DEF RoutingInv, SoFar, OperationOf, KilledSoFar, KillSteps
  <2>8. QED BY <1>1, <2>6, <2>7
<1>2. TypeOK /\ OneOwner /\ RoutingInv /\ [Next]_vars =>
        [\A s \in Service :
           container[s] # None /\ container'[s] = container[s]
           /\ container[s].token \in tokens
             => container[s].token \in tokens']_vars
  BY <1>1
<1>3. QED
  BY <1>2, TypeCorrect, OneOwnerAlways, RoutingInvAlways, PTL
  DEF Spec, TokenOutlivesContainer

-----------------------------------------------------------------------------
(* When clients take turns on a name, a manager that stopped, wherever its *)
(* handlers were, finds a database it can start with: startup_event never  *)
(* meets a name with two mains.  ManagerRestarts adds that it is started.  *)
(* (startup_event, recreate_proxy_configurations)                          *)
THEOREM RestartsSucceed ==
    ASSUME TakeTurns
    PROVE  Spec => [][~StartupFails]_vars
<1>1. TypeOK /\ TurnsInv /\ [Next]_vars => TurnsInv'
  BY TurnsInvStep
<1>2. TurnsInv => ~StartupFails
  BY DEF TurnsInv, OneMain, StartupFails
<1>3. QED BY <1>1, <1>2, TypeCorrect, TurnsInvInit, PTL DEF Spec
=============================================================================
