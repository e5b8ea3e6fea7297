------------------------------ MODULE CliProofs ------------------------------
(***************************************************************************)
(* Proofs about Cli, for any shells, hosts, tokens and services: types and *)
(* the active host without any turns; that logins are kept, that a kill is *)
(* not refused and that it ends clean when nobody logs in or out while     *)
(* other commands run.                                                     *)
(***************************************************************************)
EXTENDS Cli, TLAPS

LoginSteps == {"check", "password", "add", "added", "activate", "activated"}
LogoutSteps == {"forget", "forgotten"}

(* What a command c knows at each of its steps, with m in memory.          *)
Fits(step, c, m) ==
    /\ step \in {"create", "created"} => c.op = "ask"
    /\ step \in LoginSteps => c.op = "login" /\ c.host \in Hosts
    /\ step \in {"add", "added"} => c.token \in Tokens /\ m.tokens[c.host] = c.token
    /\ step \in LogoutSteps => c.op = "logout" /\ c.host \in Hosts
    /\ step = "send" => /\ c.op \in {"deploy", "assign", "ask"}
                        /\ c.op # "ask" => c.name \in Names /\ c.version \in Versions
    /\ step \in {"list", "delete"} => c.op = "kill"
    /\ step \in {"send", "list", "delete"} => c.host \in Hosts
Prepared(s) == Fits(pc[s], cmd[s], mem[s])

TypeInv == TypeOK /\ \A s \in Shells : Prepared(s)

LEMMA BlankTypes == Blank \in State /\ NoCommand \in Command
  BY DEF Blank, State, NoCommand, Command, Ops

LEMMA TypeInit == Init => TypeInv
  BY BlankTypes DEF Init, TypeInv, TypeOK, Prepared, Fits, Steps, LoginSteps, LogoutSteps

(* A step of a shell leaves the commands of the others where they are.     *)
LEMMA ShellFrame ==
  ASSUME TypeInv, NEW s \in Shells, NEW step \in Steps, NEW c \in Command,
         NEW m \in State, Goto(s, step, c), mem' = [mem EXCEPT ![s] = m],
         Fits(step, c, m)
  PROVE  /\ pc' \in [Shells -> Steps] /\ cmd' \in [Shells -> Command]
         /\ mem' \in [Shells -> State]
         /\ pc'[s] = step /\ cmd'[s] = c /\ mem'[s] = m
         /\ \A x \in Shells : x # s => pc'[x] = pc[x] /\ cmd'[x] = cmd[x] /\ mem'[x] = mem[x]
         /\ \A x \in Shells : Prepared(x)'
  BY DEF TypeInv, TypeOK, Goto, Prepared

LEMMA FinishFrame ==
  ASSUME TypeInv, NEW s \in Shells, Finish(s)
  PROVE  /\ pc' \in [Shells -> Steps] /\ cmd' \in [Shells -> Command]
         /\ mem' \in [Shells -> State] /\ disturbed' \in [Shells -> BOOLEAN]
         /\ pc'[s] = "idle"
         /\ \A x \in Shells : x # s => /\ pc'[x] = pc[x] /\ cmd'[x] = cmd[x]
                                       /\ mem'[x] = mem[x] /\ disturbed'[x] = disturbed[x]
         /\ \A x \in Shells : Prepared(x)'
<1>1. "idle" \in Steps /\ mem' = [mem EXCEPT ![s] = Blank]
  BY DEF Steps, Finish
<1>2. Goto(s, "idle", NoCommand) /\ disturbed' = [disturbed EXCEPT ![s] = FALSE]
  BY DEF Finish
<1>3. Fits("idle", NoCommand, Blank)
  BY DEF Fits, LoginSteps, LogoutSteps
<1> QED BY <1>1, <1>2, <1>3, BlankTypes, ShellFrame DEF TypeInv, TypeOK

LEMMA BeginFrame ==
  ASSUME TypeInv, NEW s \in Shells, NEW step \in Steps, NEW c \in Command,
         Begin(s, c, step), \A m : Fits(step, c, m)
  PROVE  /\ pc' \in [Shells -> Steps] /\ cmd' \in [Shells -> Command]
         /\ mem' \in [Shells -> State]
         /\ pc[s] = "idle" /\ pc'[s] = step /\ cmd'[s] = c
         /\ mem'[s] = IF Switches(c.op) THEN file ELSE Blank
         /\ file \in State
         /\ \A x \in Shells : x # s => pc'[x] = pc[x] /\ cmd'[x] = cmd[x] /\ mem'[x] = mem[x]
         /\ \A x \in Shells : Prepared(x)'
<1>1. file \in State
  BY DEF Begin, Readable, TypeInv, TypeOK
<1>2. PICK m \in State : m = (IF Switches(c.op) THEN file ELSE Blank)
  BY <1>1, BlankTypes
<1>3. Goto(s, step, c) /\ mem' = [mem EXCEPT ![s] = m]
  BY <1>2 DEF Begin
<1>4. Fits(step, c, m)
  OBVIOUS
<1>5. /\ pc' \in [Shells -> Steps] /\ cmd' \in [Shells -> Command]
      /\ mem' \in [Shells -> State]
      /\ pc'[s] = step /\ cmd'[s] = c /\ mem'[s] = m
      /\ \A x \in Shells : x # s => pc'[x] = pc[x] /\ cmd'[x] = cmd[x] /\ mem'[x] = mem[x]
      /\ \A x \in Shells : Prepared(x)'
  BY <1>3, <1>4, ShellFrame
<1> QED BY <1>1, <1>2, <1>5 DEF Begin

LEMMA ManagersType ==
  ASSUME TypeInv, NEW h \in Hosts, NEW n \in Names, NEW v \in Versions,
         Add(h, n, v) \/ Promote(h, n, v) \/ Remove(h, n, v)
  PROVE  /\ versions' \in [Hosts -> [Names -> SUBSET Versions]]
         /\ main' \in [Hosts -> [Names -> Versions \cup {None}]]
<1>1. CASE Add(h, n, v)
  BY <1>1 DEF Add, TypeInv, TypeOK
<1>2. CASE Promote(h, n, v)
  BY <1>2 DEF Promote, TypeInv, TypeOK
<1>3. CASE Remove(h, n, v)
  BY <1>3 DEF Remove, TypeInv, TypeOK
<1> QED BY <1>1, <1>2, <1>3

LEMMA DisturbType ==
  ASSUME TypeInv, NEW s \in Shells, Disturb(s) PROVE disturbed' \in [Shells -> BOOLEAN]
<1>1. disturbed[s] \in BOOLEAN
  BY DEF TypeInv, TypeOK
<1> QED BY <1>1 DEF Disturb

LEMMA RunType ==
  ASSUME TypeInv, NEW s \in Shells, NEW op \in Ops, NEW n \in Names \cup {None},
         NEW v \in Versions \cup {None}, NEW step \in {"send", "list"},
         Run(s, op, n, v, step),
         op = IF step = "list" THEN "kill" ELSE op,
         step = "send" => op \in {"deploy", "assign", "ask"},
         op \in {"deploy", "assign"} => n \in Names /\ v \in Versions
  PROVE  TypeInv'
<1>1. PICK h \in Hosts :
         Begin(s, [NoCommand EXCEPT !.op = op, !.host = h, !.name = n, !.version = v], step)
  BY DEF Run
<1> DEFINE c == [NoCommand EXCEPT !.op = op, !.host = h, !.name = n, !.version = v]
<1>2. /\ c \in Command /\ c.op = op /\ c.host = h /\ c.name = n /\ c.version = v
      /\ step \in Steps
  BY DEF NoCommand, Command, Ops, Steps
<1>3. Begin(s, c, step)
  BY <1>1
<1> HIDE DEF c
<1>4. \A m : Fits(step, c, m)
  BY <1>2 DEF Fits, LoginSteps, LogoutSteps
<1> QED BY <1>2, <1>3, <1>4, BeginFrame DEF Begin, managers, TypeInv, TypeOK

LEMMA TypeStep == TypeInv /\ [Next]_vars => TypeInv'
<1> SUFFICES ASSUME TypeInv, [Next]_vars PROVE TypeInv'
  OBVIOUS
<1> USE DEF managers
<1>0. TypeOK /\ \A s \in Shells : Prepared(s)
  BY DEF TypeInv
<1>1. ASSUME NEW s \in Shells, FirstUse(s) PROVE TypeInv'
  <2> DEFINE c == [NoCommand EXCEPT !.op = "ask"]
  <2>1. /\ Goto(s, "create", c) /\ mem' = [mem EXCEPT ![s] = mem[s]] /\ mem[s] \in State
        /\ c.op = "ask" /\ c \in Command /\ "create" \in Steps
    BY <1>0, <1>1 DEF FirstUse, NoCommand, Command, Ops, Steps, TypeOK
  <2> HIDE DEF c
  <2>2. Fits("create", c, mem[s])
    BY <2>1 DEF Fits, LoginSteps, LogoutSteps
  <2> QED BY <1>0, <1>1, <2>1, <2>2, ShellFrame DEF FirstUse, TypeInv, TypeOK
<1>2. ASSUME NEW s \in Shells, Ask(s) PROVE TypeInv'
  BY <1>2, RunType DEF Ask, Ops
<1>3. ASSUME NEW s \in Shells, NEW n \in Names, NEW v \in Versions,
             Deploy(s, n, v) \/ Assign(s, n, v)
      PROVE  TypeInv'
  BY <1>3, RunType DEF Deploy, Assign, Ops
<1>4. ASSUME NEW s \in Shells, NEW n \in Names \cup {None}, NEW v \in Versions \cup {None},
             Kill(s, n, v)
      PROVE  TypeInv'
  BY <1>4, RunType DEF Kill, Ops
<1>5. ASSUME NEW s \in Shells, NEW h \in Hosts, NEW t \in Tokens \cup {None}, Login(s, h, t)
      PROVE  TypeInv'
  <2> DEFINE c == [NoCommand EXCEPT !.op = "login", !.host = h, !.token = t]
  <2>1. c \in Command /\ c.op = "login" /\ c.host = h /\ "check" \in Steps
    BY DEF NoCommand, Command, Ops, Steps
  <2>2. Begin(s, c, "check")
    BY <1>5 DEF Login
  <2> HIDE DEF c
  <2>3. \A m : Fits("check", c, m)
    BY <2>1 DEF Fits, LoginSteps, LogoutSteps
  <2> QED BY <2>1, <2>2, <2>3, BeginFrame DEF Begin, TypeInv, TypeOK
<1>6. ASSUME NEW s \in Shells, NEW h \in Hosts, Logout(s, h) PROVE TypeInv'
  <2> DEFINE c == [NoCommand EXCEPT !.op = "logout", !.host = h]
  <2>1. c \in Command /\ c.op = "logout" /\ c.host = h /\ "forget" \in Steps
    BY DEF NoCommand, Command, Ops, Steps
  <2>2. Begin(s, c, "forget")
    BY <1>6 DEF Logout
  <2> HIDE DEF c
  <2>3. \A m : Fits("forget", c, m)
    BY <2>1 DEF Fits, LoginSteps, LogoutSteps
  <2> QED BY <2>1, <2>2, <2>3, BeginFrame DEF Begin, TypeInv, TypeOK
<1>7. ASSUME NEW s \in Shells, CheckToken(s) \/ \E t \in Tokens : GivePassword(s, t)
      PROVE  TypeInv'
  <2>1. /\ cmd[s] \in Command /\ mem[s] \in State /\ cmd[s].op = "login"
        /\ cmd[s].host \in Hosts
    BY <1>0, <1>7 DEF CheckToken, GivePassword, TypeOK, Prepared, Fits, LoginSteps
  <2>2. ASSUME NEW t \in Tokens, Goto(s, "add", [cmd[s] EXCEPT !.token = t]),
               mem' = [mem EXCEPT ![s].tokens[cmd[s].host] = t],
               valid' \in [Hosts -> SUBSET Tokens],
               UNCHANGED <<file, versions, main, logged, disturbed>>
        PROVE  TypeInv'
    <3> DEFINE m == [mem[s] EXCEPT !.tokens[cmd[s].host] = t]
               c == [cmd[s] EXCEPT !.token = t]
    <3>1. /\ m \in State /\ m.tokens[cmd[s].host] = t /\ mem' = [mem EXCEPT ![s] = m]
          /\ c \in Command /\ c.token = t /\ c.op = "login" /\ c.host = cmd[s].host
          /\ Goto(s, "add", c) /\ "add" \in Steps
      BY <1>0, <2>1, <2>2 DEF State, Command, Steps, TypeOK
    <3> HIDE DEF m, c
    <3>2. Fits("add", c, m)
      BY <2>1, <3>1 DEF Fits, LoginSteps, LogoutSteps
    <3> QED BY <1>0, <2>2, <3>1, <3>2, ShellFrame DEF TypeInv, TypeOK
  <2>3. ASSUME NEW t \in Tokens, GivePassword(s, t) PROVE TypeInv'
    <3>1. valid' \in [Hosts -> SUBSET Tokens]
      BY <1>0, <2>3 DEF GivePassword, TypeOK
    <3> QED BY <2>2, <2>3, <3>1 DEF GivePassword
  <2>4. CASE CheckToken(s)
    <3> DEFINE t == IF cmd[s].token # None THEN cmd[s].token ELSE mem[s].tokens[cmd[s].host]
    <3>1. CASE /\ t \in valid[cmd[s].host]
               /\ Goto(s, "add", [cmd[s] EXCEPT !.token = t])
               /\ mem' = [mem EXCEPT ![s].tokens[cmd[s].host] = t]
               /\ UNCHANGED disturbed
      <4>1. t \in Tokens
        BY <1>0, <2>1, <3>1 DEF TypeOK
      <4> QED BY <1>0, <2>2, <2>4, <3>1, <4>1 DEF CheckToken, TypeOK
    <3>2. CASE Goto(s, "password", cmd[s]) /\ UNCHANGED <<mem, disturbed>>
      <4>1. mem' = [mem EXCEPT ![s] = mem[s]] /\ "password" \in Steps
        BY <1>0, <3>2 DEF TypeOK, Steps
      <4>2. Fits("password", cmd[s], mem[s])
        BY <2>1 DEF Fits, LoginSteps, LogoutSteps
      <4> QED BY <1>0, <2>1, <2>4, <3>2, <4>1, <4>2, ShellFrame DEF CheckToken, TypeInv, TypeOK
    <3>3. CASE Finish(s)
      BY <1>0, <2>4, <3>3, FinishFrame DEF CheckToken, TypeInv, TypeOK
    <3> QED BY <2>4, <3>1, <3>2, <3>3 DEF CheckToken
  <2> QED BY <1>7, <2>3, <2>4
<1>8. ASSUME NEW s \in Shells, Open(s) PROVE TypeInv'
  <2>1. mem' = [mem EXCEPT ![s] = mem[s]] /\ cmd[s] \in Command /\ mem[s] \in State
    BY <1>0, <1>8 DEF Open, TypeOK
  <2>2. PICK step \in Steps : /\ Goto(s, step, cmd[s])
                              /\ <<pc[s], step>> \in {<<"create", "created">>,
                                    <<"add", "added">>, <<"activate", "activated">>, <<"forget", "forgotten">>}
    BY <1>8 DEF Open, Steps
  <2>3. Fits(step, cmd[s], mem[s])
    BY <1>0, <2>2 DEF Prepared, Fits, LoginSteps, LogoutSteps
  <2> QED BY <1>0, <1>8, <2>1, <2>2, <2>3, ShellFrame DEF Open, TypeInv, TypeOK
<1>9. ASSUME NEW s \in Shells, DumpAdded(s) PROVE TypeInv'
  <2> DEFINE m == [mem[s] EXCEPT !.active = cmd[s].host]
  <2>1. /\ m \in State /\ mem' = [mem EXCEPT ![s] = m] /\ cmd[s] \in Command
        /\ "activate" \in Steps /\ Goto(s, "activate", cmd[s])
        /\ cmd[s].op = "login" /\ cmd[s].host \in Hosts /\ cmd[s].token \in Tokens
        /\ mem[s] \in State
    <3>1. cmd[s].op = "login" /\ cmd[s].host \in Hosts /\ cmd[s].token \in Tokens
      BY <1>0, <1>9 DEF DumpAdded, Prepared, Fits, LoginSteps
    <3>2. cmd[s] \in Command /\ mem[s] \in State
      BY <1>0 DEF TypeOK
    <3>3. m \in State
      BY <3>1, <3>2 DEF State
    <3> QED BY <1>0, <1>9, <3>1, <3>2, <3>3 DEF DumpAdded, TypeOK, Steps
  <2> HIDE DEF m
  <2>2. Fits("activate", cmd[s], m)
    BY <2>1 DEF Fits, LoginSteps, LogoutSteps
  <2> QED BY <1>0, <1>9, <2>1, <2>2, ShellFrame DEF DumpAdded, TypeInv, TypeOK
<1>10. ASSUME NEW s \in Shells, DumpActivated(s) \/ DumpForgotten(s) PROVE TypeInv'
  <2>1. file' \in State /\ logged' \in [Hosts -> Tokens \cup {None}]
    <3>1. mem[s] \in State /\ file \in State \cup {Absent, Torn}
      BY <1>0 DEF TypeOK
    <3>2. CASE DumpActivated(s)
      BY <1>0, <3>1, <3>2 DEF DumpActivated, TypeOK
    <3>3. CASE DumpForgotten(s)
      <4>1. cmd[s].host \in Hosts
        BY <1>0, <3>3 DEF DumpForgotten, Prepared, Fits, LogoutSteps
      <4>2. Forget(s) \in State
        BY <3>1, <4>1 DEF Forget, State
      <4> QED BY <1>0, <3>3, <4>1, <4>2 DEF DumpForgotten, TypeOK
    <3> QED BY <1>10, <3>2, <3>3
  <2> QED BY <1>0, <1>10, <2>1, FinishFrame DEF DumpActivated, DumpForgotten, TypeInv, TypeOK
<1>11. ASSUME NEW s \in Shells, Send(s) PROVE TypeInv'
  <2>1. Goto(s, "idle", NoCommand) /\ mem' = [mem EXCEPT ![s] = mem[s]] /\ mem[s] \in State
    BY <1>0, <1>11 DEF Send, TypeOK
  <2>2. "idle" \in Steps
    BY DEF Steps
  <2>3. Fits("idle", NoCommand, mem[s])
    BY DEF Fits, LoginSteps, LogoutSteps
  <2>4. /\ versions' \in [Hosts -> [Names -> SUBSET Versions]]
        /\ main' \in [Hosts -> [Names -> Versions \cup {None}]]
        /\ disturbed' \in [Shells -> BOOLEAN]
    BY <1>0, <1>11, ManagersType, DisturbType DEF Send, TypeOK, Prepared, Fits
  <2> QED BY <1>0, <1>11, <2>1, <2>2, <2>3, <2>4, BlankTypes, ShellFrame
          DEF Send, TypeInv, TypeOK
<1>12. ASSUME NEW s \in Shells, List(s) PROVE TypeInv'
  <2>1. PICK h \in Hosts :
           IF ServicesOn(h, cmd[s]) = {} THEN Finish(s)
           ELSE /\ Goto(s, "delete", [cmd[s] EXCEPT !.listed = ServicesOn(h, cmd[s]),
                                                    !.left = ServicesOn(h, cmd[s])])
                /\ disturbed' = [disturbed EXCEPT ![s] = FALSE]
                /\ UNCHANGED mem
    BY <1>12 DEF List
  <2>2. CASE Finish(s)
    BY <1>0, <1>12, <2>2, FinishFrame DEF List, TypeInv, TypeOK
  <2>3. CASE ~Finish(s)
    <3> DEFINE c == [cmd[s] EXCEPT !.listed = ServicesOn(h, cmd[s]),
                                   !.left = ServicesOn(h, cmd[s])]
    <3>1. ServicesOn(h, cmd[s]) \subseteq Service
      BY DEF ServicesOn
    <3>2. c \in Command /\ c.op = cmd[s].op /\ c.host = cmd[s].host
      <4>1. cmd[s] \in Command
        BY <1>0 DEF TypeOK
      <4>2. PICK found \in SUBSET Service : found = ServicesOn(h, cmd[s])
        BY <3>1
      <4>3. c = [cmd[s] EXCEPT !.listed = found, !.left = found]
        BY <4>2
      <4> QED  BY <4>1, <4>3 DEF Command
    <3> HIDE DEF c
    <3>3. Fits("delete", c, mem[s])
      BY <1>0, <1>12, <3>2 DEF List, Prepared, Fits, LoginSteps, LogoutSteps
    <3>4. mem' = [mem EXCEPT ![s] = mem[s]] /\ mem[s] \in State /\ "delete" \in Steps
      BY <1>0, <2>1, <2>3 DEF TypeOK, Steps
    <3>5. Goto(s, "delete", c)
      BY <2>1, <2>3 DEF c
    <3>6. disturbed' \in [Shells -> BOOLEAN]
      BY <1>0, <2>1, <2>3 DEF TypeOK
    <3>7. /\ pc' \in [Shells -> Steps] /\ cmd' \in [Shells -> Command]
          /\ mem' \in [Shells -> State] /\ \A x \in Shells : Prepared(x)'
      BY <3>2, <3>3, <3>4, <3>5, ShellFrame
    <3> QED BY <1>0, <1>12, <3>6, <3>7 DEF List, TypeInv, TypeOK
  <2> QED BY <2>2, <2>3
<1>13. ASSUME NEW s \in Shells, NEW x \in Service, Delete(s, x) PROVE TypeInv'
  <2>1. PICK step \in Steps, c \in Command :
           /\ Goto(s, step, c) /\ c.op = cmd[s].op /\ c.host = cmd[s].host
           /\ step = "delete"
        \/ /\ Goto(s, step, c) /\ step = "idle"
    BY <1>0, <1>13, BlankTypes DEF Delete, TypeOK, Command, Steps
  <2>2. mem' = [mem EXCEPT ![s] = mem[s]] /\ mem[s] \in State
    BY <1>0, <1>13 DEF Delete, TypeOK
  <2>3. Fits(step, c, mem[s])
    BY <1>0, <1>13, <2>1 DEF Delete, Prepared, Fits, LoginSteps, LogoutSteps
  <2>4. /\ versions' \in [Hosts -> [Names -> SUBSET Versions]]
        /\ main' \in [Hosts -> [Names -> Versions \cup {None}]]
        /\ disturbed' \in [Shells -> BOOLEAN]
    BY <1>13, ManagersType, DisturbType DEF Delete, Service
  <2> QED BY <1>0, <1>13, <2>1, <2>2, <2>3, <2>4, ShellFrame DEF Delete, TypeInv, TypeOK
<1>14. ASSUME NEW s \in Shells,
              Quit(s) \/ CutOff(s) \/ DumpBlank(s) \/ \E x \in Service : Refused(s, x)
       PROVE  TypeInv'
  BY <1>0, <1>14, FinishFrame, BlankTypes
  DEF Quit, CutOff, DumpBlank, Refused, TypeInv, TypeOK
<1>15. CASE RemoveFile
  BY <1>0, <1>15 DEF RemoveFile, TypeInv, TypeOK, Prepared
<1>16. ASSUME NEW h \in Hosts, NEW t \in Tokens, Expire(h, t) PROVE TypeInv'
  BY <1>0, <1>16 DEF Expire, TypeInv, TypeOK, Prepared
<1>17. CASE UNCHANGED vars
  BY <1>0, <1>17 DEF vars, TypeInv, TypeOK, Prepared
<1> QED
  BY <1>1, <1>2, <1>3, <1>4, <1>5, <1>6, <1>7, <1>8, <1>9, <1>10, <1>11, <1>12, <1>13,
     <1>14, <1>15, <1>16, <1>17
  DEF Next, Shell

(* File, commands and managers keep their types, however commands overlap. *)
THEOREM TypeCorrect == Spec => []TypeOK
<1>1. TypeInv => TypeOK
  BY DEF TypeInv
<1> QED BY <1>1, TypeInit, TypeStep, PTL DEF Spec

-----------------------------------------------------------------------------
(* The steps of one shell leave the commands of the others alone.          *)
LEMMA OthersStay ==
  ASSUME TypeInv, NEW s \in Shells, Shell(s), NEW x \in Shells, x # s
  PROVE  pc'[x] = pc[x] /\ cmd'[x] = cmd[x] /\ mem'[x] = mem[x]
<1>1. CASE FirstUse(s) \/ DumpBlank(s) \/ CutOff(s)
  BY <1>1 DEF FirstUse, DumpBlank, CutOff, Goto, Finish, TypeInv, TypeOK
<1>2. CASE \E op, n, v, step : Run(s, op, n, v, step)
  BY <1>2 DEF Run, Begin, Goto, TypeInv, TypeOK
<1>3. CASE \E h \in Hosts : Logout(s, h) \/ \E t \in Tokens \cup {None} : Login(s, h, t)
  BY <1>3 DEF Login, Logout, Begin, Goto, TypeInv, TypeOK
<1>4. CASE CheckToken(s) \/ \E t \in Tokens : GivePassword(s, t)
  BY <1>4 DEF CheckToken, GivePassword, Goto, Finish, TypeInv, TypeOK
<1>5. CASE Open(s) \/ DumpAdded(s) \/ DumpActivated(s) \/ DumpForgotten(s) \/ Quit(s)
  BY <1>5 DEF Open, DumpAdded, DumpActivated, DumpForgotten, Quit, Goto, Finish, TypeInv, TypeOK
<1>6. CASE Send(s) \/ List(s) \/ \E y \in Service : Delete(s, y) \/ Refused(s, y)
  BY <1>6 DEF Send, List, Delete, Refused, Goto, Finish, TypeInv, TypeOK
<1> QED
  BY <1>1, <1>2, <1>3, <1>4, <1>5, <1>6 DEF Shell, Ask, Deploy, Assign, Kill

(* All other steps leave the file and what is in memory as they are, or    *)
(* clear the memory of a command that ends. *)
Quiet(s) ==
    /\ UNCHANGED <<file, logged>> /\ ~Writing(s)
    /\ mem'[s] \in {mem[s], Blank}
    /\ pc'[s] \in {pc[s], "idle", "password", "send", "list", "delete"}
    /\ pc'[s] = pc[s] => mem'[s] = mem[s] /\ (cmd'[s] = cmd[s] \/ pc[s] = "delete")
    /\ pc'[s] = "password" => pc[s] = "check" /\ cmd'[s] = cmd[s] /\ mem'[s] = mem[s]

LEMMA FileSteps ==
  ASSUME TypeInv, NEW s \in Shells, Shell(s)
  PROVE  \/ FirstUse(s) \/ DumpBlank(s) \/ CutOff(s)
         \/ \E h \in Hosts : Logout(s, h) \/ \E t \in Tokens \cup {None} : Login(s, h, t)
         \/ CheckToken(s) /\ pc'[s] = "add"
         \/ \E t \in Tokens : GivePassword(s, t)
         \/ Open(s) \/ DumpAdded(s) \/ DumpActivated(s) \/ DumpForgotten(s)
         \/ Quiet(s)
<1>0. TypeOK
  BY DEF TypeInv
<1>1. ASSUME NEW step \in {"send", "list"}, NEW c \in Command, Begin(s, c, step), ~Switches(c.op)
      PROVE  Quiet(s)
  BY <1>0, <1>1 DEF Begin, Goto, Quiet, Writing, WritingSteps, TypeOK
<1>2. ASSUME NEW op \in Ops, NEW n \in Names \cup {None}, NEW v \in Versions \cup {None},
             NEW step \in {"send", "list"}, ~Switches(op), Run(s, op, n, v, step)
      PROVE  Quiet(s)
  <2>1. PICK h \in Hosts :
          Begin(s, [NoCommand EXCEPT !.op = op, !.host = h, !.name = n, !.version = v], step)
    BY <1>2 DEF Run
  <2> DEFINE c == [NoCommand EXCEPT !.op = op, !.host = h, !.name = n, !.version = v]
  <2>2. c \in Command /\ c.op = op
    BY DEF NoCommand, Command, Ops
  <2>3. Begin(s, c, step)
    BY <2>1
  <2> HIDE DEF c
  <2> QED BY <1>1, <1>2, <2>2, <2>3
<1>3. \/ Ask(s)
      \/ \E n \in Names, v \in Versions : Deploy(s, n, v) \/ Assign(s, n, v)
      \/ \E n \in Names \cup {None}, v \in Versions \cup {None} : Kill(s, n, v)
      => Quiet(s)
  BY <1>2 DEF Ask, Deploy, Assign, Kill, Ops, Switches
<1>4. ASSUME CheckToken(s), pc'[s] # "add" PROVE Quiet(s)
  <2>1. CASE Finish(s)
    BY <1>0, <1>4, <2>1 DEF CheckToken, Finish, Goto, Quiet, Writing, WritingSteps, TypeOK
  <2>2. CASE Goto(s, "password", cmd[s]) /\ UNCHANGED mem
    BY <1>0, <1>4, <2>2 DEF CheckToken, Goto, Quiet, Writing, WritingSteps, TypeOK
  <2>3. CASE \E c : Goto(s, "add", c)
    BY <1>0, <1>4, <2>3 DEF Goto, TypeOK
  <2> QED BY <1>4, <2>1, <2>2, <2>3 DEF CheckToken
<1>5. Send(s) => Quiet(s)
  BY <1>0 DEF Send, Goto, Quiet, Writing, WritingSteps, TypeOK
<1>6. List(s) => Quiet(s)
  BY <1>0 DEF List, Finish, Goto, Quiet, Writing, WritingSteps, TypeOK
<1>7. (\E x \in Service : Delete(s, x)) => Quiet(s)
  BY <1>0 DEF Delete, Goto, Quiet, Writing, WritingSteps, TypeOK
<1>8. (Quit(s) \/ \E x \in Service : Refused(s, x)) => Quiet(s)
  BY <1>0 DEF Quit, Refused, Finish, Goto, Quiet, Writing, WritingSteps, TypeOK
<1> QED BY <1>3, <1>4, <1>5, <1>6, <1>7, <1>8 DEF Shell

(* What logging in and out leaves in memory. *)
LEMMA Begun ==
  ASSUME TypeInv, NEW s \in Shells, NEW h \in Hosts,
         Logout(s, h) \/ \E t \in Tokens \cup {None} : Login(s, h, t)
  PROVE  /\ pc[s] = "idle" /\ pc'[s] \in {"check", "forget"} /\ mem'[s] = file
         /\ Readable /\ UNCHANGED <<file, logged>> /\ MayBegin(s, "login")
<1>1. CASE Logout(s, h)
  BY <1>1 DEF Logout, Begin, Goto, NoCommand, Switches, MayBegin, TypeInv, TypeOK
<1>2. ASSUME NEW t \in Tokens \cup {None}, Login(s, h, t)
      PROVE  /\ pc[s] = "idle" /\ pc'[s] = "check" /\ mem'[s] = file
             /\ Readable /\ UNCHANGED <<file, logged>> /\ MayBegin(s, "login")
  BY <1>2 DEF Login, Begin, Goto, NoCommand, Switches, MayBegin, TypeInv, TypeOK
<1> QED BY <1>1, <1>2

LEMMA Checked ==
  ASSUME TypeInv, NEW s \in Shells,
         (CheckToken(s) /\ pc'[s] = "add") \/ \E t \in Tokens : GivePassword(s, t)
  PROVE  /\ \E t \in Tokens : mem'[s] = [mem[s] EXCEPT !.tokens[cmd[s].host] = t]
         /\ pc[s] \in {"check", "password"} /\ pc'[s] = "add" /\ cmd'[s].host = cmd[s].host
         /\ cmd[s].host \in Hosts /\ UNCHANGED <<file, logged>>
<1>0. TypeOK /\ cmd[s].host \in Hosts /\ cmd[s] \in Command /\ mem[s] \in State
  BY DEF TypeInv, TypeOK, Prepared, Fits, LoginSteps, CheckToken, GivePassword
<1>1. ASSUME NEW t \in Tokens, GivePassword(s, t)
      PROVE  /\ mem'[s] = [mem[s] EXCEPT !.tokens[cmd[s].host] = t]
             /\ pc[s] = "password" /\ pc'[s] = "add" /\ cmd'[s].host = cmd[s].host
             /\ UNCHANGED <<file, logged>>
  BY <1>0, <1>1 DEF GivePassword, Goto, TypeOK, Command
<1>2. ASSUME CheckToken(s), pc'[s] = "add"
      PROVE  /\ \E t \in Tokens : mem'[s] = [mem[s] EXCEPT !.tokens[cmd[s].host] = t]
             /\ pc[s] = "check" /\ cmd'[s].host = cmd[s].host
             /\ UNCHANGED <<file, logged>>
  <2> DEFINE t == IF cmd[s].token # None THEN cmd[s].token ELSE mem[s].tokens[cmd[s].host]
  <2>1. /\ t \in valid[cmd[s].host] /\ Goto(s, "add", [cmd[s] EXCEPT !.token = t])
        /\ mem' = [mem EXCEPT ![s].tokens[cmd[s].host] = t]
    BY <1>0, <1>2 DEF CheckToken, Finish, Goto, TypeOK
  <2>2. t \in Tokens
    BY <1>0, <2>1 DEF TypeOK
  <2> HIDE DEF t
  <2>3. mem'[s] = [mem[s] EXCEPT !.tokens[cmd[s].host] = t]
    BY <1>0, <2>1 DEF TypeOK
  <2>4. cmd'[s].host = cmd[s].host
    BY <1>0, <2>1 DEF Goto, TypeOK, Command
  <2> QED BY <1>2, <2>2, <2>3, <2>4 DEF CheckToken
<1> QED BY <1>0, <1>1, <1>2

-----------------------------------------------------------------------------
(* The active host *)

Known(state) == state.active # None => state.tokens[state.active] # None

(* Every state a command has in memory may be written whole at any time.   *)
KnownInv ==
    /\ Readable => Known(file)
    /\ \A s \in Shells : Known(mem[s])

LEMMA KnownStep == TypeInv /\ KnownInv /\ [Next]_vars => KnownInv'
<1> SUFFICES ASSUME TypeInv, KnownInv, [Next]_vars PROVE KnownInv'
  OBVIOUS
<1>0. TypeOK /\ Known(Blank)
  BY DEF TypeInv, Known, Blank
<1>1. ASSUME NEW s \in Shells, Shell(s) PROVE KnownInv'
  <2>1. SUFFICES ASSUME (file' \in {Absent, Torn} \/ Known(file')) /\ Known(mem'[s])
                 PROVE  KnownInv'
    <3>1. (file' \in {Absent, Torn} \/ Known(file')) /\ Known(mem'[s])
      <4>1. CASE FirstUse(s) \/ DumpBlank(s) \/ CutOff(s)
        BY <1>0, <4>1 DEF FirstUse, DumpBlank, CutOff, Finish, KnownInv, Readable, TypeOK
      <4>2. CASE \E h \in Hosts : Logout(s, h) \/ \E t \in Tokens \cup {None} : Login(s, h, t)
        BY <4>2, Begun DEF KnownInv, Readable
      <4>3. CASE (CheckToken(s) /\ pc'[s] = "add") \/ \E t \in Tokens : GivePassword(s, t)
        <5>1. PICK t \in Tokens : mem'[s] = [mem[s] EXCEPT !.tokens[cmd[s].host] = t]
          BY <4>3, Checked
        <5>2. mem[s] \in State /\ t # None
          BY <1>0, CliConstants DEF TypeOK
        <5>3. Known(mem'[s])
          BY <5>1, <5>2 DEF KnownInv, Known, State
        <5> QED BY <4>3, <5>3, Checked DEF KnownInv, Readable
      <4>4. CASE Open(s)
        BY <4>4 DEF Open, KnownInv
      <4>5. CASE DumpAdded(s)
        <5>1. /\ mem[s] \in State /\ mem'[s] = [mem[s] EXCEPT !.active = cmd[s].host]
              /\ mem[s].tokens[cmd[s].host] \in Tokens /\ cmd[s].host \in Hosts /\ file' = mem[s]
          BY <1>0, <4>5 DEF DumpAdded, TypeInv, TypeOK, Prepared, Fits, LoginSteps
        <5>2. Known(mem'[s])
          BY <5>1, CliConstants DEF Known, State
        <5> QED BY <5>1, <5>2 DEF KnownInv
      <4>6. CASE DumpActivated(s)
        BY <1>0, <4>6 DEF DumpActivated, Finish, KnownInv, TypeOK
      <4>7. CASE DumpForgotten(s)
        <5>1. mem[s] \in State /\ cmd[s].host \in Hosts
          BY <1>0, <4>7 DEF DumpForgotten, TypeInv, TypeOK, Prepared, Fits, LogoutSteps
        <5>2. Known(Forget(s))
          BY <5>1 DEF Forget, Known, KnownInv, State
        <5> QED BY <1>0, <4>7, <5>2 DEF DumpForgotten, Finish, TypeOK
      <4>8. CASE Quiet(s)
        BY <1>0, <4>8 DEF Quiet, KnownInv, Readable
      <4> QED BY <1>1, <4>1, <4>2, <4>3, <4>4, <4>5, <4>6, <4>7, <4>8, FileSteps
    <3> QED BY <3>1
  <2> QED BY <1>1, <2>1, OthersStay DEF KnownInv, Readable
<1>2. CASE RemoveFile
  BY <1>2 DEF RemoveFile, KnownInv, Readable
<1>3. ASSUME UNCHANGED <<file, mem>> PROVE KnownInv'
  BY <1>3 DEF KnownInv, Readable
<1> QED BY <1>1, <1>2, <1>3 DEF Next, Expire, vars

(* The active host has a token whenever the file can be read, however      *)
(* commands overlap. (CliState.logout, activate_host)                      *)
THEOREM ActiveHostStaysKnown == Spec => []ActiveHostIsKnown
<1>1. Init => KnownInv
  BY DEF Init, KnownInv, Known, Blank, Readable
<1>2. KnownInv => ActiveHostIsKnown
  BY DEF KnownInv, Known, ActiveHostIsKnown
<1> QED BY <1>1, <1>2, KnownStep, TypeInit, TypeStep, PTL DEF Spec

-----------------------------------------------------------------------------
(* Logins, when nobody logs in or out while another command runs           *)

Switching(s) == pc[s] \in LoginSteps \cup LogoutSteps

TurnInv == \A s, x \in Shells : s # x /\ Switching(s) => pc[x] = "idle"

(* A command works on the host it announced: nobody else switches, and     *)
(* nothing else writes the file. *)
HostInv ==
    \A s \in Shells : pc[s] \in {"send", "list", "delete"} =>
        Readable /\ file.active = cmd[s].host

(* Who creates the file overwrites no login, only other new files.         *)
Creating(s) == pc[s] \in {"create", "created"}
FreshInv ==
    \A s \in Shells : Creating(s) =>
        /\ file \in {Absent, Torn, Blank}
        /\ \A h \in Hosts : logged[h] = None
        /\ \A x \in Shells : pc[x] = "idle" \/ Creating(x)

LEMMA SwitchingOp ==
  ASSUME TypeInv, NEW s \in Shells, Switching(s)
  PROVE  Switches(cmd[s].op) /\ pc[s] # "idle"
  BY DEF TypeInv, Prepared, Fits, Switching, Switches, LoginSteps, LogoutSteps

(* A command that begins finds no login or logout on its way.              *)
LEMMA Starts ==
  ASSUME TakeTurns, TypeInv, NEW s \in Shells, NEW op, MayBegin(s, op),
         NEW x \in Shells, x # s
  PROVE  ~Switching(x) /\ (Switches(op) => pc[x] = "idle")
  BY SwitchingOp DEF MayBegin

(* A step that begins a command. *)
LEMMA WhoBegins ==
  ASSUME TypeInv, NEW s \in Shells, Shell(s), pc[s] = "idle"
  PROVE  \E op \in Ops : MayBegin(s, op) /\ (pc'[s] \in LoginSteps \cup LogoutSteps => Switches(op))
<1>0. TypeOK
  BY DEF TypeInv
<1>1. ASSUME NEW step, NEW c \in Command, Begin(s, c, step),
             step \in LoginSteps \cup LogoutSteps => Switches(c.op)
      PROVE  \E op \in Ops : MayBegin(s, op) /\ (pc'[s] \in LoginSteps \cup LogoutSteps => Switches(op))
  BY <1>0, <1>1 DEF Begin, Goto, Command, TypeOK
<1>2. ASSUME NEW op \in Ops, NEW n \in Names \cup {None}, NEW v \in Versions \cup {None},
             NEW step \in {"send", "list"}, Run(s, op, n, v, step)
      PROVE  \E o \in Ops : MayBegin(s, o) /\ (pc'[s] \in LoginSteps \cup LogoutSteps => Switches(o))
  <2>1. PICK h \in Hosts :
          Begin(s, [NoCommand EXCEPT !.op = op, !.host = h, !.name = n, !.version = v], step)
    BY <1>2 DEF Run
  <2> DEFINE c == [NoCommand EXCEPT !.op = op, !.host = h, !.name = n, !.version = v]
  <2>2. c \in Command
    BY DEF NoCommand, Command, Ops
  <2>3. Begin(s, c, step)
    BY <2>1
  <2> HIDE DEF c
  <2> QED BY <1>1, <2>2, <2>3 DEF LoginSteps, LogoutSteps
<1>3. ASSUME NEW h \in Hosts, Logout(s, h) \/ \E t \in Tokens \cup {None} : Login(s, h, t)
      PROVE  MayBegin(s, "login")
  BY <1>3, Begun
<1>4. "login" \in Ops /\ Switches("login")
  BY DEF Ops, Switches
<1>5. FirstUse(s) => MayBegin(s, "ask") /\ pc'[s] = "create" /\ "ask" \in Ops
  BY <1>0 DEF FirstUse, Goto, Ops, TypeOK
<1>6. "create" \notin LoginSteps \cup LogoutSteps
  BY DEF LoginSteps, LogoutSteps
<1>7. ~Writing(s)
  BY DEF Writing, WritingSteps
<1> QED
  BY <1>2, <1>3, <1>4, <1>5, <1>6, <1>7
  DEF Shell, Ask, Deploy, Assign, Kill, Ops, CheckToken, GivePassword, Open, DumpAdded,
      DumpActivated, DumpForgotten, DumpBlank, CutOff, Send, List, Delete, Refused, Quit

(* Only a login or a logout goes on as one. *)
LEMMA WhoSwitches ==
  ASSUME TypeInv, NEW s \in Shells, Shell(s), Switching(s)', pc[s] # "idle"
  PROVE  Switching(s)
<1> USE DEF Switching, LoginSteps, LogoutSteps
<1>1. CASE Quiet(s)
  BY <1>1 DEF Quiet
<1>2. CASE Open(s) \/ DumpAdded(s)
  BY <1>2 DEF Open, DumpAdded, Goto, TypeInv, TypeOK
<1>3. CASE DumpActivated(s) \/ DumpForgotten(s) \/ DumpBlank(s) \/ CutOff(s)
  BY <1>3 DEF DumpActivated, DumpForgotten, DumpBlank, CutOff, Finish, Goto, TypeInv, TypeOK
<1>4. CASE (CheckToken(s) /\ pc'[s] = "add") \/ \E t \in Tokens : GivePassword(s, t)
  BY <1>4, Checked
<1>5. CASE FirstUse(s)
  BY <1>5 DEF FirstUse
<1>6. CASE \E h \in Hosts : Logout(s, h) \/ \E t \in Tokens \cup {None} : Login(s, h, t)
  BY <1>6, Begun
<1> QED BY <1>1, <1>2, <1>3, <1>4, <1>5, <1>6, FileSteps

LEMMA TurnStep ==
  ASSUME TakeTurns, TypeInv, TurnInv, [Next]_vars
  PROVE  TurnInv'
<1>0. TypeOK
  BY DEF TypeInv
<1>1. ASSUME NEW s \in Shells, Shell(s) PROVE TurnInv'
  <2>1. \A x \in Shells : x # s => pc'[x] = pc[x]
    BY <1>1, OthersStay
  <2>2. CASE pc[s] # "idle"
    BY <1>1, <2>1, <2>2, WhoSwitches DEF TurnInv, Switching
  <2>3. CASE pc[s] = "idle"
    <3>1. PICK op \in Ops :
            MayBegin(s, op) /\ (pc'[s] \in LoginSteps \cup LogoutSteps => Switches(op))
      BY <1>1, <2>3, WhoBegins
    <3>2. \A x \in Shells : x # s => ~Switching(x) /\ (Switches(op) => pc[x] = "idle")
      BY <3>1, Starts
    <3> QED BY <2>1, <3>1, <3>2 DEF TurnInv, Switching
  <2> QED BY <2>2, <2>3
<1>2. ASSUME UNCHANGED pc PROVE TurnInv'
  BY <1>2 DEF TurnInv, Switching
<1> QED BY <1>1, <1>2 DEF Next, RemoveFile, Expire, vars

(* What a login or a logout has in memory is up to date, but for the host  *)
(* it is about to store. *)
LoginInv ==
    /\ LoginsAreKept
    /\ \A s \in Shells : Switching(s) => \A h \in Hosts :
          \/ logged[h] = None \/ mem[s].tokens[h] = logged[h]
          \/ pc[s] \in {"add", "added"} /\ h = cmd[s].host

LEMMA LoginStep ==
  ASSUME TakeTurns, TypeInv, TurnInv, FreshInv, LoginInv, [Next]_vars
  PROVE  LoginInv'
<1>0. TypeOK
  BY DEF TypeInv
<1>1. ASSUME NEW s \in Shells, Shell(s) PROVE LoginInv'
  <2>0. \A x \in Shells : x # s => pc'[x] = pc[x] /\ cmd'[x] = cmd[x] /\ mem'[x] = mem[x]
    BY <1>1, OthersStay
  <2>1. CASE FirstUse(s)
    <3>1. /\ UNCHANGED <<file, logged, mem>> /\ pc[s] = "idle" /\ pc'[s] = "create"
      BY <1>0, <2>1 DEF FirstUse, Goto, TypeOK
    <3> QED BY <2>0, <3>1 DEF LoginInv, LoginsAreKept, Readable, Writing, WritingSteps,
                              Switching, LoginSteps, LogoutSteps
  <2>a. ASSUME \A h \in Hosts : logged'[h] = None PROVE LoginInv'
    BY <2>a DEF LoginInv, LoginsAreKept
  <2>b. CASE DumpBlank(s)
    BY <2>a, <2>b DEF DumpBlank, FreshInv, Creating
  <2>c. CASE CutOff(s)
    BY <2>a, <2>c DEF CutOff
  <2>2. CASE \E h \in Hosts : Logout(s, h) \/ \E t \in Tokens \cup {None} : Login(s, h, t)
    <3>1. /\ mem'[s] = file /\ Readable /\ UNCHANGED <<file, logged>>
      BY <2>2, Begun
    <3>2. file # Torn /\ UNCHANGED file
      BY <3>1 DEF Readable
    <3> QED BY <2>0, <3>1, <3>2 DEF LoginInv, LoginsAreKept, Readable, Writing, Switching
  <2>3. CASE (CheckToken(s) /\ pc'[s] = "add") \/ \E t \in Tokens : GivePassword(s, t)
    <3>1. PICK t \in Tokens : mem'[s] = [mem[s] EXCEPT !.tokens[cmd[s].host] = t]
      BY <2>3, Checked
    <3>2. /\ pc'[s] = "add" /\ cmd'[s].host = cmd[s].host /\ UNCHANGED <<file, logged>>
          /\ pc[s] \in {"check", "password"} /\ mem[s] \in State
      BY <1>0, <2>3, Checked DEF TypeOK
    <3>3. Switching(s)
      BY <3>2 DEF Switching, LoginSteps
    <3>4. \A h \in Hosts : h # cmd[s].host => mem'[s].tokens[h] = mem[s].tokens[h]
      BY <3>1, <3>2 DEF State
    <3>5. \A h \in Hosts : \/ logged'[h] = None \/ mem'[s].tokens[h] = logged'[h]
                           \/ pc'[s] \in {"add", "added"} /\ h = cmd'[s].host
      BY <3>2, <3>3, <3>4 DEF LoginInv
    <3>6. LoginsAreKept'
      BY <2>0, <3>2 DEF LoginInv, LoginsAreKept, Readable, Writing, WritingSteps
    <3> QED BY <2>0, <3>2, <3>5, <3>6 DEF LoginInv, Switching
  <2>4. CASE Open(s)
    <3>1. CASE pc[s] = "create"
      BY <2>4, <2>a, <3>1 DEF Open, FreshInv, Creating
    <3>2. CASE pc[s] # "create"
      <4>1. /\ file' = Torn /\ UNCHANGED <<mem, logged>> /\ cmd'[s] = cmd[s]
            /\ <<pc[s], pc'[s]>> \in {<<"add", "added">>, <<"activate", "activated">>,
                                      <<"forget", "forgotten">>}
        BY <1>0, <2>4, <3>2 DEF Open, Goto, TypeOK
      <4>2. Switching(s) /\ Writing(s)' /\ Switching(s)'
        BY <4>1 DEF Switching, LoginSteps, LogoutSteps, Writing, WritingSteps
      <4>3. \A h \in Hosts : \/ logged[h] = None \/ mem[s].tokens[h] = logged[h]
                             \/ pc[s] \in {"add", "added"} /\ h = cmd[s].host
        BY <4>2 DEF LoginInv
      <4>4. LoginsAreKept'
        BY <4>1, <4>2, <4>3 DEF LoginsAreKept
      <4> QED BY <2>0, <4>1, <4>2, <4>3, <4>4 DEF LoginInv, Switching
    <3> QED BY <3>1, <3>2
  <2>5. \A x \in Shells : x # s /\ Switching(s) => ~Switching(x)
    BY DEF TurnInv, Switching, LoginSteps, LogoutSteps
  <2>6. CASE DumpAdded(s)
    <3>1. /\ file' = mem[s] /\ logged' = [logged EXCEPT ![cmd[s].host] = cmd[s].token]
          /\ cmd'[s] = cmd[s] /\ pc[s] = "added" /\ mem[s] \in State
          /\ mem'[s] = [mem[s] EXCEPT !.active = cmd[s].host]
      BY <1>0, <2>6 DEF DumpAdded, Goto, TypeOK
    <3>2. /\ mem[s].tokens[cmd[s].host] = cmd[s].token /\ Switching(s)
          /\ cmd[s].host \in Hosts
      BY <3>1 DEF TypeInv, Prepared, Fits, Switching, LoginSteps
    <3>3. \A h \in Hosts : logged'[h] = None \/ mem[s].tokens[h] = logged'[h]
      BY <1>0, <3>1, <3>2 DEF LoginInv, TypeOK
    <3>4. file' \notin {Absent, Torn} /\ mem'[s].tokens = mem[s].tokens
      BY <3>1, CliConstants DEF State
    <3>5. \A x \in Shells : Switching(x)' => x = s
      BY <2>0, <2>5, <3>2 DEF Switching
    <3>6. LoginsAreKept'
      BY <3>1, <3>3, <3>4 DEF LoginsAreKept, Readable
    <3>7. \A h \in Hosts : logged'[h] = None \/ mem'[s].tokens[h] = logged'[h]
      BY <3>3, <3>4
    <3> QED BY <3>4, <3>5, <3>6, <3>7 DEF LoginInv
  <2>7. CASE DumpActivated(s)
    <3>1. /\ file' = mem[s] /\ UNCHANGED logged /\ pc'[s] = "idle" /\ pc[s] = "activated"
          /\ mem[s] \in State
      BY <1>0, <2>7 DEF DumpActivated, Finish, Goto, TypeOK
    <3>2. Switching(s) /\ ~Switching(s)' /\ file' \notin {Absent, Torn}
      BY <3>1, CliConstants DEF Switching, LoginSteps, LogoutSteps
    <3>3. LoginsAreKept'
      BY <3>1, <3>2 DEF LoginInv, LoginsAreKept, Readable
    <3> QED BY <2>0, <2>5, <3>2, <3>3 DEF LoginInv, Switching
  <2>8. CASE DumpForgotten(s)
    <3>1. /\ file' = Forget(s) /\ logged' = [logged EXCEPT ![cmd[s].host] = None]
          /\ pc'[s] = "idle" /\ pc[s] = "forgotten" /\ mem[s] \in State
      BY <1>0, <2>8 DEF DumpForgotten, Finish, Goto, TypeOK
    <3>2. Switching(s) /\ ~Switching(s)' /\ cmd[s].host \in Hosts
      BY <3>1 DEF Switching, LoginSteps, LogoutSteps, TypeInv, Prepared, Fits
    <3>3. Forget(s).tokens = [mem[s].tokens EXCEPT ![cmd[s].host] = None] /\ Forget(s) \in State
      BY <3>1, <3>2 DEF Forget, State
    <3>4. \A h \in Hosts : logged'[h] = None \/ Forget(s).tokens[h] = logged'[h]
      BY <1>0, <3>1, <3>2, <3>3 DEF LoginInv, TypeOK, State
    <3>5. file' \notin {Absent, Torn}
      BY <3>1, <3>3, CliConstants
    <3>6. LoginsAreKept'
      BY <3>1, <3>4, <3>5 DEF LoginsAreKept, Readable
    <3> QED BY <2>0, <2>5, <3>2, <3>6 DEF LoginInv, Switching
  <2>9. CASE Quiet(s)
    <3>1. \A x \in Shells : Switching(x)' => Switching(x) /\ mem'[x] = mem[x]
                               /\ (pc[x] \in {"add", "added"} => pc'[x] = pc[x] /\ cmd'[x] = cmd[x])
      <4>1. \A x \in Shells : x # s /\ Switching(x)' => Switching(x) /\ mem'[x] = mem[x]
                               /\ (pc[x] \in {"add", "added"} => pc'[x] = pc[x] /\ cmd'[x] = cmd[x])
        BY <2>0 DEF Switching
      <4>2. Switching(s)' => Switching(s) /\ mem'[s] = mem[s]
                               /\ (pc[s] \in {"add", "added"} => pc'[s] = pc[s] /\ cmd'[s] = cmd[s])
        BY <2>9 DEF Quiet, Switching, LoginSteps, LogoutSteps
      <4> QED BY <4>1, <4>2
    <3>2. LoginsAreKept'
      <4>1. UNCHANGED <<file, logged>> /\ ~Writing(s)
        BY <2>9 DEF Quiet
      <4> QED BY <2>0, <4>1 DEF LoginInv, LoginsAreKept, Readable, Writing
    <3> QED BY <2>9, <3>1, <3>2 DEF Quiet, LoginInv
  <2> QED BY <1>1, <2>1, <2>b, <2>c, <2>2, <2>3, <2>4, <2>6, <2>7, <2>8, <2>9, FileSteps
<1>2. CASE RemoveFile
  <2>1. \A h \in Hosts : logged[h] = None
    BY <1>2 DEF RemoveFile, LoginInv, LoginsAreKept, Readable, Writing, WritingSteps
  <2> QED BY <1>2, <2>1 DEF RemoveFile, LoginInv, LoginsAreKept
<1>3. ASSUME UNCHANGED <<file, mem, logged, pc, cmd>> PROVE LoginInv'
  BY <1>3 DEF LoginInv, LoginsAreKept, Readable, Writing, Switching
<1> QED BY <1>1, <1>2, <1>3 DEF Next, Expire, vars

-----------------------------------------------------------------------------
(* The host of a command, when nobody logs in or out while another runs    *)

LEMMA RunsAt ==
  ASSUME TypeInv, NEW s \in Shells, NEW op \in Ops, NEW n \in Names \cup {None},
         NEW v \in Versions \cup {None}, NEW step \in {"send", "list"}, Run(s, op, n, v, step)
  PROVE  /\ Readable /\ file.active = cmd'[s].host /\ UNCHANGED file /\ pc'[s] # "delete"
         /\ UNCHANGED <<versions, main, disturbed>>
<1>1. PICK h \in Hosts :
        /\ Readable /\ file.active = h
        /\ Begin(s, [NoCommand EXCEPT !.op = op, !.host = h, !.name = n, !.version = v], step)
  BY DEF Run, Reaches
<1> DEFINE c == [NoCommand EXCEPT !.op = op, !.host = h, !.name = n, !.version = v]
<1>2. c.host = h /\ Begin(s, c, step)
  BY <1>1 DEF NoCommand
<1> HIDE DEF c
<1>3. cmd'[s] = c /\ pc'[s] = step /\ UNCHANGED <<file, versions, main, disturbed>>
  BY <1>2 DEF Begin, Goto, TypeInv, TypeOK, managers
<1> QED BY <1>1, <1>2, <1>3

(* Where a command goes on, it has the host it had. *)
LEMMA SameHost ==
  ASSUME TypeInv, NEW s \in Shells, Shell(s), pc[s] \in {"send", "list", "delete"},
         pc'[s] \in {"send", "list", "delete"}
  PROVE  UNCHANGED file /\ cmd'[s].host = cmd[s].host /\ pc'[s] = "delete"
<1>0. TypeOK /\ cmd[s] \in Command
  BY DEF TypeInv, TypeOK
<1>1. ~Finish(s) /\ ~Goto(s, "idle", NoCommand)
  BY <1>0 DEF Finish, Goto, TypeOK
<1>2. CASE List(s)
  <2>1. PICK h \in Hosts :
           Goto(s, "delete", [cmd[s] EXCEPT !.listed = ServicesOn(h, cmd[s]),
                                            !.left = ServicesOn(h, cmd[s])])
    BY <1>1, <1>2 DEF List
  <2> QED BY <1>0, <1>2, <2>1 DEF List, Goto, TypeOK, Command
<1>3. CASE \E x \in Service : Delete(s, x)
  <2>1. PICK x \in Service : Delete(s, x)
    BY <1>3
  <2>2. Goto(s, "delete", [cmd[s] EXCEPT !.left = @ \ {x}])
    BY <1>1, <2>1 DEF Delete
  <2> QED BY <1>0, <2>1, <2>2 DEF Delete, Goto, TypeOK, Command
<1> QED
  BY <1>1, <1>2, <1>3
  DEF Shell, FirstUse, Ask, Deploy, Assign, Kill, Run, Login, Logout, Begin, CheckToken,
      GivePassword, Open, DumpAdded, DumpActivated, DumpForgotten, DumpBlank, CutOff, Send,
      Refused, Quit

(* Only shells that switch or create the file write it.                    *)
LEMMA WhoWrites ==
  ASSUME TypeInv, NEW s \in Shells, Shell(s)
  PROVE  UNCHANGED file \/ Switching(s) \/ Creating(s)
<1> USE DEF Switching, LoginSteps, LogoutSteps, Creating
<1>1. CASE Open(s) \/ DumpAdded(s) \/ DumpActivated(s) \/ DumpForgotten(s) \/ DumpBlank(s)
  BY <1>1 DEF Open, DumpAdded, DumpActivated, DumpForgotten, DumpBlank
<1>2. CASE FirstUse(s) \/ CutOff(s)
  BY <1>2 DEF FirstUse, CutOff
<1>3. CASE \E h \in Hosts : Logout(s, h) \/ \E t \in Tokens \cup {None} : Login(s, h, t)
  BY <1>3, Begun
<1>4. CASE (CheckToken(s) /\ pc'[s] = "add") \/ \E t \in Tokens : GivePassword(s, t)
  BY <1>4, Checked
<1>5. CASE Quiet(s)
  BY <1>5 DEF Quiet
<1> QED BY <1>1, <1>2, <1>3, <1>4, <1>5, FileSteps

(* Who creates the file did so before, or finds none. *)
LEMMA WhoCreates ==
  ASSUME TypeInv, NEW s \in Shells, Shell(s), ~FirstUse(s), Creating(s)'
  PROVE  Creating(s)
<1>0. TypeOK
  BY DEF TypeInv
<1>1. CASE Open(s)
  BY <1>0, <1>1 DEF Open, Goto, Creating, TypeOK
<1>2. CASE DumpAdded(s) \/ DumpActivated(s) \/ DumpForgotten(s) \/ DumpBlank(s) \/ CutOff(s)
  BY <1>0, <1>2 DEF DumpAdded, DumpActivated, DumpForgotten, DumpBlank, CutOff, Finish, Goto,
                    Creating, TypeOK
<1>3. CASE \E h \in Hosts : Logout(s, h) \/ \E t \in Tokens \cup {None} : Login(s, h, t)
  BY <1>3, Begun DEF Creating
<1>4. CASE (CheckToken(s) /\ pc'[s] = "add") \/ \E t \in Tokens : GivePassword(s, t)
  BY <1>4, Checked DEF Creating
<1>5. CASE Quiet(s)
  BY <1>5 DEF Quiet, Creating
<1> QED BY <1>1, <1>2, <1>3, <1>4, <1>5, FileSteps

LEMMA HostStep ==
  ASSUME TakeTurns, TypeInv, TurnInv, FreshInv, HostInv, [Next]_vars
  PROVE  HostInv'
<1>1. ASSUME NEW s \in Shells, Shell(s) PROVE HostInv'
  <2>0. \A x \in Shells : x # s => pc'[x] = pc[x] /\ cmd'[x] = cmd[x]
    BY <1>1, OthersStay
  <2>1. ASSUME NEW x \in Shells, x # s, pc'[x] \in {"send", "list", "delete"}
        PROVE  Readable' /\ file'.active = cmd'[x].host
    <3>1. Readable /\ file.active = cmd[x].host /\ pc[x] # "idle" /\ cmd'[x] = cmd[x]
      BY <2>0, <2>1 DEF HostInv
    <3>2. ~Switching(s) /\ ~Creating(s)
      BY <2>0, <2>1, <3>1 DEF TurnInv, FreshInv, Creating
    <3>3. UNCHANGED file
      BY <1>1, <3>1, <3>2, WhoWrites DEF Readable
    <3> QED BY <3>1, <3>3 DEF Readable
  <2>2. ASSUME pc'[s] \in {"send", "list", "delete"}
        PROVE  Readable' /\ file'.active = cmd'[s].host
    <3>1. CASE pc[s] \in {"send", "list", "delete"}
      BY <1>1, <2>2, <3>1, SameHost DEF HostInv, Readable
    <3>2. CASE pc[s] \notin {"send", "list", "delete"}
      <4>1. \E op \in Ops, n \in Names \cup {None}, v \in Versions \cup {None},
               step \in {"send", "list"} : Run(s, op, n, v, step)
        <5>0. TypeOK
          BY DEF TypeInv
        <5>1. CASE \E h \in Hosts : Logout(s, h) \/ \E t \in Tokens \cup {None} : Login(s, h, t)
          BY <2>2, <5>1, Begun
        <5>2. CASE CheckToken(s)
          BY <2>2, <5>0, <5>2 DEF CheckToken, Finish, Goto, TypeOK
        <5>3. CASE (\E t \in Tokens : GivePassword(s, t)) \/ FirstUse(s)
          BY <2>2, <3>2, <5>0, <5>3 DEF GivePassword, Goto, FirstUse, TypeOK
        <5>4. CASE \/ Open(s) \/ DumpAdded(s) \/ DumpActivated(s) \/ DumpForgotten(s)
                   \/ DumpBlank(s) \/ CutOff(s) \/ Quit(s)
          BY <2>2, <5>0, <5>4 DEF Open, DumpAdded, DumpActivated, DumpForgotten, DumpBlank,
                                  CutOff, Quit, Finish, Goto, TypeOK
        <5>5. CASE Send(s) \/ List(s) \/ \E x \in Service : Delete(s, x) \/ Refused(s, x)
          BY <3>2, <5>5 DEF Send, List, Delete, Refused
        <5>6. {"deploy", "assign", "kill", "ask"} \subseteq Ops
          BY DEF Ops
        <5> QED BY <1>1, <5>1, <5>2, <5>3, <5>4, <5>5, <5>6 DEF Shell, Ask, Deploy, Assign, Kill
      <4> QED BY <4>1, RunsAt DEF Readable
    <3> QED BY <3>1, <3>2
  <2> QED BY <2>1, <2>2 DEF HostInv, Readable
<1>2. CASE RemoveFile
  BY <1>2 DEF RemoveFile, HostInv
<1>3. ASSUME UNCHANGED <<file, pc, cmd>> PROVE HostInv'
  BY <1>3 DEF HostInv, Readable
<1> QED BY <1>1, <1>2, <1>3 DEF Next, Expire, vars

LEMMA FreshStep ==
  ASSUME TakeTurns, TypeInv, TurnInv, HostInv, LoginInv, FreshInv, [Next]_vars
  PROVE  FreshInv'
<1>0. TypeOK
  BY DEF TypeInv
<1>1. ASSUME NEW s \in Shells, Shell(s), NEW z \in Shells, Creating(z)'
      PROVE  /\ file' \in {Absent, Torn, Blank}
             /\ \A h \in Hosts : logged'[h] = None
             /\ \A x \in Shells : pc'[x] = "idle" \/ Creating(x)'
  <2>0. \A x \in Shells : x # s => pc'[x] = pc[x]
    BY <1>1, OthersStay
  <2>1. CASE FirstUse(s)
    <3>1. file = Absent /\ UNCHANGED <<file, logged>> /\ pc'[s] = "create" /\ MayBegin(s, "ask")
      BY <1>0, <2>1 DEF FirstUse, Goto, TypeOK
    <3>2. \A h \in Hosts : logged[h] = None
      BY <3>1, CliConstants DEF LoginInv, LoginsAreKept, Readable, Writing
    <3>3. ASSUME NEW x \in Shells, x # s PROVE pc[x] = "idle" \/ Creating(x)
      <4>1. ~Switching(x)
        BY <3>1, <3>3, Starts
      <4>2. pc[x] \notin {"send", "list", "delete"}
        BY <3>1 DEF HostInv, Readable
      <4> QED BY <1>0, <4>1, <4>2 DEF TypeOK, Steps, Switching, LoginSteps, LogoutSteps, Creating
    <3> QED BY <2>0, <3>1, <3>2, <3>3 DEF Creating
  <2>2. CASE ~FirstUse(s)
    <3>1. \E x \in Shells : Creating(x)
      BY <1>0, <1>1, <2>0, <2>2, WhoCreates DEF Creating
    <3>2. /\ file \in {Absent, Torn, Blank}
          /\ \A h \in Hosts : logged[h] = None
          /\ \A x \in Shells : pc[x] = "idle" \/ Creating(x)
      BY <3>1 DEF FreshInv
    <3>3. ~(\E h \in Hosts : Reaches(h))
      BY <3>2, CliConstants DEF Reaches, Readable, Blank
    <3>4. CASE pc[s] = "idle"
      <4>1. ASSUME NEW h \in Hosts, NEW t \in Tokens \cup {None}, Login(s, h, t) PROVE FALSE
        <5>1. MayBegin(s, "login")
          BY <4>1, Begun
        <5>2. PICK x \in Shells : Creating(x) /\ x # s
          BY <3>1, <3>4 DEF Creating
        <5> QED BY <5>1, <5>2, Starts DEF Switches, Creating
      <4> QED BY <1>1, <2>2, <3>3, <3>4, <4>1
        DEF Shell, Ask, Deploy, Assign, Kill, Run, Logout, CheckToken, GivePassword, Open,
            DumpAdded, DumpActivated, DumpForgotten, DumpBlank, CutOff, Writing, WritingSteps,
            Send, List, Delete, Refused, Quit
    <3>5. CASE Creating(s)
      <4>1. Open(s) \/ DumpBlank(s) \/ CutOff(s) \/ Quit(s)
        BY <1>1, <3>5 DEF Creating, Shell, FirstUse, Ask, Deploy, Assign, Kill, Run, Begin,
            Login, Logout, CheckToken, GivePassword, DumpAdded, DumpActivated, DumpForgotten,
            Send, List, Delete, Refused
      <4>2. /\ file' \in {file, Torn, Blank} /\ pc'[s] \in {"created", "idle"}
            /\ logged' = logged \/ \A h \in Hosts : logged'[h] = None
        BY <1>0, <3>5, <4>1 DEF Creating, Open, DumpBlank, CutOff, Quit, Finish, Goto, TypeOK
      <4> QED BY <2>0, <3>2, <4>2 DEF Creating
    <3> QED BY <3>2, <3>4, <3>5
  <2> QED BY <2>1, <2>2
<1>2. CASE RemoveFile
  BY <1>2 DEF RemoveFile, FreshInv, Creating
<1>3. ASSUME UNCHANGED <<file, logged, pc>> PROVE FreshInv'
  BY <1>3 DEF FreshInv, Creating
<1> QED BY <1>1, <1>2, <1>3 DEF Next, Expire, vars, FreshInv

(* Who works on the file, together. *)
FileInv == TurnInv /\ HostInv /\ FreshInv /\ LoginInv

LEMMA FileInit == Init => FileInv
  BY DEF Init, FileInv, TurnInv, HostInv, FreshInv, LoginInv, LoginsAreKept, Creating,
         Switching, LoginSteps, LogoutSteps

LEMMA FileStep ==
  ASSUME TakeTurns, TypeInv, FileInv, [Next]_vars PROVE FileInv'
  BY TurnStep, HostStep, FreshStep, LoginStep DEF FileInv

(* A login stays in the file until its host is logged in to or out from;   *)
(* while the file is empty, the command that writes it has it still, or    *)
(* was cut off and lost every login. (CliState.__init__, add_host, logout, *)
(* save_state)                                                             *)
THEOREM LoginsSurvive ==
  ASSUME TakeTurns PROVE Spec => []LoginsAreKept
<1>1. LoginInv => LoginsAreKept
  BY DEF LoginInv
<1>2. TypeInv /\ FileInv /\ [Next]_vars => FileInv'
  BY FileStep
<1> QED BY <1>1, <1>2, FileInit, TypeInit, TypeStep, PTL DEF Spec, FileInv

-----------------------------------------------------------------------------
(* Kills, when nobody logs in or out while another command runs            *)

(* What a kill has listed and not yet deleted is what there is.            *)
Listed(c) ==
    /\ \A y \in c.listed \ c.left : y.version \notin versions[c.host][y.name]
    /\ \A y \in c.left : /\ y.version \in versions[c.host][y.name]
                         /\ y.main <=> main[c.host][y.name] = y.version
                         /\ c.name \in {None, y.name}
    /\ c.version = None =>
          \A n \in Names : c.name \in {None, n} =>
              \A v \in versions[c.host][n] : \E y \in c.left : y.name = n /\ y.version = v

KillInv ==
    \A s \in Shells : pc[s] = "delete" =>
        cmd[s].left \subseteq cmd[s].listed /\ (disturbed[s] \/ Listed(cmd[s]))

(* What others do to a manager is noted. *)
LEMMA Bystander ==
  ASSUME TypeInv, NEW s \in Shells, Shell(s), NEW x \in Shells, x # s, pc[x] = "delete"
  PROVE  disturbed'[x] \/ (UNCHANGED <<versions, main>> /\ disturbed'[x] = disturbed[x])
<1>0. TypeOK
  BY DEF TypeInv
<1>1. Disturb(s) => disturbed'[x]
  BY DEF Disturb
<1>2. Finish(s) => disturbed'[x] = disturbed[x]
  BY <1>0 DEF Finish, TypeOK
<1>3. CASE \E op, n, v, step : Run(s, op, n, v, step)
  BY <1>3 DEF Run, Begin, managers
<1>4. CASE List(s)
  BY <1>0, <1>2, <1>4 DEF List, managers, TypeOK
<1>5. CASE Send(s)
  BY <1>1, <1>5 DEF Send
<1>6. CASE \E y \in Service : Delete(s, y)
  BY <1>1, <1>6 DEF Delete
<1>7. CASE CheckToken(s) \/ \E t \in Tokens : GivePassword(s, t)
  BY <1>2, <1>7 DEF CheckToken, GivePassword, managers
<1> QED
  BY <1>2, <1>3, <1>4, <1>5, <1>6, <1>7
  DEF Shell, FirstUse, Ask, Deploy, Assign, Kill, Login, Logout, Begin, Open, DumpAdded,
      DumpActivated, DumpForgotten, DumpBlank, CutOff, Refused, Quit, managers

(* Shadows first, then the main version: the manager never objects.        *)
LEMMA NextIsAccepted ==
  ASSUME TypeInv, NEW s \in Shells, pc[s] = "delete", Listed(cmd[s]), cmd[s].version = None,
         NEW x \in Service, x \in Following(cmd[s].left)
  PROVE  Accepts(cmd[s].host, x)
<1> DEFINE h == cmd[s].host
<1>1. x \in cmd[s].left /\ (x.main => \A y \in cmd[s].left : y.main)
  BY DEF Following
<1>2. x.name \in Names /\ x.version \in Versions
  BY DEF Service
<1>3. x.version \in versions[h][x.name] /\ (x.main <=> main[h][x.name] = x.version)
      /\ cmd[s].name \in {None, x.name}
  BY <1>1 DEF Listed
<1>4. ASSUME x.main, NEW v \in versions[h][x.name] PROVE v = x.version
  <2>1. PICK y \in cmd[s].left : y.name = x.name /\ y.version = v
    BY <1>2, <1>3, <1>4 DEF Listed
  <2>2. y.main
    BY <1>1, <1>4, <2>1
  <2>3. main[h][x.name] = v
    BY <2>1, <2>2 DEF Listed
  <2> QED BY <1>3, <1>4, <2>3
<1> QED BY <1>3, <1>4 DEF Accepts

LEMMA DeleteKeepsListed ==
  ASSUME TypeInv, NEW s \in Shells, pc[s] = "delete", Listed(cmd[s]),
         cmd[s].left \subseteq cmd[s].listed,
         NEW x \in Service, x \in Following(cmd[s].left),
         Remove(cmd[s].host, x.name, x.version)
  PROVE  /\ \A y \in cmd[s].listed \ (cmd[s].left \ {x}) :
               y.version \notin versions'[cmd[s].host][y.name]
         /\ \A y \in cmd[s].left \ {x} :
               /\ y.version \in versions'[cmd[s].host][y.name]
               /\ y.main <=> main'[cmd[s].host][y.name] = y.version
         /\ \A n \in Names : \A v \in versions'[cmd[s].host][n] :
               v \in versions[cmd[s].host][n] /\ ~(n = x.name /\ v = x.version)
<1> DEFINE h == cmd[s].host
<1>1. /\ cmd[s].left \subseteq Service /\ cmd[s].listed \subseteq Service /\ h \in Hosts
      /\ TypeOK
  BY DEF TypeInv, TypeOK, Command, Prepared, Fits
<1>2. /\ x \in cmd[s].left /\ (x.main => \A y \in cmd[s].left : y.main)
      /\ x.name \in Names /\ x.version \in Versions
  BY DEF Following, Service
<1>3. /\ versions'[h][x.name] = versions[h][x.name] \ {x.version}
      /\ main'[h][x.name] = IF main[h][x.name] = x.version THEN None ELSE main[h][x.name]
      /\ \A n \in Names : n # x.name =>
            versions'[h][n] = versions[h][n] /\ main'[h][n] = main[h][n]
  BY <1>1, <1>2 DEF Remove, TypeOK
<1>4. ASSUME NEW y \in cmd[s].listed, y \notin cmd[s].left \ {x}
      PROVE  y.version \notin versions'[h][y.name]
  <2>1. CASE y = x
    BY <1>3, <2>1
  <2>2. CASE y # x
    <3>1. y.version \notin versions[h][y.name] /\ y.name \in Names
      BY <1>1, <1>4, <2>2 DEF Listed, Service
    <3> QED BY <1>3, <3>1
  <2> QED BY <2>1, <2>2
<1>5. ASSUME NEW y \in cmd[s].left, y # x
      PROVE  /\ y.version \in versions'[h][y.name]
             /\ y.main <=> main'[h][y.name] = y.version
  <2>1. /\ y.version \in versions[h][y.name] /\ (y.main <=> main[h][y.name] = y.version)
        /\ x.main <=> main[h][x.name] = x.version
        /\ y \in Service /\ y.name \in Names /\ y.version # None
    BY <1>1, <1>2, <1>5, CliConstants DEF Listed, Service
  <2>2. CASE y.name # x.name
    BY <1>3, <2>1, <2>2
  <2>3. CASE y.name = x.name
    <3>1. y.version # x.version
      <4> SUFFICES ASSUME y.version = x.version PROVE FALSE
        OBVIOUS
      <4>1. y.main = x.main
        BY <2>1, <2>3 DEF Service
      <4> QED BY <1>5, <2>1, <2>3, <4>1 DEF Service
    <3>2. ~x.main
      BY <1>2, <2>1, <2>3, <3>1
    <3> QED BY <1>3, <2>1, <2>3, <3>1, <3>2
  <2> QED BY <2>2, <2>3
<1>6. ASSUME NEW n \in Names, NEW v \in versions'[h][n]
      PROVE  v \in versions[h][n] /\ ~(n = x.name /\ v = x.version)
  BY <1>3, <1>6
<1> QED BY <1>4, <1>5, <1>6

LEMMA KillStep ==
  ASSUME TypeInv, HostInv, KillInv, [Next]_vars
  PROVE  KillInv'
<1>0. TypeOK
  BY DEF TypeInv
<1>1. ASSUME NEW s \in Shells, Shell(s) PROVE KillInv'
  <2>1. ASSUME NEW x \in Shells, x # s, pc'[x] = "delete"
        PROVE  cmd'[x].left \subseteq cmd'[x].listed /\ (disturbed'[x] \/ Listed(cmd[x])')
    <3>1. pc[x] = "delete" /\ cmd'[x] = cmd[x]
      BY <1>1, <2>1, OthersStay
    <3>2. disturbed'[x] \/ (UNCHANGED <<versions, main>> /\ disturbed'[x] = disturbed[x])
      BY <1>1, <2>1, <3>1, Bystander
    <3> QED BY <3>1, <3>2 DEF KillInv, Listed
  <2>2. ASSUME pc'[s] = "delete"
        PROVE  cmd'[s].left \subseteq cmd'[s].listed /\ (disturbed'[s] \/ Listed(cmd[s])')
    <3>1. CASE List(s)
      <4>1. PICK h \in Hosts :
               /\ Reaches(h)
               /\ IF ServicesOn(h, cmd[s]) = {} THEN Finish(s)
                  ELSE Goto(s, "delete", [cmd[s] EXCEPT !.listed = ServicesOn(h, cmd[s]),
                                                        !.left = ServicesOn(h, cmd[s])])
        BY <3>1 DEF List
      <4>2. ~Finish(s)
        BY <1>0, <2>2 DEF Finish, Goto, TypeOK
      <4>3. h = cmd[s].host
        BY <3>1, <4>1 DEF HostInv, Reaches, List
      <4> DEFINE found == ServicesOn(h, cmd[s])
      <4>4. /\ cmd'[s].listed = found /\ cmd'[s].left = found /\ cmd'[s].host = h
            /\ cmd'[s].name = cmd[s].name /\ cmd'[s].version = cmd[s].version
        <5>1. Goto(s, "delete", [cmd[s] EXCEPT !.listed = found, !.left = found])
          BY <4>1, <4>2
        <5> HIDE DEF found
        <5>2. cmd'[s] = [cmd[s] EXCEPT !.listed = found, !.left = found] /\ cmd[s] \in Command
          BY <1>0, <5>1 DEF Goto, TypeOK
        <5> QED BY <4>3, <5>2 DEF Command
      <4>5. UNCHANGED <<versions, main>>
        BY <3>1 DEF List, managers
      <4>6. \A y \in found : /\ y.version \in versions[h][y.name]
                             /\ y.main <=> main[h][y.name] = y.version
                             /\ cmd[s].name \in {None, y.name}
        BY DEF ServicesOn, Matches
      <4>7. ASSUME cmd[s].version = None, NEW n \in Names, cmd[s].name \in {None, n},
                   NEW v \in versions[h][n]
            PROVE  \E y \in found : y.name = n /\ y.version = v
        <5> DEFINE y == [name |-> n, version |-> v, main |-> main[h][n] = v]
        <5>1. v \in Versions
          BY <1>0 DEF TypeOK
        <5>2. y \in Service /\ y.name = n /\ y.version = v /\ (y.main = (main[h][n] = v))
          BY <5>1 DEF Service
        <5> HIDE DEF y
        <5>3. y \in found
          BY <4>7, <5>2 DEF ServicesOn, Matches
        <5> QED BY <5>2, <5>3
      <4> HIDE DEF found
      <4> QED BY <4>4, <4>5, <4>6, <4>7 DEF Listed
    <3>2. CASE \E x \in Service : Delete(s, x)
      <4>1. PICK x \in Service : Delete(s, x)
        BY <3>2
      <4>2. PICK h \in Hosts : Reaches(h) /\ Remove(h, x.name, x.version)
        BY <4>1 DEF Delete
      <4>3. h = cmd[s].host /\ pc[s] = "delete" /\ x \in Following(cmd[s].left)
        BY <4>1, <4>2 DEF HostInv, Reaches, Delete
      <4>4. Goto(s, "delete", [cmd[s] EXCEPT !.left = @ \ {x}])
        BY <1>0, <2>2, <4>1 DEF Delete, Goto, TypeOK
      <4>5. /\ cmd'[s].listed = cmd[s].listed /\ cmd'[s].left = cmd[s].left \ {x}
            /\ cmd'[s].host = h /\ cmd'[s].name = cmd[s].name
            /\ cmd'[s].version = cmd[s].version
        BY <1>0, <4>3, <4>4 DEF Goto, TypeOK, Command
      <4>6. disturbed'[s] \/ ~disturbed[s]
        BY <2>2, <4>1 DEF Delete, Disturb
      <4>7. CASE Listed(cmd[s])
        <5>1. /\ \A y \in cmd[s].listed \ (cmd[s].left \ {x}) :
                    y.version \notin versions'[h][y.name]
              /\ \A y \in cmd[s].left \ {x} :
                    /\ y.version \in versions'[h][y.name]
                    /\ y.main <=> main'[h][y.name] = y.version
              /\ \A n \in Names : \A v \in versions'[h][n] :
                    v \in versions[h][n] /\ ~(n = x.name /\ v = x.version)
          BY <4>2, <4>3, <4>7, DeleteKeepsListed DEF KillInv
        <5>2. /\ \A y \in cmd[s].left : cmd[s].name \in {None, y.name}
              /\ cmd[s].version = None =>
                    \A n \in Names : cmd[s].name \in {None, n} =>
                        \A v \in versions[h][n] :
                            \E y \in cmd[s].left : y.name = n /\ y.version = v
          BY <4>3, <4>7 DEF Listed
        <5>3. cmd[s].version = None =>
                    \A n \in Names : cmd[s].name \in {None, n} =>
                        \A v \in versions'[h][n] :
                            \E y \in cmd[s].left \ {x} : y.name = n /\ y.version = v
          BY <5>1, <5>2
        <5> QED BY <4>3, <4>5, <5>1, <5>2, <5>3 DEF Listed, KillInv
      <4> QED BY <4>3, <4>5, <4>6, <4>7 DEF KillInv
    <3>3. pc[s] = "delete" => \/ List(s) \/ \E x \in Service : Delete(s, x)
      <4>1. ~Finish(s)
        BY <1>0, <2>2 DEF Finish, Goto, TypeOK
      <4> QED BY <1>1, <4>1
        DEF Shell, FirstUse, Ask, Deploy, Assign, Kill, Run, Login, Logout, Begin, CheckToken,
            GivePassword, Open, DumpAdded, DumpActivated, DumpForgotten, DumpBlank, CutOff,
            Send, Refused, Quit
    <3>4. pc[s] # "delete" => List(s)
      <4>1. CASE Quiet(s) /\ ~List(s) /\ pc[s] # "delete"
        <5>1. ~Finish(s) /\ (Goto(s, "idle", NoCommand) => FALSE)
          BY <1>0, <2>2 DEF Finish, Goto, TypeOK
        <5>2. ASSUME NEW op \in Ops, NEW n \in Names \cup {None}, NEW v \in Versions \cup {None},
                     NEW step \in {"send", "list"}, Run(s, op, n, v, step)
              PROVE  FALSE
          BY <2>2, <5>2, RunsAt
        <5>3. {"deploy", "assign", "kill", "ask"} \subseteq Ops
          BY DEF Ops
        <5>4. ~FirstUse(s)
          BY <1>0, <2>2 DEF FirstUse, Goto, TypeOK
        <5>5. /\ ~CheckToken(s) /\ ~Send(s) /\ ~Quit(s) /\ ~CutOff(s)
              /\ ~DumpActivated(s) /\ ~DumpForgotten(s) /\ ~DumpBlank(s)
          BY <1>0, <2>2, <5>1 DEF CheckToken, Send, Quit, CutOff, DumpActivated,
                                  DumpForgotten, DumpBlank, Goto, TypeOK
        <5>6. ~Open(s) /\ ~DumpAdded(s) /\ \A t \in Tokens : ~GivePassword(s, t)
          BY <1>0, <2>2 DEF Open, DumpAdded, GivePassword, Goto, TypeOK
        <5>7. \A h \in Hosts : ~Logout(s, h) /\ \A t \in Tokens \cup {None} : ~Login(s, h, t)
          BY <2>2, Begun
        <5>8. \A x \in Service : ~Delete(s, x) /\ ~Refused(s, x)
          BY <4>1 DEF Delete, Refused
        <5> QED BY <1>1, <4>1, <5>2, <5>3, <5>4, <5>5, <5>6, <5>7, <5>8
                DEF Shell, Ask, Deploy, Assign, Kill
      <4>2. CASE ~Quiet(s)
        <5>1. ~Open(s) /\ ~DumpAdded(s) /\ \A t \in Tokens : ~GivePassword(s, t)
          BY <1>0, <2>2 DEF Open, DumpAdded, GivePassword, Goto, TypeOK
        <5>2. ~DumpActivated(s) /\ ~DumpForgotten(s) /\ ~DumpBlank(s) /\ ~CutOff(s)
          BY <1>0, <2>2 DEF DumpActivated, DumpForgotten, DumpBlank, CutOff, Finish, Goto, TypeOK
        <5>3. \A h \in Hosts : ~Logout(s, h) /\ \A t \in Tokens \cup {None} : ~Login(s, h, t)
          BY <2>2, Begun
        <5>4. ~FirstUse(s)
          BY <1>0, <2>2 DEF FirstUse, Goto, TypeOK
        <5> QED BY <1>1, <2>2, <4>2, <5>1, <5>2, <5>3, <5>4, FileSteps
      <4> QED BY <4>1, <4>2
    <3> QED BY <3>1, <3>2, <3>3, <3>4
  <2> QED BY <2>1, <2>2 DEF KillInv
<1>2. ASSUME UNCHANGED <<pc, cmd, versions, main, disturbed>> PROVE KillInv'
  BY <1>2 DEF KillInv, Listed
<1> QED BY <1>1, <1>2 DEF Next, RemoveFile, Expire, vars, managers

LEMMA KillInit == Init => KillInv
  BY DEF Init, KillInv

(* A kill of a name or of everything is refused only when another shell    *)
(* changed the services meanwhile. (kill, sort_main_service_last)          *)
THEOREM KillsAreOrderly ==
  ASSUME TakeTurns PROVE Spec => OrderlyKill
<1>1. ASSUME TypeInv, HostInv, KillInv, NEW s \in Shells, NEW x \in Service, Refused(s, x)
      PROVE  disturbed[s] \/ cmd[s].version # None
  <2>1. PICK h \in Hosts : Reaches(h) /\ ~Accepts(h, x)
    BY <1>1 DEF Refused
  <2>2. pc[s] = "delete" /\ h = cmd[s].host /\ x \in Following(cmd[s].left)
    BY <1>1, <2>1 DEF Refused, HostInv, Reaches
  <2> QED BY <1>1, <2>1, <2>2, NextIsAccepted DEF KillInv
<1>2. TypeInv /\ HostInv /\ KillInv =>
        [\A s \in Shells, x \in Service :
            Refused(s, x) => disturbed[s] \/ cmd[s].version # None]_vars
  BY <1>1
<1>3. TypeInv /\ FileInv /\ [Next]_vars => FileInv'
  BY FileStep
<1>4. TypeInv /\ HostInv /\ KillInv /\ [Next]_vars => KillInv'
  BY KillStep
<1> QED BY <1>2, <1>3, <1>4, FileInit, KillInit, TypeInit, TypeStep, PTL
        DEF Spec, FileInv, OrderlyKill

(* A kill that goes through leaves nothing of what it listed, unless       *)
(* another shell changed the services meanwhile. (kill)                    *)
THEOREM KillsEndClean ==
  ASSUME TakeTurns PROVE Spec => KillEndsClean
<1>1. ASSUME TypeInv, HostInv, KillInv, NEW s \in Shells, NEW x \in Service,
             Delete(s, x), cmd[s].left = {x}
      PROVE  disturbed[s] \/ Killed(s)
  <2>1. PICK h \in Hosts : Reaches(h) /\ Remove(h, x.name, x.version)
    BY <1>1 DEF Delete
  <2>2. pc[s] = "delete" /\ h = cmd[s].host /\ x \in Following(cmd[s].left)
    BY <1>1, <2>1 DEF Delete, HostInv, Reaches
  <2>3. CASE Listed(cmd[s])
    BY <1>1, <2>1, <2>2, <2>3, DeleteKeepsListed DEF KillInv, Killed
  <2> QED BY <1>1, <2>2, <2>3 DEF KillInv
<1>2. TypeInv /\ HostInv /\ KillInv =>
        [\A s \in Shells, x \in Service :
            Delete(s, x) /\ cmd[s].left = {x} => disturbed[s] \/ Killed(s)]_vars
  BY <1>1
<1>3. TypeInv /\ FileInv /\ [Next]_vars => FileInv'
  BY FileStep
<1>4. TypeInv /\ HostInv /\ KillInv /\ [Next]_vars => KillInv'
  BY KillStep
<1> QED BY <1>2, <1>3, <1>4, FileInit, KillInit, TypeInit, TypeStep, PTL
        DEF Spec, FileInv, KillEndsClean

-----------------------------------------------------------------------------
(* What commands do to a manager, seen by Catalog *)

Manager(h) == INSTANCE Catalog WITH versions <- versions[h], main <- main[h]

LEMMA CommandAdds ==
  ASSUME TypeOK, NEW g \in Hosts, NEW n \in Names, NEW v \in Versions,
         v \notin versions[g][n], Add(g, n, v)
  PROVE  /\ Manager(g)!Add(n, v)
         /\ \A h \in Hosts \ {g} : UNCHANGED <<versions[h], main[h]>>
  BY DEF TypeOK, Add, Manager!Add

LEMMA CommandPromotes ==
  ASSUME TypeOK, NEW g \in Hosts, NEW n \in Names, NEW v \in Versions,
         v \in versions[g][n], Promote(g, n, v)
  PROVE  /\ Manager(g)!Promote(n, v)
         /\ \A h \in Hosts \ {g} : UNCHANGED <<versions[h], main[h]>>
  BY DEF TypeOK, Promote, Manager!Promote

LEMMA CommandRemoves ==
  ASSUME TypeOK, NEW g \in Hosts, NEW x \in Service, Accepts(g, x),
         Remove(g, x.name, x.version)
  PROVE  /\ Manager(g)!Remove(x.name, x.version)
         /\ \A h \in Hosts \ {g} : UNCHANGED <<versions[h], main[h]>>
  BY DEF TypeOK, Service, Accepts, Remove, Manager!Remove

LEMMA ManagerStep ==
  ASSUME TypeInv, [Next]_vars, NEW h \in Hosts
  PROVE  [Manager(h)!Next]_(Manager(h)!vars)
<1>0. TypeOK
  BY DEF TypeInv
<1> DEFINE Stays == UNCHANGED <<versions[h], main[h]>>
<1>1. Stays => UNCHANGED Manager(h)!vars
  BY DEF Manager!vars
<1>2. ASSUME NEW s \in Shells, Send(s) PROVE Manager(h)!Next \/ Stays
  <2>1. PICK g \in Hosts :
          LET c == cmd[s] IN
          \/ c.op = "deploy" /\ c.version \notin versions[g][c.name] /\ Add(g, c.name, c.version)
          \/ c.op = "assign" /\ c.version \in versions[g][c.name] /\ Promote(g, c.name, c.version)
          \/ UNCHANGED <<versions, main>>
    BY <1>2 DEF Send
  <2>2. cmd[s].op # "ask" /\ pc[s] = "send" =>
            cmd[s].name \in Names /\ cmd[s].version \in Versions
    BY DEF TypeInv, Prepared, Fits
  <2>3. pc[s] = "send"
    BY <1>2 DEF Send
  <2> QED
    BY <1>0, <2>1, <2>2, <2>3, CommandAdds, CommandPromotes DEF Manager!Next
<1>3. ASSUME NEW s \in Shells, NEW x \in Service, Delete(s, x)
      PROVE  Manager(h)!Next \/ Stays
  <2>1. PICK g \in Hosts : Accepts(g, x) /\ Remove(g, x.name, x.version)
    BY <1>3 DEF Delete
  <2>2. x.name \in Names /\ x.version \in Versions
    BY DEF Service
  <2> QED BY <1>0, <2>1, <2>2, CommandRemoves DEF Manager!Next
<1>4. ASSUME NEW s \in Shells, Shell(s) PROVE Manager(h)!Next \/ Stays
  BY <1>2, <1>3, <1>4
  DEF Shell, FirstUse, Ask, Deploy, Assign, Kill, Run, Login, Logout, Begin, CheckToken,
      GivePassword, Open, DumpAdded, DumpActivated, DumpForgotten, DumpBlank, CutOff, List,
      Refused, Quit, managers
<1>5. ASSUME \/ RemoveFile \/ UNCHANGED vars
             \/ \E g \in Hosts, t \in Tokens : Expire(g, t)
      PROVE  Stays
  BY <1>5 DEF RemoveFile, Expire, vars, managers
<1> QED BY <1>1, <1>4, <1>5 DEF Next

(* Commands, overlapping and interrupted as they like, deal with every     *)
(* manager as Catalog describes one, and Deployment is shown to implement  *)
(* that: the two components agree on what a manager may do.                *)
(* (deploy, assign, kill)                                                  *)
THEOREM ManagersAreCatalogs ==
  ASSUME NEW h \in Hosts PROVE Spec => Manager(h)!Spec
<1>1. Init => Manager(h)!Init
  BY DEF Init, Manager!Init
<1>2. TypeInv /\ [Next]_vars => [Manager(h)!Next]_(Manager(h)!vars)
  BY ManagerStep
<1> QED BY <1>1, <1>2, TypeInit, TypeStep, PTL DEF Spec, Manager!Spec
=============================================================================
