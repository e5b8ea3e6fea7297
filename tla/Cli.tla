-------------------------------- MODULE Cli --------------------------------
(***************************************************************************)
(* The command line interface: shells on one machine whose commands share  *)
(* a state file (cli/config.py) with the hosts somebody logged in to and   *)
(* the active one.  Every request reads the file again; login and logout   *)
(* change what they read when they began and write all of it back, by      *)
(* opening the file, which empties it, and dumping the state into it.      *)
(* Managers are taken as Catalog describes them, one for every host.       *)
(***************************************************************************)
EXTENDS Naturals

CONSTANTS
    Shells,
    Hosts,
    Tokens,
    Names, Versions,
    TakeTurns,  \* TRUE: nobody logs in or out while another command runs
    Absent,     \* there is no state file
    Torn,       \* it was opened to be written and holds nothing
    None

Service == [name : Names, version : Versions, main : BOOLEAN]
State == [active : Hosts \cup {None}, tokens : [Hosts -> Tokens \cup {None}]]
Blank == [active |-> None, tokens |-> [h \in Hosts |-> None]]
Ops == {"none", "login", "logout", "deploy", "assign", "kill", "ask"}
Command == [op : Ops,
            host : Hosts \cup {None},        \* named by the user, or announced
            name : Names \cup {None},
            version : Versions \cup {None},
            token : Tokens \cup {None},      \* the token a login stores
            listed : SUBSET Service,         \* what a kill read
            left : SUBSET Service]           \* what it has yet to delete
NoCommand == [op |-> "none", host |-> None, name |-> None, version |-> None,
              token |-> None, listed |-> {}, left |-> {}]

ASSUME CliConstants ==
    /\ None \notin Hosts /\ None \notin Tokens
    /\ None \notin Names /\ None \notin Versions
    /\ Absent \notin State /\ Torn \notin State /\ Absent # Torn
    /\ TakeTurns \in BOOLEAN

VARIABLES
    file,       \* the state file
    pc,         \* pc[s]: the next step of the command in shell s
    cmd,        \* cmd[s]: that command
    mem,        \* mem[s]: the state a login or a logout works on
    valid,      \* valid[h]: the tokens host h accepts
    versions,   \* versions[h][n]: what is deployed under n on host h
    main,       \* main[h][n]: the main version of n, or None
    logged,     \* logged[h]: the token of the last login to h, None: logged out
                \* from, or lost by a command cut off while it wrote the file
    disturbed   \* disturbed[s]: another shell changed a manager since s listed it

managers == <<valid, versions, main>>
vars == <<file, pc, cmd, mem, managers, logged, disturbed>>

Steps == {"idle", "create", "created", "check", "password", "add", "added", "activate", "activated",
          "forget", "forgotten", "send", "list", "delete"}
WritingSteps == {"created", "added", "activated", "forgotten"}

TypeOK ==
    /\ file \in State \cup {Absent, Torn}
    /\ pc \in [Shells -> Steps]
    /\ cmd \in [Shells -> Command]
    /\ mem \in [Shells -> State]
    /\ valid \in [Hosts -> SUBSET Tokens]
    /\ versions \in [Hosts -> [Names -> SUBSET Versions]]
    /\ main \in [Hosts -> [Names -> Versions \cup {None}]]
    /\ logged \in [Hosts -> Tokens \cup {None}]
    /\ disturbed \in [Shells -> BOOLEAN]

Init ==
    /\ file = Absent
    /\ pc = [s \in Shells |-> "idle"]
    /\ cmd = [s \in Shells |-> NoCommand]
    /\ mem = [s \in Shells |-> Blank]
    /\ valid = [h \in Hosts |-> {}]
    /\ versions = [h \in Hosts |-> [n \in Names |-> {}]]
    /\ main = [h \in Hosts |-> [n \in Names |-> None]]
    /\ logged = [h \in Hosts |-> None]
    /\ disturbed = [s \in Shells |-> FALSE]

-----------------------------------------------------------------------------
(* Helpers *)

Readable == file \notin {Absent, Torn}
Writing(s) == file = Torn /\ pc[s] \in WritingSteps
Switches(op) == op \in {"login", "logout"}
MayBegin(s, op) ==
    TakeTurns => \A x \in Shells \ {s} :
                    pc[x] # "idle" => ~Switches(op) /\ ~Switches(cmd[x].op)

Goto(s, step, c) ==
    /\ pc' = [pc EXCEPT ![s] = step]
    /\ cmd' = [cmd EXCEPT ![s] = c]
Finish(s) ==
    /\ Goto(s, "idle", NoCommand)
    /\ mem' = [mem EXCEPT ![s] = Blank]
    /\ disturbed' = [disturbed EXCEPT ![s] = FALSE]

(* Mutation: a request goes to a host that is not the active one any more. *)
MutantReaches(h) == Readable /\ file.tokens[h] \in valid[h]

(* cli_request: to the host that is active now, with its token.            *)
Reaches(h) == Readable /\ file.active = h /\ file.tokens[h] \in valid[h]

(* filter_services_by_name_version *)
Matches(c, n, v) == c.name \in {None, n} /\ c.version \in {None, v}
ServicesOn(h, c) ==
    {x \in Service : /\ x.version \in versions[h][x.name]
                     /\ x.main = (main[h][x.name] = x.version)
                     /\ Matches(c, x.name, x.version)}

(* Mutation: the services are deleted as they are listed. *)
MutantFollowing(left) == left

(* sort_main_service_last *)
Following(left) ==
    IF \E x \in left : ~x.main THEN {x \in left : ~x.main} ELSE left

-----------------------------------------------------------------------------
(* _callback, which every command runs first *)

(* The first command of all finds no file and writes one with no hosts,    *)
(* over what another shell may have written since.                         *)
FirstUse(s) ==
    /\ pc[s] = "idle" /\ MayBegin(s, "ask")
    /\ file = Absent
    /\ Goto(s, "create", [NoCommand EXCEPT !.op = "ask"])
    /\ UNCHANGED <<file, mem, managers, logged, disturbed>>

DumpBlank(s) ==
    /\ pc[s] = "created"
    /\ file' = Blank
    /\ Finish(s)
    /\ UNCHANGED <<managers, logged>>

(* Mutation: a login or a logout starts from nothing. *)
MutantBegin(s, c, step) ==
    /\ pc[s] = "idle" /\ MayBegin(s, c.op)
    /\ Readable
    /\ Goto(s, step, c)
    /\ mem' = [mem EXCEPT ![s] = Blank]
    /\ UNCHANGED <<file, managers, logged, disturbed>>

Begin(s, c, step) ==
    /\ pc[s] = "idle" /\ MayBegin(s, c.op)
    /\ Readable
    /\ Goto(s, step, c)
    /\ mem' = [mem EXCEPT ![s] = IF Switches(c.op) THEN file ELSE Blank]
    /\ UNCHANGED <<file, managers, logged, disturbed>>

(* Other commands than a login need a valid token, and announce the active *)
(* host.  "Active host: ..."                                               *)
Run(s, op, n, v, step) ==
    \E h \in Hosts :
        /\ Reaches(h)
        /\ Begin(s, [NoCommand EXCEPT !.op = op, !.host = h, !.name = n, !.version = v], step)

Deploy(s, n, v) == Run(s, "deploy", n, v, "send")
Assign(s, n, v) == Run(s, "assign", n, v, "send")
(* Without a name or a version, the user said --all. *)
Kill(s, n, v) == Run(s, "kill", n, v, "list")
(* ls, logs, token and the commands for users change no services.          *)
Ask(s) == Run(s, "ask", None, None, "send")

-----------------------------------------------------------------------------
(* login and logout *)

(* t is the argument of --token. *)
Login(s, h, t) ==
    Begin(s, [NoCommand EXCEPT !.op = "login", !.host = h, !.token = t], "check")

(* A valid token, given or stored, is stored (again); without one the user *)
(* is asked for a password, unless a token was given.                      *)
CheckToken(s) ==
    LET c == cmd[s]
        t == IF c.token # None THEN c.token ELSE mem[s].tokens[c.host]
    IN /\ pc[s] = "check"
       /\ \/ /\ t \in valid[c.host]
             /\ Goto(s, "add", [c EXCEPT !.token = t])
             /\ mem' = [mem EXCEPT ![s].tokens[c.host] = t]
             /\ UNCHANGED disturbed
          \/ /\ t \notin valid[c.host] /\ c.token = None
             /\ Goto(s, "password", c)
             /\ UNCHANGED <<mem, disturbed>>
          \/ /\ t \notin valid[c.host] /\ c.token # None
             /\ Finish(s)
       /\ UNCHANGED <<file, managers, logged>>

(* The right password: the host hands out a token. *)
GivePassword(s, t) ==
    LET h == cmd[s].host IN
    /\ pc[s] = "password"
    /\ t \notin valid[h]
    /\ valid' = [valid EXCEPT ![h] = @ \cup {t}]
    /\ Goto(s, "add", [cmd[s] EXCEPT !.token = t])
    /\ mem' = [mem EXCEPT ![s].tokens[h] = t]
    /\ UNCHANGED <<file, versions, main, logged, disturbed>>

(* A logout begins like any other command, and then reads the file again.  *)
Logout(s, h) ==
    /\ \E active \in Hosts : Reaches(active)
    /\ file.tokens[h] # None
    /\ Begin(s, [NoCommand EXCEPT !.op = "logout", !.host = h], "forget")

(* Mutation: the active host stays when one logs out of it. *)
MutantForget(s) ==
    [active |-> mem[s].active, tokens |-> [mem[s].tokens EXCEPT ![cmd[s].host] = None]]

Forget(s) ==
    LET h == cmd[s].host IN
    [active |-> IF mem[s].active = h THEN None ELSE mem[s].active,
     tokens |-> [mem[s].tokens EXCEPT ![h] = None]]

(* save_state, of __init__, add_host, activate_host and logout *)
Open(s) ==
    /\ \/ pc[s] = "create" /\ Goto(s, "created", cmd[s])
       \/ pc[s] = "add" /\ Goto(s, "added", cmd[s])
       \/ pc[s] = "activate" /\ Goto(s, "activated", cmd[s])
       \/ pc[s] = "forget" /\ Goto(s, "forgotten", cmd[s])
    /\ file' = Torn
    /\ UNCHANGED <<mem, managers, logged, disturbed>>

DumpAdded(s) ==
    /\ pc[s] = "added"
    /\ file' = mem[s]
    /\ logged' = [logged EXCEPT ![cmd[s].host] = cmd[s].token]
    /\ Goto(s, "activate", cmd[s])
    /\ mem' = [mem EXCEPT ![s].active = cmd[s].host]
    /\ UNCHANGED <<managers, disturbed>>

DumpActivated(s) ==
    /\ pc[s] = "activated"
    /\ file' = mem[s]
    /\ Finish(s)
    /\ UNCHANGED <<managers, logged>>

DumpForgotten(s) ==
    /\ pc[s] = "forgotten"
    /\ file' = Forget(s)
    /\ logged' = [logged EXCEPT ![cmd[s].host] = None]
    /\ Finish(s)
    /\ UNCHANGED managers

-----------------------------------------------------------------------------
(* What requests do to the services of a manager, see Catalog              *)

Add(h, n, v) ==
    /\ versions' = [versions EXCEPT ![h][n] = @ \cup {v}]
    /\ main' = [main EXCEPT ![h][n] = IF @ = None THEN v ELSE @]

Promote(h, n, v) ==
    /\ main' = [main EXCEPT ![h][n] = v]
    /\ UNCHANGED versions

Remove(h, n, v) ==
    /\ versions' = [versions EXCEPT ![h][n] = @ \ {v}]
    /\ main' = [main EXCEPT ![h][n] = IF @ = v THEN None ELSE @]

(* kill_service: a main version with shadows is not killed.                *)
Accepts(h, x) ==
    /\ x.version \in versions[h][x.name]
    /\ x.version = main[h][x.name] => versions[h][x.name] = {x.version}

(* Kills in other shells are disturbed by what s did to a manager.         *)
Disturb(s) ==
    disturbed' = [x \in Shells |-> IF x = s THEN pc'[s] = "delete" /\ disturbed[s]
                                  ELSE pc[x] = "delete"]

(* The request of a deploy, an assign or any other command: what a manager *)
(* refuses changes nothing there.                                          *)
Send(s) ==
    LET c == cmd[s] IN
    /\ pc[s] = "send"
    /\ Goto(s, "idle", NoCommand)
    /\ \E h \in Hosts :
          /\ Reaches(h)
          /\ \/ /\ c.op = "deploy" /\ c.version \notin versions[h][c.name]
                /\ Add(h, c.name, c.version)
                /\ Disturb(s)
             \/ /\ c.op = "assign" /\ c.version \in versions[h][c.name]
                /\ Promote(h, c.name, c.version)
                /\ Disturb(s)
             \/ /\ c.op = "deploy" => c.version \in versions[h][c.name]
                /\ c.op = "assign" => c.version \notin versions[h][c.name]
                /\ UNCHANGED <<versions, main, disturbed>>
    /\ UNCHANGED <<file, mem, valid, logged>>

-----------------------------------------------------------------------------
(* kill *)

(* The user is shown what was listed, and confirms it. *)
List(s) ==
    /\ pc[s] = "list"
    /\ \E h \in Hosts :
          LET found == ServicesOn(h, cmd[s]) IN
          /\ Reaches(h)
          /\ IF found = {} THEN Finish(s)
             ELSE /\ Goto(s, "delete", [cmd[s] EXCEPT !.listed = found, !.left = found])
                  /\ disturbed' = [disturbed EXCEPT ![s] = FALSE]
                  /\ UNCHANGED mem
    /\ UNCHANGED <<file, managers, logged>>

Delete(s, x) ==
    /\ pc[s] = "delete"
    /\ x \in Following(cmd[s].left)
    /\ \E h \in Hosts :
          Reaches(h) /\ Accepts(h, x) /\ Remove(h, x.name, x.version)
    /\ IF cmd[s].left = {x} THEN Goto(s, "idle", NoCommand)
       ELSE Goto(s, "delete", [cmd[s] EXCEPT !.left = @ \ {x}])
    /\ Disturb(s)
    /\ UNCHANGED <<file, mem, valid, logged>>

(* The first reply that is an error ends the command. *)
Refused(s, x) ==
    /\ pc[s] = "delete"
    /\ x \in Following(cmd[s].left)
    /\ \E h \in Hosts : Reaches(h) /\ ~Accepts(h, x)
    /\ Finish(s)
    /\ UNCHANGED <<file, managers, logged>>

-----------------------------------------------------------------------------
(* A command that fails, is declined or is interrupted.                    *)
Quit(s) ==
    /\ pc[s] # "idle" /\ ~Writing(s)
    /\ Finish(s)
    /\ UNCHANGED <<file, managers, logged>>

(* A command is cut off while the file is empty: every login is lost.      *)
CutOff(s) ==
    /\ Writing(s)
    /\ Finish(s)
    /\ logged' = [h \in Hosts |-> None]
    /\ UNCHANGED <<file, managers>>

(* The user removes a file no command can read. *)
RemoveFile ==
    /\ file = Torn
    /\ \A s \in Shells : pc[s] = "idle"
    /\ file' = Absent
    /\ UNCHANGED <<pc, cmd, mem, managers, logged, disturbed>>

Expire(h, t) ==
    /\ t \in valid[h]
    /\ valid' = [valid EXCEPT ![h] = @ \ {t}]
    /\ UNCHANGED <<file, pc, cmd, mem, versions, main, logged, disturbed>>

Shell(s) ==
    \/ FirstUse(s) \/ Ask(s)
    \/ \E n \in Names, v \in Versions : Deploy(s, n, v) \/ Assign(s, n, v)
    \/ \E n \in Names \cup {None}, v \in Versions \cup {None} : Kill(s, n, v)
    \/ \E h \in Hosts, t \in Tokens \cup {None} : Login(s, h, t)
    \/ \E h \in Hosts : Logout(s, h)
    \/ CheckToken(s) \/ \E t \in Tokens : GivePassword(s, t)
    \/ Open(s) \/ DumpBlank(s) \/ DumpAdded(s) \/ DumpActivated(s) \/ DumpForgotten(s)
    \/ Send(s) \/ List(s)
    \/ \E x \in Service : Delete(s, x) \/ Refused(s, x)
    \/ Quit(s) \/ CutOff(s)

Next ==
    \/ \E s \in Shells : Shell(s)
    \/ RemoveFile
    \/ \E h \in Hosts, t \in Tokens : Expire(h, t)

Spec == Init /\ [][Next]_vars

-----------------------------------------------------------------------------
(* Whatever commands overlap or are interrupted, the active host is one    *)
(* the file has a token for: a request never goes out without one.         *)
(* (CliState.logout, activate_host)                                        *)
ActiveHostIsKnown ==
    Readable /\ file.active # None => file.tokens[file.active] # None

(* What a login stored stays until somebody logs in to that host again or  *)
(* logs out from it: commands for other hosts, the first use of a new file *)
(* and interrupted commands leave it alone, and while the file is empty    *)
(* the command that writes it still has it.  The one way to lose logins is *)
(* CutOff, and that loses them all: a file nobody is writing and nobody    *)
(* can read held no login that was not lost when it was cut off.           *)
(* (CliState.__init__, add_host, logout, save_state)                       *)
LoginsAreKept ==
    \A h \in Hosts : logged[h] # None =>
        \/ Readable /\ file.tokens[h] = logged[h]
        \/ \E s \in Shells : /\ Writing(s)
                             /\ mem[s].tokens[h] = logged[h] \/ cmd[s].host = h

(* A kill of a name or of everything is not refused unless somebody else   *)
(* changes the services meanwhile: shadows go before their main version.   *)
(* (kill, sort_main_service_last, kill_service)                            *)
OrderlyKill ==
    [][\A s \in Shells, x \in Service :
          Refused(s, x) => disturbed[s] \/ cmd[s].version # None]_vars

(* When a kill is through, none of what it listed is left where it was     *)
(* listed, unless somebody else changed the services meanwhile. (kill)     *)
Killed(s) ==
    \A x \in cmd[s].listed : x.version \notin versions'[cmd[s].host][x.name]
KillEndsClean ==
    [][\A s \in Shells, x \in Service :
          Delete(s, x) /\ cmd[s].left = {x} => disturbed[s] \/ Killed(s)]_vars
=============================================================================
