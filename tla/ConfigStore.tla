----------------------------- MODULE ConfigStore -----------------------------
(***************************************************************************)
(* profile.json and credentials.json under several CLI processes: login    *)
(* (with a token or through the browser), logout, org use, space use,      *)
(* init, telemetry and the commands that only ask the control plane.       *)
(*                                                                         *)
(* A file is replaced by a rename, so a read or a write of one file is a   *)
(* step; nothing spans two files or a read and the write that follows.     *)
(* What belongs to a server carries it as a ghost: names of Organizations  *)
(* and tokens do not, in the files.                                        *)
(***************************************************************************)
EXTENDS Naturals, FiniteSets

CONSTANTS
  Servers,      (* control planes                                           *)
  Processes,    (* CLI processes, each runs one command after the other     *)
  Menu,         (* the commands a process runs                              *)
  MaxCommands,  (* commands in a behaviour                                  *)
  MaxFaults,    (* failing writes and requests, crashes, Ctrl-C             *)
  None

ASSUME ConfigStoreAssumption ==
  /\ None \notin Servers /\ \A s \in Servers : [server |-> s, token |-> s] # None
  /\ Menu \in [Processes -> SUBSET STRING]
  /\ MaxCommands \in Nat /\ MaxFaults \in Nat

VARIABLES
  profile,     (* profile.json; Unconfigured if there is none               *)
  secret       (* credentials.json                                          *)

fileVars == <<profile, secret>>

VARIABLES
  pc,          (* where the process is                                      *)
  cmd,         (* the command it runs or ran last                           *)
  then,        (* where it goes with the Session it is loading              *)
  server,      (* --server                                                  *)
  draft,       (* the profile it has read, or is about to write             *)
  scope,       (* the Context it works with                                 *)
  session,     (* the Session it works with                                 *)
  late,        (* the browser login has expired                             *)
  exit,        (* what the command reported, until another one starts       *)
  overlapped,  (* a command was started while another one was running       *)
  commands,
  faults

procVars == <<pc, cmd, then, server, draft, scope, session, late, exit>>
countVars == <<overlapped, commands, faults>>
configVars == <<fileVars, procVars, countVars>>

(* Organization and Space, and the server they were chosen on.             *)
Orgs     == {"none", "local", "team", "personal"}
Spaces   == {"none", "private", "ops"}
Contexts == [org : Orgs, space : Spaces, origin : Servers \union {None}]

NoContext    == [org |-> "none", space |-> "none", origin |-> None]
LocalContext == [org |-> "local", space |-> "private", origin |-> None]
IsLocal(context) == context.org = "local"

Profiles == [server : Servers \union {None}, context : Contexts, bindings : SUBSET Contexts,
             telemetry : {"default", "enabled", "disabled"}]

Unconfigured == [server |-> None, context |-> NoContext, bindings |-> {}, telemetry |-> "default"]

(* A token and the server that issued it.                                  *)
Credentials == [server : Servers, token : Servers]
Sessions    == [server : Servers, token : Servers, context : Contexts]

ConfigPlaces ==
  {"idle", "start", "verify", "poll", "interval", "login", "saveLogin", "saveSecret",
   "session", "secret", "current", "context", "saveContext", "binding", "saveBinding",
   "telemetry", "saveTelemetry", "tree", "ask", "flush"}

ConfigInit ==
  /\ profile = Unconfigured /\ secret = None
  /\ pc = [p \in Processes |-> "idle"]
  /\ cmd = [p \in Processes |-> "none"]
  /\ then = [p \in Processes |-> "none"]
  /\ server = [p \in Processes |-> None]
  /\ draft = [p \in Processes |-> Unconfigured]
  /\ scope = [p \in Processes |-> NoContext]
  /\ session = [p \in Processes |-> None]
  /\ late = [p \in Processes |-> FALSE]
  /\ exit = [p \in Processes |-> "none"]
  /\ overlapped = FALSE /\ commands = 0 /\ faults = 0

Fault == faults < MaxFaults /\ faults' = faults + 1

Goto(p, place) == pc' = [pc EXCEPT ![p] = place]

(* The command ends with an exit code and forgets what it read.            *)
Leave(p, code) ==
  /\ Goto(p, "idle")
  /\ exit' = [exit EXCEPT ![p] = code]
  /\ then' = [then EXCEPT ![p] = "none"]
  /\ draft' = [draft EXCEPT ![p] = Unconfigured]
  /\ session' = [session EXCEPT ![p] = None]
  /\ late' = [late EXCEPT ![p] = FALSE]

-----------------------------------------------------------------------------
(* A command line.  Commands that have nothing to ask go straight on.      *)

(* The commands that only ask the control plane.                           *)
Questions == {"whoami", "organizations", "spaces"}

FirstPlace ==
  [c \in {"login", "browser", "logout", "org", "space", "init", "telemetry"} \union Questions |->
     CASE c = "login" -> "verify"      [] c = "browser" -> "poll"
       [] c \in {"org", "space"} -> "current"
       [] c = "init" -> "tree"         [] c = "telemetry" -> "telemetry"
       [] c \in Questions -> "session" [] OTHER -> "start"]

Begin(p, c, place) ==
  /\ pc[p] = "idle" /\ c \in Menu[p]
  /\ commands < MaxCommands /\ commands' = commands + 1
  /\ overlapped' = (overlapped \/ \E q \in Processes : pc[q] # "idle")
  /\ cmd' = [cmd EXCEPT ![p] = c]
  /\ exit' = [q \in Processes |-> "none"]
  /\ Goto(p, place)

Start(p) ==
  /\ \E c \in DOMAIN FirstPlace : Begin(p, c, FirstPlace[c])
  /\ server' \in IF cmd'[p] \in {"login", "browser"}
                 THEN {[server EXCEPT ![p] = s] : s \in Servers} ELSE {server}
  /\ scope' \in IF cmd'[p] = "init" THEN {[scope EXCEPT ![p] = LocalContext]}
                ELSE {[scope EXCEPT ![p] = NoContext]}
  /\ then' = [then EXCEPT ![p] = IF cmd'[p] \in Questions THEN "ask" ELSE "none"]
  /\ UNCHANGED <<fileVars, draft, session, late, faults>>

-----------------------------------------------------------------------------
(* Session: the profile, then the credentials.                             *)

(* A login that is done reports success whether or not it can flush.       *)
Refused(p, code) ==
  Leave(p, IF then[p] = "flush" THEN "success"
           ELSE IF cmd[p] \in {"login", "browser"} THEN "operational" ELSE code)

ReadProfile(p) ==
  /\ pc[p] = "session"
  /\ IF profile.server = None
     THEN Refused(p, IF profile = Unconfigured THEN "operational" ELSE "contract")
     ELSE /\ draft' = [draft EXCEPT ![p] = profile]
          /\ Goto(p, "secret")
          /\ UNCHANGED <<then, session, late, exit>>
  /\ UNCHANGED <<fileVars, cmd, server, scope, countVars>>

(* Mutant: the server of the credentials is not compared.                  *)
AnySecret(p) == secret # None

SecretMatches(p) == secret # None /\ secret.server = draft[p].server

(* org use names an Organization of the server it has a Session with; the  *)
(* commands that ask work in the Context of their Session.                 *)
ScopeOfSession(p) ==
  CASE then[p] = "context" /\ scope[p].origin = None -> [scope[p] EXCEPT !.origin = draft[p].server]
    [] then[p] \in {"ask", "flush"} -> draft[p].context
    [] OTHER -> scope[p]

ReadSecret(p) ==
  /\ pc[p] = "secret"
  /\ IF SecretMatches(p)
     THEN /\ session' = [session EXCEPT ![p] =
               [server |-> draft[p].server, token |-> secret.token, context |-> draft[p].context]]
          /\ scope' = [scope EXCEPT ![p] = ScopeOfSession(p)]
          /\ Goto(p, then[p])
          /\ UNCHANGED <<then, draft, late, exit>>
     ELSE /\ Refused(p, IF secret = None THEN "contract" ELSE "operational")
          /\ UNCHANGED scope
  /\ UNCHANGED <<fileVars, cmd, server, countVars>>

LoadSession(p, place) == Goto(p, "session") /\ then' = [then EXCEPT ![p] = place]

-----------------------------------------------------------------------------
(* login.                                                                  *)

(* The control plane knows the token, or has approved the device code, and *)
(* may name a personal Organization.                                       *)
Accepted(p) ==
  /\ Goto(p, "login")
  /\ scope' \in {[scope EXCEPT ![p] = NoContext],
                 [scope EXCEPT ![p] = [org |-> "personal", space |-> "private", origin |-> server[p]]]}
  /\ UNCHANGED <<then, draft, session, late, exit>>

VerifyToken(p) ==
  /\ pc[p] = "verify"
  /\ \/ Accepted(p) /\ UNCHANGED faults
     \/ Leave(p, "operational") /\ UNCHANGED scope /\ Fault
  /\ UNCHANGED <<fileVars, cmd, server, overlapped, commands>>

(* The deadline is checked before each poll; the answer is pending, an     *)
(* approval, or one of the errors that end the login.                      *)
PollDeviceLogin(p) ==
  /\ pc[p] = "poll"
  /\ \/ late[p] /\ Leave(p, "operational") /\ UNCHANGED <<scope, faults>>
     \/ ~late[p] /\ Accepted(p) /\ UNCHANGED faults
     \/ ~late[p] /\ Goto(p, "interval") /\ UNCHANGED <<scope, then, draft, session, late, exit, faults>>
     \/ ~late[p] /\ Leave(p, "operational") /\ UNCHANGED scope /\ Fault
  /\ UNCHANGED <<fileVars, cmd, server, overlapped, commands>>

Interval(p) ==
  /\ pc[p] = "interval"
  /\ \/ Goto(p, "poll") /\ UNCHANGED <<then, draft, session, late, exit, faults>>
     \/ Leave(p, "interrupted") /\ Fault
  /\ UNCHANGED <<fileVars, cmd, server, scope, overlapped, commands>>

(* ExpiresIn seconds have passed.                                          *)
Deadline(p) ==
  /\ pc[p] \in {"poll", "interval"} /\ ~late[p]
  /\ late' = [late EXCEPT ![p] = TRUE]
  /\ UNCHANGED <<fileVars, pc, cmd, then, server, draft, scope, session, exit, countVars>>

(* Mutant: Context and bindings go along to the other server.              *)
KeepScopes(p) == [profile EXCEPT !.server = server[p]]

(* A Context and bindings do not go along to another control plane.        *)
LoggedIn(p) ==
  IF profile.server \in {None, server[p]}
  THEN [profile EXCEPT !.server = server[p]]
  ELSE [profile EXCEPT !.server = server[p], !.context = NoContext, !.bindings = {}]

Login(p) ==
  /\ pc[p] = "login"
  /\ draft' = [draft EXCEPT ![p] = LoggedIn(p)]
  /\ Goto(p, "saveLogin")
  /\ UNCHANGED <<fileVars, cmd, then, server, scope, session, late, exit, countVars>>

(* Mutant: the answer of the write is ignored.                             *)
SaveSecretLoosely(p) ==
  /\ pc[p] = "saveSecret"
  /\ \/ secret' = [server |-> server[p], token |-> server[p]] /\ UNCHANGED faults
     \/ UNCHANGED secret /\ Fault
  /\ LoadSession(p, IF scope[p] = NoContext THEN "flush" ELSE "context")
  /\ UNCHANGED <<draft, session, late, exit, profile, cmd, server, scope, overlapped, commands>>

(* Then the personal Context is selected, if there is one.                 *)
SaveSecret(p) ==
  /\ pc[p] = "saveSecret"
  /\ \/ /\ secret' = [server |-> server[p], token |-> server[p]]
        /\ LoadSession(p, IF scope[p] = NoContext THEN "flush" ELSE "context")
        /\ UNCHANGED <<draft, session, late, exit, faults>>
     \/ Leave(p, "operational") /\ UNCHANGED secret /\ Fault
  /\ UNCHANGED <<profile, cmd, server, scope, overlapped, commands>>

Logout(p) ==
  /\ pc[p] = "start" /\ cmd[p] = "logout"
  /\ \/ secret' = None /\ Leave(p, "success") /\ UNCHANGED faults
     \/ UNCHANGED secret /\ Leave(p, "operational") /\ Fault
  /\ UNCHANGED <<profile, cmd, server, scope, overlapped, commands>>

-----------------------------------------------------------------------------
(* org use, space use, init, telemetry.                                    *)

HasContext == profile.context # NoContext

(* init creates the directories and the manifest before it writes the      *)
(* profile; a manifest of another Space is kept and refused.               *)
InitTree(p) ==
  /\ pc[p] = "tree"
  /\ \/ Goto(p, "context") /\ UNCHANGED <<then, draft, session, late, exit, faults>>
     \/ \E code \in {"contract", "operational"} : Leave(p, code) /\ Fault
  /\ UNCHANGED <<fileVars, cmd, server, scope, overlapped, commands>>

(* The Context as it is gives org use the Space, if the Organization stays *)
(* the same, and space use the Organization.                               *)
OrgSelections ==
  {IF profile.context.org = o THEN profile.context
   ELSE [org |-> o, space |-> IF o = "local" THEN "private" ELSE "none", origin |-> None]
     : o \in {"local", "team"}}

SpaceSelections ==
  IF HasContext THEN {[profile.context EXCEPT !.space = s] : s \in {"private", "ops"}} ELSE {}

ReadCurrent(p) ==
  /\ pc[p] = "current"
  /\ \/ /\ \E c \in IF cmd[p] = "org" THEN OrgSelections ELSE SpaceSelections :
             /\ scope' = [scope EXCEPT ![p] = c]
             /\ IF IsLocal(c) THEN Goto(p, "context") /\ UNCHANGED then ELSE LoadSession(p, "context")
        /\ UNCHANGED <<draft, session, late, exit>>
     \/ cmd[p] = "space" /\ ~HasContext /\ Leave(p, "contract") /\ UNCHANGED scope
  /\ UNCHANGED <<fileVars, cmd, server, countVars>>

(* SetContext reads the profile once more, SetBinding and SetTelemetry too. *)
SetContext(p) ==
  /\ pc[p] = "context"
  /\ draft' = [draft EXCEPT ![p] = [profile EXCEPT !.context = scope[p]]]
  /\ Goto(p, "saveContext")
  /\ UNCHANGED <<fileVars, cmd, then, server, scope, session, late, exit, countVars>>

SetBinding(p) ==
  /\ pc[p] = "binding"
  /\ \E space \in IF cmd[p] = "init" THEN {"private", "ops"} ELSE {scope[p].space} :
       LET bound == [scope[p] EXCEPT !.space = space]
           others == {b \in profile.bindings : b.org # bound.org \/ b.space # space}
       IN draft' = [draft EXCEPT ![p] = [profile EXCEPT !.bindings = others \union {bound}]]
  /\ Goto(p, "saveBinding")
  /\ UNCHANGED <<fileVars, cmd, then, server, scope, session, late, exit, countVars>>

SetTelemetry(p) ==
  /\ pc[p] = "telemetry"
  /\ \E choice \in {"enabled", "disabled"} :
       draft' = [draft EXCEPT ![p] = [profile EXCEPT !.telemetry = choice]]
  /\ Goto(p, "saveTelemetry")
  /\ UNCHANGED <<fileVars, cmd, then, server, scope, session, late, exit, countVars>>

(* What follows a write.                                                   *)
Saved(p) ==
  CASE pc[p] = "saveLogin" -> Goto(p, "saveSecret") /\ UNCHANGED <<then, draft, session, late, exit>>
    [] pc[p] = "saveContext" /\ cmd[p] \in {"login", "browser"} ->
         LoadSession(p, "flush") /\ UNCHANGED <<draft, session, late, exit>>
    [] pc[p] = "saveContext" /\ cmd[p] = "init" ->
         Goto(p, "binding") /\ UNCHANGED <<then, draft, session, late, exit>>
    [] OTHER -> Leave(p, "success")

(* writeJSON: a temporary file, renamed; a failure leaves what was there.  *)
(* A binding that cannot be recorded after an apply is ignored.            *)
WriteProfile(p) ==
  /\ pc[p] \in {"saveLogin", "saveContext", "saveBinding", "saveTelemetry"}
  /\ \/ profile' = draft[p] /\ Saved(p) /\ UNCHANGED faults
     \/ /\ UNCHANGED profile /\ Fault
        /\ Leave(p, IF pc[p] = "saveBinding" /\ cmd[p] # "init" THEN "success" ELSE "operational")
  /\ UNCHANGED <<secret, cmd, server, scope, overlapped, commands>>

-----------------------------------------------------------------------------
(* Requests.                                                               *)

(* The control plane answers, or the request fails, or its answer is not   *)
(* one.                                                                    *)
Answered(p) == Leave(p, "success") /\ UNCHANGED faults
Unanswered(p) == Leave(p, "operational") /\ Fault

WhoAmI(p) ==
  /\ pc[p] = "ask" /\ cmd[p] = "whoami"
  /\ Answered(p) \/ Unanswered(p)
  /\ UNCHANGED <<fileVars, cmd, server, scope, overlapped, commands>>

Organizations(p) ==
  /\ pc[p] = "ask" /\ cmd[p] = "organizations"
  /\ Answered(p) \/ Unanswered(p)
  /\ UNCHANGED <<fileVars, cmd, server, scope, overlapped, commands>>

(* The Spaces of the Organization of the Context.                          *)
SpacesList(p) ==
  /\ pc[p] = "ask" /\ cmd[p] = "spaces"
  /\ IF scope[p] = NoContext
     THEN Leave(p, "contract") /\ UNCHANGED faults
     ELSE Answered(p) \/ Unanswered(p)
  /\ UNCHANGED <<fileVars, cmd, server, scope, overlapped, commands>>

(* maybeFlushOutbox: the queued Runs go to the Space of the Context.       *)
FlushOutbox(p) ==
  /\ pc[p] = "flush"
  /\ Leave(p, "success")
  /\ UNCHANGED <<fileVars, cmd, server, scope, countVars>>

Crash(p) ==
  /\ pc[p] # "idle" /\ Fault
  /\ Leave(p, "none")
  /\ UNCHANGED <<fileVars, cmd, server, scope, overlapped, commands>>

Step(p) ==
  \/ ReadProfile(p) \/ ReadSecret(p) \/ VerifyToken(p) \/ PollDeviceLogin(p) \/ Interval(p)
  \/ Login(p) \/ SaveSecret(p) \/ Logout(p) \/ ReadCurrent(p) \/ SetContext(p)
  \/ SetBinding(p) \/ SetTelemetry(p) \/ WriteProfile(p) \/ InitTree(p)
  \/ WhoAmI(p) \/ Organizations(p) \/ SpacesList(p) \/ FlushOutbox(p)
=============================================================================
