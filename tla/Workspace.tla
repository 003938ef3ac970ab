------------------------------ MODULE Workspace ------------------------------
(***************************************************************************)
(* The commands that carry definitions between a working tree and a        *)
(* registry: preview, apply and prune with doppels.lock and the local      *)
(* registry, publish and unpublish, install and fork.  They run beside the *)
(* commands of ConfigStore and read its files.                             *)
(*                                                                         *)
(* A definition is <<name, version, digest>>.  The working tree is the     *)
(* person's: a command that loads it finds any of Trees.                   *)
(***************************************************************************)
EXTENDS ConfigStore

CONSTANTS
  Trees,         (* contents of .doppels/capabilities and recipes           *)
  Listings,      (* revisions of the hub listing that install and fork read *)
  Torn,          (* what a file holds that was truncated                    *)
  Absent         (* no file                                                 *)

Entries == UNION Trees

ASSUME WorkspaceAssumption ==
  /\ \A e \in Entries : DOMAIN e = {1, 2, 3}
  /\ None \notin Listings /\ Torn # Absent
  /\ \A t \in Trees \union {{}} : t # Torn /\ t # Absent

VARIABLES
  lock,        (* the resources of doppels.lock                             *)
  registry,    (* the resources of local-registry.json, or Torn             *)
  temporary,   (* local-registry.json.tmp                                   *)
  module,      (* the three files of an installed module                    *)
  forked,      (* the files a fork has written                              *)
  listing,     (* the listing the process has fetched                       *)
  catalog,     (* what the process has read of the tree                     *)
  applied,     (* definitions a registry has accepted                       *)
  racing       (* two processes were in the temporary file of the registry  *)

treeVars == <<lock, registry, temporary, module, forked, listing,
              catalog, applied, racing>>
vars == <<configVars, treeVars>>

Places == ConfigPlaces \union
  {"scope", "load", "verify lock", "prepare", "send", "preview", "prune", "registry", "truncate",
   "write", "rename", "commit", "publish", "listing", "capability", "recipe", "pin"}

TypeOK ==
  /\ profile \in Profiles
  /\ secret \in Credentials \union {None}
  /\ pc \in [Processes -> Places]
  /\ server \in [Processes -> Servers \union {None}]
  /\ draft \in [Processes -> Profiles]
  /\ scope \in [Processes -> Contexts]
  /\ session \in [Processes -> Sessions \union {None}]
  /\ exit \in [Processes -> {"none", "success", "contract", "operational", "interrupted"}]
  /\ lock \subseteq Entries /\ applied \subseteq Entries
  /\ registry # Absent /\ registry \in {Torn, Absent} \union SUBSET Entries
  /\ temporary \in {Torn, Absent} \union SUBSET Entries
  /\ module \in [{"capability", "recipe", "pin"} -> Listings \union {None}]
  /\ forked \subseteq {"capability", "recipe"}
  /\ listing \in [Processes -> Listings \union {None}]
  /\ catalog \in [Processes -> SUBSET Entries]
  /\ racing \in BOOLEAN

Init ==
  /\ ConfigInit
  /\ lock = {} /\ registry = {} /\ temporary = Absent /\ applied = {}
  /\ module = [f \in {"capability", "recipe", "pin"} |-> None]
  /\ forked = {}
  /\ listing = [p \in Processes |-> None]
  /\ catalog = [p \in Processes |-> {}]
  /\ racing = FALSE

-----------------------------------------------------------------------------
Continue(p, place) == Goto(p, place) /\ UNCHANGED <<then, draft, session, late, exit>>

StartTree(p) ==
  /\ \/ \E c \in {"apply", "preview", "prune"} : Begin(p, c, "scope")
     \/ \E c \in {"publish", "unpublish"} : Begin(p, c, IF c = "publish" THEN "load" ELSE "session")
     \/ \E c \in {"install", "fork"} : Begin(p, c, "listing")
  /\ scope' = [scope EXCEPT ![p] = NoContext]
  /\ then' = [then EXCEPT ![p] = IF cmd'[p] \in {"publish", "unpublish"} THEN "publish" ELSE "none"]
  /\ catalog' = [catalog EXCEPT ![p] = {}]
  /\ UNCHANGED <<fileVars, server, draft, session, late, faults, lock, registry, temporary,
                 module, forked, listing, applied, racing>>

-----------------------------------------------------------------------------
(* reconcileInput: the Context, the Session, the catalog, the lock.        *)

ReadContext(p) ==
  /\ pc[p] = "scope"
  /\ scope' = [scope EXCEPT ![p] = profile.context]
  /\ IF profile.context.space = "none"
     THEN Leave(p, "contract")
     ELSE IF IsLocal(profile.context)
     THEN Goto(p, "load") /\ UNCHANGED <<then, draft, session, late, exit>>
     ELSE LoadSession(p, "load") /\ UNCHANGED <<draft, session, late, exit>>
  /\ UNCHANGED <<fileVars, cmd, server, countVars, treeVars>>

SingleRevision(t) == \A d, e \in t : d[1] = e[1] => d = e

(* A tree may be invalid, and so may the manifest of the Space.            *)
LoadCatalog(p) ==
  /\ pc[p] = "load"
  /\ \/ /\ cmd[p] = "publish" /\ LoadSession(p, "publish")
        /\ UNCHANGED <<catalog, draft, session, late, exit, faults>>
     \/ /\ cmd[p] # "publish"
        /\ \E t \in Trees :
             /\ SingleRevision(t)
             /\ catalog' = [catalog EXCEPT ![p] = t]
        /\ Goto(p, "verify lock") /\ UNCHANGED <<then, draft, session, late, exit, faults>>
     \/ /\ \E t \in Trees : ~SingleRevision(t)
        /\ Leave(p, "contract") /\ UNCHANGED <<catalog, faults>>
  /\ UNCHANGED <<fileVars, cmd, server, scope, overlapped, commands, lock, registry, temporary,
                 module, forked, listing, applied, racing>>

(* Mutant: only versions are compared.                                     *)
VerifyVersions(existing, desired) ==
  \A e \in existing, d \in desired : e[1] = d[1] => e[2] <= d[2]

(* Changing the bytes of a pinned name and version is refused.             *)
Verify(existing, desired) ==
  \A e \in existing, d \in desired : e[1] = d[1] /\ e[2] = d[2] => e = d

VerifyLock(p) ==
  /\ pc[p] = "verify lock"
  /\ IF Verify(lock, catalog[p])
     THEN /\ Goto(p, CASE cmd[p] = "apply" -> "prepare"
                       [] cmd[p] = "prune" -> "prune"
                       [] OTHER -> IF IsLocal(scope[p]) THEN "registry" ELSE "preview")
          /\ UNCHANGED <<then, draft, session, late, exit>>
     ELSE Leave(p, "contract")
  /\ UNCHANGED <<fileVars, cmd, server, scope, countVars, treeVars>>

(* The Cloud answers with its changes, which may contain conflicts.        *)
Preview(p) ==
  /\ pc[p] = "preview"
  /\ \/ \E code \in {"success", "contract"} : Leave(p, code) /\ UNCHANGED faults
     \/ Leave(p, "operational") /\ Fault
  /\ UNCHANGED <<fileVars, cmd, server, scope, overlapped, commands, treeVars>>

(* With or without --yes one request; there is no server to prune at in    *)
(* the local Organization.                                                 *)
Prune(p) ==
  /\ pc[p] = "prune"
  /\ IF IsLocal(scope[p])
     THEN Leave(p, "operational") /\ UNCHANGED faults
     ELSE \/ Leave(p, "success") /\ UNCHANGED faults
          \/ \E code \in {"contract", "operational"} : Leave(p, code) /\ Fault
  /\ UNCHANGED <<fileVars, cmd, server, scope, overlapped, commands, treeVars>>

-----------------------------------------------------------------------------
(* apply: the lock is written beside its place, then the registry, then    *)
(* the lock is renamed into place.                                         *)

Prepare(p) ==
  /\ pc[p] = "prepare"
  /\ \/ /\ Goto(p, IF IsLocal(scope[p]) THEN "registry" ELSE "send")
        /\ UNCHANGED <<then, draft, session, late, exit, faults>>
     \/ Leave(p, "operational") /\ Fault
  /\ UNCHANGED <<fileVars, cmd, server, scope, overlapped, commands, lock, registry, temporary,
                 module, forked, listing, catalog, applied, racing>>

(* What the client makes of the answer to a reconciliation: it is          *)
(* confirmed; or it is an error or the answer is lost, when the Cloud may  *)
(* have applied it all the same; or it is a conflict.                      *)
Reconciled(p, answer) ==
  CASE answer = "applied" -> applied' = applied \union catalog[p] /\ UNCHANGED faults
    [] answer = "operational" -> applied' \in {applied, applied \union catalog[p]} /\ Fault
    [] answer = "contract" -> UNCHANGED applied /\ Fault

Apply(p) ==
  /\ pc[p] = "send"
  /\ \E answer \in {"applied", "operational", "contract"} :
       /\ Reconciled(p, answer)
       /\ IF answer = "applied" THEN Continue(p, "commit") ELSE Leave(p, answer)
  /\ UNCHANGED <<fileVars, cmd, server, scope, overlapped, commands, lock, registry, temporary,
                 module, forked, listing, catalog, racing>>

LoadRegistry(p) ==
  /\ pc[p] = "registry"
  /\ IF registry = Torn THEN Leave(p, "operational")
     ELSE IF cmd[p] = "apply" THEN Continue(p, "truncate") ELSE Leave(p, "success")
  /\ UNCHANGED <<fileVars, cmd, server, scope, countVars, lock, registry, temporary, module,
                 forked, listing, catalog, applied, racing>>

(* Mutant: the registry is written in place.                               *)
TruncateInPlace(p) ==
  /\ pc[p] = "truncate"
  /\ registry' = Torn
  /\ Continue(p, "write")
  /\ UNCHANGED <<fileVars, cmd, server, scope, countVars, lock, temporary, module, forked, listing,
                 catalog, applied, racing>>

(* WriteFile truncates the temporary file, whose name is always the same,  *)
(* and then writes it.                                                     *)
TruncateTemporary(p) ==
  /\ pc[p] = "truncate"
  /\ temporary' = Torn
  /\ racing' = (racing \/ \E q \in Processes : pc[q] \in {"write", "rename"})
  /\ Continue(p, "write")
  /\ UNCHANGED <<fileVars, cmd, server, scope, countVars, lock, registry, module, forked, listing,
                 catalog, applied>>

(* The open file may have become the registry: another apply renamed it.   *)
WriteTemporary(p) ==
  /\ pc[p] = "write"
  /\ \/ /\ IF temporary = Absent
           THEN registry' = catalog[p] /\ applied' = applied \union catalog[p] /\ UNCHANGED temporary
           ELSE temporary' = catalog[p] /\ UNCHANGED <<registry, applied>>
        /\ Continue(p, "rename") /\ UNCHANGED faults
     \/ UNCHANGED <<registry, temporary, applied>> /\ Leave(p, "operational") /\ Fault
  /\ UNCHANGED <<fileVars, cmd, server, scope, overlapped, commands, lock, module,
                 forked, listing, catalog, racing>>

(* The file may be gone: another apply has renamed it.                     *)
RenameTemporary(p) ==
  /\ pc[p] = "rename"
  /\ IF temporary # Absent
     THEN /\ registry' = temporary
          /\ temporary' = Absent
          /\ applied' = IF temporary = Torn THEN applied ELSE applied \union temporary
          /\ Continue(p, "commit")
     ELSE Leave(p, "operational") /\ UNCHANGED <<registry, temporary, applied>>
  /\ UNCHANGED <<fileVars, cmd, server, scope, countVars, lock, module, forked, listing, catalog, racing>>

(* The lock holds the entries of this apply and no others; then the path   *)
(* of the working tree is recorded for the Space.                          *)
Commit(p) ==
  /\ pc[p] = "commit"
  /\ \/ /\ lock' = catalog[p]
        /\ Goto(p, "binding")
        /\ UNCHANGED <<then, draft, session, late, exit, faults>>
     \/ UNCHANGED lock /\ Leave(p, "operational") /\ Fault
  /\ UNCHANGED <<fileVars, cmd, server, scope, overlapped, commands, registry, temporary,
                 module, forked, listing, catalog, applied, racing>>

-----------------------------------------------------------------------------
(* The hub.                                                                *)

(* The Context is read after the Session.                                  *)
CloudOrganization(p) ==
  /\ pc[p] = "publish" /\ scope[p] = NoContext
  /\ scope' = [scope EXCEPT ![p] = profile.context]
  /\ IF IsLocal(profile.context) \/ ~HasContext
     THEN Leave(p, "contract") ELSE UNCHANGED <<pc, then, draft, session, late, exit>>
  /\ UNCHANGED <<fileVars, cmd, server, countVars, treeVars>>

WithoutYes(p) == Leave(p, "contract") /\ UNCHANGED faults

Publish(p) ==
  /\ pc[p] = "publish" /\ cmd[p] = "publish" /\ scope[p] # NoContext
  /\ Answered(p) \/ Unanswered(p) \/ WithoutYes(p)
  /\ UNCHANGED <<fileVars, cmd, server, scope, overlapped, commands, treeVars>>

Unpublish(p) ==
  /\ pc[p] = "publish" /\ cmd[p] = "unpublish" /\ scope[p] # NoContext
  /\ Answered(p) \/ Unanswered(p) \/ WithoutYes(p)
  /\ UNCHANGED <<fileVars, cmd, server, scope, overlapped, commands, treeVars>>

(* install replaces the files of the module but may ask for another        *)
(* version than the listing has; fork refuses to overwrite.                *)
GetHubListing(p) ==
  /\ pc[p] = "listing"
  /\ \/ /\ cmd[p] = "install" \/ forked = {}
        /\ \E l \in Listings : listing' = [listing EXCEPT ![p] = l]
        /\ Continue(p, "capability") /\ UNCHANGED faults
     \/ /\ cmd[p] = "install" \/ forked # {}
        /\ Leave(p, "contract") /\ UNCHANGED <<listing, faults>>
     \/ Leave(p, "operational") /\ UNCHANGED listing /\ Fault
  /\ UNCHANGED <<fileVars, cmd, server, scope, overlapped, commands, lock, registry, temporary,
                 module, forked, catalog, applied, racing>>

WriteFails(p) == Leave(p, "operational") /\ UNCHANGED <<module, forked>> /\ Fault

(* The Capability, the Recipe, and the pin beside them, over what is there. *)
Install(p) ==
  /\ cmd[p] = "install" /\ pc[p] \in {"capability", "recipe", "pin"}
  /\ \/ /\ module' = [module EXCEPT ![pc[p]] = listing[p]]
        /\ CASE pc[p] = "capability" -> Continue(p, "recipe")
             [] pc[p] = "recipe" -> Continue(p, "pin")
             [] pc[p] = "pin" -> Leave(p, "success")
        /\ UNCHANGED <<forked, faults>>
     \/ WriteFails(p)
  /\ UNCHANGED <<fileVars, cmd, server, scope, overlapped, commands, lock, registry, temporary,
                 listing, catalog, applied, racing>>

(* The Capability and the Recipe, among the person's own definitions.      *)
ForkListing(p) ==
  /\ cmd[p] = "fork" /\ pc[p] \in {"capability", "recipe"}
  /\ \/ /\ forked' = forked \union {pc[p]}
        /\ IF pc[p] = "capability" THEN Continue(p, "recipe") ELSE Leave(p, "success")
        /\ UNCHANGED <<module, faults>>
     \/ WriteFails(p)
  /\ UNCHANGED <<fileVars, cmd, server, scope, overlapped, commands, lock, registry, temporary,
                 listing, catalog, applied, racing>>

-----------------------------------------------------------------------------
(* A process that is killed leaves its temporary files behind.             *)
CrashTree(p) == Crash(p) /\ UNCHANGED treeVars

TreeStep(p) ==
  \/ ReadContext(p) \/ LoadCatalog(p) \/ VerifyLock(p) \/ Preview(p) \/ Prune(p) \/ Prepare(p) \/ Apply(p)
  \/ LoadRegistry(p) \/ TruncateTemporary(p) \/ WriteTemporary(p) \/ RenameTemporary(p)
  \/ Commit(p) \/ CloudOrganization(p) \/ Publish(p) \/ Unpublish(p)
  \/ GetHubListing(p) \/ Install(p) \/ ForkListing(p)

Command(p) == TreeStep(p) \/ (Step(p) /\ UNCHANGED treeVars)

Next ==
  \/ \E p \in Processes :
       \/ Start(p) /\ UNCHANGED treeVars
       \/ StartTree(p) \/ Command(p) \/ CrashTree(p)
       \/ Deadline(p) /\ UNCHANGED treeVars

Spec == Init /\ [][Next]_vars

-----------------------------------------------------------------------------
(* Properties.                                                             *)

(* A stored token is sent to no server but the one that issued it, however *)
(* logins, logouts and crashes come between profile.json and               *)
(* credentials.json.                                                       *)
TokenGoesHome == \A p \in Processes : session[p] # None => session[p].token = session[p].server

(* Unless commands overlap, a Context or a binding chosen on one server is *)
(* never stored for, or used at, another one that has the same names.      *)
AtHome(context, s) == context.org \in {"none", "local"} \/ context.origin = s

ScopeGoesHome ==
  ~overlapped =>
    /\ AtHome(profile.context, profile.server)
    /\ \A b \in profile.bindings : AtHome(b, profile.server)
    /\ \A p \in Processes : session[p] # None => AtHome(scope[p], session[p].server)

(* A command that reports success has done all of its writes: login left a *)
(* Session, org use, space use and init their Context, apply a lock of     *)
(* what the registry took, install and fork a whole set of files.          *)
SuccessHolds ==
  ~overlapped => \A p \in Processes : exit[p] = "success" =>
    /\ cmd[p] \in {"login", "browser"} =>
         secret # None /\ {secret.server, profile.server} = {server[p]}
    /\ cmd[p] \in {"org", "space", "init"} => profile.context = scope[p]
    /\ cmd[p] = "apply" => lock = catalog[p] /\ catalog[p] \subseteq applied
    /\ cmd[p] = "install" => \A f \in DOMAIN module : module[f] = listing[p]
    /\ cmd[p] = "fork" => forked = {"capability", "recipe"}

(* doppels.lock pins nothing that no registry has accepted, and no crash   *)
(* leaves a local registry that cannot be read, unless two local applies   *)
(* meet in the temporary file of the registry.                             *)
PinsAreBacked == ~racing => lock \subseteq applied /\ registry # Torn

(* As long as applies do not overlap, the bytes of a pinned name and       *)
(* version never change from one lock to the next.                         *)
PinsAreKept ==
  [][~overlapped' => \A e \in lock, d \in lock' : e[1] = d[1] /\ e[2] = d[2] => e[3] = d[3]]_vars

=============================================================================
