--------------------------- MODULE Workspace_proofs ---------------------------
(***************************************************************************)
(* Proofs about Workspace and the commands of ConfigStore in it, for any   *)
(* servers, processes, contents of the tree, commands and failures.        *)
(*                                                                         *)
(* Four invariants.  Home is about the two files of the configuration: what *)
(* credentials.json holds was written as a whole, and a Session takes its  *)
(* server from the profile only if the credentials name the same one.      *)
(* IInv is about apply: what a process has read and verified still agrees  *)
(* with the lock, and what lies in the temporary file is its own, as long  *)
(* as nobody else is where it is.  ScopeInv is about Contexts: what a      *)
(* command has read, chosen or drafted fits the server of profile.json, or *)
(* the one of --server until a login has written it there.                 *)
(* DoneInv is about success: what the one running command has done when it *)
(* comes to a place, so that everything is done where it may report it.    *)
(***************************************************************************)
EXTENDS Workspace, TLAPS

-----------------------------------------------------------------------------
(* The Session.                                                            *)

Home ==
  /\ DOMAIN session = Processes
  /\ session = [p \in Processes |-> session[p]]
  /\ secret # None => secret.token = secret.server
  /\ TokenGoesHome

(* A Session is forgotten, kept, or made of the credentials that match.    *)
LEMMA SessionTaken ==
  ASSUME NEW p \in Processes,
         Step(p) \/ Start(p) \/ Crash(p) \/ Deadline(p)
  PROVE  \/ UNCHANGED session
         \/ session' = [session EXCEPT ![p] = None]
         \/ /\ secret # None /\ UNCHANGED secret
            /\ \E c : session' = [session EXCEPT ![p] =
                        [server |-> secret.server, token |-> secret.token, context |-> c]]
<1>1. CASE ReadSecret(p)
  BY <1>1 DEF ReadSecret, SecretMatches, Refused, Leave, fileVars
<1>2. CASE ReadProfile(p) \/ VerifyToken(p) \/ PollDeviceLogin(p) \/ Interval(p)
  BY <1>2 DEF ReadProfile, Refused, VerifyToken, PollDeviceLogin, Interval, Accepted, Leave
<1>3. CASE Login(p) \/ SaveSecret(p) \/ Logout(p) \/ ReadCurrent(p) \/ SetContext(p)
  BY <1>3 DEF Login, SaveSecret, Logout, ReadCurrent, SetContext, Leave
<1>4. CASE SetBinding(p) \/ SetTelemetry(p) \/ WriteProfile(p) \/ InitTree(p)
  BY <1>4 DEF SetBinding, SetTelemetry, WriteProfile, Saved, InitTree, Leave
<1>5. CASE WhoAmI(p) \/ Organizations(p) \/ SpacesList(p) \/ FlushOutbox(p)
  BY <1>5 DEF WhoAmI, Organizations, SpacesList, FlushOutbox, Answered, Unanswered, Leave
<1>6. CASE Start(p) \/ Crash(p) \/ Deadline(p)
  BY <1>6 DEF Start, Crash, Deadline, Leave
<1> QED
  BY <1>1, <1>2, <1>3, <1>4, <1>5, <1>6 DEF Step

(* credentials.json is written as a whole, by a login, or removed.         *)
LEMMA SecretWritten ==
  ASSUME NEW p \in Processes,
         Step(p) \/ Start(p) \/ Crash(p) \/ Deadline(p)
  PROVE  \/ UNCHANGED secret
         \/ secret' = None
         \/ secret' = [server |-> server[p], token |-> server[p]]
<1>1. CASE ReadSecret(p) \/ ReadProfile(p) \/ VerifyToken(p) \/ PollDeviceLogin(p) \/ Interval(p)
  BY <1>1 DEF ReadSecret, ReadProfile, VerifyToken, PollDeviceLogin, Interval, fileVars
<1>2. CASE Login(p) \/ SaveSecret(p) \/ Logout(p) \/ ReadCurrent(p) \/ SetContext(p)
  BY <1>2 DEF Login, SaveSecret, Logout, ReadCurrent, SetContext, fileVars
<1>3. CASE SetBinding(p) \/ SetTelemetry(p) \/ WriteProfile(p) \/ InitTree(p)
  BY <1>3 DEF SetBinding, SetTelemetry, WriteProfile, InitTree, fileVars
<1>4. CASE WhoAmI(p) \/ Organizations(p) \/ SpacesList(p) \/ FlushOutbox(p)
  BY <1>4 DEF WhoAmI, Organizations, SpacesList, FlushOutbox, fileVars
<1>5. CASE Start(p) \/ Crash(p) \/ Deadline(p)
  BY <1>5 DEF Start, Crash, Deadline, fileVars
<1> QED
  BY <1>1, <1>2, <1>3, <1>4, <1>5 DEF Step

(* The commands of the tree only end a Session.                            *)
LEMMA TreeForgets ==
  ASSUME NEW p \in Processes, TreeStep(p) \/ StartTree(p)
  PROVE  /\ UNCHANGED secret
         /\ UNCHANGED session \/ session' = [session EXCEPT ![p] = None]
<1> USE DEF Leave, Continue, fileVars
<1>1. CASE ReadContext(p) \/ LoadCatalog(p) \/ VerifyLock(p) \/ Preview(p) \/ Prune(p)
  BY <1>1 DEF ReadContext, LoadCatalog, VerifyLock, Preview, Prune, LoadSession
<1>2. CASE Prepare(p) \/ Apply(p) \/ LoadRegistry(p) \/ TruncateTemporary(p)
  BY <1>2 DEF Prepare, Apply, LoadRegistry, TruncateTemporary
<1>3. CASE WriteTemporary(p) \/ RenameTemporary(p) \/ Commit(p) \/ CloudOrganization(p)
  BY <1>3 DEF WriteTemporary, RenameTemporary, Commit, CloudOrganization
<1>4. CASE Publish(p) \/ Unpublish(p) \/ GetHubListing(p) \/ ForkListing(p) \/ StartTree(p)
  BY <1>4 DEF Publish, Unpublish, WithoutYes, Answered, Unanswered, GetHubListing, ForkListing,
              WriteFails, StartTree
<1>5. CASE Install(p)
  BY <1>5 DEF Install, WriteFails
<1> QED
  BY <1>1, <1>2, <1>3, <1>4, <1>5 DEF TreeStep

(* There is no Session at first.                                           *)
LEMMA HomeInitially == Init => Home
  BY DEF Init, ConfigInit, Home, TokenGoesHome

(* No step takes a token to another server.                                *)
LEMMA HomeKept == Home /\ [Next]_vars => Home'
<1> SUFFICES ASSUME Home, [Next]_vars PROVE Home'
  OBVIOUS
<1>1. CASE UNCHANGED vars
  BY <1>1 DEF vars, configVars, fileVars, procVars, Home, TokenGoesHome
<1>2. ASSUME NEW p \in Processes,
             UNCHANGED session \/ session' = [session EXCEPT ![p] = None],
             UNCHANGED secret \/ secret' = None \/
               secret' = [server |-> server[p], token |-> server[p]]
      PROVE  Home'
  BY <1>2 DEF Home, TokenGoesHome
<1>3. ASSUME NEW p \in Processes, secret # None, UNCHANGED secret, NEW c,
             session' = [session EXCEPT ![p] =
               [server |-> secret.server, token |-> secret.token, context |-> c]]
      PROVE  Home'
  BY <1>3 DEF Home, TokenGoesHome
<1>4. ASSUME NEW p \in Processes, Step(p) \/ Start(p) \/ Crash(p) \/ Deadline(p)
      PROVE  Home'
  BY <1>2, <1>3, <1>4, SessionTaken, SecretWritten
<1>5. ASSUME NEW p \in Processes, TreeStep(p) \/ StartTree(p)
      PROVE  Home'
  BY <1>2, <1>5, TreeForgets
<1> QED
  BY <1>1, <1>4, <1>5 DEF Next, Command, CrashTree

(* And so it always is.                                                    *)
LEMMA AlwaysHome == Spec => []Home
  BY HomeInitially, HomeKept, PTL DEF Spec

(* A stored token is sent to no server but the one that issued it.         *)
THEOREM TokensGoHome == Spec => []TokenGoesHome
<1>1. Home => TokenGoesHome
  BY DEF Home
<1> QED
  BY <1>1, AlwaysHome, PTL

-----------------------------------------------------------------------------
(* apply.                                                                  *)

(* The places where a process works with a catalog it has loaded, those    *)
(* where it has verified it against the lock, and those where it is in the *)
(* temporary file of the local registry.                                   *)
Verified == {"prepare", "send", "preview", "prune", "registry", "truncate", "write", "rename",
             "commit"}
Loaded   == Verified \union {"verify lock"}
Inside   == {"write", "rename"}

Thens == {"none", "ask", "flush", "context", "load", "publish"}

(* Where a process may be; what it does after loading the Session is never *)
(* in the middle of an apply.                                              *)
Placed ==
  /\ pc \in [Processes -> Places]
  /\ then \in [Processes -> Thens]
  /\ catalog \in [Processes -> SUBSET Entries]
  /\ DOMAIN cmd = Processes
  /\ \A p \in Processes : pc[p] \in {"session", "secret"} => then[p] # "none"

Alone(P, S) == \A p, q \in Processes : P[p] \in S /\ P[q] \in S => p = q

(* What a process has read, verified, written and sent still holds.        *)
Applying(p) ==
  /\ pc[p] \in Loaded => catalog[p] \in Trees /\ SingleRevision(catalog[p])
  /\ ~overlapped /\ pc[p] \in Verified => Verify(lock, catalog[p])
  /\ ~racing /\ pc[p] = "write" => temporary = Torn
  /\ ~racing /\ pc[p] = "rename" => temporary = catalog[p]
  /\ ~racing /\ pc[p] = "commit" => catalog[p] \subseteq applied

IInv ==
  /\ Placed
  /\ overlapped \in BOOLEAN /\ racing \in BOOLEAN
  /\ ~overlapped => Alone(pc, Places \ {"idle"})
  /\ ~racing => Alone(pc, Inside)
  /\ \A p \in Processes : Applying(p)
  /\ PinsAreBacked /\ SingleRevision(lock)

(* A step of p that does not touch what apply writes and leaves p where it *)
(* claims nothing about it.                                                *)
Moves(p) ==
  /\ pc' = [pc EXCEPT ![p] = pc'[p]]
  /\ then' = [then EXCEPT ![p] = then'[p]]
  /\ pc'[p] \in Places \ Loaded
  /\ then'[p] \in Thens
  /\ DOMAIN cmd' = Processes
  /\ pc'[p] \in {"session", "secret"} => then'[p] # "none"
  /\ overlapped' = (overlapped \/ (pc[p] = "idle" /\ \E q \in Processes : pc[q] # "idle"))

(* A command starts somewhere, and what it overlaps with is noticed.       *)
LEMMA Begins ==
  ASSUME Placed, NEW p \in Processes, NEW c, NEW place \in Places, Begin(p, c, place)
  PROVE  /\ pc' = [pc EXCEPT ![p] = pc'[p]] /\ pc'[p] = place
         /\ cmd' = [cmd EXCEPT ![p] = c] /\ cmd'[p] = c /\ DOMAIN cmd' = Processes
         /\ overlapped' = (overlapped \/ (pc[p] = "idle" /\ \E q \in Processes : pc[q] # "idle"))
<1>1. pc[p] = "idle" /\ pc' = [pc EXCEPT ![p] = place] /\ cmd' = [cmd EXCEPT ![p] = c]
  BY DEF Begin, Goto
<1>2. overlapped' = (overlapped \/ \E q \in Processes : pc[q] # "idle")
  BY DEF Begin
<1> QED
  BY <1>1, <1>2 DEF Placed

(* The commands of ConfigStore never come into the middle of an apply,     *)
LEMMA ConfigMoves ==
  ASSUME Placed, NEW p \in Processes, overlapped \in BOOLEAN,
         Step(p) \/ Start(p) \/ Crash(p) \/ Deadline(p)
  PROVE  Moves(p)
<1> USE DEF Placed, Moves, Loaded, Verified, Places, ConfigPlaces, Thens, Goto, Leave, countVars
<1>1. CASE ReadSecret(p) \/ ReadProfile(p)
  BY <1>1 DEF ReadSecret, ReadProfile, Refused
<1>2. CASE VerifyToken(p) \/ PollDeviceLogin(p) \/ Interval(p)
  BY <1>2 DEF VerifyToken, PollDeviceLogin, Interval, Accepted
<1>3. CASE Login(p) \/ SaveSecret(p) \/ Logout(p)
  BY <1>3 DEF Login, SaveSecret, Logout, LoadSession
<1>4. CASE ReadCurrent(p) \/ SetContext(p)
  BY <1>4 DEF ReadCurrent, SetContext, LoadSession
<1>5. CASE SetBinding(p) \/ SetTelemetry(p)
  BY <1>5 DEF SetBinding, SetTelemetry
<1>6. CASE WriteProfile(p)
  BY <1>6 DEF WriteProfile, Saved, LoadSession
<1>7. CASE WhoAmI(p) \/ Organizations(p) \/ SpacesList(p) \/ FlushOutbox(p) \/ InitTree(p)
  BY <1>7 DEF WhoAmI, Organizations, SpacesList, FlushOutbox, InitTree, Answered, Unanswered
<1>8. CASE Start(p)
  <2>1. \A c \in DOMAIN FirstPlace :
          /\ FirstPlace[c] \in Places \ Loaded
          /\ FirstPlace[c] = "session" => c \in Questions
          /\ FirstPlace[c] # "secret"
    BY DEF FirstPlace, Questions
  <2>2. PICK c \in DOMAIN FirstPlace : Begin(p, c, FirstPlace[c])
    BY <1>8 DEF Start
  <2>3. then' = [then EXCEPT ![p] = IF cmd'[p] \in Questions THEN "ask" ELSE "none"]
    BY <1>8 DEF Start
  <2>4. /\ pc' = [pc EXCEPT ![p] = pc'[p]] /\ pc'[p] = FirstPlace[c]
        /\ cmd'[p] = c /\ DOMAIN cmd' = Processes
        /\ overlapped' = (overlapped \/ (pc[p] = "idle" /\ \E q \in Processes : pc[q] # "idle"))
    <3> HIDE DEF Placed, Places
    <3>1. FirstPlace[c] \in Places
      BY <2>1
    <3> QED
      BY <2>2, <3>1, Begins
  <2>5. then'[p] \in Thens /\ then' = [then EXCEPT ![p] = then'[p]]
    BY <2>3
  <2>6. pc'[p] \in {"session", "secret"} => then'[p] # "none"
    BY <2>1, <2>3, <2>4
  <2> QED
    BY <2>1, <2>4, <2>5, <2>6
<1>9. CASE Crash(p) \/ Deadline(p)
  BY <1>9 DEF Crash, Deadline
<1> QED
  BY <1>1, <1>2, <1>3, <1>4, <1>5, <1>6, <1>7, <1>8, <1>9 DEF Step

(* nor do the other commands of the tree.                                  *)
LEMMA TreeMoves ==
  ASSUME Placed, NEW p \in Processes, overlapped \in BOOLEAN,
         \/ StartTree(p) \/ ReadContext(p) \/ CloudOrganization(p) \/ Publish(p) \/ Unpublish(p)
         \/ GetHubListing(p) \/ Install(p) \/ ForkListing(p)
  PROVE  /\ Moves(p)
         /\ UNCHANGED <<lock, registry, temporary, applied, racing>>
         /\ catalog' = [catalog EXCEPT ![p] = catalog'[p]] /\ catalog'[p] \subseteq Entries
<1> USE DEF Placed, Moves, Loaded, Verified, Places, ConfigPlaces, Thens, Goto, Leave, Continue,
            countVars, treeVars
<1>1. CASE StartTree(p)
  <2>1. PICK c \in {"apply", "preview", "prune", "publish", "unpublish", "install", "fork"},
               place \in {"scope", "load", "session", "listing"} :
          Begin(p, c, place) /\ (place = "session" => c = "unpublish")
    BY <1>1 DEF StartTree
  <2>2. /\ then' = [then EXCEPT ![p] = IF cmd'[p] \in {"publish", "unpublish"} THEN "publish" ELSE "none"]
        /\ catalog' = [catalog EXCEPT ![p] = {}]
        /\ UNCHANGED <<lock, registry, temporary, applied, racing>>
    BY <1>1 DEF StartTree
  <2>3. /\ pc' = [pc EXCEPT ![p] = pc'[p]] /\ pc'[p] = place
        /\ cmd'[p] = c /\ DOMAIN cmd' = Processes
        /\ overlapped' = (overlapped \/ (pc[p] = "idle" /\ \E q \in Processes : pc[q] # "idle"))
    <3>1. place \in Places
      OBVIOUS
    <3> HIDE DEF Placed, Places
    <3> QED
      BY <2>1, <3>1, Begins
  <2>4. then'[p] \in Thens /\ then' = [then EXCEPT ![p] = then'[p]]
    BY <2>2
  <2>5. pc'[p] \in {"session", "secret"} => then'[p] # "none"
    BY <2>1, <2>2, <2>3
  <2>6. catalog' = [catalog EXCEPT ![p] = catalog'[p]] /\ catalog'[p] \subseteq Entries
    BY <2>2
  <2> QED
    BY <2>1, <2>2, <2>3, <2>4, <2>5, <2>6
<1>2. CASE ReadContext(p)
  BY <1>2 DEF ReadContext, LoadSession
<1>3. CASE CloudOrganization(p)
  BY <1>3 DEF CloudOrganization
<1>4. CASE Publish(p) \/ Unpublish(p)
  BY <1>4 DEF Publish, Unpublish, WithoutYes, Answered, Unanswered
<1>5. CASE GetHubListing(p)
  BY <1>5 DEF GetHubListing
<1>6. CASE Install(p)
  BY <1>6 DEF Install, WriteFails
<1>7. CASE ForkListing(p)
  BY <1>7 DEF ForkListing, WriteFails
<1> QED
  BY <1>1, <1>2, <1>3, <1>4, <1>5, <1>6, <1>7

(* A step of p within an apply.                                            *)
LEMMA ApplyMoves ==
  ASSUME Placed, NEW p \in Processes,
         \/ LoadCatalog(p) \/ VerifyLock(p) \/ Preview(p) \/ Prune(p) \/ Prepare(p) \/ Apply(p)
         \/ LoadRegistry(p) \/ TruncateTemporary(p) \/ WriteTemporary(p) \/ RenameTemporary(p)
         \/ Commit(p)
  PROVE  /\ Placed'
         /\ pc' = [pc EXCEPT ![p] = pc'[p]]
         /\ pc[p] \in Loaded \union {"load"}
         /\ UNCHANGED overlapped
<1> USE DEF Placed, Loaded, Verified, Places, ConfigPlaces, Thens, Goto, Leave, Continue,
            countVars, treeVars
<1>1. CASE LoadCatalog(p)
  BY <1>1 DEF LoadCatalog, LoadSession, Entries
<1>2. CASE VerifyLock(p)
  BY <1>2 DEF VerifyLock
<1>3. CASE Preview(p) \/ Prune(p) \/ Prepare(p)
  BY <1>3 DEF Preview, Prune, Prepare
<1>4. CASE Apply(p)
  BY <1>4 DEF Apply
<1>5. CASE LoadRegistry(p) \/ TruncateTemporary(p)
  BY <1>5 DEF LoadRegistry, TruncateTemporary
<1>6. CASE WriteTemporary(p) \/ RenameTemporary(p)
  BY <1>6 DEF WriteTemporary, RenameTemporary
<1>7. CASE Commit(p)
  BY <1>7 DEF Commit
<1> QED
  BY <1>1, <1>2, <1>3, <1>4, <1>5, <1>6, <1>7

(* Everything outside an apply keeps IInv.                                 *)
LEMMA MovesKeeps ==
  ASSUME IInv, NEW p \in Processes, Moves(p),
         UNCHANGED <<lock, registry, temporary, applied, racing>>,
         catalog' = [catalog EXCEPT ![p] = catalog'[p]], catalog'[p] \subseteq Entries
  PROVE  IInv'
<1>1. Placed'
  BY DEF IInv, Placed, Moves
<1>2. overlapped' \in BOOLEAN /\ racing' \in BOOLEAN
  BY DEF IInv, Moves
<1>3. ~overlapped' => Alone(pc', Places \ {"idle"})
  <2> SUFFICES ASSUME ~overlapped', NEW q \in Processes, NEW r \in Processes,
                      pc'[q] # "idle", pc'[r] # "idle"
               PROVE  q = r
    BY DEF Alone
  <2>1. ~overlapped /\ (pc[p] # "idle" \/ \A o \in Processes : pc[o] = "idle")
    BY DEF Moves
  <2>2. \A o \in Processes : o # p => pc'[o] = pc[o] /\ pc[o] \in Places
    BY DEF Moves, IInv, Placed
  <2> QED
    BY <2>1, <2>2 DEF IInv, Alone, Placed
<1>4. ~racing' => Alone(pc', Inside)
  BY DEF IInv, Placed, Moves, Alone, Inside, Loaded, Verified
<1>5. ASSUME NEW q \in Processes
      PROVE  Applying(q)'
  <2>1. CASE q = p
    BY <2>1 DEF Applying, Moves, Loaded, Verified
  <2>2. CASE q # p
    <3>1. pc'[q] = pc[q] /\ catalog'[q] = catalog[q] /\ Applying(q) /\ (~overlapped' => ~overlapped)
      BY <2>2 DEF IInv, Placed, Moves
    <3> QED
      BY <3>1 DEF Applying
  <2> QED
    BY <2>1, <2>2
<1>6. PinsAreBacked'
  BY DEF IInv, PinsAreBacked
<1> QED
  BY <1>1, <1>2, <1>3, <1>4, <1>5, <1>6 DEF IInv

(* Alone in a set of places, a process stays alone when only it moves, and *)
(* there is nobody else where it goes.                                     *)
LEMMA StaysAlone ==
  ASSUME Placed, NEW p \in Processes, NEW S, Alone(pc, S),
         pc' = [pc EXCEPT ![p] = pc'[p]], pc[p] \in S \/ pc'[p] \notin S
  PROVE  Alone(pc', S)
  BY DEF Placed, Alone

(* A step within an apply keeps IInv if it keeps what others rely on.      *)
LEMMA ApplyingKeeps ==
  ASSUME IInv, NEW p \in Processes, Placed', UNCHANGED overlapped, racing' \in BOOLEAN,
         pc' = [pc EXCEPT ![p] = pc'[p]], pc[p] # "idle",
         catalog' = [catalog EXCEPT ![p] = catalog'[p]],
         racing => racing',
         lock' = lock \/ pc[p] \in Verified,
         temporary' = temporary \/ racing' \/
           \A q \in Processes \ {p} : pc[q] \notin Inside,
         applied \subseteq applied',
         ~racing' => Alone(pc', Inside),
         Applying(p)', PinsAreBacked', SingleRevision(lock')
  PROVE  IInv'
<1>1. ~overlapped' => Alone(pc', Places \ {"idle"})
  BY StaysAlone DEF IInv, Placed
<1>2. ASSUME NEW q \in Processes, q # p
      PROVE  Applying(q)'
  <2>1. pc'[q] = pc[q] /\ catalog'[q] = catalog[q] /\ Applying(q) /\ pc[q] \in Places
    BY <1>2 DEF IInv, Placed
  <2>2. ~overlapped /\ pc[q] \in Verified => lock' = lock
    BY <1>2, <2>1 DEF IInv, Placed, Alone, Verified
  <2>3. ~racing' /\ pc[q] \in Inside => temporary' = temporary /\ ~racing
    BY <1>2
  <2> QED
    BY <2>1, <2>2, <2>3 DEF Applying, Inside
<1> QED
  BY <1>1, <1>2 DEF IInv

(* The steps of an apply.                                                  *)
LEMMA ApplyKeeps ==
  ASSUME IInv, NEW p \in Processes,
         \/ LoadCatalog(p) \/ VerifyLock(p) \/ Preview(p) \/ Prune(p) \/ Prepare(p) \/ Apply(p)
         \/ LoadRegistry(p) \/ TruncateTemporary(p) \/ WriteTemporary(p) \/ RenameTemporary(p)
         \/ Commit(p)
  PROVE  IInv'
<1> USE DEF Goto, Leave, Continue, countVars, treeVars
<1>0. /\ Placed /\ Applying(p) /\ PinsAreBacked /\ SingleRevision(lock) /\ racing \in BOOLEAN
      /\ overlapped \in BOOLEAN /\ (~racing => Alone(pc, Inside))
  BY DEF IInv
<1>m. /\ Placed' /\ UNCHANGED overlapped /\ pc' = [pc EXCEPT ![p] = pc'[p]]
      /\ pc[p] \in Loaded \union {"load"} /\ pc[p] # "idle"
  BY <1>0, ApplyMoves DEF Loaded, Verified
<1>1. CASE LoadCatalog(p)
  <2>1. /\ UNCHANGED <<lock, registry, temporary, applied, racing>>
        /\ catalog' = [catalog EXCEPT ![p] = catalog'[p]]
        /\ pc'[p] \in {"session", "idle"} \/ (pc'[p] = "verify lock" /\ catalog'[p] \in Trees /\ SingleRevision(catalog'[p]))
    BY <1>0, <1>1 DEF LoadCatalog, LoadSession, Placed
  <2>2. Alone(pc', Inside)  \/ racing'
    BY <1>0, <1>m, <2>1, StaysAlone DEF Inside
  <2>3. Applying(p)' /\ PinsAreBacked' /\ SingleRevision(lock')
    BY <1>0, <2>1 DEF Applying, PinsAreBacked, Loaded, Verified
  <2> QED
    BY <1>0, <1>m, <2>1, <2>2, <2>3, ApplyingKeeps
<1>2. CASE VerifyLock(p) \/ Preview(p) \/ Prune(p) \/ Prepare(p) \/ LoadRegistry(p)
  <2>1. /\ UNCHANGED <<lock, registry, temporary, applied, racing, catalog>>
        /\ \/ pc'[p] = "idle"
           \/ pc[p] = "verify lock" /\ Verify(lock, catalog[p])
           \/ pc[p] \in Verified
        /\ pc'[p] \in {"idle", "prepare", "prune", "registry", "preview", "send", "truncate"}
    BY <1>0, <1>2 DEF VerifyLock, Preview, Prune, Prepare, LoadRegistry, Placed, Verified
  <2>2. Alone(pc', Inside) \/ racing'
    BY <1>0, <1>m, <2>1, StaysAlone DEF Inside
  <2>3. Applying(p)' /\ PinsAreBacked' /\ SingleRevision(lock')
    BY <1>0, <1>m, <2>1 DEF Applying, PinsAreBacked, Loaded, Verified
  <2>4. catalog' = [catalog EXCEPT ![p] = catalog'[p]]
    BY <1>0, <2>1 DEF Placed
  <2> QED
    BY <1>0, <1>m, <2>1, <2>2, <2>3, <2>4, ApplyingKeeps
<1>3. CASE Apply(p)
  <2>1. /\ UNCHANGED <<lock, registry, temporary, racing, catalog>> /\ pc[p] = "send"
        /\ applied' \in {applied, applied \union catalog[p]}
        /\ pc'[p] = "idle" \/ (pc'[p] = "commit" /\ applied' = applied \union catalog[p])
    BY <1>0, <1>3 DEF Apply, Reconciled, Placed
  <2>2. Alone(pc', Inside) \/ racing'
    BY <1>0, <1>m, <2>1, StaysAlone DEF Inside
  <2>3. Applying(p)' /\ PinsAreBacked' /\ SingleRevision(lock')
    BY <1>0, <1>m, <2>1 DEF Applying, PinsAreBacked, Loaded, Verified
  <2>4. catalog' = [catalog EXCEPT ![p] = catalog'[p]]
    BY <1>0, <2>1 DEF Placed
  <2> QED
    BY <1>0, <1>m, <2>1, <2>2, <2>3, <2>4, ApplyingKeeps
<1>4. CASE TruncateTemporary(p)
  <2>1. /\ UNCHANGED <<lock, registry, applied, catalog>> /\ temporary' = Torn
        /\ pc[p] = "truncate" /\ pc'[p] = "write"
        /\ racing' = (racing \/ \E q \in Processes : pc[q] \in Inside)
    BY <1>0, <1>4 DEF TruncateTemporary, Placed, Inside
  <2>2. Alone(pc', Inside) \/ racing'
    BY <1>0, <1>m, <2>1 DEF Inside, Placed, Alone
  <2>3. Applying(p)' /\ PinsAreBacked' /\ SingleRevision(lock') /\ racing' \in BOOLEAN
    BY <1>0, <1>m, <2>1 DEF Applying, PinsAreBacked, Loaded, Verified
  <2>4. catalog' = [catalog EXCEPT ![p] = catalog'[p]]
    BY <1>0, <2>1 DEF Placed
  <2> QED
    BY <1>0, <1>m, <2>1, <2>2, <2>3, <2>4, ApplyingKeeps DEF Inside
<1>5. CASE WriteTemporary(p)
  <2>1. /\ UNCHANGED <<lock, racing, catalog>> /\ pc[p] = "write" /\ pc'[p] \in {"idle", "rename"}
        /\ applied \subseteq applied'
        /\ \/ pc'[p] = "idle" /\ UNCHANGED <<registry, temporary, applied>>
           \/ temporary # Absent /\ temporary' = catalog[p] /\ UNCHANGED <<registry, applied>>
           \/ temporary = Absent
    BY <1>0, <1>5 DEF WriteTemporary, Placed
  <2>2. Alone(pc', Inside) \/ racing'
    BY <1>0, <1>m, <2>1, StaysAlone DEF Inside
  <2>3. Applying(p)' /\ PinsAreBacked' /\ SingleRevision(lock')
    BY <1>0, <1>m, <2>1, WorkspaceAssumption DEF Applying, PinsAreBacked, Loaded, Verified
  <2>4. catalog' = [catalog EXCEPT ![p] = catalog'[p]]
    BY <1>0, <2>1 DEF Placed
  <2>5. racing' \/ \A q \in Processes \ {p} : pc[q] \notin Inside
    BY <1>0, <2>1 DEF Alone, Inside
  <2> QED
    BY <1>0, <1>m, <2>1, <2>2, <2>3, <2>4, <2>5, ApplyingKeeps
<1>6. CASE RenameTemporary(p)
  <2>1. /\ UNCHANGED <<lock, racing, catalog>> /\ pc[p] = "rename" /\ pc'[p] \in {"idle", "commit"}
        /\ applied \subseteq applied'
        /\ \/ pc'[p] = "idle" /\ UNCHANGED <<registry, temporary, applied>>
           \/ /\ temporary # Absent /\ registry' = temporary
              /\ temporary # Torn => applied' = applied \union temporary
    BY <1>0, <1>6 DEF RenameTemporary, Placed
  <2>2. Alone(pc', Inside) \/ racing'
    BY <1>0, <1>m, <2>1, StaysAlone DEF Inside
  <2>3. Applying(p)' /\ PinsAreBacked' /\ SingleRevision(lock')
    BY <1>0, <1>m, <2>1, WorkspaceAssumption DEF Applying, PinsAreBacked, Loaded, Verified
  <2>4. catalog' = [catalog EXCEPT ![p] = catalog'[p]]
    BY <1>0, <2>1 DEF Placed
  <2>5. racing' \/ \A q \in Processes \ {p} : pc[q] \notin Inside
    BY <1>0, <2>1 DEF Alone, Inside
  <2> QED
    BY <1>0, <1>m, <2>1, <2>2, <2>3, <2>4, <2>5, ApplyingKeeps
<1>7. CASE Commit(p)
  <2>1. /\ UNCHANGED <<registry, temporary, applied, racing, catalog>> /\ pc[p] = "commit"
        /\ pc'[p] \in {"idle", "binding"} /\ lock' \in {lock, catalog[p]}
    BY <1>0, <1>7 DEF Commit, Placed
  <2>2. Alone(pc', Inside) \/ racing'
    BY <1>0, <1>m, <2>1, StaysAlone DEF Inside
  <2>3. Applying(p)' /\ PinsAreBacked' /\ SingleRevision(lock')
    BY <1>0, <1>m, <2>1 DEF Applying, PinsAreBacked, Loaded, Verified
  <2>4. catalog' = [catalog EXCEPT ![p] = catalog'[p]]
    BY <1>0, <2>1 DEF Placed
  <2> QED
    BY <1>0, <1>m, <2>1, <2>2, <2>3, <2>4, ApplyingKeeps DEF Verified
<1> QED
  BY <1>1, <1>2, <1>3, <1>4, <1>5, <1>6, <1>7

(* IInv holds before the first command.                                    *)
LEMMA InitApplies == Init => IInv
<1> SUFFICES ASSUME Init PROVE IInv
  OBVIOUS
<1>1. Placed
  BY DEF Init, ConfigInit, Placed, Places, ConfigPlaces, Thens
<1>2. \A p \in Processes : pc[p] = "idle"
  BY DEF Init, ConfigInit
<1>3. \A p \in Processes : Applying(p)
  BY <1>2 DEF Applying, Loaded, Verified
<1>4. PinsAreBacked
  BY WorkspaceAssumption DEF Init, PinsAreBacked
<1> QED
  BY <1>1, <1>2, <1>3, <1>4 DEF IInv, Init, ConfigInit, Alone, Inside, SingleRevision

(* Every step keeps IInv.                                                  *)
LEMMA StepHolds == IInv /\ [Next]_vars => IInv'
<1> SUFFICES ASSUME IInv, [Next]_vars PROVE IInv'
  OBVIOUS
<1>0. Placed /\ overlapped \in BOOLEAN
  BY DEF IInv
<1>1. ASSUME NEW p \in Processes, Step(p) \/ Start(p) \/ Crash(p) \/ Deadline(p), UNCHANGED treeVars
      PROVE  IInv'
  <2>1. Moves(p)
    BY <1>0, <1>1, ConfigMoves
  <2>2. catalog' = [catalog EXCEPT ![p] = catalog'[p]] /\ catalog'[p] \subseteq Entries
    BY <1>0, <1>1 DEF treeVars, Placed
  <2> QED
    BY <1>1, <2>1, <2>2, MovesKeeps DEF treeVars
<1>2. ASSUME NEW p \in Processes,
             \/ StartTree(p) \/ ReadContext(p) \/ CloudOrganization(p) \/ Publish(p) \/ Unpublish(p)
             \/ GetHubListing(p) \/ Install(p) \/ ForkListing(p)
      PROVE  IInv'
  BY <1>0, <1>2, TreeMoves, MovesKeeps
<1>3. CASE UNCHANGED vars
  BY <1>3 DEF vars, configVars, procVars, countVars, treeVars, IInv, Placed, Alone, Applying, PinsAreBacked
<1> QED
  BY <1>1, <1>2, <1>3, ApplyKeeps DEF Next, Command, TreeStep, CrashTree

(* And so it always holds.                                                 *)
LEMMA Inductive == Spec => []IInv
  BY InitApplies, StepHolds, PTL DEF Spec

(* doppels.lock pins nothing that no registry has accepted, and no crash   *)
(* or failure between the temporary file, the registry and the lock leaves *)
(* a registry that cannot be read, unless two local applies have met in    *)
(* the temporary file.                                                     *)
THEOREM LockIsBacked == Spec => []PinsAreBacked
<1>1. IInv => PinsAreBacked
  BY DEF IInv
<1> QED
  BY <1>1, Inductive, PTL

(* As long as commands do not overlap, the bytes of a pinned name and      *)
(* version never change.                                                   *)
THEOREM LockIsKept == Spec => PinsAreKept
<1>1. IInv /\ [Next]_vars =>
        (~overlapped' => \A e \in lock, d \in lock' : e[1] = d[1] /\ e[2] = d[2] => e[3] = d[3])
  <2> SUFFICES ASSUME IInv, [Next]_vars, ~overlapped', NEW e \in lock, NEW d \in lock',
                      e[1] = d[1], e[2] = d[2]
               PROVE  e[3] = d[3]
    OBVIOUS
  <2>0. (\A p \in Processes : Applying(p)) /\ Placed /\ SingleRevision(lock)
    BY DEF IInv
  <2>1. ASSUME NEW p \in Processes, lock' = catalog[p], pc[p] = "commit", ~overlapped
        PROVE  e[3] = d[3]
    BY <2>0, <2>1 DEF Applying, Verified, Verify
  <2>2. CASE lock' = lock
    <3>1. e[1] = d[1] => d = e
      BY <2>0, <2>2 DEF SingleRevision
    <3> QED
      BY <3>1
  <2>3. ASSUME NEW p \in Processes, Commit(p)
        PROVE  lock' = lock \/ (lock' = catalog[p] /\ pc[p] = "commit" /\ ~overlapped)
    BY <2>3 DEF Commit
  <2>4. ASSUME NEW p \in Processes, TreeStep(p) \/ StartTree(p), ~Commit(p)
        PROVE  lock' = lock
    BY <2>4 DEF TreeStep, StartTree, ReadContext, LoadCatalog, VerifyLock, Preview, Prune, Prepare,
                Apply, LoadRegistry, TruncateTemporary, WriteTemporary, RenameTemporary,
                CloudOrganization, Publish, Unpublish, GetHubListing, Install, ForkListing, treeVars
  <2> QED
    BY <2>1, <2>2, <2>3, <2>4 DEF Next, Command, CrashTree, treeVars, vars
<1> QED
  BY <1>1, Inductive, PTL DEF Spec, PinsAreKept
-----------------------------------------------------------------------------
(* Contexts and bindings.  As long as commands do not overlap, the process *)
(* that runs works with a Context of the server it has in mind: the one of *)
(* --server in a login, the one of profile.json otherwise.                 *)

(* A Context of a Cloud Organization names the server it was chosen on.    *)
Fits(context, s) == AtHome(context, s) /\ (context.org \in {"none", "local"} \/ s # None)

HomeProfile(f) == Fits(f.context, f.server) /\ \A b \in f.bindings : Fits(b, f.server)

(* Where a login has not written the profile yet.                          *)
Entering == {"verify", "poll", "interval", "login", "saveLogin"}

(* Between the choice of a new Context and the Session that names its      *)
(* server.                                                                 *)
Choosing(p) == pc[p] \in {"session", "secret"} /\ then[p] = "context"

ScopeTypes ==
  /\ profile \in Profiles
  /\ draft \in [Processes -> Profiles]
  /\ scope \in [Processes -> Contexts]
  /\ server \in [Processes -> Servers \union {None}]

Scoped(p) ==
  /\ pc[p] \in Entering \union {"idle", "saveSecret", "current"} => session[p] = None
  /\ Choosing(p) => session[p] = None
  /\ pc[p] \in Entering \union {"saveSecret"} => server[p] # None
  /\ pc[p] \in {"login", "saveLogin", "saveSecret"} => Fits(scope[p], server[p])
  /\ pc[p] = "saveLogin" => HomeProfile(draft[p]) /\ draft[p].server = server[p]
  /\ pc[p] = "saveSecret" => profile.server = server[p]
  /\ pc[p] \in {"saveContext", "saveBinding", "saveTelemetry"} =>
       HomeProfile(draft[p]) /\ draft[p].server = profile.server
  /\ pc[p] = "secret" => draft[p] = profile /\ profile.server # None
  /\ session[p] # None => session[p].server = profile.server
  /\ pc[p] \notin Entering \union {"idle", "saveSecret"} =>
       Fits(scope[p], profile.server) \/ (Choosing(p) /\ scope[p].origin = None)

ScopeInv ==
  /\ ScopeTypes
  /\ ~overlapped => HomeProfile(profile) /\ \A p \in Processes : Scoped(p)

(* A step of p changes what is its own and the files only.                 *)
Own(p) ==
  /\ pc' = [pc EXCEPT ![p] = pc'[p]]
  /\ then' = [then EXCEPT ![p] = then'[p]]
  /\ draft' = [draft EXCEPT ![p] = draft'[p]]
  /\ scope' = [scope EXCEPT ![p] = scope'[p]]
  /\ server' = [server EXCEPT ![p] = server'[p]]
  /\ session' = [session EXCEPT ![p] = session'[p]]
  /\ overlapped' <=> (overlapped \/ (pc[p] = "idle" /\ \E q \in Processes : pc[q] # "idle"))

(* The other processes are idle then, so nothing is claimed about them.    *)
LEMMA OwnKeeps ==
  ASSUME IInv, Home, ScopeInv, NEW p \in Processes, Own(p), ScopeTypes',
         ~overlapped => HomeProfile(profile)' /\ Scoped(p)'
  PROVE  ScopeInv'
<1> SUFFICES ASSUME ~overlapped', NEW q \in Processes, q # p PROVE Scoped(q)'
  BY DEF ScopeInv, Own, IInv
<1>1. ~overlapped /\ (pc[p] = "idle" => \A r \in Processes : pc[r] = "idle")
  BY DEF Own, IInv
<1>2. pc[q] = "idle"
  <2>1. Alone(pc, Places \ {"idle"}) /\ pc[q] \in Places /\ pc[p] \in Places
    BY <1>1 DEF IInv, Placed
  <2> QED
    BY <1>1, <2>1 DEF Alone
<1>3. pc'[q] = "idle" /\ session'[q] = session[q]
  BY <1>2 DEF Own, IInv, Placed, Home
<1>4. session[q] = None
  BY <1>1, <1>2 DEF ScopeInv, Scoped
<1> QED
  BY <1>3, <1>4 DEF Scoped, Choosing, Entering

(* A command that ends claims nothing.                                     *)
LEMMA LeavesScoped ==
  ASSUME Home, Placed, ScopeTypes, NEW p \in Processes, NEW code, Leave(p, code), UNCHANGED server,
         \/ UNCHANGED scope
         \/ \E c \in Contexts : scope' = [scope EXCEPT ![p] = c],
         UNCHANGED overlapped, pc[p] # "idle", profile' \in Profiles
  PROVE  Own(p) /\ ScopeTypes' /\ Scoped(p)'
<1>1. Unconfigured \in Profiles
  BY DEF Unconfigured, Profiles, NoContext, Contexts, Orgs, Spaces
<1>2. /\ pc' = [pc EXCEPT ![p] = "idle"] /\ then' = [then EXCEPT ![p] = "none"]
      /\ draft' = [draft EXCEPT ![p] = Unconfigured] /\ session' = [session EXCEPT ![p] = None]
  BY DEF Leave, Goto
<1>3. /\ pc'[p] = "idle" /\ pc' = [pc EXCEPT ![p] = pc'[p]]
      /\ then' = [then EXCEPT ![p] = then'[p]]
      /\ session'[p] = None /\ session' = [session EXCEPT ![p] = session'[p]]
  BY <1>2 DEF Home, Placed
<1>4. /\ draft' = [draft EXCEPT ![p] = draft'[p]] /\ draft' \in [Processes -> Profiles]
      /\ server' = [server EXCEPT ![p] = server'[p]] /\ server' \in [Processes -> Servers \union {None}]
      /\ scope' = [scope EXCEPT ![p] = scope'[p]] /\ scope' \in [Processes -> Contexts]
  BY <1>1, <1>2 DEF ScopeTypes
<1>5. Own(p) /\ ScopeTypes'
  BY <1>3, <1>4 DEF Own, ScopeTypes
<1> QED
  BY <1>3, <1>5 DEF Scoped, Choosing, Entering

(* The commands of the control plane: the Session is made for the server   *)
(* of the profile,                                                         *)
LEMMA SessionScoped ==
  ASSUME Home, Placed, ScopeTypes, NEW p \in Processes,
         ReadProfile(p) \/ ReadSecret(p)
  PROVE  /\ Own(p) /\ ScopeTypes'
         /\ HomeProfile(profile) /\ Scoped(p) => HomeProfile(profile)' /\ Scoped(p)'
<1>1. CASE ReadProfile(p)
  <2>1. CASE profile.server = None
    BY <1>1, <2>1, LeavesScoped DEF ReadProfile, Refused, fileVars, countVars, ScopeTypes, HomeProfile
  <2>2. CASE profile.server # None
    <3>1. /\ pc' = [pc EXCEPT ![p] = "secret"] /\ draft' = [draft EXCEPT ![p] = profile]
          /\ pc[p] = "session" /\ UNCHANGED <<then, session, profile, server, scope, overlapped>>
      BY <1>1, <2>2 DEF ReadProfile, Goto, fileVars, countVars
    <3>2. Own(p) /\ ScopeTypes' /\ pc'[p] = "secret" /\ draft'[p] = profile
      BY <3>1 DEF Own, ScopeTypes, Home, Placed
    <3> QED
      BY <2>2, <3>1, <3>2 DEF Scoped, Choosing, Entering, HomeProfile
  <2> QED
    BY <2>1, <2>2
<1>2. CASE ReadSecret(p)
  <2>1. CASE ~SecretMatches(p)
    BY <1>2, <2>1, LeavesScoped DEF ReadSecret, Refused, fileVars, countVars, ScopeTypes, HomeProfile
  <2>2. CASE SecretMatches(p)
    <3> DEFINE new == [server |-> draft[p].server, token |-> secret.token, context |-> draft[p].context]
    <3>1. /\ pc' = [pc EXCEPT ![p] = then[p]] /\ session' = [session EXCEPT ![p] = new]
          /\ scope' = [scope EXCEPT ![p] = ScopeOfSession(p)]
          /\ pc[p] = "secret" /\ UNCHANGED <<then, draft, profile, server, overlapped>>
      BY <1>2, <2>2 DEF ReadSecret, Goto, fileVars, countVars
    <3>2. /\ draft[p].context \in Contexts /\ draft[p].server \in Servers \union {None}
          /\ scope[p] \in Contexts
      BY DEF ScopeTypes, Profiles
    <3>3. ScopeOfSession(p) \in Contexts
      BY <3>2 DEF ScopeOfSession, Contexts
    <3>4. /\ pc'[p] = then[p] /\ session'[p] = new /\ scope'[p] = ScopeOfSession(p)
          /\ new.server = draft[p].server /\ then[p] \in Thens \ {"none"}
      BY <3>1 DEF Home, Placed, ScopeTypes
    <3>5. Own(p) /\ ScopeTypes'
      BY <3>1, <3>3, <3>4 DEF Own, ScopeTypes, Home, Placed
    <3>6. ASSUME HomeProfile(profile), Scoped(p)
          PROVE  Fits(scope'[p], profile.server) /\ draft[p] = profile
      <4>1. /\ draft[p] = profile /\ profile.server # None
            /\ Fits(scope[p], profile.server) \/ (Choosing(p) /\ scope[p].origin = None)
        BY <3>1, <3>6 DEF Scoped, Entering
      <4>2. CASE then[p] = "context" /\ scope[p].origin = None
        BY <3>2, <3>4, <4>1, <4>2 DEF ScopeOfSession, Contexts, Fits, AtHome
      <4>3. CASE then[p] \in {"ask", "flush"}
        BY <3>4, <3>6, <4>1, <4>3 DEF ScopeOfSession, HomeProfile
      <4>4. CASE then[p] \notin {"ask", "flush"} /\ ~(then[p] = "context" /\ scope[p].origin = None)
        BY <3>4, <4>1, <4>4 DEF ScopeOfSession, Choosing
      <4> QED
        BY <4>1, <4>2, <4>3, <4>4
    <3> HIDE DEF new
    <3> QED
      BY <3>1, <3>4, <3>5, <3>6 DEF Scoped, Choosing, Entering, HomeProfile, Thens
  <2> QED
    BY <2>1, <2>2
<1> QED
  BY <1>1, <1>2

(* a login asks for a personal Context and drops those of another server,  *)
LEMMA LoginScoped ==
  ASSUME Home, Placed, ScopeTypes, NEW p \in Processes,
         \/ VerifyToken(p) \/ PollDeviceLogin(p) \/ Interval(p) \/ Deadline(p)
         \/ Login(p) \/ SaveSecret(p)
  PROVE  /\ Own(p) /\ ScopeTypes'
         /\ HomeProfile(profile) /\ Scoped(p) => HomeProfile(profile)' /\ Scoped(p)'
<1> DEFINE chosen == [org |-> "personal", space |-> "private", origin |-> server[p]]
<1>1. NoContext \in Contexts /\ chosen \in Contexts
  BY DEF NoContext, Contexts, Orgs, Spaces, ScopeTypes
<1>2. ASSUME Accepted(p), UNCHANGED <<profile, server, overlapped>>, pc[p] \in {"verify", "poll"}
      PROVE  /\ Own(p) /\ ScopeTypes'
             /\ HomeProfile(profile) /\ Scoped(p) => HomeProfile(profile)' /\ Scoped(p)'
  <2>1. PICK c \in {NoContext, chosen} : scope' = [scope EXCEPT ![p] = c]
    BY <1>2 DEF Accepted
  <2>2. pc' = [pc EXCEPT ![p] = "login"] /\ UNCHANGED <<then, draft, session>>
    BY <1>2 DEF Accepted, Goto
  <2>3. Own(p) /\ ScopeTypes' /\ pc'[p] = "login" /\ scope'[p] = c
    BY <1>1, <1>2, <2>1, <2>2 DEF Own, ScopeTypes, Home, Placed
  <2>4. server[p] # None => Fits(c, server[p])
    BY DEF Fits, AtHome, NoContext
  <2> QED
    BY <1>2, <2>2, <2>3, <2>4 DEF Scoped, Choosing, Entering, HomeProfile
<1>3. CASE VerifyToken(p)
  <2>1. CASE Accepted(p)
    BY <1>2, <1>3, <2>1 DEF VerifyToken, fileVars
  <2>2. CASE ~Accepted(p)
    BY <1>3, <2>2, LeavesScoped DEF VerifyToken, fileVars, HomeProfile, ScopeTypes
  <2> QED
    BY <2>1, <2>2
<1>4. ASSUME pc[p] \in {"poll", "interval"}, pc' = [pc EXCEPT ![p] = pc'[p]],
             pc'[p] \in {"poll", "interval"},
             UNCHANGED <<profile, then, draft, session, scope, server, overlapped>>
      PROVE  /\ Own(p) /\ ScopeTypes'
             /\ HomeProfile(profile) /\ Scoped(p) => HomeProfile(profile)' /\ Scoped(p)'
  <2>1. Own(p) /\ ScopeTypes'
    BY <1>4 DEF Own, ScopeTypes, Home, Placed
  <2> QED
    BY <1>4, <2>1 DEF Scoped, Choosing, Entering, HomeProfile
<1>5. CASE PollDeviceLogin(p)
  <2>1. CASE Accepted(p)
    BY <1>2, <1>5, <2>1 DEF PollDeviceLogin, fileVars
  <2>2. CASE Leave(p, "operational") /\ ~Accepted(p)
    BY <1>5, <2>2, LeavesScoped DEF PollDeviceLogin, fileVars, HomeProfile, ScopeTypes
  <2>3. CASE ~Accepted(p) /\ ~Leave(p, "operational")
    BY <1>4, <1>5, <2>3 DEF PollDeviceLogin, fileVars, Goto, Placed
  <2> QED
    BY <2>1, <2>2, <2>3
<1>6. CASE Interval(p)
  <2>1. CASE Leave(p, "interrupted")
    BY <1>6, <2>1, LeavesScoped DEF Interval, fileVars, HomeProfile, ScopeTypes
  <2>2. CASE ~Leave(p, "interrupted")
    BY <1>4, <1>6, <2>2 DEF Interval, fileVars, Goto, Placed
  <2> QED
    BY <2>1, <2>2
<1>7. CASE Deadline(p)
  BY <1>4, <1>7 DEF Deadline, fileVars, countVars, Placed
<1>8. CASE Login(p)
  <2>1. /\ pc' = [pc EXCEPT ![p] = "saveLogin"] /\ draft' = [draft EXCEPT ![p] = LoggedIn(p)]
        /\ pc[p] = "login" /\ UNCHANGED <<profile, then, session, scope, server, overlapped>>
    BY <1>8 DEF Login, Goto, fileVars, countVars
  <2>2. profile \in Profiles /\ server[p] \in Servers \union {None}
    BY DEF ScopeTypes
  <2>3. LoggedIn(p) \in Profiles /\ LoggedIn(p).server = server[p]
    BY <1>1, <2>2 DEF LoggedIn, Profiles
  <2>4. ASSUME HomeProfile(profile) PROVE HomeProfile(LoggedIn(p))
    <3>1. CASE profile.server = server[p]
      BY <2>2, <2>4, <3>1 DEF LoggedIn, HomeProfile, Profiles
    <3>2. CASE profile.server = None /\ server[p] # None
      BY <2>2, <2>4, <3>2 DEF LoggedIn, HomeProfile, Profiles, Fits, AtHome
    <3>3. CASE profile.server \notin {None, server[p]}
      BY <2>2, <3>3 DEF LoggedIn, HomeProfile, Profiles, Fits, AtHome, NoContext
    <3> QED
      BY <3>1, <3>2, <3>3
  <2>5. Own(p) /\ ScopeTypes' /\ pc'[p] = "saveLogin" /\ draft'[p] = LoggedIn(p)
    BY <2>1, <2>3 DEF Own, ScopeTypes, Home, Placed
  <2> QED
    BY <2>1, <2>3, <2>4, <2>5 DEF Scoped, Choosing, Entering, HomeProfile
<1>9. CASE SaveSecret(p)
  <2>1. CASE Leave(p, "operational")
    BY <1>9, <2>1, LeavesScoped DEF SaveSecret, HomeProfile, ScopeTypes
  <2>2. CASE ~Leave(p, "operational")
    <3>1. PICK place \in {"flush", "context"} :
            pc' = [pc EXCEPT ![p] = "session"] /\ then' = [then EXCEPT ![p] = place]
      BY <1>9, <2>2 DEF SaveSecret, LoadSession, Goto
    <3>2. pc[p] = "saveSecret" /\ UNCHANGED <<profile, draft, session, scope, server, overlapped>>
      BY <1>9, <2>2 DEF SaveSecret
    <3>3. Own(p) /\ ScopeTypes' /\ pc'[p] = "session"
      BY <3>1, <3>2 DEF Own, ScopeTypes, Home, Placed
    <3> QED
      BY <3>2, <3>3 DEF Scoped, Choosing, Entering, HomeProfile
  <2> QED
    BY <2>1, <2>2
<1> QED
  BY <1>3, <1>5, <1>6, <1>7, <1>8, <1>9

(* a command that changes the profile writes what belongs to its server,   *)
LEMMA DraftScoped ==
  ASSUME Home, Placed, ScopeTypes, NEW p \in Processes,
         SetContext(p) \/ SetBinding(p) \/ SetTelemetry(p)
  PROVE  /\ Own(p) /\ ScopeTypes'
         /\ HomeProfile(profile) /\ Scoped(p) => HomeProfile(profile)' /\ Scoped(p)'
<1>1. profile \in Profiles /\ scope[p] \in Contexts
  BY DEF ScopeTypes
<1>2. ASSUME NEW d \in Profiles, draft' = [draft EXCEPT ![p] = d],
             NEW place \in {"saveContext", "saveBinding", "saveTelemetry"},
             pc' = [pc EXCEPT ![p] = place], pc[p] \in {"context", "binding", "telemetry"},
             HomeProfile(profile) /\ Scoped(p) => HomeProfile(d) /\ d.server = profile.server,
             UNCHANGED <<profile, then, session, scope, server, overlapped>>
      PROVE  /\ Own(p) /\ ScopeTypes'
             /\ HomeProfile(profile) /\ Scoped(p) => HomeProfile(profile)' /\ Scoped(p)'
  <2>1. Own(p) /\ ScopeTypes' /\ pc'[p] = place /\ draft'[p] = d
    BY <1>2 DEF Own, ScopeTypes, Home, Placed
  <2> QED
    BY <1>2, <2>1 DEF Scoped, Choosing, Entering, HomeProfile
<1>3. Scoped(p) /\ pc[p] \in {"context", "binding"} => Fits(scope[p], profile.server)
  BY DEF Scoped, Choosing, Entering
<1>4. CASE SetContext(p)
  <2> DEFINE d == [profile EXCEPT !.context = scope[p]]
  <2>1. d \in Profiles /\ d.server = profile.server /\ d.context = scope[p] /\ d.bindings = profile.bindings
    BY <1>1 DEF Profiles
  <2>2. /\ draft' = [draft EXCEPT ![p] = d] /\ pc' = [pc EXCEPT ![p] = "saveContext"]
        /\ pc[p] = "context" /\ UNCHANGED <<profile, then, session, scope, server, overlapped>>
    BY <1>4 DEF SetContext, Goto, fileVars, countVars
  <2> HIDE DEF d
  <2> QED
    BY <1>2, <1>3, <2>1, <2>2 DEF HomeProfile
<1>5. CASE SetTelemetry(p)
  <2>1. PICK choice \in {"enabled", "disabled"} :
          draft' = [draft EXCEPT ![p] = [profile EXCEPT !.telemetry = choice]]
    BY <1>5 DEF SetTelemetry
  <2> DEFINE d == [profile EXCEPT !.telemetry = choice]
  <2>2. /\ d \in Profiles /\ d.server = profile.server
        /\ d.context = profile.context /\ d.bindings = profile.bindings
    BY <1>1 DEF Profiles
  <2>3. /\ draft' = [draft EXCEPT ![p] = d] /\ pc' = [pc EXCEPT ![p] = "saveTelemetry"]
        /\ pc[p] = "telemetry" /\ UNCHANGED <<profile, then, session, scope, server, overlapped>>
    BY <1>5, <2>1 DEF SetTelemetry, Goto, fileVars, countVars
  <2> HIDE DEF d
  <2> QED
    BY <1>2, <2>2, <2>3 DEF HomeProfile
<1>6. CASE SetBinding(p)
  <2> DEFINE Bound(space) == [scope[p] EXCEPT !.space = space]
             Others(space) == {b \in profile.bindings : b.org # Bound(space).org \/ b.space # space}
             d(space) == [profile EXCEPT !.bindings = Others(space) \union {Bound(space)}]
  <2>1. \E space \in Spaces : draft' = [draft EXCEPT ![p] = d(space)]
    <3>1. PICK space \in IF cmd[p] = "init" THEN {"private", "ops"} ELSE {scope[p].space} :
            draft' = [draft EXCEPT ![p] = d(space)]
      BY <1>6 DEF SetBinding
    <3>2. space \in Spaces
      BY <1>1 DEF Contexts, Spaces
    <3> QED
      BY <3>1, <3>2
  <2>0. PICK space \in Spaces : draft' = [draft EXCEPT ![p] = d(space)]
    BY <2>1
  <2>2. /\ Bound(space) \in Contexts
        /\ \A s : Fits(scope[p], s) => Fits(Bound(space), s)
    BY <1>1 DEF Contexts, Fits, AtHome
  <2> HIDE DEF Bound
  <2>3. Others(space) \union {Bound(space)} \in SUBSET Contexts
    BY <1>1, <2>2 DEF Profiles
  <2>4. /\ d(space) \in Profiles /\ d(space).server = profile.server
        /\ d(space).context = profile.context
        /\ d(space).bindings = Others(space) \union {Bound(space)}
    BY <1>1, <2>3 DEF Profiles
  <2>5. /\ pc' = [pc EXCEPT ![p] = "saveBinding"]
        /\ pc[p] = "binding" /\ UNCHANGED <<profile, then, session, scope, server, overlapped>>
    BY <1>6 DEF SetBinding, Goto, fileVars, countVars
  <2>6. HomeProfile(profile) /\ Scoped(p) => HomeProfile(d(space)) /\ d(space).server = profile.server
    BY <1>3, <2>2, <2>4, <2>5 DEF HomeProfile
  <2> HIDE DEF d
  <2> QED
    BY <1>2, <2>0, <2>4, <2>5, <2>6
<1> QED
  BY <1>4, <1>5, <1>6

(* and what it writes is that draft,                                       *)
LEMMA WriteScoped ==
  ASSUME Home, Placed, ScopeTypes, NEW p \in Processes, WriteProfile(p)
  PROVE  /\ Own(p) /\ ScopeTypes'
         /\ HomeProfile(profile) /\ Scoped(p) => HomeProfile(profile)' /\ Scoped(p)'
<1>1. /\ pc[p] \in {"saveLogin", "saveContext", "saveBinding", "saveTelemetry"}
      /\ UNCHANGED <<server, scope, overlapped>>
      /\ profile' = draft[p] \/ UNCHANGED profile
  BY DEF WriteProfile
<1>2. profile' \in Profiles
  BY <1>1 DEF ScopeTypes
<1>3. HomeProfile(profile) /\ Scoped(p) => HomeProfile(profile)'
  BY <1>1 DEF Scoped, HomeProfile
<1>4. CASE \E code : Leave(p, code)
  BY <1>1, <1>2, <1>3, <1>4, LeavesScoped
<1>5. CASE ~\E code : Leave(p, code)
  <2>1. profile' = draft[p] /\ Saved(p)
    BY <1>5 DEF WriteProfile
  <2>2. CASE pc[p] = "saveLogin"
    <3>1. pc' = [pc EXCEPT ![p] = "saveSecret"] /\ UNCHANGED <<then, draft, session>>
      BY <2>1, <2>2 DEF Saved, Goto
    <3>2. Own(p) /\ ScopeTypes' /\ pc'[p] = "saveSecret"
      BY <1>1, <1>2, <3>1 DEF Own, ScopeTypes, Home, Placed
    <3> QED
      BY <1>1, <1>3, <2>1, <2>2, <3>1, <3>2 DEF Scoped, Choosing, Entering
  <2>3. CASE pc[p] = "saveContext"
    <3>1. /\ \/ pc' = [pc EXCEPT ![p] = "session"] /\ then' = [then EXCEPT ![p] = "flush"]
             \/ pc' = [pc EXCEPT ![p] = "binding"] /\ UNCHANGED then
          /\ UNCHANGED <<draft, session>>
      BY <1>5, <2>1, <2>3 DEF Saved, LoadSession, Goto
    <3>2. Own(p) /\ ScopeTypes' /\ pc'[p] \in {"session", "binding"}
      BY <1>1, <1>2, <3>1 DEF Own, ScopeTypes, Home, Placed
    <3>3. pc'[p] = "session" => then'[p] = "flush"
      BY <3>1 DEF Placed
    <3> QED
      BY <1>1, <1>3, <2>1, <2>3, <3>1, <3>2, <3>3 DEF Scoped, Choosing, Entering
  <2> QED
    BY <1>1, <1>5, <2>1, <2>2, <2>3 DEF Saved
<1> QED
  BY <1>4, <1>5

(* a new Context keeps the Organization it was read with, or is given its  *)
(* server by the Session,                                                  *)
LEMMA CurrentScoped ==
  ASSUME Home, Placed, ScopeTypes, NEW p \in Processes, ReadCurrent(p)
  PROVE  /\ Own(p) /\ ScopeTypes'
         /\ HomeProfile(profile) /\ Scoped(p) => HomeProfile(profile)' /\ Scoped(p)'
<1>1. /\ pc[p] = "current" /\ UNCHANGED <<profile, server, overlapped>>
      /\ profile \in Profiles /\ profile.context \in Contexts
  BY DEF ReadCurrent, fileVars, countVars, ScopeTypes, Profiles
<1>2. CASE Leave(p, "contract") /\ UNCHANGED scope
  BY <1>1, <1>2, LeavesScoped DEF HomeProfile, ScopeTypes
<1>3. CASE ~(Leave(p, "contract") /\ UNCHANGED scope)
  <2>1. PICK c \in OrgSelections \union SpaceSelections :
          /\ scope' = [scope EXCEPT ![p] = c]
          /\ IF IsLocal(c) THEN Goto(p, "context") /\ UNCHANGED then ELSE LoadSession(p, "context")
    BY <1>3 DEF ReadCurrent
  <2>2. UNCHANGED <<draft, session>>
    BY <1>3 DEF ReadCurrent
  <2>3. /\ c \in Contexts
        /\ Fits(profile.context, profile.server) =>
             Fits(c, profile.server) \/ (c.origin = None /\ ~IsLocal(c))
    <3>1. CASE c \in OrgSelections
      BY <1>1, <3>1 DEF OrgSelections, Contexts, Orgs, Spaces, Fits, AtHome, IsLocal
    <3>2. CASE c \in SpaceSelections
      BY <1>1, <3>2 DEF SpaceSelections, Contexts, Spaces, Fits, AtHome
    <3> QED
      BY <2>1, <3>1, <3>2
  <2>4. Own(p) /\ ScopeTypes' /\ scope'[p] = c /\ session'[p] = session[p]
    BY <1>1, <2>1, <2>2, <2>3 DEF Own, ScopeTypes, Home, Placed, Goto, LoadSession
  <2>5. /\ IsLocal(c) => pc'[p] = "context"
        /\ ~IsLocal(c) => pc'[p] = "session" /\ then'[p] = "context"
    BY <2>1 DEF Goto, LoadSession, Placed
  <2> QED
    BY <1>1, <2>3, <2>4, <2>5 DEF Scoped, Choosing, Entering, HomeProfile
<1> QED
  BY <1>2, <1>3

(* and the other steps claim nothing new.                                  *)
LEMMA OthersScoped ==
  ASSUME Home, Placed, ScopeTypes, NEW p \in Processes,
         \/ Logout(p) \/ InitTree(p) \/ WhoAmI(p) \/ Organizations(p) \/ SpacesList(p)
         \/ FlushOutbox(p) \/ Crash(p)
  PROVE  /\ Own(p) /\ ScopeTypes'
         /\ HomeProfile(profile) /\ Scoped(p) => HomeProfile(profile)' /\ Scoped(p)'
<1>1. UNCHANGED <<profile, scope, server, overlapped>> /\ pc[p] # "idle"
  BY DEF Logout, InitTree, WhoAmI, Organizations, SpacesList, FlushOutbox, Crash, fileVars, countVars
<1>2. CASE \E code : Leave(p, code)
  BY <1>1, <1>2, LeavesScoped DEF HomeProfile, ScopeTypes
<1>3. CASE ~\E code : Leave(p, code)
  <2>1. /\ pc' = [pc EXCEPT ![p] = "context"] /\ UNCHANGED <<then, draft, session>>
        /\ pc[p] = "tree"
    BY <1>3 DEF Logout, InitTree, WhoAmI, Organizations, SpacesList, FlushOutbox, Crash,
                Answered, Unanswered, Goto
  <2>2. Own(p) /\ ScopeTypes' /\ pc'[p] = "context"
    BY <1>1, <2>1 DEF Own, ScopeTypes, Home, Placed
  <2> QED
    BY <1>1, <2>1, <2>2 DEF Scoped, Choosing, Entering, HomeProfile
<1> QED
  BY <1>2, <1>3

(* A command begins without a Session.                                     *)
LEMMA StartScoped ==
  ASSUME Home, Placed, ScopeTypes, NEW p \in Processes, Start(p) \/ StartTree(p)
  PROVE  /\ Own(p) /\ ScopeTypes'
         /\ HomeProfile(profile) /\ Scoped(p) => HomeProfile(profile)' /\ Scoped(p)'
<1>1. UNCHANGED <<profile, draft, session>> /\ pc[p] = "idle"
  BY DEF Start, StartTree, Begin, fileVars
<1>2. PICK c \in {NoContext, LocalContext} : scope' = [scope EXCEPT ![p] = c]
  BY DEF Start, StartTree
<1>3. c \in Contexts /\ \A s : Fits(c, s)
  BY DEF NoContext, LocalContext, Contexts, Orgs, Spaces, Fits, AtHome
<1>4. /\ pc' = [pc EXCEPT ![p] = pc'[p]]
      /\ pc'[p] \in Places \ {"secret", "login", "saveLogin", "saveSecret", "saveContext",
                               "saveBinding", "saveTelemetry"}
      /\ pc'[p] \in Entering => cmd'[p] \in {"login", "browser"}
      /\ overlapped' <=> (overlapped \/ (pc[p] = "idle" /\ \E q \in Processes : pc[q] # "idle"))
  <2>1. CASE Start(p)
    <3>1. PICK k \in DOMAIN FirstPlace : Begin(p, k, FirstPlace[k])
      BY <2>1 DEF Start
    <3>2. /\ FirstPlace[k] \in {"verify", "poll", "current", "tree", "telemetry", "session", "start"}
          /\ FirstPlace[k] \in {"verify", "poll"} => k \in {"login", "browser"}
      BY DEF FirstPlace, Questions
    <3>3. FirstPlace[k] \in Places
      BY <3>2 DEF Places, ConfigPlaces
    <3>4. pc' = [pc EXCEPT ![p] = pc'[p]] /\ pc'[p] = FirstPlace[k] /\ cmd'[p] = k
          /\ overlapped' = (overlapped \/ (pc[p] = "idle" /\ \E q \in Processes : pc[q] # "idle"))
      BY <3>1, <3>3, Begins
    <3> QED
      BY <3>2, <3>3, <3>4 DEF Entering
  <2>2. CASE StartTree(p)
    <3>1. PICK k \in {"apply", "preview", "prune", "publish", "unpublish", "install", "fork"},
               place \in {"scope", "load", "session", "listing"} : Begin(p, k, place)
      BY <2>2 DEF StartTree
    <3>2. place \in Places
      BY DEF Places, ConfigPlaces
    <3>3. pc' = [pc EXCEPT ![p] = pc'[p]] /\ pc'[p] = place
          /\ overlapped' = (overlapped \/ (pc[p] = "idle" /\ \E q \in Processes : pc[q] # "idle"))
      BY <3>1, <3>2, Begins
    <3> QED
      BY <3>2, <3>3 DEF Entering
  <2> QED
    BY <2>1, <2>2
<1>5. PICK t \in Thens \ {"context"} : then' = [then EXCEPT ![p] = t]
  BY DEF Start, StartTree, Thens
<1>6. /\ server' = [server EXCEPT ![p] = server'[p]] /\ server'[p] \in Servers \union {None}
      /\ pc'[p] \in Entering => server'[p] # None
  <2>1. CASE Start(p)
    <3>1. CASE cmd'[p] \in {"login", "browser"}
      <4>1. PICK s \in Servers : server' = [server EXCEPT ![p] = s]
        BY <2>1, <3>1 DEF Start
      <4> QED
        BY <4>1, ConfigStoreAssumption DEF ScopeTypes
    <3>2. CASE cmd'[p] \notin {"login", "browser"}
      BY <1>4, <2>1, <3>2 DEF Start, ScopeTypes
    <3> QED
      BY <3>1, <3>2
  <2>2. CASE StartTree(p)
    <3>1. pc'[p] \notin Entering
      <4>1. PICK k \in {"apply", "preview", "prune", "publish", "unpublish", "install", "fork"},
                 place \in {"scope", "load", "session", "listing"} : Begin(p, k, place)
        BY <2>2 DEF StartTree
      <4> QED
        BY <4>1 DEF Begin, Goto, Placed, Entering
    <3> QED
      BY <2>2, <3>1 DEF StartTree, ScopeTypes
  <2> QED
    BY <2>1, <2>2
<1>7. ScopeTypes' /\ scope'[p] = c /\ then'[p] = t /\ session'[p] = session[p]
  BY <1>1, <1>2, <1>3, <1>5, <1>6 DEF ScopeTypes, Placed
<1>8. Own(p)
  BY <1>1, <1>2, <1>4, <1>5, <1>6, <1>7 DEF Own, ScopeTypes, Home, Placed
<1> QED
  BY <1>1, <1>3, <1>4, <1>6, <1>7, <1>8 DEF Scoped, Choosing, HomeProfile, Entering

(* The commands of the tree take the Context of the profile.               *)
LEMMA TreeScoped ==
  ASSUME Home, Placed, ScopeTypes, NEW p \in Processes, TreeStep(p)
  PROVE  /\ Own(p) /\ ScopeTypes'
         /\ HomeProfile(profile) /\ Scoped(p) => HomeProfile(profile)' /\ Scoped(p)'
<1> DEFINE T == {"scope", "load", "verify lock", "prepare", "send", "preview", "prune", "registry",
                 "truncate", "write", "rename", "commit", "publish", "listing", "capability",
                 "recipe", "pin"}
<1> USE DEF Continue, Goto, LoadSession, fileVars, countVars, treeVars
<1>1. /\ pc[p] \in T /\ UNCHANGED <<profile, server, overlapped>>
      /\ UNCHANGED scope \/ scope' = [scope EXCEPT ![p] = profile.context]
  <2>1. CASE ReadContext(p) \/ LoadCatalog(p) \/ VerifyLock(p) \/ Preview(p) \/ Prune(p) \/ Prepare(p)
    BY <2>1 DEF ReadContext, LoadCatalog, VerifyLock, Preview, Prune, Prepare
  <2>2. CASE Apply(p) \/ LoadRegistry(p) \/ TruncateTemporary(p) \/ WriteTemporary(p) \/ RenameTemporary(p)
    BY <2>2 DEF Apply, LoadRegistry, TruncateTemporary, WriteTemporary, RenameTemporary
  <2>3. CASE Commit(p) \/ CloudOrganization(p) \/ Publish(p) \/ Unpublish(p)
    BY <2>3 DEF Commit, CloudOrganization, Publish, Unpublish
  <2>4. CASE GetHubListing(p) \/ Install(p) \/ ForkListing(p)
    BY <2>4 DEF GetHubListing, Install, ForkListing
  <2> QED
    BY <2>1, <2>2, <2>3, <2>4 DEF TreeStep
<1>2. profile \in Profiles /\ profile.context \in Contexts
  BY DEF ScopeTypes, Profiles
<1>3. CASE \E code : Leave(p, code)
  BY <1>1, <1>2, <1>3, LeavesScoped DEF HomeProfile
<1>4. CASE ~\E code : Leave(p, code)
  <2>1. /\ UNCHANGED <<draft, session>>
        /\ \/ UNCHANGED then /\ pc' = [pc EXCEPT ![p] = pc'[p]]
              /\ pc'[p] \in T \union {"binding"}
           \/ /\ pc' = [pc EXCEPT ![p] = "session"]
              /\ \E t \in {"load", "publish"} : then' = [then EXCEPT ![p] = t]
    <3> USE <1>1, <1>4 DEF Placed
    <3>1. CASE ReadContext(p) \/ LoadCatalog(p)
      BY <3>1 DEF ReadContext, LoadCatalog
    <3>2. CASE VerifyLock(p) \/ Preview(p) \/ Prune(p) \/ Prepare(p)
      BY <3>2 DEF VerifyLock, Preview, Prune, Prepare
    <3>3. CASE Apply(p) \/ LoadRegistry(p) \/ TruncateTemporary(p)
      BY <3>3 DEF Apply, LoadRegistry, TruncateTemporary
    <3>4. CASE WriteTemporary(p) \/ RenameTemporary(p)
      BY <3>4 DEF WriteTemporary, RenameTemporary
    <3>5. CASE Commit(p) \/ CloudOrganization(p) \/ Publish(p) \/ Unpublish(p)
      BY <3>5 DEF Commit, CloudOrganization, Publish, Unpublish, Answered, Unanswered, WithoutYes
    <3>6. CASE GetHubListing(p) \/ Install(p) \/ ForkListing(p)
      BY <3>6 DEF GetHubListing, Install, ForkListing, WriteFails
    <3> QED
      BY <3>1, <3>2, <3>3, <3>4, <3>5, <3>6 DEF TreeStep
  <2>2. /\ pc'[p] \in T \union {"binding", "session"}
        /\ pc'[p] = "session" => then'[p] # "context"
        /\ pc' = [pc EXCEPT ![p] = pc'[p]] /\ then' = [then EXCEPT ![p] = then'[p]]
    BY <2>1 DEF Placed
  <2>3. /\ scope'[p] \in {scope[p], profile.context}
        /\ scope' = [scope EXCEPT ![p] = scope'[p]] /\ scope' \in [Processes -> Contexts]
    BY <1>1, <1>2 DEF ScopeTypes
  <2>4. Own(p) /\ ScopeTypes'
    BY <1>1, <2>1, <2>2, <2>3 DEF Own, ScopeTypes, Home
  <2> QED
    BY <1>1, <2>1, <2>2, <2>3, <2>4 DEF Scoped, Choosing, Entering, HomeProfile
<1> QED
  BY <1>3, <1>4

(* And so ScopeInv always holds.                                           *)
LEMMA AlwaysScoped == Spec => []ScopeInv
<1>1. Init => ScopeInv
  <2>1. ASSUME Init PROVE ScopeTypes
    BY <2>1 DEF Init, ConfigInit, ScopeTypes, Unconfigured, Profiles, NoContext, Contexts, Orgs, Spaces
  <2>2. ASSUME Init PROVE HomeProfile(profile)
    BY <2>2 DEF Init, ConfigInit, HomeProfile, Fits, AtHome, Unconfigured, NoContext
  <2>3. ASSUME Init, NEW p \in Processes PROVE Scoped(p)
    <3>1. pc[p] = "idle" /\ session[p] = None
      BY <2>3 DEF Init, ConfigInit
    <3> QED
      BY <3>1 DEF Scoped, Choosing, Entering
  <2> QED
    BY <2>1, <2>2, <2>3 DEF ScopeInv
<1>2. IInv /\ Home /\ ScopeInv /\ [Next]_vars => ScopeInv'
  <2> SUFFICES ASSUME IInv, Home, ScopeInv, [Next]_vars PROVE ScopeInv'
    OBVIOUS
  <2>1. CASE UNCHANGED vars
    BY <2>1 DEF vars, configVars, fileVars, procVars, countVars, ScopeInv, ScopeTypes, Scoped,
                Choosing, HomeProfile
  <2>2. CASE Next
    <3>1. PICK p \in Processes :
            Start(p) \/ StartTree(p) \/ Step(p) \/ TreeStep(p) \/ Crash(p) \/ Deadline(p)
      BY <2>2 DEF Next, Command, CrashTree
    <3>2. Home /\ Placed /\ ScopeTypes
      BY DEF IInv, ScopeInv
    <3>3. /\ Own(p) /\ ScopeTypes'
          /\ HomeProfile(profile) /\ Scoped(p) => HomeProfile(profile)' /\ Scoped(p)'
      BY <3>1, <3>2, SessionScoped, LoginScoped, DraftScoped, WriteScoped, CurrentScoped,
         OthersScoped, StartScoped, TreeScoped DEF Step
    <3> QED
      BY <3>3, OwnKeeps DEF ScopeInv
  <2> QED
    BY <2>1, <2>2
<1> QED
  BY <1>1, <1>2, AlwaysHome, Inductive, PTL DEF Spec

(* Unless commands overlap, a Context or a binding chosen on one server is *)
(* never stored for, or used at, another one that has the same names.      *)
THEOREM ScopesGoHome == Spec => []ScopeGoesHome
<1>1. ScopeInv => ScopeGoesHome
  BY DEF ScopeInv, ScopeGoesHome, Scoped, HomeProfile, Fits, Entering
<1> QED
  BY <1>1, AlwaysScoped, PTL

-----------------------------------------------------------------------------
(* Success.  As long as commands do not overlap, the one that runs has     *)
(* done, at each place, what it will have claimed when it ends there.      *)

Logins      == {"login", "browser"}
Reconciling == {"apply", "preview", "prune"}

Loading(p, place) == pc[p] \in {"session", "secret"} /\ then[p] = place

(* Which commands come to a place.                                         *)
Runs(p) ==
  /\ pc[p] \in Entering \union {"saveSecret", "flush"} \/ Loading(p, "flush") => cmd[p] \in Logins
  /\ Loading(p, "context") => cmd[p] \in Logins \union {"org", "space"}
  /\ Loading(p, "load") \/ pc[p] \in {"scope", "verify lock"} => cmd[p] \in Reconciling
  /\ pc[p] = "load" => cmd[p] \in Reconciling \union {"publish"}
  /\ pc[p] = "current" => cmd[p] \in {"org", "space"}
  /\ pc[p] = "tree" => cmd[p] = "init"
  /\ pc[p] \in {"context", "saveContext"} => cmd[p] \in Logins \union {"org", "space", "init"}
  /\ pc[p] \in {"binding", "saveBinding"} => cmd[p] \in {"init", "apply"}
  /\ pc[p] \in {"telemetry", "saveTelemetry"} => cmd[p] = "telemetry"
  /\ pc[p] = "registry" => cmd[p] \in {"apply", "preview"}
  /\ pc[p] \in {"preview", "prune"} => cmd[p] = pc[p]
  /\ pc[p] \in {"prepare", "send", "truncate", "write", "rename", "commit"} => cmd[p] = "apply"

LoggedInAt(s) == secret # None /\ secret.server = s /\ profile.server = s

(* What a command has done so far.                                         *)
Working(p) ==
  /\ cmd[p] \in Logins /\ pc[p] \in {"session", "secret", "context", "saveContext", "flush"} =>
       LoggedInAt(server[p])
  /\ pc[p] = "saveContext" => draft[p].context = scope[p]
  /\ pc[p] \in {"binding", "saveBinding"} /\ cmd[p] = "init" => profile.context = scope[p]
  /\ pc[p] = "saveBinding" => draft[p].context = profile.context
  /\ pc[p] \in {"binding", "saveBinding"} /\ cmd[p] = "apply" =>
       lock = catalog[p] /\ catalog[p] \subseteq applied
  /\ pc[p] \in {"recipe", "pin"} /\ cmd[p] = "install" => module["capability"] = listing[p]
  /\ pc[p] = "pin" /\ cmd[p] = "install" => module["recipe"] = listing[p]
  /\ pc[p] = "recipe" /\ cmd[p] = "fork" => "capability" \in forked

(* What it has done when it reports success.                               *)
Done(p) ==
  /\ cmd[p] \in Logins => LoggedInAt(server[p])
  /\ cmd[p] \in {"org", "space", "init"} => profile.context = scope[p]
  /\ cmd[p] = "apply" => lock = catalog[p] /\ catalog[p] \subseteq applied
  /\ cmd[p] = "install" => \A f \in DOMAIN module : module[f] = listing[p]
  /\ cmd[p] = "fork" => forked = {"capability", "recipe"}

DoneTypes ==
  /\ DOMAIN exit = Processes /\ DOMAIN listing = Processes
  /\ DOMAIN module = {"capability", "recipe", "pin"}
  /\ forked \subseteq {"capability", "recipe"}

DoneInv ==
  /\ DoneTypes
  /\ \A p \in Processes : Runs(p)
  /\ ~overlapped =>
       /\ ~racing
       /\ \A p, q \in Processes : pc[p] # "idle" => exit[q] = "none"
       /\ \A p \in Processes : Working(p) /\ (exit[p] = "success" => Done(p))

(* What a step of p may report.                                            *)
Reports(p) ==
  /\ pc[p] # "idle" /\ UNCHANGED cmd
  /\ \/ UNCHANGED exit
     \/ pc'[p] = "idle" /\ \E code : exit' = [exit EXCEPT ![p] = code]

(* A command reports when it ends, of itself only.                         *)
LEMMA ReportsWhenDone ==
  ASSUME Placed, NEW p \in Processes, Step(p) \/ TreeStep(p) \/ Crash(p) \/ Deadline(p)
  PROVE  Reports(p)
<1> USE DEF Placed, Reports, Goto, Leave, Continue, countVars, treeVars, fileVars
<1>1. CASE ReadSecret(p) \/ ReadProfile(p) \/ VerifyToken(p) \/ PollDeviceLogin(p) \/ Interval(p)
  BY <1>1 DEF ReadSecret, ReadProfile, Refused, VerifyToken, PollDeviceLogin, Interval, Accepted
<1>2. CASE Login(p) \/ SaveSecret(p) \/ Logout(p) \/ ReadCurrent(p) \/ SetContext(p)
  BY <1>2 DEF Login, SaveSecret, Logout, ReadCurrent, SetContext, LoadSession
<1>3. CASE SetBinding(p) \/ SetTelemetry(p)
  BY <1>3 DEF SetBinding, SetTelemetry
<1>4. CASE WriteProfile(p)
  BY <1>4 DEF WriteProfile, Saved, LoadSession
<1>5. CASE WhoAmI(p) \/ Organizations(p) \/ SpacesList(p) \/ FlushOutbox(p) \/ InitTree(p)
  BY <1>5 DEF WhoAmI, Organizations, SpacesList, FlushOutbox, InitTree, Answered, Unanswered
<1>6. CASE Crash(p) \/ Deadline(p)
  BY <1>6 DEF Crash, Deadline
<1>7. CASE ReadContext(p) \/ LoadCatalog(p) \/ VerifyLock(p)
  BY <1>7 DEF ReadContext, LoadCatalog, VerifyLock, LoadSession
<1>8. CASE Preview(p) \/ Prune(p) \/ Prepare(p) \/ Apply(p)
  BY <1>8 DEF Preview, Prune, Prepare, Apply
<1>9. CASE LoadRegistry(p) \/ TruncateTemporary(p) \/ WriteTemporary(p) \/ RenameTemporary(p)
  BY <1>9 DEF LoadRegistry, TruncateTemporary, WriteTemporary, RenameTemporary
<1>10. CASE Commit(p) \/ CloudOrganization(p) \/ Publish(p) \/ Unpublish(p)
  BY <1>10 DEF Commit, CloudOrganization, Publish, Unpublish, Answered, Unanswered, WithoutYes
<1>11. CASE GetHubListing(p)
  BY <1>11 DEF GetHubListing
<1>12. CASE Install(p) \/ ForkListing(p)
  BY <1>12 DEF Install, ForkListing, WriteFails
<1> QED
  BY <1>1, <1>2, <1>3, <1>4, <1>5, <1>6, <1>7, <1>8, <1>9, <1>10, <1>11, <1>12 DEF Step, TreeStep

(* A command goes on to places that are its own.                           *)
LEMMA RunsOn ==
  ASSUME Placed, NEW p \in Processes, Runs(p), UNCHANGED cmd,
         Step(p) \/ TreeStep(p) \/ Crash(p) \/ Deadline(p)
  PROVE  Runs(p)'
<1>0. pc \in [Processes -> Places] /\ then \in [Processes -> Thens]
  BY DEF Placed
<1> USE DEF Goto, Leave, Continue, Runs, Loading, Entering, Logins, Reconciling
<1>1. CASE ReadProfile(p)
  BY <1>0, <1>1 DEF ReadProfile, Refused
<1>2. CASE ReadSecret(p)
  <2>1. pc[p] = "secret" /\ (pc'[p] = "idle" \/ (pc'[p] = then[p] /\ then' = then))
    BY <1>0, <1>2 DEF ReadSecret, Refused
  <2> QED
    BY <1>0, <2>1 DEF Thens
<1>3. CASE VerifyToken(p) \/ PollDeviceLogin(p) \/ Interval(p)
  BY <1>0, <1>3 DEF VerifyToken, PollDeviceLogin, Interval, Accepted
<1>4. CASE Login(p) \/ SaveSecret(p) \/ Logout(p) \/ SetContext(p)
  BY <1>0, <1>4 DEF Login, SaveSecret, Logout, SetContext, LoadSession
<1>5. CASE ReadCurrent(p)
  BY <1>0, <1>5 DEF ReadCurrent, LoadSession
<1>6. CASE SetBinding(p) \/ SetTelemetry(p)
  BY <1>0, <1>6 DEF SetBinding, SetTelemetry
<1>7. CASE WriteProfile(p)
  BY <1>0, <1>7 DEF WriteProfile, Saved, LoadSession
<1>8. CASE WhoAmI(p) \/ Organizations(p) \/ SpacesList(p) \/ FlushOutbox(p) \/ InitTree(p)
  BY <1>0, <1>8 DEF WhoAmI, Organizations, SpacesList, FlushOutbox, InitTree, Answered, Unanswered
<1>9. CASE Crash(p) \/ Deadline(p)
  BY <1>0, <1>9 DEF Crash, Deadline
<1>10. CASE ReadContext(p)
  BY <1>0, <1>10 DEF ReadContext, LoadSession
<1>11. CASE LoadCatalog(p) \/ VerifyLock(p)
  BY <1>0, <1>11 DEF LoadCatalog, VerifyLock, LoadSession
<1>12. CASE Preview(p) \/ Prune(p) \/ Prepare(p) \/ Apply(p)
  BY <1>0, <1>12 DEF Preview, Prune, Prepare, Apply
<1>13. CASE LoadRegistry(p) \/ TruncateTemporary(p) \/ WriteTemporary(p) \/ RenameTemporary(p)
  BY <1>0, <1>13 DEF LoadRegistry, TruncateTemporary, WriteTemporary, RenameTemporary
<1>14. CASE Commit(p) \/ CloudOrganization(p) \/ Publish(p) \/ Unpublish(p)
  BY <1>0, <1>14 DEF Commit, CloudOrganization, Publish, Unpublish, Answered, Unanswered, WithoutYes
<1>15. CASE GetHubListing(p)
  BY <1>0, <1>15 DEF GetHubListing
<1>16. CASE Install(p) \/ ForkListing(p)
  BY <1>0, <1>16 DEF Install, ForkListing, WriteFails
<1> QED
  BY <1>1, <1>2, <1>3, <1>4, <1>5, <1>6, <1>7, <1>8, <1>9, <1>10, <1>11, <1>12, <1>13, <1>14,
     <1>15, <1>16 DEF Step, TreeStep

(* The commands of the configuration do what they claim,                   *)
LEMMA ConfigWorks ==
  ASSUME Placed, ScopeTypes, DoneTypes, NEW p \in Processes, Runs(p), Scoped(p), Working(p),
         exit[p] = "none", UNCHANGED cmd, UNCHANGED treeVars,
         Step(p) \/ Crash(p) \/ Deadline(p)
  PROVE  Working(p)' /\ (exit'[p] = "success" => Done(p)')
<1>0. /\ pc \in [Processes -> Places] /\ then \in [Processes -> Thens]
      /\ DOMAIN exit = Processes
      /\ draft \in [Processes -> Profiles] /\ profile \in Profiles
      /\ scope \in [Processes -> Contexts]
      /\ UNCHANGED <<lock, catalog, applied, module, listing, forked>>
  BY DEF Placed, ScopeTypes, DoneTypes, treeVars
<1> USE DEF Goto, Leave
<1>1. ASSUME pc'[p] \in Entering \union {"idle", "saveSecret", "tree", "current", "ask", "load",
                                         "publish", "telemetry", "saveTelemetry"}
      PROVE  Working(p)'
  BY <1>1 DEF Working, Entering
<1>2. CASE ReadProfile(p)
  <2>1. /\ pc[p] = "session" /\ UNCHANGED <<profile, secret, server>>
        /\ \/ pc'[p] = "idle" /\ (exit'[p] = "success" => then[p] = "flush")
           \/ pc'[p] = "secret" /\ UNCHANGED exit
    BY <1>0, <1>2 DEF ReadProfile, Refused, fileVars
  <2> QED
    BY <1>0, <1>1, <2>1 DEF Working, Done, Runs, Loading, Logins, LoggedInAt
<1>3. CASE ReadSecret(p)
  <2>1. /\ pc[p] = "secret" /\ UNCHANGED <<profile, secret, server>>
        /\ \/ pc'[p] = "idle" /\ (exit'[p] = "success" => then[p] = "flush")
           \/ pc'[p] = then[p] /\ UNCHANGED exit
    BY <1>0, <1>3 DEF ReadSecret, Refused, fileVars
  <2>2. pc'[p] = then[p] => pc'[p] \in Thens
    BY <1>0
  <2> QED
    BY <1>0, <1>1, <2>1, <2>2 DEF Working, Done, Runs, Loading, Logins, LoggedInAt, Thens
<1>4. CASE VerifyToken(p) \/ PollDeviceLogin(p) \/ Interval(p) \/ Login(p)
  <2>1. pc'[p] \in Entering \union {"idle"} /\ exit'[p] # "success"
    BY <1>0, <1>4 DEF VerifyToken, PollDeviceLogin, Interval, Login, Accepted, Entering
  <2> QED
    BY <1>1, <2>1
<1>5. CASE SaveSecret(p)
  <2>1. CASE exit' = exit
    <3>1. /\ pc[p] = "saveSecret" /\ secret' = [server |-> server[p], token |-> server[p]]
          /\ pc'[p] = "session" /\ UNCHANGED <<profile, server>>
      BY <1>0, <1>5, <2>1 DEF SaveSecret, LoadSession
    <3>2. server[p] \in Servers /\ profile.server = server[p]
      BY <3>1 DEF Scoped, ScopeTypes
    <3>3. LoggedInAt(server[p])'
      BY <3>1, <3>2, ConfigStoreAssumption DEF LoggedInAt
    <3> QED
      BY <2>1, <3>1, <3>3 DEF Working
  <2>2. CASE exit' # exit
    BY <1>0, <1>1, <1>5, <2>2 DEF SaveSecret, LoadSession
  <2> QED
    BY <2>1, <2>2
<1>6. CASE Logout(p)
  <2>1. pc'[p] = "idle" /\ cmd[p] = "logout"
    BY <1>0, <1>6 DEF Logout
  <2> QED
    BY <1>1, <2>1 DEF Done, Logins
<1>7. CASE ReadCurrent(p) \/ InitTree(p)
  <2>1. /\ pc[p] \in {"current", "tree"} /\ pc'[p] \in {"idle", "context", "session"}
        /\ exit'[p] # "success"
    BY <1>0, <1>7 DEF ReadCurrent, InitTree, LoadSession
  <2> QED
    BY <2>1 DEF Working, Runs, Logins
<1>8. CASE SetContext(p)
  <2>1. /\ pc[p] = "context" /\ pc'[p] = "saveContext" /\ UNCHANGED <<profile, secret, server, exit, scope>>
        /\ draft'[p] = [profile EXCEPT !.context = scope[p]]
    BY <1>0, <1>8 DEF SetContext, fileVars
  <2>2. draft'[p].context = scope[p]
    BY <1>0, <2>1 DEF Profiles
  <2> QED
    BY <2>1, <2>2 DEF Working, LoggedInAt
<1>9. CASE SetBinding(p)
  <2>1. /\ pc[p] = "binding" /\ pc'[p] = "saveBinding" /\ UNCHANGED <<profile, secret, server, exit, scope>>
        /\ \E b : draft'[p] = [profile EXCEPT !.bindings = b]
    BY <1>0, <1>9 DEF SetBinding, fileVars
  <2>2. draft'[p].context = profile.context
    BY <1>0, <2>1 DEF Profiles
  <2> QED
    BY <1>0, <2>1, <2>2 DEF Working, LoggedInAt
<1>10. CASE SetTelemetry(p) \/ Deadline(p) \/ Crash(p)
  <2>1. \/ pc'[p] = "saveTelemetry" /\ UNCHANGED exit
        \/ pc'[p] \in {"poll", "interval"} /\ UNCHANGED exit
        \/ pc'[p] = "idle" /\ exit'[p] = "none"
    BY <1>0, <1>10 DEF SetTelemetry, Deadline, Crash
  <2> QED
    BY <1>1, <2>1 DEF Entering
<1>11. CASE WhoAmI(p) \/ Organizations(p) \/ SpacesList(p)
  <2>1. pc'[p] = "idle" /\ cmd[p] \in {"whoami", "organizations", "spaces"}
    BY <1>0, <1>11 DEF WhoAmI, Organizations, SpacesList, Answered, Unanswered
  <2> QED
    BY <1>1, <2>1 DEF Done, Logins
<1>12. CASE FlushOutbox(p)
  <2>1. pc[p] = "flush" /\ pc'[p] = "idle" /\ UNCHANGED <<profile, secret, server>>
    BY <1>0, <1>12 DEF FlushOutbox, fileVars
  <2> QED
    BY <1>1, <2>1 DEF Working, Done, Runs, Logins, LoggedInAt
<1>13. CASE WriteProfile(p)
  <2>0. /\ UNCHANGED <<secret, server, scope>>
        /\ pc[p] \in {"saveLogin", "saveContext", "saveBinding", "saveTelemetry"}
    BY <1>13 DEF WriteProfile
  <2>1. CASE UNCHANGED profile /\ Leave(p, IF pc[p] = "saveBinding" /\ cmd[p] # "init"
                                           THEN "success" ELSE "operational")
    <3>1. /\ pc'[p] = "idle"
          /\ exit'[p] = "success" => pc[p] = "saveBinding" /\ cmd[p] # "init"
      BY <1>0, <2>1
    <3> QED
      BY <1>0, <1>1, <2>0, <3>1 DEF Working, Done, Runs, Logins
  <2>2. CASE profile' = draft[p] /\ Saved(p)
    <3>1. CASE pc[p] = "saveLogin"
      BY <1>0, <1>1, <2>2, <3>1 DEF Saved
    <3>2. CASE pc[p] = "saveContext" /\ cmd[p] \in Logins
      <4>1. pc'[p] = "session" /\ UNCHANGED exit
        BY <1>0, <2>2, <3>2 DEF Saved, LoadSession, Logins
      <4>2. LoggedInAt(server[p])'
        BY <2>0, <2>2, <3>2 DEF Working, Scoped, LoggedInAt
      <4> QED
        BY <2>0, <4>1, <4>2 DEF Working
    <3>3. CASE pc[p] = "saveContext" /\ cmd[p] = "init"
      <4>1. pc'[p] = "binding" /\ UNCHANGED exit
        BY <1>0, <2>2, <3>3 DEF Saved
      <4> QED
        BY <2>0, <2>2, <3>3, <4>1 DEF Working, Logins
    <3>4. CASE pc[p] = "saveContext" /\ cmd[p] \notin Logins \union {"init"}
      <4>1. pc'[p] = "idle" /\ cmd[p] \in {"org", "space"}
        BY <1>0, <2>2, <3>4 DEF Saved, Logins, Runs
      <4> QED
        BY <1>1, <2>0, <2>2, <3>4, <4>1 DEF Working, Done, Logins
    <3>5. CASE pc[p] = "saveBinding"
      <4>1. pc'[p] = "idle" /\ cmd[p] \in {"init", "apply"}
        BY <1>0, <2>2, <3>5 DEF Saved, Runs
      <4> QED
        BY <1>0, <1>1, <2>0, <2>2, <3>5, <4>1 DEF Working, Done, Logins
    <3>6. CASE pc[p] = "saveTelemetry"
      <4>1. pc'[p] = "idle" /\ cmd[p] = "telemetry"
        BY <1>0, <2>2, <3>6 DEF Saved, Runs
      <4> QED
        BY <1>1, <4>1 DEF Done, Logins
    <3> QED
      BY <2>0, <3>1, <3>2, <3>3, <3>4, <3>5, <3>6
  <2> QED
    BY <1>13, <2>1, <2>2 DEF WriteProfile
<1> QED
  BY <1>2, <1>3, <1>4, <1>5, <1>6, <1>7, <1>8, <1>9, <1>10, <1>11, <1>12, <1>13 DEF Step

(* What install and fork write stays in its set,                           *)
LEMMA TreeTypes ==
  ASSUME DoneTypes, NEW p \in Processes, TreeStep(p), Reports(p)
  PROVE  DoneTypes'
<1>1. DOMAIN exit' = Processes
  BY DEF DoneTypes, Reports
<1>2. CASE \/ ReadContext(p) \/ LoadCatalog(p) \/ VerifyLock(p) \/ Preview(p) \/ Prune(p) \/ Prepare(p)
          \/ Apply(p) \/ LoadRegistry(p) \/ TruncateTemporary(p) \/ WriteTemporary(p)
          \/ RenameTemporary(p) \/ Commit(p) \/ CloudOrganization(p) \/ Publish(p) \/ Unpublish(p)
  <2>1. UNCHANGED <<module, listing, forked>>
    BY <1>2 DEF ReadContext, LoadCatalog, VerifyLock, Preview, Prune, Prepare, Apply, LoadRegistry,
                TruncateTemporary, WriteTemporary, RenameTemporary, Commit, CloudOrganization, Publish,
                Unpublish, treeVars
  <2> QED
    BY <1>1, <2>1 DEF DoneTypes
<1>3. CASE GetHubListing(p) \/ Install(p) \/ ForkListing(p)
  BY <1>1, <1>3 DEF GetHubListing, Install, ForkListing, WriteFails, DoneTypes
<1> QED
  BY <1>2, <1>3 DEF TreeStep

(* and so do those of the tree.                                            *)
LEMMA TreeWorks ==
  ASSUME IInv, DoneTypes, NEW p \in Processes, Runs(p), Working(p),
         exit[p] = "none", UNCHANGED cmd, ~overlapped, ~racing, TreeStep(p)
  PROVE  ~racing' /\ Working(p)' /\ (exit'[p] = "success" => Done(p)')
<1>0. /\ pc \in [Processes -> Places] /\ then \in [Processes -> Thens]
      /\ DOMAIN exit = Processes /\ DOMAIN listing = Processes
      /\ catalog \in [Processes -> SUBSET Entries]
  BY DEF IInv, Placed, DoneTypes
<1> USE DEF Goto, Leave, Continue
<1> DEFINE Plain == {"idle", "load", "verify lock", "prepare", "send", "preview", "prune", "registry",
                     "truncate", "write", "rename", "commit", "publish", "capability"}
<1>1. ASSUME \/ pc'[p] \in Plain
             \/ pc'[p] = "session" /\ cmd[p] \notin Logins
      PROVE  Working(p)'
  BY <1>1 DEF Working
<1>2. CASE ReadContext(p) \/ LoadCatalog(p)
  <2>1. /\ \/ pc'[p] \in Plain
           \/ pc'[p] = "session" /\ cmd[p] \notin Logins
        /\ exit'[p] # "success" /\ DOMAIN exit' = Processes
        /\ UNCHANGED <<racing, module, listing, forked>>
    BY <1>0, <1>2 DEF ReadContext, LoadCatalog, LoadSession, Runs, Logins, Reconciling, treeVars
  <2> QED
    BY <1>1, <2>1 DEF DoneTypes
<1>3. CASE VerifyLock(p) \/ Preview(p) \/ Prune(p) \/ Prepare(p) \/ Apply(p)
  <2>1. /\ pc'[p] \in Plain
        /\ exit'[p] = "success" => cmd[p] \in {"preview", "prune"}
        /\ DOMAIN exit' = Processes
        /\ UNCHANGED <<racing, module, listing, forked>>
    BY <1>0, <1>3 DEF VerifyLock, Preview, Prune, Prepare, Apply, Runs, treeVars
  <2> QED
    BY <1>1, <2>1 DEF DoneTypes, Done, Logins
<1>4. CASE LoadRegistry(p) \/ WriteTemporary(p) \/ RenameTemporary(p)
  <2>1. /\ pc'[p] \in Plain
        /\ exit'[p] = "success" => cmd[p] = "preview"
        /\ DOMAIN exit' = Processes
        /\ UNCHANGED <<racing, module, listing, forked>>
    BY <1>0, <1>4 DEF LoadRegistry, WriteTemporary, RenameTemporary, Runs, treeVars
  <2> QED
    BY <1>1, <2>1 DEF DoneTypes, Done, Logins
<1>5. CASE TruncateTemporary(p)
  <2>1. /\ pc[p] = "truncate" /\ pc'[p] = "write" /\ UNCHANGED exit
        /\ racing' = (racing \/ \E q \in Processes : pc[q] \in {"write", "rename"})
        /\ UNCHANGED <<module, listing, forked>>
    BY <1>0, <1>5 DEF TruncateTemporary
  <2>2. \A q \in Processes : pc[q] \notin {"write", "rename"}
    BY <1>0, <2>1 DEF IInv, Alone
  <2> QED
    BY <1>1, <2>1, <2>2 DEF DoneTypes
<1>6. CASE Commit(p)
  <2>1. /\ pc[p] = "commit" /\ UNCHANGED <<catalog, applied, racing, module, listing, forked>>
        /\ \/ pc'[p] = "idle"
           \/ pc'[p] = "binding" /\ lock' = catalog[p]
        /\ exit'[p] # "success" /\ DOMAIN exit' = Processes
    BY <1>0, <1>6 DEF Commit
  <2>2. cmd[p] = "apply" /\ catalog[p] \subseteq applied
    BY <2>1 DEF IInv, Applying, Runs
  <2> QED
    BY <2>1, <2>2 DEF Working, DoneTypes, Logins
<1>7. CASE CloudOrganization(p) \/ Publish(p) \/ Unpublish(p)
  <2>1. /\ pc'[p] \in {"idle", "publish"}
        /\ exit'[p] = "success" => cmd[p] \in {"publish", "unpublish"}
        /\ DOMAIN exit' = Processes
        /\ UNCHANGED <<racing, module, listing, forked>>
    BY <1>0, <1>7 DEF CloudOrganization, Publish, Unpublish, Answered, Unanswered, WithoutYes, treeVars
  <2> QED
    BY <1>1, <2>1 DEF DoneTypes, Done, Logins
<1>8. CASE GetHubListing(p)
  <2>1. /\ pc'[p] \in {"idle", "capability"} /\ exit'[p] # "success"
        /\ DOMAIN exit' = Processes /\ DOMAIN listing' = Processes
        /\ UNCHANGED <<racing, module, forked>>
    BY <1>0, <1>8 DEF GetHubListing
  <2> QED
    BY <1>1, <2>1 DEF DoneTypes
<1>9. CASE Install(p)
  <2>1. /\ cmd[p] = "install" /\ pc[p] \in {"capability", "recipe", "pin"}
        /\ UNCHANGED <<racing, listing, forked>> /\ DOMAIN exit' = Processes
    BY <1>0, <1>9 DEF Install, WriteFails
  <2>2. CASE module' = module /\ pc'[p] = "idle" /\ exit'[p] = "operational"
    BY <1>1, <2>1, <2>2 DEF DoneTypes
  <2>3. CASE module' = [module EXCEPT ![pc[p]] = listing[p]]
    <3>1. /\ DOMAIN module = {"capability", "recipe", "pin"} /\ DOMAIN module' = DOMAIN module
          /\ module'[pc[p]] = listing[p]
          /\ \A f \in DOMAIN module : f # pc[p] => module'[f] = module[f]
      BY <2>1, <2>3 DEF DoneTypes
    <3>2. CASE pc[p] = "capability" /\ pc'[p] = "recipe" /\ UNCHANGED exit
      BY <2>1, <3>1, <3>2 DEF DoneTypes, Working, Logins
    <3>3. CASE pc[p] = "recipe" /\ pc'[p] = "pin" /\ UNCHANGED exit
      BY <2>1, <3>1, <3>3 DEF DoneTypes, Working, Logins
    <3>4. CASE pc[p] = "pin" /\ pc'[p] = "idle"
      BY <1>1, <2>1, <3>1, <3>4 DEF DoneTypes, Working, Done, Logins
    <3>5. CASE pc'[p] = "idle" /\ exit'[p] = "operational"
      BY <1>1, <2>1, <3>1, <3>5 DEF DoneTypes
    <3> QED
      BY <1>0, <1>9, <2>1, <3>2, <3>3, <3>4, <3>5 DEF Install, WriteFails
  <2> QED
    BY <1>0, <1>9, <2>2, <2>3 DEF Install, WriteFails
<1>10. CASE ForkListing(p)
  <2>1. /\ cmd[p] = "fork" /\ pc[p] \in {"capability", "recipe"} /\ DOMAIN exit' = Processes
        /\ UNCHANGED <<racing, listing, module>>
        /\ \/ pc'[p] = "idle" /\ UNCHANGED forked /\ exit'[p] = "operational"
           \/ forked' = forked \union {pc[p]} /\ pc[p] = "capability" /\ pc'[p] = "recipe" /\ UNCHANGED exit
           \/ forked' = forked \union {pc[p]} /\ pc[p] = "recipe" /\ pc'[p] = "idle"
    BY <1>0, <1>10 DEF ForkListing, WriteFails
  <2> QED
    BY <2>1 DEF DoneTypes, Working, Done, Logins
<1> QED
  BY <1>2, <1>3, <1>4, <1>5, <1>6, <1>7, <1>8, <1>9, <1>10 DEF TreeStep

(* A command begins with nothing done, and nobody has reported anything.   *)
LEMMA StartWorks ==
  ASSUME Placed, DoneTypes, NEW p \in Processes,
         (Start(p) /\ UNCHANGED treeVars) \/ StartTree(p)
  PROVE  /\ pc[p] = "idle" /\ UNCHANGED racing /\ DoneTypes'
         /\ exit' = [q \in Processes |-> "none"]
         /\ \A q \in Processes \ {p} : cmd'[q] = cmd[q]
         /\ Runs(p)' /\ Working(p)'
<1>1. CASE Start(p) /\ UNCHANGED treeVars
  <2>1. PICK c \in DOMAIN FirstPlace : Begin(p, c, FirstPlace[c])
    BY <1>1 DEF Start
  <2>2. /\ FirstPlace[c] \in {"verify", "poll", "current", "tree", "telemetry", "session", "start"}
        /\ FirstPlace[c] \in {"verify", "poll"} => c \in Logins
        /\ FirstPlace[c] = "current" => c \in {"org", "space"}
        /\ FirstPlace[c] \in {"tree"} => c = "init"
        /\ FirstPlace[c] = "telemetry" => c = "telemetry"
        /\ FirstPlace[c] = "session" => c \in Questions
    BY DEF FirstPlace, Questions, Logins
  <2>3. /\ pc[p] = "idle" /\ pc' = [pc EXCEPT ![p] = FirstPlace[c]] /\ cmd' = [cmd EXCEPT ![p] = c]
        /\ exit' = [q \in Processes |-> "none"]
    BY <2>1 DEF Begin, Goto
  <2>4. pc'[p] = FirstPlace[c] /\ cmd'[p] = c
    BY <2>3 DEF Placed
  <2>5. then' = [then EXCEPT ![p] = IF cmd'[p] \in Questions THEN "ask" ELSE "none"]
    BY <1>1 DEF Start
  <2>6. then'[p] \in {"ask", "none"}
    BY <2>5 DEF Placed
  <2>7. UNCHANGED <<racing, listing, module, forked>>
    BY <1>1 DEF treeVars
  <2>8. Runs(p)'
    BY <2>2, <2>4, <2>6 DEF Runs, Loading, Entering
  <2>9. Working(p)'
    BY <2>2, <2>4 DEF Working, Logins, Questions
  <2> QED
    BY <2>3, <2>7, <2>8, <2>9 DEF DoneTypes, Placed
<1>2. CASE StartTree(p)
  <2>1. PICK c \in {"apply", "preview", "prune", "publish", "unpublish", "install", "fork"},
             place \in {"scope", "load", "session", "listing"} :
          /\ Begin(p, c, place)
          /\ place = "scope" => c \in Reconciling
          /\ place = "load" => c = "publish"
    BY <1>2 DEF StartTree, Reconciling
  <2>3. /\ pc[p] = "idle" /\ pc' = [pc EXCEPT ![p] = place] /\ cmd' = [cmd EXCEPT ![p] = c]
        /\ exit' = [q \in Processes |-> "none"]
    BY <2>1 DEF Begin, Goto
  <2>4. pc'[p] = place /\ cmd'[p] = c
    BY <2>3 DEF Placed
  <2>5. then' = [then EXCEPT ![p] = IF cmd'[p] \in {"publish", "unpublish"} THEN "publish" ELSE "none"]
    BY <1>2 DEF StartTree
  <2>6. then'[p] \in {"publish", "none"}
    BY <2>5 DEF Placed
  <2>7. UNCHANGED <<racing, listing, module, forked>>
    BY <1>2 DEF StartTree
  <2>8. Runs(p)'
    BY <2>1, <2>4, <2>6 DEF Runs, Loading, Entering
  <2>9. Working(p)'
    BY <2>4 DEF Working, Logins
  <2> QED
    BY <2>3, <2>7, <2>8, <2>9 DEF DoneTypes, Placed
<1> QED
  BY <1>1, <1>2

(* Whatever p does, the other processes have nothing to show or to do.     *)
LEMMA OthersDone ==
  ASSUME IInv, DoneInv, NEW p \in Processes, Own(p), DoneTypes', Runs(p)',
         \/ Reports(p)
         \/ /\ exit' = [q \in Processes |-> "none"] /\ pc[p] = "idle"
            /\ \A q \in Processes \ {p} : cmd'[q] = cmd[q],
         ~overlapped' => ~racing' /\ Working(p)' /\ (exit'[p] = "success" => Done(p)')
  PROVE  DoneInv'
<1>0. Placed /\ overlapped \in BOOLEAN /\ DoneTypes
  BY DEF IInv, DoneInv
<1>1. ASSUME NEW q \in Processes, q # p
      PROVE  /\ pc'[q] = pc[q] /\ then'[q] = then[q] /\ cmd'[q] = cmd[q]
             /\ exit'[q] = exit[q] \/ exit'[q] = "none"
  BY <1>0, <1>1 DEF Own, Placed, Reports, DoneTypes
<1>2. \A q \in Processes : Runs(q)'
  <2>1. ASSUME NEW q \in Processes, q # p PROVE Runs(q)'
    <3>1. Runs(q)
      BY DEF DoneInv
    <3> QED
      BY <1>1, <2>1, <3>1 DEF Runs, Loading
  <2> QED
    BY <2>1
<1>3. ASSUME ~overlapped'
      PROVE  /\ \A q \in Processes \ {p} : pc'[q] = "idle"
             /\ \A q \in Processes \ {p} : exit'[q] = "none"
             /\ pc'[p] # "idle" => exit'[p] = "none"
  <2>1. ~overlapped /\ (pc[p] = "idle" => \A q \in Processes : pc[q] = "idle")
    BY <1>0, <1>3 DEF Own
  <2>2. \A q \in Processes \ {p} : pc[q] = "idle"
    BY <1>0, <2>1 DEF IInv, Alone, Placed
  <2>3. pc[p] # "idle" => \A q \in Processes : exit[q] = "none"
    BY <2>1 DEF DoneInv
  <2>4. CASE Reports(p)
    BY <1>0, <1>1, <2>2, <2>3, <2>4 DEF Reports, DoneTypes
  <2>5. CASE exit' = [q \in Processes |-> "none"]
    BY <1>1, <2>2, <2>5
  <2> QED
    BY <1>1, <2>4, <2>5
<1>4. ASSUME ~overlapped', NEW q \in Processes, q # p PROVE Working(q)' /\ exit'[q] # "success"
  BY <1>3, <1>4 DEF Working
<1>5. ASSUME ~overlapped', NEW q \in Processes, NEW r \in Processes, pc'[q] # "idle"
      PROVE  exit'[r] = "none"
  BY <1>3, <1>5
<1> QED
  BY <1>2, <1>4, <1>5 DEF DoneInv

(* A command that reports success has done all of its writes: a login left *)
(* a Session of the server it named, org use, space use and init their     *)
(* Context, apply a lock of what the registry took, install and fork a     *)
(* whole set of files, whatever failed or was killed before.               *)
THEOREM SuccessIsComplete == Spec => []SuccessHolds
<1>1. Init => DoneInv
  <2> SUFFICES ASSUME Init PROVE DoneInv
    OBVIOUS
  <2>1. DoneTypes /\ \A p \in Processes : pc[p] = "idle" /\ exit[p] = "none"
    BY DEF Init, ConfigInit, DoneTypes
  <2>2. ~racing
    BY DEF Init
  <2> QED
    BY <2>1, <2>2 DEF DoneInv, Runs, Loading, Entering, Working
<1>2. IInv /\ Home /\ ScopeInv /\ DoneInv /\ [Next]_vars => DoneInv'
  <2> SUFFICES ASSUME IInv, Home, ScopeInv, DoneInv, [Next]_vars PROVE DoneInv'
    OBVIOUS
  <2>0. Home /\ Placed /\ ScopeTypes /\ DoneTypes /\ overlapped \in BOOLEAN
    BY DEF IInv, ScopeInv, DoneInv
  <2>1. CASE UNCHANGED vars
    <3>1. /\ UNCHANGED <<profile, secret, pc, cmd, then, server, draft, scope, exit, overlapped>>
          /\ UNCHANGED <<lock, module, forked, listing, catalog, applied, racing>>
      BY <2>1 DEF vars, configVars, fileVars, procVars, countVars, treeVars
    <3>2. DoneTypes'
      BY <2>0, <3>1 DEF DoneTypes
    <3>3. ASSUME NEW p \in Processes
          PROVE  (Runs(p) => Runs(p)') /\ (Working(p) => Working(p)') /\ (Done(p) => Done(p)')
      BY <3>1 DEF Runs, Loading, Working, Done, LoggedInAt
    <3> QED
      BY <3>1, <3>2, <3>3 DEF DoneInv
  <2>2. ASSUME NEW p \in Processes, (Start(p) /\ UNCHANGED treeVars) \/ StartTree(p)
        PROVE  DoneInv'
    <3>1. Own(p)
      BY <2>0, <2>2, StartScoped
    <3>2. /\ pc[p] = "idle" /\ UNCHANGED racing /\ DoneTypes'
          /\ exit' = [q \in Processes |-> "none"]
          /\ \A q \in Processes \ {p} : cmd'[q] = cmd[q]
          /\ Runs(p)' /\ Working(p)'
      BY <2>0, <2>2, StartWorks
    <3>3. ~overlapped' => ~racing' /\ exit'[p] # "success"
      BY <2>0, <3>1, <3>2 DEF Own, DoneInv
    <3> QED
      BY <3>1, <3>2, <3>3, OthersDone
  <2>3. ASSUME NEW p \in Processes,
               TreeStep(p) \/ ((Step(p) \/ Crash(p) \/ Deadline(p)) /\ UNCHANGED treeVars)
        PROVE  DoneInv'
    <3>1. Own(p)
      BY <2>0, <2>3, SessionScoped, LoginScoped, DraftScoped, WriteScoped, CurrentScoped,
         OthersScoped, TreeScoped DEF Step
    <3>2. Reports(p) /\ Runs(p)
      BY <2>0, <2>3, ReportsWhenDone DEF DoneInv
    <3>3. Runs(p)'
      BY <2>0, <2>3, <3>2, RunsOn DEF Reports
    <3>4. ~overlapped' =>
            ~overlapped /\ ~racing /\ Scoped(p) /\ Working(p) /\ exit[p] = "none"
      BY <2>0, <3>1, <3>2 DEF Own, Reports, DoneInv, ScopeInv
    <3>5. CASE TreeStep(p)
      <4>1. DoneTypes'
        BY <2>0, <3>2, <3>5, TreeTypes DEF Reports
      <4> QED
        BY <2>0, <3>1, <3>2, <3>3, <3>4, <3>5, <4>1, TreeWorks, OthersDone DEF Reports
    <3>6. CASE (Step(p) \/ Crash(p) \/ Deadline(p)) /\ UNCHANGED treeVars
      <4>1. DoneTypes' /\ UNCHANGED racing
        BY <2>0, <3>2, <3>6 DEF Reports, DoneTypes, treeVars
      <4> QED
        BY <2>0, <3>1, <3>2, <3>3, <3>4, <3>6, <4>1, ConfigWorks, OthersDone DEF Reports
    <3> QED
      BY <2>3, <3>5, <3>6
  <2> QED
    BY <2>1, <2>2, <2>3 DEF Next, Command, CrashTree
<1>3. DoneInv => SuccessHolds
  BY DEF DoneInv, SuccessHolds, Done, Logins, LoggedInAt
<1> QED
  BY <1>1, <1>2, <1>3, AlwaysHome, Inductive, AlwaysScoped, PTL DEF Spec

=============================================================================
