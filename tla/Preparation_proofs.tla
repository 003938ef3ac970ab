------------------------- MODULE Preparation_proofs -------------------------
(***************************************************************************)
(* What TLAPS proves of Preparation: what loading and validate have found  *)
(* to be right stays right while a Run is under way, and a Run keeps to    *)
(* the contract of its Capability, for every tree, host and Request.       *)
(***************************************************************************)
EXTENDS Preparation, FiniteSetTheorems, WellFoundedInduction, TLAPS

(* The places of a Run, in the order they are reached.                     *)
Asking == {"inputs", "recipe", "fulfil", "checkHost", "invocation"}
Working == {"environment", "step", "prepare", "script", "collect", "returns"}
Ended == {"failed", "cancelled", "succeeded"}
Starting == {"idle", "choose", "preflight", "manual"} \union Asking

-----------------------------------------------------------------------------
(* The invariant, part by part.                                            *)

(* The disk and the host, and what the last validate said of them.         *)
Surroundings ==
  /\ tree \in Trees /\ host \in Hosts
  /\ valid => Validate(tree) /\ ValidateHost(tree, host)
  /\ at \notin {"idle", "refused"} => Validate(tree)

Chosen(c) == \E found \in Named(tree, "Capability", c.name) : c = Document(tree, found)

Provides(r, c) == \E found \in RecipesForCapability(tree, c.name) : r = Document(tree, found)

(* The Capability and the Recipe are documents of the tree.                *)
Choices ==
  /\ at \in Asking \union Working \union Ended \union {"preflight", "manual"} => Chosen(capability)
  /\ at \notin {"idle", "choose", "refused"} /\ recipe # None => Provides(recipe, capability)
  /\ at \in {"idle", "choose", "inputs", "recipe"} => request = None /\ recipe = None
  /\ at \in {"fulfil", "checkHost"} => request # None
  /\ request # None => request \in Requests

HostIsReady(requires) ==
  /\ \A command \in Range(requires.commands) :
       command.name \in DOMAIN host.commands /\ checkCommandVersion(command)
  /\ Range(requires.hostEnv) \subseteq host.env

(* The preflight has been passed.                                          *)
Passed ==
  at \in Working =>
    recipe # None /\ recipe.runtime = "shell" /\ (recipe.requires # None => HostIsReady(recipe.requires))

(* What a Step has produced: a text that its script has exported, or an    *)
(* artifact that is on record.                                             *)
ProductHeld(v, product) ==
  /\ v = [is |-> v.is, as |-> v.as, n |-> v.n]
  /\ IF product.env # None THEN v \in Literals /\ v.is = "string"
     ELSE v.is = "artifact" /\ v.n \in DOMAIN artifacts

StepHeld(step) ==
  /\ DOMAIN products[step.id] = Fields(step.produces)
  /\ \A name \in Fields(step.produces) : ProductHeld(products[step.id][name], step.produces[name])

Count == Cardinality(DOMAIN products)

(* The Steps so far, each with what it has to produce.                     *)
Production ==
  /\ at \in Starting \union {"environment"} => products = <<>> /\ artifacts = <<>>
  /\ at \in Starting \union (Working \ {"returns"}) => returns = <<>>
  /\ at \in Working =>
       /\ IsFiniteSet(DOMAIN products)
       /\ Count <= Len(recipe.steps)
       /\ DOMAIN products = {recipe.steps[j].id : j \in 1..Count}
       /\ \A j \in 1..Count : StepHeld(recipe.steps[j])
  /\ at \in {"prepare", "script", "collect"} => Count < Len(recipe.steps)
  /\ at = "returns" => Count = Len(recipe.steps)

OutputMet(output, v) ==
  IF output.type # "artifact" THEN MeetsType(v, output.type)
  ELSE /\ v.is = "artifact" /\ v.n \in DOMAIN artifacts
       /\ v.as = artifacts[v.n]
       /\ output.media \in {None, v.as}

(* The outputs so far, each as the Capability declares it.                 *)
Returning ==
  /\ at = "returns" => left \subseteq Fields(capability.outputs)
  /\ at \in {"returns", "succeeded"} =>
    /\ DOMAIN returns = Fields(capability.outputs) \ (IF at = "returns" THEN left ELSE {})
    /\ \A name \in DOMAIN returns : OutputMet(capability.outputs[name], returns[name])

(* A value, and what is spelled as an integer is one.                      *)
Scalar(v) == v # None /\ ("int" \in {v.is, v.as} => Integral(v.n))

(* The inputs of run have been resolved once, and resolve again.           *)
Resolved ==
  /\ at = "recipe" \/ (at = "invocation" /\ request = None) =>
       InputsResolve(capability, inputs) /\ \A v \in Range(inputs) : Scalar(v)
  /\ InputsMeetContract

StaticCauses == {"template", "environment", "approval", "run", "return"}

(* The host does not change while a Run is under way, so that what failed  *)
(* in the preflight is still to be seen.                                   *)
Reasons(why) ==
  LET requires == recipe.requires
  IN /\ why \notin StaticCauses
     /\ why \in {"command", "version", "hostEnv", "file", "shell"} =>
          recipe # None /\ recipe.runtime = "shell"
     /\ why \in {"command", "version", "hostEnv", "file"} => requires # None
     /\ why = "command" => \E c \in Range(requires.commands) : c.name \notin DOMAIN host.commands
     /\ why = "version" =>
          \E c \in Range(requires.commands) : c.name \in DOMAIN host.commands /\ ~checkCommandVersion(c)
     /\ why = "hostEnv" => ~(Range(requires.hostEnv) \subseteq host.env)
     /\ why = "file" =>
          \E t \in Range(requires.files) : t.refs = {} => Place(host, t.file) # "file"
     /\ why = "shell" =>
          \E step \in Range(recipe.steps) : step.run # None /\ step.run.shell \notin DOMAIN host.commands

Failures == at = "failed" => Reasons(cause)

(* run without --input is refused for these reasons only.                  *)
Excused ==
  \E name \in Fields(capability.inputs) :
    LET input == capability.inputs[name]
    IN \/ input.required /\ input.default = None
       \/ /\ input.type = "integer"
          /\ \E v \in Entries(input.enum) \union {input.default} : v # None /\ v.is = "float"

Refusals == (at = "refused" /\ cause = "inputs" /\ request = None /\ given = <<>>) => Excused

PreparationInv ==
  /\ Surroundings /\ Choices /\ Passed /\ Production /\ Returning
  /\ Resolved /\ Failures /\ Refusals

-----------------------------------------------------------------------------
(* Where an action is taken, where it leads, and what it leaves alone.     *)
Moving ==
  \/ UNCHANGED vars
  \/ Check /\ UNCHANGED <<tree, host, changes, at, cause, chosen, data>>
  \/ ChangeHost /\ at = "idle" /\ UNCHANGED <<tree, at, cause, chosen, data>>
  \/ localCatalog /\ at = "idle" /\ at' \in {"choose", "refused"}
     /\ UNCHANGED <<tree, host, changes, valid, chosen, data>>
  \/ ChooseCapability /\ at = "choose" /\ at' \in {"inputs", "refused"}
     /\ UNCHANGED <<tree, host, changes, valid, request, recipe, data>>
  \/ ParseInputs /\ at = "inputs" /\ at' \in {"recipe", "refused"}
     /\ UNCHANGED <<tree, host, changes, valid, chosen, products, left, returns, artifacts>>
  \/ ChooseRecipe /\ at = "recipe" /\ at' \in {"invocation", "refused"}
     /\ UNCHANGED <<tree, host, changes, valid, request, capability, data>>
  \/ TakeRequest /\ at = "choose" /\ at' \in {"fulfil", "refused"}
     /\ UNCHANGED <<tree, host, changes, valid, recipe, data>>
  \/ resolveListenFulfillment /\ at = "fulfil" /\ at' \in {"checkHost", "refused"}
     /\ UNCHANGED <<tree, host, changes, valid, request, capability, data>>
  \/ validateShareHost /\ at = "checkHost" /\ at' \in {"invocation", "refused"}
     /\ UNCHANGED <<tree, host, changes, valid, chosen, data>>
  \/ validateInvocation /\ at = "invocation" /\ at' \in {"preflight", "refused"}
     /\ UNCHANGED <<tree, host, changes, valid, chosen, given, products, left, returns, artifacts>>
  \/ preflight /\ at = "preflight" /\ at' \in {"manual", "environment", "failed"}
     /\ UNCHANGED <<tree, host, changes, valid, chosen, data>>
  \/ resolveEnvironment /\ at = "environment" /\ at' \in {"step", "failed"}
     /\ UNCHANGED <<tree, host, changes, valid, chosen, data>>
  \/ Approve /\ at = "step" /\ at' \in {"prepare", "cancelled", "failed"}
     /\ UNCHANGED <<tree, host, changes, valid, chosen, data>>
  \/ PrepareStep /\ at = "prepare" /\ at' \in {"script", "failed"}
     /\ UNCHANGED <<tree, host, changes, valid, chosen, data>>
  \/ executeStep /\ at = "script" /\ at' \in {"collect", "failed"}
     /\ UNCHANGED <<tree, host, changes, valid, chosen, data>>
  \/ collectProducts /\ at = "collect" /\ at' \in {"step", "failed"}
     /\ UNCHANGED <<tree, host, changes, valid, chosen, given, inputs, left, returns>>
  \/ runManual /\ at = "manual" /\ at' \in {"succeeded", "failed"}
     /\ UNCHANGED <<tree, host, changes, valid, chosen, given, inputs, products, left>>
  \/ BeginReturns /\ at = "step" /\ at' \in {"returns"}
     /\ UNCHANGED <<tree, host, changes, valid, cause, chosen, given, inputs, products, returns, artifacts>>
  \/ (\E name \in left : ReturnOutput(name)) /\ at = "returns" /\ at' \in {"returns", "failed"}
     /\ UNCHANGED <<tree, host, changes, valid, chosen, given, inputs>>
  \/ Succeed /\ at = "returns" /\ at' \in {"succeeded"}
     /\ UNCHANGED <<tree, host, changes, valid, cause, chosen, data>>

(* Which variables a step may change, whatever step it is.                 *)
LEMMA Moves == [Next]_vars => Moving
<1> SUFFICES ASSUME [Next]_vars PROVE Moving
  OBVIOUS
<1>1. CASE UNCHANGED vars
  BY <1>1 DEF Moving
<1>2. CASE Check
  BY <1>2 DEF Check, Moving
<1>3. CASE ChangeHost
  BY <1>3 DEF ChangeHost, Moving
<1>4. CASE localCatalog
  BY <1>4 DEF localCatalog, Go, Refuse, Fail, Stop, Moving
<1>5. CASE ChooseCapability
  BY <1>5 DEF ChooseCapability, Go, Refuse, Fail, Stop, Moving
<1>6. CASE ParseInputs
  BY <1>6 DEF ParseInputs, Go, Refuse, Fail, Stop, Moving
<1>7. CASE ChooseRecipe
  BY <1>7 DEF ChooseRecipe, Begin, Go, Refuse, Fail, Stop, Moving
<1>8. CASE TakeRequest
  BY <1>8 DEF TakeRequest, Go, Refuse, Fail, Stop, Moving
<1>9. CASE resolveListenFulfillment
  BY <1>9 DEF resolveListenFulfillment, Go, Refuse, Fail, Stop, Moving
<1>10. CASE validateShareHost
  BY <1>10 DEF validateShareHost, Go, Refuse, Fail, Stop, Moving
<1>11. CASE validateInvocation
  BY <1>11 DEF validateInvocation, Go, Refuse, Fail, Stop, Moving
<1>12. CASE preflight
  BY <1>12 DEF preflight, Go, Refuse, Fail, Stop, Moving
<1>13. CASE resolveEnvironment
  BY <1>13 DEF resolveEnvironment, Go, Refuse, Fail, Stop, Moving
<1>14. CASE Approve
  BY <1>14 DEF Approve, Go, Refuse, Fail, Stop, Moving
<1>15. CASE PrepareStep
  BY <1>15 DEF PrepareStep, Go, Refuse, Fail, Stop, Moving
<1>16. CASE executeStep
  BY <1>16 DEF executeStep, Go, Refuse, Fail, Stop, Moving
<1>17. CASE collectProducts
  BY <1>17 DEF collectProducts, Go, Refuse, Fail, Stop, Moving
<1>18. CASE runManual
  BY <1>18 DEF runManual, Go, Refuse, Fail, Stop, Moving
<1>19. CASE BeginReturns
  BY <1>19 DEF BeginReturns, Go, Refuse, Fail, Stop, Moving
<1>20. CASE \E name \in left : ReturnOutput(name)
  BY <1>20 DEF ReturnOutput, Go, Fail, Stop, Moving
<1>21. CASE Succeed
  BY <1>21 DEF Succeed, Go, Refuse, Fail, Stop, Moving
<1> QED
  BY <1>1, <1>2, <1>3, <1>4, <1>5, <1>6, <1>7, <1>8, <1>9, <1>10,
     <1>11, <1>12, <1>13, <1>14, <1>15, <1>16, <1>17, <1>18, <1>19, <1>20, <1>21 DEF Next

-----------------------------------------------------------------------------
(* The surroundings, and the choices.                                      *)

(* The tree, the host and the values given stay what the assumption says.  *)
LEMMA SurroundingsStay == PreparationInv /\ [Next]_vars => Surroundings'
<1> SUFFICES ASSUME PreparationInv, [Next]_vars PROVE Surroundings'
  OBVIOUS
<1> USE DEF Surroundings, PreparationInv
<1>1. Moving
  BY Moves
<1>2. CASE Check
  BY <1>2 DEF Check
<1>3. CASE localCatalog
  BY <1>3 DEF localCatalog, Refuse, Go, Stop
<1>4. CASE ChangeHost
  BY <1>4 DEF ChangeHost
<1>5. CASE ~Check /\ ~localCatalog /\ ~ChangeHost
  BY <1>1, <1>5 DEF Moving, vars
<1> QED
  BY <1>2, <1>3, <1>4, <1>5

(* A set with one member has a member.                                     *)
LEMMA OneOf ==
  ASSUME NEW t, NEW found, Cardinality(found) = 1
  PROVE  \E one \in found : Document(t, CHOOSE any \in found : TRUE) = Document(t, one)
<1>1. found # {}
  BY FS_EmptySet
<1> QED
  BY <1>1

(* What is chosen was found in the tree, with its document.                *)
LEMMA ChoicesStay == PreparationInv /\ [Next]_vars => Choices'
<1> SUFFICES ASSUME PreparationInv, [Next]_vars PROVE Choices'
  OBVIOUS
<1>0. Choices /\ Moving
  BY Moves DEF PreparationInv
<1> USE DEF Choices, Chosen, Provides, chosen, data, vars, Asking, Working, Ended
<1>1. ASSUME NEW c, NEW version, NEW named, named = findCapability(c.name, version),
             Cardinality(named) = 1, tree' = tree, capability' = One(named)
      PROVE  Chosen(capability)'
  <2>1. PICK one \in named : capability' = Document(tree, one)
    BY <1>1, OneOf DEF One
  <2>2. one \in Definitions(tree, "Capability") /\ Document(tree, one).name = c.name
    BY <1>1 DEF findCapability, Revision, Named
  <2> QED
    BY <1>1, <2>1, <2>2 DEF Named
<1>2. CASE ChooseCapability
  <2>1. PICK c, version :
          LET named == findCapability(c.name, version)
          IN IF Cardinality(named) = 1 THEN capability' = One(named) /\ Go("inputs")
             ELSE Refuse("capability") /\ UNCHANGED capability
    BY <1>2 DEF ChooseCapability
  <2>2. tree' = tree /\ request' = request /\ recipe' = recipe /\ request = None /\ recipe = None
    BY <1>0, <1>2 DEF ChooseCapability
  <2>3. CASE Cardinality(findCapability(c.name, version)) = 1
    BY <1>1, <2>1, <2>2, <2>3 DEF Go
  <2>4. CASE Cardinality(findCapability(c.name, version)) # 1
    BY <2>1, <2>2, <2>4 DEF Refuse, Stop
  <2> QED
    BY <2>3, <2>4
<1>3. CASE TakeRequest
  <2>1. PICK asked \in Requests :
          LET c == asked.capability
              named == findCapability(c.name, c.version)
          IN /\ request' = asked
             /\ IF Cardinality(named) # 1 THEN Refuse("capability") /\ UNCHANGED capability
                ELSE /\ capability' = One(named)
                     /\ IF asked.via = "share" /\ One(named) # c THEN Refuse("digest") ELSE Go("fulfil")
    BY <1>3 DEF TakeRequest
  <2>2. tree' = tree /\ recipe' = recipe /\ recipe = None /\ request' \in Requests /\ request' # None
    BY <1>0, <1>3, <2>1, PreparationAssumption DEF TakeRequest
  <2>3. CASE Cardinality(findCapability(asked.capability.name, asked.capability.version)) = 1
    BY <1>1, <2>1, <2>2, <2>3 DEF Go, Refuse, Stop
  <2>4. CASE Cardinality(findCapability(asked.capability.name, asked.capability.version)) # 1
    BY <2>1, <2>2, <2>4 DEF Refuse, Stop
  <2> QED
    BY <2>3, <2>4
<1>4. ASSUME NEW name, NEW version, NEW found, found \in ResolveRecipe(name, version),
             tree' = tree, capability' = capability, recipe' = Document(tree, found)
      PROVE  Provides(recipe, capability)'
  BY <1>4 DEF ResolveRecipe
<1>5. CASE ChooseRecipe
  <2>1. UNCHANGED <<tree, request, capability>> /\ at = "recipe" /\ at' \in {"invocation", "refused"}
    BY <1>5 DEF ChooseRecipe, Begin, Go, Refuse, Stop
  <2>2. (recipe' = recipe /\ recipe = None) \/ Provides(recipe, capability)'
    <3>1. CASE UNCHANGED recipe
      BY <1>0, <2>1, <3>1
    <3>2. ASSUME NEW name, NEW version, Cardinality(ResolveRecipe(name, version)) = 1,
                 recipe' = One(ResolveRecipe(name, version))
          PROVE  Provides(recipe, capability)'
      <4>1. PICK one \in ResolveRecipe(name, version) : recipe' = Document(tree, one)
        BY <3>2, OneOf DEF One
      <4> QED
        BY <1>4, <2>1, <4>1
    <3>3. ASSUME NEW found \in ResolveRecipe(None, None), recipe' = Document(tree, found)
          PROVE  Provides(recipe, capability)'
      BY <1>4, <2>1, <3>3
    <3> QED
      BY <1>5, <3>1, <3>2, <3>3 DEF ChooseRecipe
  <2> QED
    BY <1>0, <2>1, <2>2
<1>6. CASE resolveListenFulfillment
  <2>1. UNCHANGED <<tree, request, capability>> /\ at = "fulfil" /\ at' \in {"checkHost", "refused"}
    BY <1>6 DEF resolveListenFulfillment, Go, Refuse, Stop
  <2>2. \/ UNCHANGED recipe
        \/ \E name, version : \E found \in ResolveRecipe(name, version) : recipe' = Document(tree, found)
    BY <1>6 DEF resolveListenFulfillment
  <2>3. UNCHANGED recipe \/ Provides(recipe, capability)'
    BY <1>4, <2>1, <2>2
  <2> QED
    BY <1>0, <2>1, <2>3
<1>7. CASE ~ChooseCapability /\ ~TakeRequest /\ ~ChooseRecipe /\ ~resolveListenFulfillment
  BY <1>0, <1>7 DEF Moving
<1> QED
  BY <1>2, <1>3, <1>5, <1>6, <1>7

-----------------------------------------------------------------------------
(* What loading the tree has made sure of.                                 *)

(* The Capability fits, and the decoder has given it its shape.            *)
LEMMA CapabilityHolds ==
  ASSUME tree \in Trees, Validate(tree), Chosen(capability)
  PROVE  capabilityFits(capability) /\ IsCapability(capability)
<1>1. PICK found \in Definitions(tree, "Capability") : capability = Document(tree, found)
  BY DEF Chosen, Named
<1>2. capabilityFits(capability)
  BY <1>1 DEF Validate, Fits
<1>3. found[1] \in DOMAIN tree.files /\ tree.files[found[1]].kind = "Capability"
  BY <1>1 DEF Definitions, Discover
<1> QED
  BY <1>1, <1>2, <1>3, PreparationAssumption DEF Document, Range

(* The Recipe fits, it means something in its tree, and what it provides   *)
(* includes the Capability.                                                *)
LEMMA RecipeHolds ==
  ASSUME tree \in Trees, Validate(tree), Chosen(capability), Provides(recipe, capability)
  PROVE  /\ recipeFits(recipe) /\ recipeMeans(recipe, tree) /\ IsRecipe(recipe)
         /\ capability \in Provided(recipe, tree)
         /\ \E found \in Definitions(tree, "Recipe") : recipe = Document(tree, found)
<1>1. PICK found \in Definitions(tree, "Recipe") :
        recipe = Document(tree, found) /\ capability.name \in Range(recipe.provides)
  BY DEF Provides, RecipesForCapability
<1>2. recipeFits(recipe) /\ recipeMeans(recipe, tree)
  BY <1>1 DEF Validate, Fits, Means
<1>3. found[1] \in DOMAIN tree.files /\ tree.files[found[1]].kind = "Recipe"
  BY <1>1 DEF Definitions, Discover
<1>4. IsRecipe(recipe)
  BY <1>1, <1>3, PreparationAssumption DEF Document, Range
<1>5. capability \in Provided(recipe, tree)
  BY <1>1 DEF Chosen, Provided
<1> QED
  BY <1>1, <1>2, <1>4, <1>5

-----------------------------------------------------------------------------
(* The preflight.                                                          *)

(* The first entry is one of them, and is something.                       *)
LEMMA FirstIsEntry ==
  ASSUME NEW s, NEW found \in FirstOf(s)
  PROVE  found # None /\ \E k \in DOMAIN s : found = s[k]
BY DEF FirstOf

(* Without a first entry there is none.                                    *)
LEMMA NoFirstNone ==
  ASSUME NEW n \in Nat, NEW s, DOMAIN s = 1..n, FirstOf(s) = {}
  PROVE  \A k \in DOMAIN s : s[k] = None
<1> SUFFICES ASSUME NEW k \in DOMAIN s, s[k] # None PROVE FALSE
  OBVIOUS
<1> DEFINE some == {j \in DOMAIN s : s[j] # None}
<1>1. some \subseteq Nat /\ some # {}
  OBVIOUS
<1>2. PICK least \in some : \A j \in some : <<j, least>> \notin OpToRel(<, Nat)
  BY <1>1, WFMin, NatLessThanWellFounded
<1>3. \A j \in some : ~(j < least)
  BY <1>1, <1>2 DEF OpToRel
<1>4. \A i \in 1..(least - 1) : s[i] = None
  BY <1>3
<1> QED
  BY <1>4 DEF FirstOf

(* What it has found when it finds nothing: the host is ready.             *)
LEMMA PreflightFindsNothing ==
  ASSUME PreflightCauses = {}, IsRecipe(recipe), recipe.requires # None
  PROVE  HostIsReady(recipe.requires)
<1> DEFINE commands == recipe.requires.commands
           causes == [k \in DOMAIN commands |-> CommandCause(commands[k])]
<1>1. None \notin {"command", "version", "hostEnv"}
  BY PreparationAssumption DEF Causes
<1>2. RequirementCauses(recipe.requires) = {}
  BY DEF PreflightCauses
<1>3. FirstOf(causes) = {} /\ Range(recipe.requires.hostEnv) \subseteq host.env
  BY <1>2 DEF RequirementCauses
<1>4. Len(commands) \in Nat /\ DOMAIN causes = 1..Len(commands)
  BY DEF IsRecipe
<1>5. \A k \in DOMAIN commands : CommandCause(commands[k]) = None
  <2>1. \A k \in DOMAIN causes : causes[k] = None
    BY <1>3, <1>4, NoFirstNone
  <2> QED
    BY <2>1
<1>6. ASSUME NEW command \in Range(commands)
      PROVE  command.name \in DOMAIN host.commands /\ checkCommandVersion(command)
  <2>1. CommandCause(command) = None
    BY <1>5, <1>6 DEF Range
  <2> QED
    BY <1>1, <2>1 DEF CommandCause
<1> QED
  BY <1>3, <1>6 DEF HostIsReady

(* What loading and the host's checks found stays true of what was chosen. *)
LEMMA PassedStays == PreparationInv /\ [Next]_vars => Passed'
<1> SUFFICES ASSUME PreparationInv, [Next]_vars PROVE Passed'
  OBVIOUS
<1>0. Surroundings /\ Choices /\ Passed /\ Moving
  BY Moves DEF PreparationInv
<1>1. CASE preflight /\ at' \in Working
  <2>1. UNCHANGED <<host, recipe>> /\ at = "preflight" /\ recipe # None /\ recipe.runtime # "manual"
        /\ PreflightCauses = {}
    BY <1>1 DEF preflight, Go, Fail, Stop, Working, chosen
  <2>2. recipe.runtime = "shell" /\ IsRecipe(recipe)
    BY <1>0, <2>1, RecipeHolds DEF Surroundings, Choices, recipeFits
  <2>3. recipe.requires # None => HostIsReady(recipe.requires)
    BY <2>1, <2>2, PreflightFindsNothing
  <2> QED
    BY <2>1, <2>2, <2>3 DEF Passed, HostIsReady, checkCommandVersion
<1>2. CASE at \in Working /\ at' \in Working
  <2>1. UNCHANGED <<host, recipe>>
    BY <1>0, <1>2 DEF Moving, Working, chosen, vars
  <2> QED
    BY <1>0, <1>2, <2>1 DEF Passed, HostIsReady, checkCommandVersion
<1>3. CASE at' \in Working /\ at \notin Working /\ ~preflight
  BY <1>0, <1>3 DEF Moving, Working, vars
<1> QED
  BY <1>1, <1>2, <1>3 DEF Passed

-----------------------------------------------------------------------------
(* The Steps and what they produce.                                        *)

(* A Recipe of the shell with its Steps, whose ids are distinct.           *)
LEMMA StepsHold ==
  ASSUME Surroundings, Choices, Passed, at \in Working
  PROVE  /\ ShellFits(recipe) /\ ShellMeans(recipe, Provided(recipe, tree))
         /\ Len(recipe.steps) \in Nat /\ DOMAIN recipe.steps = 1..Len(recipe.steps)
         /\ \A k \in DOMAIN recipe.steps : \A j \in 1..(k - 1) : recipe.steps[j].id # recipe.steps[k].id
<1>1. /\ tree \in Trees /\ Validate(tree) /\ Chosen(capability) /\ Provides(recipe, capability)
      /\ recipe.runtime = "shell"
  BY DEF Surroundings, Choices, Passed, Working
<1>2. /\ recipeFits(recipe) /\ recipeMeans(recipe, tree) /\ IsRecipe(recipe)
  BY <1>1, RecipeHolds
<1>3. ShellFits(recipe) /\ ShellMeans(recipe, Provided(recipe, tree))
  BY <1>1, <1>2 DEF recipeFits, recipeMeans
<1>4. recipe.steps \in Seq(Range(recipe.steps))
  BY <1>2, <1>3 DEF IsRecipe, ShellFits
<1>5. \A k \in DOMAIN recipe.steps : StepMeans(recipe, k, commonCapabilityInputs(Provided(recipe, tree)))
  BY <1>3 DEF ShellMeans
<1>6. \A k \in DOMAIN recipe.steps : \A j \in 1..(k - 1) : recipe.steps[j].id # recipe.steps[k].id
  BY <1>5 DEF StepMeans
<1> QED
  BY <1>3, <1>4, <1>6

(* With distinct ids the results of the Steps so far are what each of them *)
(* declares.                                                               *)
LEMMA ResultsKnown ==
  ASSUME NEW r, Len(r.steps) \in Nat, DOMAIN r.steps = 1..Len(r.steps),
         \A k \in DOMAIN r.steps : \A j \in 1..(k - 1) : r.steps[j].id # r.steps[k].id,
         NEW k \in 1..(Len(r.steps) + 1)
  PROVE  /\ DOMAIN ResultsBefore(r, k) = {r.steps[j].id : j \in 1..(k - 1)}
         /\ \A j \in 1..(k - 1) : ResultsBefore(r, k)[r.steps[j].id] = r.steps[j].produces
<1>1. DOMAIN ResultsBefore(r, k) = {r.steps[j].id : j \in 1..(k - 1)}
  BY DEF ResultsBefore
<1>2. ASSUME NEW j \in 1..(k - 1) PROVE ResultsBefore(r, k)[r.steps[j].id] = r.steps[j].produces
  <2>1. j \in DOMAIN r.steps /\ r.steps[j] \in Range(r.steps)
    BY DEF Range
  <2>2. ASSUME NEW step \in Range(r.steps), step.id = r.steps[j].id PROVE step = r.steps[j]
    <3>1. PICK i \in DOMAIN r.steps : step = r.steps[i]
      BY <2>2 DEF Range
    <3>2. i = j
      BY <2>1, <2>2, <3>1
    <3> QED
      BY <3>1, <3>2
  <2>3. (CHOOSE step \in Range(r.steps) : step.id = r.steps[j].id) = r.steps[j]
    BY <2>1, <2>2
  <2> QED
    BY <2>3 DEF ResultsBefore
<1> QED
  BY <1>1, <1>2

(* The results that a Step may use, and those the outputs may, are there.  *)
LEMMA ResultsHeld ==
  ASSUME Surroundings, Choices, Passed, Production, at \in Working
  PROVE  LET results == ResultsBefore(recipe, Count + 1)
         IN /\ DOMAIN results = DOMAIN products
            /\ \A id \in DOMAIN products : \E j \in 1..Count :
                 /\ id = recipe.steps[j].id /\ StepHeld(recipe.steps[j])
                 /\ results[id] = recipe.steps[j].produces /\ DOMAIN products[id] = Fields(results[id])
<1>1. /\ Len(recipe.steps) \in Nat /\ DOMAIN recipe.steps = 1..Len(recipe.steps)
      /\ \A k \in DOMAIN recipe.steps : \A j \in 1..(k - 1) : recipe.steps[j].id # recipe.steps[k].id
  BY StepsHold
<1>2. /\ Count \in Nat /\ Count <= Len(recipe.steps)
      /\ DOMAIN products = {recipe.steps[j].id : j \in 1..Count}
      /\ \A j \in 1..Count : StepHeld(recipe.steps[j])
  BY FS_CardinalityType DEF Production, Count
<1> HIDE DEF Count
<1>3. Count + 1 \in 1..(Len(recipe.steps) + 1) /\ (Count + 1) - 1 = Count
  BY <1>1, <1>2
<1>4. /\ DOMAIN ResultsBefore(recipe, Count + 1) = {recipe.steps[j].id : j \in 1..Count}
      /\ \A j \in 1..Count : ResultsBefore(recipe, Count + 1)[recipe.steps[j].id] = recipe.steps[j].produces
  <2>1. PICK k \in 1..(Len(recipe.steps) + 1) : k = Count + 1
    BY <1>3
  <2>2. /\ DOMAIN ResultsBefore(recipe, k) = {recipe.steps[j].id : j \in 1..(k - 1)}
        /\ \A j \in 1..(k - 1) : ResultsBefore(recipe, k)[recipe.steps[j].id] = recipe.steps[j].produces
    BY <1>1, ResultsKnown
  <2>3. k - 1 = Count
    BY <1>3, <2>1
  <2> QED
    BY <2>1, <2>2, <2>3
<1>5. ASSUME NEW id \in DOMAIN products
      PROVE  \E j \in 1..Count :
               /\ id = recipe.steps[j].id /\ StepHeld(recipe.steps[j])
               /\ ResultsBefore(recipe, Count + 1)[id] = recipe.steps[j].produces
               /\ DOMAIN products[id] = Fields(ResultsBefore(recipe, Count + 1)[id])
  BY <1>2, <1>4 DEF StepHeld
<1> QED
  BY <1>2, <1>4, <1>5

-----------------------------------------------------------------------------
(* The outputs.                                                            *)

(* What an output is returned from is there, and is of its kind.           *)
LEMMA ReturnRefers ==
  ASSUME PreparationInv, at = "returns", NEW name \in left
  PROVE  LET e == Referred(name)
         IN /\ Referable(name) /\ e[1] = "steps"
            /\ e[2] \in DOMAIN products /\ e[3] \in DOMAIN products[e[2]]
            /\ \E product : /\ ProductHeld(products[e[2]][e[3]], product)
                            /\ product.env = None <=> capability.outputs[name].type = "artifact"
<1> DEFINE t == recipe.returns[name]
           e == Referred(name)
           results == ResultsBefore(recipe, Len(recipe.steps) + 1)
           output == capability.outputs[name]
<1>1. /\ Surroundings /\ Choices /\ Passed /\ Production /\ Returning /\ at \in Working
      /\ name \in Fields(capability.outputs) /\ Count = Len(recipe.steps)
  BY DEF PreparationInv, Returning, Working, Production
<1>2. ShellFits(recipe) /\ ShellMeans(recipe, Provided(recipe, tree))
  BY <1>1, StepsHold
<1>3. IsRecipe(recipe) /\ capability \in Provided(recipe, tree)
  BY <1>1, RecipeHolds DEF Surroundings, Choices, Passed, Working
<1>4. name \in Fields(recipe.returns)
  BY <1>1, <1>2, <1>3 DEF ShellMeans
<1>5. /\ \E ctx : ctx.results = results /\ templateFits(t, ctx)
                  /\ ReturnMeans(t, {c.outputs[name] : c \in {d \in Provided(recipe, tree) : name \in Fields(d.outputs)}}, ctx)
  BY <1>2, <1>4 DEF ShellMeans, ReturnMeans
<1>6. PICK ctx : /\ ctx.results = results /\ templateFits(t, ctx)
                 /\ ReturnMeans(t, {c.outputs[name] : c \in {d \in Provided(recipe, tree) : name \in Fields(d.outputs)}}, ctx)
  BY <1>5
<1>7. output \in {c.outputs[name] : c \in {d \in Provided(recipe, tree) : name \in Fields(d.outputs)}}
  BY <1>1, <1>3
<1>8. t.form = "exact" /\ e \in t.refs
  <2>1. t.form = "exact"
    BY <1>6 DEF ReturnMeans
  <2>2. t \in Templates
    BY <1>3, <1>4 DEF IsRecipe, Entries, Fields, Range
  <2>3. PICK f \in t.refs : t.refs = {f}
    BY <2>1, <2>2 DEF Templates
  <2> QED
    BY <2>1, <2>3 DEF Referred
<1>9. /\ e[1] = "steps" /\ e[2] \in DOMAIN results /\ e[3] \in Fields(results[e[2]])
      /\ IF output.type = "artifact" THEN results[e[2]][e[3]].file # None ELSE results[e[2]][e[3]].env # None
  BY <1>6, <1>7, <1>8 DEF ReturnMeans, templateFits, ExpressionFits
<1> HIDE DEF t, e, results, output
<1>10. /\ e[2] \in DOMAIN products
       /\ \E j \in 1..Count : /\ e[2] = recipe.steps[j].id /\ StepHeld(recipe.steps[j])
                              /\ results[e[2]] = recipe.steps[j].produces
                              /\ DOMAIN products[e[2]] = Fields(results[e[2]])
  <2>1. results = ResultsBefore(recipe, Count + 1)
    BY <1>1 DEF results
  <2> QED
    BY <1>1, <1>9, <2>1, ResultsHeld
<1>11. PICK j \in 1..Count : /\ e[2] = recipe.steps[j].id /\ StepHeld(recipe.steps[j])
                             /\ results[e[2]] = recipe.steps[j].produces
                             /\ DOMAIN products[e[2]] = Fields(results[e[2]])
  BY <1>10
<1>12. e[3] \in DOMAIN products[e[2]] /\ ProductHeld(products[e[2]][e[3]], results[e[2]][e[3]])
  BY <1>9, <1>11 DEF StepHeld
<1>13. ProductFits(results[e[2]][e[3]])
  <2>1. j \in DOMAIN recipe.steps
    BY <1>1, <1>11, StepsHold
  <2>2. StepFits(recipe.steps[j])
    BY <1>2, <2>1 DEF ShellFits
  <2> QED
    BY <1>9, <1>11, <2>2 DEF StepFits
<1>14. results[e[2]][e[3]].env = None <=> output.type = "artifact"
  BY <1>9, <1>13 DEF ProductFits
<1>15. products[e[2]][e[3]].is = "artifact" <=> output.type = "artifact"
  BY <1>12, <1>14 DEF ProductHeld
<1>16. Referable(name)
  <2>1. Has(e) /\ resolveExpression(e) = products[e[2]][e[3]]
    BY <1>9, <1>10, <1>12 DEF Has, resolveExpression
  <2>2. (resolveExpression(e).is = "artifact") = (output.type = "artifact")
    BY <1>15, <2>1
  <2> QED
    BY <1>4, <1>8, <2>1, <2>2 DEF Referable, t, e, output
<1> QED
  BY <1>9, <1>10, <1>12, <1>14, <1>16 DEF e, output

-----------------------------------------------------------------------------
(* Production.                                                             *)

(* A Step that is through adds what it declares, and takes nothing away.   *)
LEMMA CollectingKeepsProduction ==
  ASSUME PreparationInv, collectProducts, at' = "step"
  PROVE  Production'
<1>a. PICK k : k = Count + 1
  OBVIOUS
<1>b. PICK step : step = recipe.steps[k]
  OBVIOUS
<1> DEFINE names == Fields(step.produces)
           exports == {n \in names : step.produces[n].env # None}
           files == names \ exports
<1>1. /\ Surroundings /\ Choices /\ Passed /\ Production /\ at = "collect" /\ at \in Working
      /\ recipe' = recipe /\ returns' = returns
  BY DEF PreparationInv, collectProducts, Working, chosen
<1>2. /\ Len(recipe.steps) \in Nat /\ DOMAIN recipe.steps = 1..Len(recipe.steps)
      /\ \A i \in DOMAIN recipe.steps : \A j \in 1..(i - 1) : recipe.steps[j].id # recipe.steps[i].id
  BY <1>1, StepsHold
<1>3. /\ Count \in Nat /\ Count < Len(recipe.steps) /\ IsFiniteSet(DOMAIN products)
      /\ DOMAIN products = {recipe.steps[j].id : j \in 1..Count}
      /\ \A j \in 1..Count : StepHeld(recipe.steps[j])
  BY <1>1, FS_CardinalityType DEF Production, Count
<1>4. PICK texts \in [exports -> Texts], media \in [files -> Media] :
        /\ products' = Updated(products, step.id,
             [n \in names |-> IF n \in exports THEN texts[n] ELSE Artifact(media[n], <<step.id, n>>)])
        /\ artifacts' = [id \in DOMAIN artifacts \union ({step.id} \X files) |->
                           IF id[1] = step.id THEN media[id[2]] ELSE artifacts[id]]
  <2> DEFINE P(s) ==
        LET all == Fields(s.produces)
            env == {n \in all : s.produces[n].env # None}
            file == all \ env
        IN \E texts \in [env -> Texts], media \in [file -> Media] :
             /\ products' = Updated(products, s.id,
                  [n \in all |-> IF n \in env THEN texts[n] ELSE Artifact(media[n], <<s.id, n>>)])
             /\ artifacts' = [id \in DOMAIN artifacts \union ({s.id} \X file) |->
                                IF id[1] = s.id THEN media[id[2]] ELSE artifacts[id]]
  <2>1. CurrentStep = step
    BY <1>a, <1>b DEF CurrentStep, Count
  <2>2. P(CurrentStep)
    BY DEF collectProducts, Fail, Stop
  <2> HIDE DEF P
  <2>3. P(step)
    BY <2>1, <2>2
  <2> QED
    BY <2>3 DEF P
<1>5. k \in DOMAIN recipe.steps /\ k - 1 = Count /\ k \in Nat
  BY <1>2, <1>3, <1>a
<1>6. step.id \notin DOMAIN products
  BY <1>2, <1>3, <1>5, <1>b
<1>7. DOMAIN products' = DOMAIN products \union {step.id}
  BY <1>4 DEF Updated
<1>8. IsFiniteSet(DOMAIN products') /\ Count' = k
  <2>1. Cardinality(DOMAIN products \union {step.id}) = Cardinality(DOMAIN products) + 1
        /\ IsFiniteSet(DOMAIN products \union {step.id})
    BY <1>3, <1>6, FS_AddElement
  <2> QED
    BY <1>7, <1>a, <2>1 DEF Count
<1>9. DOMAIN products' = {recipe.steps[j].id : j \in 1..k}
  <2>1. 1..k = 1..Count \union {k}
    BY <1>3, <1>5
  <2> QED
    BY <1>3, <1>7, <1>b, <2>1
<1>10. DOMAIN artifacts \subseteq DOMAIN artifacts'
  BY <1>4
<1>11. ASSUME NEW j \in 1..k PROVE StepHeld(recipe.steps[j])'
  <2>1. CASE j \in 1..Count
    <3>1. StepHeld(recipe.steps[j]) /\ recipe.steps[j].id \in DOMAIN products
      BY <1>3, <2>1
    <3>2. products'[recipe.steps[j].id] = products[recipe.steps[j].id]
      BY <1>4, <1>6, <3>1 DEF Updated
    <3> QED
      BY <1>1, <1>10, <3>1, <3>2 DEF StepHeld, ProductHeld
  <2>2. CASE j = k
    <3>1. products'[step.id] =
            [n \in names |-> IF n \in exports THEN texts[n] ELSE Artifact(media[n], <<step.id, n>>)]
      BY <1>4 DEF Updated
    <3>2. ASSUME NEW n \in names
          PROVE  ProductHeld(products[step.id][n], step.produces[n])'
      <4>1. CASE n \in exports
        <5>1. texts[n] \in Literals /\ texts[n].is = "string"
          BY <4>1, PreparationAssumption
        <5>2. texts[n] = [is |-> texts[n].is, as |-> texts[n].as, n |-> texts[n].n]
          BY <5>1 DEF Literals
        <5> QED
          BY <1>1, <3>1, <4>1, <5>1, <5>2 DEF ProductHeld
      <4>2. CASE n \notin exports
        <5>1. products'[step.id][n] = [is |-> "artifact", as |-> media[n], n |-> <<step.id, n>>]
          BY <3>1, <4>2 DEF Artifact, Value
        <5>2. <<step.id, n>> \in DOMAIN artifacts'
          BY <1>4, <4>2
        <5>3. step.produces[n].env = None
          BY <4>2
        <5> QED
          BY <1>1, <5>1, <5>2, <5>3 DEF ProductHeld
      <4> QED
        BY <4>1, <4>2
    <3> QED
      BY <1>1, <1>b, <2>2, <3>1, <3>2 DEF StepHeld
  <2> QED
    BY <1>5, <2>1, <2>2
<1>12. returns' = <<>>
  BY <1>1 DEF Production, Working
<1>13. Count' <= Len(recipe.steps)
  BY <1>2, <1>5, <1>8
<1> HIDE DEF names, exports, files
<1> QED
  BY <1>1, <1>8, <1>9, <1>11, <1>12, <1>13 DEF Production, Starting, Asking

-----------------------------------------------------------------------------
(* Values.                                                                 *)

(* What a document or the command line gives is a scalar.                  *)
LEMMA LiteralsAreScalars == \A v \in Literals : Scalar(v)
BY PreparationAssumption DEF Literals, Scalar

(* A value that normalizes, or a text that parses, is of the type.         *)
LEMMA NormalizedMeets ==
  ASSUME NEW v, Scalar(v), NEW type, normalizeScalar(v, type) # None
  PROVE  MeetsType(normalizeScalar(v, type), type) /\ Scalar(normalizeScalar(v, type))
BY DEF Scalar, normalizeScalar, MeetsType, Value, Float

(* A text that parses as an output is of the output's type.                *)
LEMMA ParsedMeets ==
  ASSUME NEW v \in Literals, v.is = "string", NEW type, parseOutputString(v, type) # None
  PROVE  MeetsType(parseOutputString(v, type), type) /\ Scalar(parseOutputString(v, type))
BY LiteralsAreScalars DEF Scalar, parseOutputString, normalizeScalar, MeetsType, Value, Float

(* What an output is returned as: an artifact keeps its id, anything else  *)
(* gets its type.                                                          *)
LEMMA ConvertedHeld ==
  ASSUME PreparationInv, at = "returns", NEW name \in left, ReturnCause(name) = None
  PROVE  LET v == Converted(name)
             e == Referred(name)
             output == capability.outputs[name]
         IN IF output.type = "artifact"
            THEN /\ v = [is |-> "artifact", as |-> v.as, n |-> products[e[2]][e[3]].n]
                 /\ v.n \in DOMAIN artifacts
                 /\ output.media \in {None, v.as}
                 /\ Returned(v.n) => artifacts[v.n] = v.as
            ELSE MeetsType(v, output.type) /\ v.is # "artifact"
<1> DEFINE v == Converted(name)
           e == Referred(name)
           output == capability.outputs[name]
           p == products[e[2]][e[3]]
<1>1. PICK product : /\ Referable(name) /\ e[1] = "steps"
                     /\ e[2] \in DOMAIN products /\ e[3] \in DOMAIN products[e[2]]
                     /\ ProductHeld(p, product)
                     /\ product.env = None <=> output.type = "artifact"
  BY ReturnRefers
<1>2. resolveExpression(e) = p
  BY <1>1 DEF resolveExpression
<1>3. v # None /\ v = convertOutput(p, output) /\ (v.is = "artifact" /\ Returned(v.n) => artifacts[v.n] = v.as)
  <2>1. None \notin {"output", "media"}
    BY PreparationAssumption DEF Causes
  <2> QED
    BY <1>1, <1>2, <2>1 DEF ReturnCause, Converted
<1> HIDE DEF v, e, output, p
<1>4. CASE output.type = "artifact"
  <2>1. p = [is |-> "artifact", as |-> p.as, n |-> p.n] /\ p.n \in DOMAIN artifacts
    BY <1>1, <1>4 DEF ProductHeld
  <2>2. v = IF output.media = None THEN p ELSE [p EXCEPT !.as = output.media]
    BY <1>3, <1>4, <2>1 DEF convertOutput
  <2>3. v = [is |-> "artifact", as |-> v.as, n |-> p.n]
    BY <2>1, <2>2
  <2>4. output.media \in {None, v.as}
    BY <2>1, <2>2
  <2> QED
    BY <1>3, <1>4, <2>1, <2>3, <2>4 DEF v, e, output, p
<1>5. CASE output.type # "artifact"
  <2>1. p \in Literals /\ p.is = "string"
    BY <1>1, <1>5 DEF ProductHeld
  <2>2. v = parseOutputString(p, output.type)
    BY <1>3, <1>5, <2>1 DEF convertOutput
  <2>3. MeetsType(v, output.type)
    BY <1>3, <2>1, <2>2, ParsedMeets
  <2>4. v.is # "artifact"
    BY <2>3 DEF MeetsType
  <2> QED
    BY <1>5, <2>3, <2>4 DEF v, output
<1> QED
  BY <1>4, <1>5

(* An output that is returned leaves the Run where it is.                  *)
LEMMA ReturnTaken ==
  ASSUME NEW name \in left, ReturnOutput(name), at' = "returns"
  PROVE  LET v == Converted(name)
             e == Referred(name)
         IN /\ at = "returns" /\ ReturnCause(name) = None
            /\ UNCHANGED <<recipe, capability>>
            /\ returns' = Updated(returns, name, v) /\ left' = left \ {name}
            /\ IF v.is = "artifact"
               THEN /\ artifacts' = [artifacts EXCEPT ![v.n] = v.as]
                    /\ products' = [products EXCEPT ![e[2]][e[3]] = v]
               ELSE UNCHANGED <<artifacts, products>>
BY DEF ReturnOutput, Fail, Stop, chosen

(* It may change the media type of an artifact, and nothing else of what   *)
(* the Steps have produced.                                                *)
LEMMA ReturningKeepsProduction ==
  ASSUME PreparationInv, NEW name \in left, ReturnOutput(name), at' = "returns"
  PROVE  Production'
<1> DEFINE v == Converted(name)
           p == products[Referred(name)[2]][Referred(name)[3]]
<1>a. PICK id, n : id = Referred(name)[2] /\ n = Referred(name)[3]
  OBVIOUS
<1>1. /\ Production /\ at = "returns" /\ ReturnCause(name) = None /\ UNCHANGED recipe
      /\ IF v.is = "artifact"
         THEN /\ artifacts' = [artifacts EXCEPT ![v.n] = v.as]
              /\ products' = [products EXCEPT ![id][n] = v]
         ELSE UNCHANGED <<artifacts, products>>
  BY <1>a, ReturnTaken DEF PreparationInv
<1>2. CASE v.is # "artifact"
  <2>1. UNCHANGED <<recipe, products, artifacts>>
    BY <1>1, <1>2
  <2> QED
    BY <1>1, <2>1 DEF Production, Count, StepHeld, ProductHeld, Starting, Working, Asking
<1>3. CASE v.is = "artifact"
  <2>1. /\ id \in DOMAIN products /\ n \in DOMAIN products[id]
        /\ \E product : /\ ProductHeld(p, product)
                        /\ product.env = None <=> capability.outputs[name].type = "artifact"
    BY <1>1, <1>a, ReturnRefers
  <2>2. IF capability.outputs[name].type = "artifact"
        THEN v = [is |-> "artifact", as |-> v.as, n |-> p.n] /\ v.n \in DOMAIN artifacts
        ELSE v.is # "artifact"
    BY <1>1, ConvertedHeld
  <2>3. /\ v = [is |-> "artifact", as |-> v.as, n |-> p.n] /\ v.n \in DOMAIN artifacts
        /\ p.is = "artifact"
    BY <1>3, <2>1, <2>2 DEF ProductHeld
  <2>b. PICK w : w = v
    OBVIOUS
  <2> HIDE DEF v
  <2>4. DOMAIN artifacts' = DOMAIN artifacts /\ DOMAIN products' = DOMAIN products
    BY <1>1, <1>3
  <2>5. ASSUME NEW j \in 1..Count PROVE StepHeld(recipe.steps[j])'
    <3>1. StepHeld(recipe.steps[j]) /\ recipe.steps[j].id \in DOMAIN products
      BY <1>1 DEF Production, Working
    <3>2. CASE recipe.steps[j].id # id
      <4>1. products'[recipe.steps[j].id] = products[recipe.steps[j].id]
        BY <1>1, <1>3, <3>1, <3>2
      <4> QED
        BY <1>1, <2>4, <3>1, <4>1 DEF StepHeld, ProductHeld
    <3>3. CASE recipe.steps[j].id = id
      <4>1. products'[id] = [products[id] EXCEPT ![n] = w]
        BY <1>1, <1>3, <2>1, <2>b
      <4>2. DOMAIN products'[id] = DOMAIN products[id]
        BY <4>1
      <4>3. ASSUME NEW m \in Fields(recipe.steps[j].produces)
            PROVE  ProductHeld(products[id][m], recipe.steps[j].produces[m])'
        <5>1. ProductHeld(products[id][m], recipe.steps[j].produces[m]) /\ m \in DOMAIN products[id]
          BY <3>1, <3>3 DEF StepHeld
        <5>2. CASE m # n
          <6>1. products'[id][m] = products[id][m]
            BY <4>1, <5>1, <5>2
          <6> QED
            BY <1>1, <2>4, <5>1, <6>1 DEF ProductHeld
        <5>3. CASE m = n
          <6>1. products'[id][m] = w
            BY <4>1, <5>1, <5>3
          <6>2. recipe.steps[j].produces[m].env = None
            BY <1>a, <2>3, <5>1, <5>3 DEF ProductHeld
          <6>3. w = [is |-> w.is, as |-> w.as, n |-> w.n] /\ w.is = "artifact" /\ w.n \in DOMAIN artifacts'
            BY <2>3, <2>4, <2>b
          <6> QED
            BY <1>1, <6>1, <6>2, <6>3 DEF ProductHeld
        <5> QED
          BY <5>2, <5>3
      <4> QED
        BY <1>1, <3>1, <3>3, <4>2, <4>3 DEF StepHeld
    <3> QED
      BY <3>2, <3>3
  <2>6. Count' = Count
    BY <2>4 DEF Count
  <2> QED
    BY <1>1, <2>4, <2>5, <2>6 DEF Production, Working, Starting, Asking
<1> QED
  BY <1>2, <1>3

(* The products are those of the Steps that were carried out.              *)
LEMMA ProductionStays == PreparationInv /\ [Next]_vars => Production'
<1> SUFFICES ASSUME PreparationInv, [Next]_vars PROVE Production'
  OBVIOUS
<1>0. Surroundings /\ Choices /\ Production /\ Moving
  BY Moves DEF PreparationInv
<1>1. CASE collectProducts /\ at' = "step"
  BY <1>1, CollectingKeepsProduction
<1>2. CASE at' = "returns" /\ \E name \in left : ReturnOutput(name)
  BY <1>2, ReturningKeepsProduction
<1>3. CASE at' \notin Starting \union Working
  BY <1>3 DEF Production, Starting, Working, Asking, Ended
<1>4. CASE preflight /\ at' = "environment"
  <2>1. UNCHANGED <<products, artifacts, returns, recipe>> /\ at = "preflight"
        /\ recipe # None /\ recipe.runtime # "manual"
    BY <1>4 DEF preflight, chosen, data, Go, Fail, Stop
  <2>2. products = <<>> /\ artifacts = <<>> /\ returns = <<>>
    BY <1>0, <2>1 DEF Production, Starting
  <2>3. Cardinality(DOMAIN products) = 0 /\ IsFiniteSet(DOMAIN products) /\ DOMAIN products = {}
    BY <2>2, FS_EmptySet
  <2>4. recipe.runtime = "shell" /\ recipeFits(recipe) /\ IsRecipe(recipe)
    BY <1>0, <2>1, RecipeHolds DEF Surroundings, Choices, recipeFits
  <2>5. Len(recipe.steps) \in Nat
    BY <2>4 DEF recipeFits, ShellFits, IsRecipe
  <2>6. Count' = 0 /\ 1..0 = {}
    BY <2>1, <2>3 DEF Count
  <2>7. /\ IsFiniteSet(DOMAIN products') /\ Count' <= Len(recipe'.steps)
        /\ DOMAIN products' = {recipe'.steps[j].id : j \in 1..Count'}
    BY <2>1, <2>3, <2>5, <2>6
  <2> QED
    BY <1>4, <2>1, <2>2, <2>6, <2>7 DEF Production, Starting, Asking, Working
<1>5. CASE Approve /\ at' = "prepare"
  <2>1. UNCHANGED <<recipe, products, artifacts, returns>> /\ at = "step" /\ Count < Len(recipe.steps)
    BY <1>5 DEF Approve, chosen, data, Count
  <2> QED
    BY <1>0, <1>5, <2>1 DEF Production, Count, StepHeld, ProductHeld, Starting, Working, Asking
<1>6. CASE BeginReturns
  <2>1. UNCHANGED <<recipe, products, artifacts, returns>> /\ at = "step" /\ at' = "returns"
        /\ Count = Len(recipe.steps)
    BY <1>6 DEF BeginReturns, chosen, Count, Go
  <2> QED
    BY <1>0, <2>1 DEF Production, Count, StepHeld, ProductHeld, Starting, Working, Asking
<1>7. CASE at' \in Starting
  <2>1. UNCHANGED <<products, artifacts, returns>> /\ at \in Starting
    BY <1>0, <1>7 DEF Moving, Starting, Asking, Ended, vars, chosen, data
  <2> QED
    BY <1>0, <1>7, <2>1 DEF Production, Starting, Working, Asking
<1>8. CASE \/ at' = at /\ ~(\E name \in left : ReturnOutput(name)) /\ at \in Working
           \/ resolveEnvironment /\ at' = "step"
           \/ PrepareStep /\ at' = "script"
           \/ executeStep /\ at' = "collect"
  <2>1. UNCHANGED <<recipe, products, artifacts, returns>>
    <3>1. CASE at' = at /\ ~(\E name \in left : ReturnOutput(name)) /\ at \in Working
      BY <1>0, <3>1 DEF Moving, Working, vars, chosen, data
    <3> QED
      BY <1>8, <3>1 DEF resolveEnvironment, PrepareStep, executeStep, chosen, data
  <2>2. \/ at \in Working /\ at' = at
        \/ at = "environment" /\ at' = "step"
        \/ at \in {"prepare", "script"} /\ at' \in {"script", "collect"}
    BY <1>8 DEF resolveEnvironment, PrepareStep, executeStep
  <2> QED
    BY <1>0, <2>1, <2>2 DEF Production, Count, StepHeld, ProductHeld, Starting, Working, Asking
<1>9. CASE at' \in Working
  <2>1. \/ at' = at /\ at \in Working
        \/ preflight /\ at' = "environment"
        \/ resolveEnvironment /\ at' = "step"
        \/ Approve /\ at' = "prepare"
        \/ PrepareStep /\ at' = "script"
        \/ executeStep /\ at' = "collect"
        \/ collectProducts /\ at' = "step"
        \/ BeginReturns
    BY <1>0, <1>9 DEF Moving, Working, vars
  <2>2. CASE at' = at /\ at \in Working
    <3>1. CASE \E name \in left : ReturnOutput(name)
      <4>1. at = "returns"
        BY <3>1 DEF ReturnOutput
      <4> QED
        BY <1>2, <2>2, <3>1, <4>1
    <3> QED
      BY <1>8, <2>2, <3>1
  <2> QED
    BY <1>1, <1>4, <1>5, <1>6, <1>8, <2>1, <2>2
<1> QED
  BY <1>3, <1>7, <1>9

-----------------------------------------------------------------------------
(* What is returned.                                                       *)

(* An output that is returned is met, and so are those returned before it: *)
(* an artifact that is returned again keeps its media type.                *)
LEMMA ReturningKeepsReturns ==
  ASSUME PreparationInv, NEW name \in left, ReturnOutput(name), at' = "returns"
  PROVE  Returning'
<1> DEFINE outputs == capability.outputs
<1>a. PICK v : v = Converted(name)
  OBVIOUS
<1>1. /\ Returning /\ at = "returns" /\ UNCHANGED capability
      /\ returns' = Updated(returns, name, v) /\ left' = left \ {name}
      /\ artifacts' = IF v.is = "artifact" THEN [artifacts EXCEPT ![v.n] = v.as] ELSE artifacts
  BY <1>a, ReturnTaken DEF PreparationInv
<1>2. /\ IF outputs[name].type = "artifact"
         THEN /\ v.is = "artifact"
              /\ v.n \in DOMAIN artifacts /\ outputs[name].media \in {None, v.as}
              /\ Returned(v.n) => artifacts[v.n] = v.as
         ELSE MeetsType(v, outputs[name].type) /\ v.is # "artifact"
  <2>1. ReturnCause(name) = None
    BY ReturnTaken
  <2>2. IF outputs[name].type = "artifact"
        THEN /\ Converted(name) = [is |-> "artifact", as |-> Converted(name).as,
                                   n |-> products[Referred(name)[2]][Referred(name)[3]].n]
             /\ Converted(name).n \in DOMAIN artifacts
             /\ outputs[name].media \in {None, Converted(name).as}
             /\ Returned(Converted(name).n) => artifacts[Converted(name).n] = Converted(name).as
        ELSE MeetsType(Converted(name), outputs[name].type) /\ Converted(name).is # "artifact"
    BY <1>1, <2>1, ConvertedHeld
  <2>3. CASE outputs[name].type = "artifact"
    BY <1>a, <2>2, <2>3
  <2>4. CASE outputs[name].type # "artifact"
    BY <1>a, <2>2, <2>4
  <2> QED
    BY <2>3, <2>4
<1>3. /\ DOMAIN returns = Fields(outputs) \ left /\ left \subseteq Fields(outputs)
      /\ \A m \in DOMAIN returns : OutputMet(outputs[m], returns[m])
  BY <1>1 DEF Returning
<1>4. /\ DOMAIN returns' = Fields(outputs) \ left' /\ left' \subseteq Fields(outputs)
      /\ returns'[name] = v /\ \A m \in DOMAIN returns : m # name /\ returns'[m] = returns[m]
  BY <1>1, <1>3 DEF Updated
<1>5. DOMAIN artifacts' = DOMAIN artifacts
  BY <1>1
<1>6. OutputMet(outputs[name], v)'
  BY <1>1, <1>2, <1>5 DEF OutputMet, MeetsType
<1>7. ASSUME NEW m \in DOMAIN returns PROVE OutputMet(outputs[m], returns[m])'
  <2>1. OutputMet(outputs[m], returns[m]) /\ returns'[m] = returns[m] /\ outputs' = outputs
    BY <1>1, <1>3, <1>4
  <2>2. CASE outputs[m].type # "artifact"
    BY <2>1, <2>2 DEF OutputMet, MeetsType
  <2>3. CASE outputs[m].type = "artifact"
    <3>1. /\ returns[m].is = "artifact" /\ returns[m].n \in DOMAIN artifacts
          /\ returns[m].as = artifacts[returns[m].n] /\ outputs[m].media \in {None, returns[m].as}
      BY <2>1, <2>3 DEF OutputMet
    <3>2. artifacts'[returns[m].n] = artifacts[returns[m].n]
      <4>1. CASE v.is = "artifact" /\ v.n = returns[m].n
        <5>1. Returned(v.n)
          BY <3>1, <4>1 DEF Returned
        <5> QED
          BY <1>1, <1>2, <3>1, <4>1, <5>1
      <4> QED
        BY <1>1, <3>1, <4>1
    <3> QED
      BY <1>5, <2>1, <2>3, <3>1, <3>2 DEF OutputMet
  <2> QED
    BY <2>2, <2>3
<1>8. DOMAIN returns' = DOMAIN returns \union {name}
  BY <1>1 DEF Updated
<1>9. \A m \in DOMAIN returns' : OutputMet(outputs[m], returns[m])'
  BY <1>4, <1>6, <1>7, <1>8
<1> QED
  BY <1>1, <1>4, <1>9 DEF Returning

(* By hand, every output is answered.                                      *)
LEMMA AnswersAreMet ==
  ASSUME PreparationInv, runManual, at' = "succeeded"
  PROVE  Returning'
<1> DEFINE outputs == capability.outputs
<1>1. /\ at = "manual" /\ UNCHANGED capability /\ Surroundings /\ Choices
  BY DEF runManual, PreparationInv, chosen
<1>2. Entries(outputs) \subseteq OutputContracts
  BY <1>1, CapabilityHolds DEF Surroundings, Choices, IsCapability
<1> DEFINE Described(name, detected) ==
             IF outputs[name].media # None THEN outputs[name] ELSE [outputs[name] EXCEPT !.media = detected]
           values(answers, detected) ==
             [name \in DOMAIN answers |->
                manualValue(answers[name], Described(name, detected), <<"manual", name>>)]
<1>3. PICK answers \in [Fields(outputs) -> Texts], detected \in Media :
        /\ None \notin Range(values(answers, detected))
        /\ returns' = values(answers, detected)
        /\ artifacts' = [id \in {"manual"} \X {name \in DOMAIN answers : outputs[name].type = "artifact"} |->
                           values(answers, detected)[id[2]].as]
  BY DEF runManual, Fail, Stop
<1>4. DOMAIN returns' = Fields(outputs)
  BY <1>3
<1>5. ASSUME NEW name \in Fields(outputs) PROVE OutputMet(outputs[name], returns[name])'
  <2>a. PICK output : output = Described(name, detected)
    OBVIOUS
  <2>b. PICK text : text = answers[name]
    OBVIOUS
  <2>1. outputs[name] \in OutputContracts
    BY <1>2 DEF Entries, Fields, Range
  <2>2. output.type = outputs[name].type /\ (outputs[name].media # None => output.media = outputs[name].media)
    BY <2>1, <2>a DEF OutputContracts
  <2>3. text \in Literals /\ text.is = "string"
    BY <1>3, <2>b, PreparationAssumption
  <2>4. returns'[name] = manualValue(text, output, <<"manual", name>>)
    BY <1>3, <2>a, <2>b
  <2>5. returns'[name] # None
    BY <1>3, <1>4 DEF Range
  <2> HIDE DEF Described, values
  <2>6. CASE output.type # "artifact"
    <3>1. returns'[name] = parseOutputString(text, output.type)
      BY <2>3, <2>4, <2>6 DEF manualValue, convertOutput
    <3>2. MeetsType(returns'[name], output.type)
      BY <2>3, <2>5, <3>1, ParsedMeets
    <3> QED
      BY <1>1, <2>2, <2>6, <3>2 DEF OutputMet, MeetsType
  <2>7. CASE output.type = "artifact"
    <3>1. returns'[name] = [is |-> "artifact", as |-> output.media, n |-> <<"manual", name>>]
      BY <2>4, <2>5, <2>7 DEF manualValue, Artifact, Value
    <3>2. <<"manual", name>> \in {"manual"} \X {m \in DOMAIN answers : outputs[m].type = "artifact"}
      BY <1>3, <2>2, <2>7
    <3>3. <<"manual", name>> \in DOMAIN artifacts' /\ artifacts'[<<"manual", name>>] = returns'[name].as
      BY <1>3, <3>2
    <3>4. outputs[name].media \in {None, returns'[name].as}
      BY <2>2, <3>1
    <3> QED
      BY <1>1, <2>2, <2>7, <3>1, <3>3, <3>4 DEF OutputMet
  <2> QED
    BY <2>6, <2>7
<1> QED
  BY <1>1, <1>4, <1>5 DEF Returning

(* Each output returned so far meets its contract.                         *)
LEMMA ReturningStays == PreparationInv /\ [Next]_vars => Returning'
<1> SUFFICES ASSUME PreparationInv, [Next]_vars PROVE Returning'
  OBVIOUS
<1>0. Returning /\ Production /\ Moving
  BY Moves DEF PreparationInv
<1>1. CASE at' = "returns" /\ \E name \in left : ReturnOutput(name)
  BY <1>1, ReturningKeepsReturns
<1>2. CASE runManual /\ at' = "succeeded"
  BY <1>2, AnswersAreMet
<1>3. CASE BeginReturns
  <2>1. /\ at = "step" /\ at' = "returns" /\ left' = Fields(capability.outputs)
        /\ UNCHANGED <<returns, capability>>
    BY <1>3 DEF BeginReturns, Go, chosen
  <2>2. returns = <<>>
    BY <1>0, <2>1 DEF Production, Working
  <2>3. DOMAIN returns = {}
    BY <2>2
  <2> QED
    BY <2>1, <2>3 DEF Returning
<1>4. CASE Succeed
  <2>1. at = "returns" /\ left = {} /\ at' = "succeeded" /\ UNCHANGED <<returns, artifacts, capability>>
    BY <1>4 DEF Succeed, Go, chosen, data
  <2> QED
    BY <1>0, <2>1 DEF Returning, OutputMet, MeetsType
<1>5. CASE at' = at /\ at \in {"returns", "succeeded"} /\ ~(\E name \in left : ReturnOutput(name))
  <2>1. UNCHANGED <<left, returns, artifacts, capability>>
    BY <1>0, <1>5 DEF Moving, vars, chosen, data
  <2> QED
    BY <1>0, <1>5, <2>1 DEF Returning, OutputMet, MeetsType
<1>6. CASE at' \notin {"returns", "succeeded"}
  BY <1>6 DEF Returning
<1>7. CASE at' \in {"returns", "succeeded"}
  <2>1. \/ at' = at
        \/ runManual /\ at' = "succeeded"
        \/ BeginReturns
        \/ Succeed
    BY <1>0, <1>7 DEF Moving, vars
  <2>2. CASE at' = at
    <3>1. CASE \E name \in left : ReturnOutput(name)
      <4>1. at = "returns"
        BY <3>1 DEF ReturnOutput
      <4> QED
        BY <1>1, <2>2, <3>1, <4>1
    <3> QED
      BY <1>5, <1>7, <2>2, <3>1
  <2> QED
    BY <1>2, <1>3, <1>4, <2>1, <2>2
<1> QED
  BY <1>6, <1>7

-----------------------------------------------------------------------------
(* The inputs.                                                             *)

(* Inputs that have been resolved once resolve again, to themselves: a     *)
(* normalized value is its own normal form.                                *)
LEMMA NormalizedAgain ==
  ASSUME NEW v, NEW type, normalizeScalar(v, type) # None
  PROVE  normalizeScalar(normalizeScalar(v, type), type) = normalizeScalar(v, type)
BY DEF normalizeScalar, Value, Float

(* Inputs that were resolved once resolve again, and stay scalars.         *)
LEMMA ResolvedAgain ==
  ASSUME NEW c, IsCapability(c), NEW values, InputsResolve(c, values), \A v \in Range(values) : Scalar(v)
  PROVE  /\ InputsResolve(c, resolveInputs(c, values))
         /\ \A v \in Range(resolveInputs(c, values)) : Scalar(v)
<1> DEFINE resolved == resolveInputs(c, values)
<1>1. /\ DOMAIN resolved = {n \in Fields(c.inputs) : Supplied(c, values, n) # None}
      /\ \A name \in DOMAIN resolved :
           resolved[name] = normalizeScalar(Supplied(c, values, name), c.inputs[name].type)
  BY DEF resolveInputs
<1> HIDE DEF resolved
<1>2. ASSUME NEW name \in DOMAIN resolved
      PROVE  /\ resolved[name] # None /\ InputAccepted(c.inputs[name], resolved[name])
             /\ Scalar(resolved[name])
  <2>1. InputAccepted(c.inputs[name], Supplied(c, values, name))
    BY <1>1 DEF InputsResolve
  <2>2. resolved[name] = normalizeScalar(Supplied(c, values, name), c.inputs[name].type)
        /\ resolved[name] # None
    BY <1>1, <2>1 DEF InputAccepted
  <2>3. normalizeScalar(resolved[name], c.inputs[name].type) = resolved[name]
    BY <2>2, NormalizedAgain
  <2>4. Scalar(Supplied(c, values, name))
    BY <1>1, LiteralsAreScalars DEF Supplied, Range, IsCapability, Entries, Fields, InputContracts
  <2>5. Scalar(resolved[name])
    BY <2>2, <2>4, NormalizedMeets
  <2> QED
    BY <2>1, <2>2, <2>3, <2>5 DEF InputAccepted
<1>3. ASSUME NEW name \in Fields(c.inputs)
      PROVE  LET v == Supplied(c, resolved, name)
             IN IF v = None THEN ~c.inputs[name].required ELSE InputAccepted(c.inputs[name], v)
  <2>1. CASE name \in DOMAIN resolved
    BY <1>2, <2>1 DEF Supplied
  <2>2. CASE name \notin DOMAIN resolved
    <3>1. Supplied(c, values, name) = None
      BY <1>1, <2>2
    <3>2. ~c.inputs[name].required
      BY <3>1 DEF InputsResolve
    <3>3. name \notin DOMAIN values
      BY <3>1 DEF Supplied, Range, Scalar
    <3>4. Supplied(c, resolved, name) = None
      BY <2>2, <3>1, <3>3 DEF Supplied
    <3> QED
      BY <3>2, <3>4
  <2> QED
    BY <2>1, <2>2
<1>4. DOMAIN resolved \subseteq Fields(c.inputs)
  BY <1>1
<1>5. InputsResolve(c, resolved)
  BY <1>3, <1>4 DEF InputsResolve
<1>6. \A v \in Range(resolved) : Scalar(v)
  BY <1>2 DEF Range
<1> QED
  BY <1>5, <1>6 DEF resolved

(* Inputs that resolve keep to the contract.                               *)
LEMMA ResolvedMeets ==
  ASSUME NEW c, IsCapability(c), capabilityFits(c),
         NEW values, InputsResolve(c, values), \A v \in Range(values) : Scalar(v),
         NEW name \in Fields(c.inputs)
  PROVE  LET input == c.inputs[name]
             resolved == resolveInputs(c, values)
         IN /\ input.required \/ input.default # None => name \in DOMAIN resolved
            /\ name \in DOMAIN resolved =>
                 /\ MeetsType(resolved[name], input.type)
                 /\ input.enum # None => containsScalar(input.enum, resolved[name])
<1> DEFINE input == c.inputs[name]
           resolved == resolveInputs(c, values)
           v == Supplied(c, values, name)
           w == normalizeScalar(v, input.type)
<1>1. input \in InputContracts /\ ContractFits(input)
  BY DEF IsCapability, capabilityFits, Entries, Fields, Range
<1>2. IF v = None THEN ~input.required ELSE InputAccepted(input, v)
  BY DEF InputsResolve
<1>3. name \in DOMAIN resolved <=> v # None
  BY DEF resolveInputs
<1>4. input.default # None => v # None
  BY DEF Supplied, Range, Scalar
<1>5. ASSUME v # None
      PROVE  MeetsType(w, input.type) /\ (input.enum # None => containsScalar(input.enum, w))
  <2>1. Scalar(v)
    BY <1>1, <1>5, LiteralsAreScalars DEF Supplied, Range, InputContracts
  <2>2. w # None /\ (input.enum # None => enumContains(input.enum, w, input.type))
    BY <1>2, <1>5 DEF InputAccepted
  <2> HIDE DEF w, v, input
  <2>3. MeetsType(w, input.type)
    BY <2>1, <2>2, NormalizedMeets DEF w
  <2>4. ASSUME input.enum # None PROVE containsScalar(input.enum, w)
    <3>1. PICK k \in DOMAIN input.enum : normalizeScalar(input.enum[k], input.type) = w
      BY <2>2, <2>4 DEF enumContains
    <3>2. input.enum[k] \in Range(input.enum) /\ scalarMatches(input.enum[k], input.type)
      BY <1>1, <2>4 DEF ContractFits, Range
    <3>3. scalarEqual(w, input.enum[k])
      BY <2>2, <3>1, <3>2 DEF scalarMatches, scalarEqual, isNumber, normalizeScalar, Value, Float
    <3> QED
      BY <3>2, <3>3 DEF containsScalar
  <2> QED
    BY <2>3, <2>4
<1>6. v # None => resolved[name] = w
  BY DEF resolveInputs
<1> HIDE DEF resolved, input, v, w
<1>7. /\ input.required \/ input.default # None => name \in DOMAIN resolved
      /\ name \in DOMAIN resolved =>
           /\ MeetsType(resolved[name], input.type)
           /\ input.enum # None => containsScalar(input.enum, resolved[name])
  BY <1>2, <1>3, <1>4, <1>5, <1>6
<1> QED
  BY <1>7 DEF resolved, input

(* What is written is text, and text that parses is a scalar.              *)
LEMMA TypedScalars ==
  ASSUME NEW c, NEW written, Range(written) \subseteq Texts, None \notin Range(Typed(c, written))
  PROVE  \A v \in Range(Typed(c, written)) : Scalar(v)
<1> SUFFICES ASSUME NEW name \in DOMAIN written PROVE Scalar(Typed(c, written)[name])
  BY DEF Range, Typed
<1>1. written[name] \in Literals /\ written[name].is = "string"
  BY PreparationAssumption DEF Range
<1>2. Typed(c, written)[name] # None
  BY DEF Range, Typed
<1>3. Typed(c, written)[name] = parseOutputString(written[name], c.inputs[name].type)
  BY <1>2 DEF Typed
<1> QED
  BY <1>1, <1>2, <1>3, ParsedMeets

(* What is written for run: --input, and the answers.                      *)
Written(values, answers) ==
  [name \in DOMAIN values \union DOMAIN answers |->
     IF name \in DOMAIN values THEN values[name] ELSE answers[name]]

(* The inputs a run goes on with come from texts, typed and resolved.      *)
LEMMA WrittenTexts ==
  ASSUME ParseInputs
  PROVE  \E written :
           /\ Range(written) \subseteq Texts /\ given' = written
           /\ IF /\ None \notin Range(Typed(capability, written))
                 /\ InputsResolve(capability, Typed(capability, written))
              THEN inputs' = resolveInputs(capability, Typed(capability, written)) /\ at' = "recipe"
              ELSE at' = "refused"
<1>1. PICK values \in Givens :
        \E answers \in {<<>>} \union [missingRequiredInputNames(capability, values) -> Texts] :
          LET written == Written(values, answers)
              typed == Typed(capability, written)
          IN /\ given' = written
             /\ IF None \notin Range(typed) /\ InputsResolve(capability, typed)
                THEN inputs' = resolveInputs(capability, typed) /\ Go("recipe")
                ELSE Refuse("inputs") /\ UNCHANGED inputs
  BY DEF ParseInputs, Written
<1>2. PICK answers \in {<<>>} \union [missingRequiredInputNames(capability, values) -> Texts] :
          LET written == Written(values, answers)
              typed == Typed(capability, written)
          IN /\ given' = written
             /\ IF None \notin Range(typed) /\ InputsResolve(capability, typed)
                THEN inputs' = resolveInputs(capability, typed) /\ Go("recipe")
                ELSE Refuse("inputs") /\ UNCHANGED inputs
  BY <1>1
<1>3. \A name \in DOMAIN answers : answers[name] \in Texts
  <2>1. CASE answers = <<>>
    <3>1. DOMAIN answers = {}
      BY <2>1
    <3> QED
      BY <3>1
  <2>2. CASE answers \in [missingRequiredInputNames(capability, values) -> Texts]
    BY <2>2
  <2> QED
    BY <1>2, <2>1, <2>2
<1>4. \A name \in DOMAIN values : values[name] \in Texts
  BY <1>1, PreparationAssumption DEF Range
<1>5. Range(Written(values, answers)) \subseteq Texts
  BY <1>3, <1>4 DEF Range, Written
<1> QED
  BY <1>2, <1>5 DEF Go, Refuse, Stop

(* From the choice of the Recipe on the inputs resolve.                    *)
LEMMA ResolvedStays == PreparationInv /\ [Next]_vars => Resolved'
<1> SUFFICES ASSUME PreparationInv, [Next]_vars PROVE Resolved'
  OBVIOUS
<1>0. Surroundings /\ Choices /\ Resolved /\ Moving
  BY Moves DEF PreparationInv
<1>1. CASE ParseInputs /\ at' = "recipe"
  <2>1. at = "inputs" /\ capability' = capability
    BY <1>1 DEF ParseInputs, chosen
  <2>2. PICK written :
           /\ Range(written) \subseteq Texts /\ given' = written
           /\ IF /\ None \notin Range(Typed(capability, written))
                 /\ InputsResolve(capability, Typed(capability, written))
              THEN inputs' = resolveInputs(capability, Typed(capability, written)) /\ at' = "recipe"
              ELSE at' = "refused"
    BY <1>1, WrittenTexts
  <2>3. /\ None \notin Range(Typed(capability, written))
        /\ InputsResolve(capability, Typed(capability, written))
        /\ inputs' = resolveInputs(capability, Typed(capability, written))
    BY <1>1, <2>2
  <2>4. IsCapability(capability)
    BY <1>0, <2>1, CapabilityHolds DEF Surroundings, Choices, Asking
  <2>5. \A v \in Range(Typed(capability, written)) : Scalar(v)
    BY <2>2, <2>3, TypedScalars
  <2>6. InputsResolve(capability, inputs') /\ \A v \in Range(inputs') : Scalar(v)
    BY <2>3, <2>4, <2>5, ResolvedAgain
  <2> QED
    BY <1>1, <2>1, <2>6 DEF Resolved, InputsMeetContract, Executing
<1>2. CASE validateInvocation /\ at' = "preflight"
  <2> DEFINE values == IF request = None THEN inputs ELSE request.inputs
  <2>1. /\ at = "invocation" /\ capability' = capability /\ InputsResolve(capability, values)
        /\ inputs' = resolveInputs(capability, values)
    BY <1>2 DEF validateInvocation, Refuse, Stop, chosen
  <2>2. IsCapability(capability) /\ capabilityFits(capability)
    BY <1>0, <2>1, CapabilityHolds DEF Surroundings, Choices, Asking
  <2>3. \A v \in Range(values) : Scalar(v)
    <3>1. CASE request = None
      BY <1>0, <2>1, <3>1 DEF Resolved
    <3>2. CASE request # None
      <4>1. Range(request.inputs) \subseteq Literals
        BY <1>0, <3>2, PreparationAssumption DEF Choices
      <4> QED
        BY <3>2, <4>1, LiteralsAreScalars
    <3> QED
      BY <3>1, <3>2
  <2> HIDE DEF values
  <2>4. \A name \in Fields(capability.inputs) :
           LET input == capability.inputs[name]
           IN /\ input.required \/ input.default # None => name \in DOMAIN inputs'
              /\ name \in DOMAIN inputs' =>
                   /\ MeetsType(inputs'[name], input.type)
                   /\ input.enum # None => containsScalar(input.enum, inputs'[name])
    BY <2>1, <2>2, <2>3, ResolvedMeets
  <2>5. DOMAIN inputs' \subseteq Fields(capability.inputs)
    BY <2>1 DEF resolveInputs
  <2> QED
    BY <1>2, <2>1, <2>4, <2>5 DEF Resolved, InputsMeetContract, MeetsType
<1>3. CASE at' \in {"recipe", "invocation"} /\ ~ParseInputs
  <2>1. UNCHANGED <<request, capability, inputs>>
    BY <1>0, <1>3 DEF Moving, vars, chosen, data
  <2>2. \/ at' = at
        \/ at = "recipe" /\ at' = "invocation"
        \/ at = "checkHost" /\ at' = "invocation"
    BY <1>0, <1>3 DEF Moving, vars
  <2> QED
    BY <1>0, <1>3, <2>1, <2>2 DEF Resolved, Choices, InputsMeetContract, Executing
<1>4. CASE Executing' /\ ~validateInvocation
  <2>1. UNCHANGED <<capability, inputs>> /\ Executing
    BY <1>0, <1>4 DEF Moving, Executing, vars, chosen, data
  <2> QED
    BY <1>0, <1>4, <2>1 DEF Resolved, InputsMeetContract, Executing, MeetsType
<1>5. CASE at' \notin {"recipe", "invocation"} /\ ~Executing'
  BY <1>5 DEF Resolved, InputsMeetContract
<1>6. ParseInputs => at = "inputs" /\ at' \in {"recipe", "refused"}
  BY DEF ParseInputs, Go, Refuse, Stop
<1>7. validateInvocation => at = "invocation" /\ at' \in {"preflight", "refused"}
  BY DEF validateInvocation, Go, Refuse, Stop
<1> QED
  BY <1>1, <1>2, <1>3, <1>4, <1>5, <1>6, <1>7 DEF Executing

(* A default is accepted, but for an integer written as 1.0.               *)
LEMMA DefaultAccepted ==
  ASSUME NEW input \in InputContracts, ContractFits(input), input.default # None,
         input.type = "integer" =>
           \A v \in Entries(input.enum) \union {input.default} : v # None => v.is # "float"
  PROVE  InputAccepted(input, input.default)
<1> DEFINE d == input.default
           Normal(v) == normalizeScalar(v, input.type)
<1>1. d \in Literals /\ d.n \in Int /\ scalarMatches(d, input.type)
  BY DEF InputContracts, ContractFits, Literals
<1>2. Value("int", "int", d.n) # None /\ Float(d.n) # None
  BY <1>1, ManifestAssumption DEF Value, Float
<1>3. d # None /\ (input.type = "integer" => d.is # "float")
  OBVIOUS
<1> HIDE DEF d
<1>4. Normal(d) # None
  BY <1>1, <1>2, <1>3 DEF normalizeScalar, scalarMatches, isNumber
<1>5. ASSUME input.enum # None PROVE enumContains(input.enum, Normal(d), input.type)
  <2>1. PICK w \in Range(input.enum) : scalarEqual(d, w)
    BY <1>5 DEF ContractFits, containsScalar, d
  <2>2. PICK k \in DOMAIN input.enum : w = input.enum[k]
    BY <2>1 DEF Range
  <2>3. scalarMatches(w, input.type) /\ w \in Entries(input.enum)
    BY <1>5, <2>1 DEF ContractFits, Entries
  <2>4. w \in Literals /\ w # None
    BY <1>5, <2>3, PreparationAssumption DEF InputContracts, Entries, Range, Literals
  <2>5. input.type = "integer" => w.is # "float"
    BY <2>3, <2>4
  <2>6. Normal(w) = Normal(d)
    BY <1>1, <1>3, <2>1, <2>3, <2>5 DEF normalizeScalar, scalarMatches, scalarEqual, isNumber
  <2> QED
    BY <2>2, <2>6 DEF enumContains
<1> QED
  BY <1>4, <1>5 DEF InputAccepted, d

(* Without values only a required input or an integer can be refused.      *)
LEMMA NothingWritten ==
  ASSUME IsCapability(capability), capabilityFits(capability),
         NEW values, DOMAIN values = {}, ~InputsResolve(capability, values)
  PROVE  Excused
<1>1. PICK name \in Fields(capability.inputs) :
        LET d == capability.inputs[name].default
        IN IF d = None THEN capability.inputs[name].required ELSE ~InputAccepted(capability.inputs[name], d)
  BY DEF InputsResolve, Supplied
<1>a. PICK input : input = capability.inputs[name]
  OBVIOUS
<1>2. input \in InputContracts /\ ContractFits(input)
  BY <1>a DEF IsCapability, capabilityFits, Entries, Fields, Range
<1>3. CASE input.default = None
  BY <1>1, <1>3, <1>a DEF Excused
<1>4. CASE input.default # None
  <2>1. ~(input.type = "integer" =>
            \A v \in Entries(input.enum) \union {input.default} : v # None => v.is # "float")
    BY <1>1, <1>2, <1>4, <1>a, DefaultAccepted
  <2> QED
    BY <1>a, <2>1 DEF Excused
<1> QED
  BY <1>3, <1>4

(* A run without values is refused for its inputs for those reasons only.  *)
LEMMA RefusalsStay == PreparationInv /\ [Next]_vars => Refusals'
<1> SUFFICES ASSUME PreparationInv, [Next]_vars,
                    at' = "refused", cause' = "inputs", request' = None, given' = <<>>
             PROVE  Excused'
  BY DEF Refusals
<1>0. Surroundings /\ Choices /\ Resolved /\ Refusals /\ Moving
  BY Moves DEF PreparationInv
<1>1. CASE ParseInputs
  <2>1. at = "inputs" /\ capability' = capability
    BY <1>1 DEF ParseInputs, chosen
  <2>2. PICK written :
           /\ Range(written) \subseteq Texts /\ given' = written
           /\ IF /\ None \notin Range(Typed(capability, written))
                 /\ InputsResolve(capability, Typed(capability, written))
              THEN inputs' = resolveInputs(capability, Typed(capability, written)) /\ at' = "recipe"
              ELSE at' = "refused"
    BY <1>1, WrittenTexts
  <2>3. DOMAIN Typed(capability, written) = {}
    <3>1. written = <<>>
      BY <2>2
    <3>2. DOMAIN written = {}
      BY <3>1
    <3> QED
      BY <3>2 DEF Typed
  <2>4. None \notin Range(Typed(capability, written))
    BY <2>3 DEF Range
  <2>5. ~InputsResolve(capability, Typed(capability, written))
    BY <2>2, <2>4
  <2>6. IsCapability(capability) /\ capabilityFits(capability)
    BY <1>0, <2>1, CapabilityHolds DEF Surroundings, Choices, Asking
  <2>7. Excused
    BY <2>3, <2>5, <2>6, NothingWritten
  <2> QED
    BY <2>1, <2>7 DEF Excused
<1>2. CASE validateInvocation
  <2>1. /\ at = "invocation" /\ request = None
        /\ ~InputsResolve(capability, inputs)
    BY <1>2 DEF validateInvocation, validateExistingRequest, Go, Refuse, Stop, chosen
  <2> QED
    BY <1>0, <2>1 DEF Resolved
<1>3. CASE at = "refused" /\ ~ParseInputs /\ ~validateInvocation
  <2>1. UNCHANGED <<at, cause, request, capability, given>>
    BY <1>0, <1>3 DEF Moving, vars, chosen, data
  <2> QED
    BY <1>0, <2>1 DEF Refusals, Excused
<1>4. CASE at # "refused" /\ ~ParseInputs /\ ~validateInvocation
  <2>1. \/ localCatalog \/ ChooseCapability \/ ChooseRecipe \/ TakeRequest
        \/ resolveListenFulfillment \/ validateShareHost
    BY <1>0, <1>4 DEF Moving, vars
  <2>2. CASE localCatalog
    BY <2>2 DEF localCatalog, Go, Refuse, Stop
  <2>3. CASE ChooseCapability
    BY <2>3 DEF ChooseCapability, Go, Refuse, Stop
  <2>4. CASE ChooseRecipe
    BY <2>4 DEF ChooseRecipe, Begin, Go, Refuse, Stop
  <2>5. CASE TakeRequest
    BY <2>5 DEF TakeRequest, Go, Refuse, Stop
  <2>6. CASE resolveListenFulfillment
    BY <2>6 DEF resolveListenFulfillment, Go, Refuse, Stop
  <2>7. CASE validateShareHost
    BY <2>7 DEF validateShareHost, Go, Refuse, Stop
  <2> QED
    BY <2>1, <2>2, <2>3, <2>4, <2>5, <2>6, <2>7
<1> QED
  BY <1>1, <1>2, <1>3, <1>4

-----------------------------------------------------------------------------
(* Why a Run fails.                                                        *)

(* The results that a template may refer to have been produced, and the    *)
(* inputs are inputs of the Capability.                                    *)
Known(context) ==
  /\ context.inputs \subseteq Fields(capability.inputs)
  /\ \A id \in DOMAIN context.results :
       id \in DOMAIN products /\ Fields(context.results[id]) \subseteq DOMAIN products[id]

Rendering == {"braces", "unset"}

(* A template that loading has found right refers to something, always.    *)
LEMMA TemplateRefers ==
  ASSUME NEW t, NEW context, Known(context), templateFits(t, context)
  PROVE  RenderCause(t) \in Rendering
BY DEF Known, templateFits, ExpressionFits, RenderCause, Rendering, Has

(* A checked environment fails only over a template that renders to nothing.*)
LEMMA EnvironmentRefers ==
  ASSUME NEW env, NEW requires, NEW context, Known(context), environmentFits(env, requires, context),
         requires # None => HostIsReady(requires)
  PROVE  EnvironmentCauses(env) \subseteq Rendering
<1> SUFFICES ASSUME NEW name \in Fields(env),
                    IF env[name].from = "host_env" THEN env[name].name \notin host.env
                    ELSE ~Renders(env[name].literal)
             PROVE  env[name].from # "host_env" /\ RenderCause(env[name].literal) \in Rendering
  BY DEF EnvironmentCauses
<1>1. env[name].from # "host_env"
  BY DEF environmentFits, HostIsReady
<1>2. templateFits(env[name].literal, context)
  BY <1>1 DEF environmentFits
<1> QED
  BY <1>1, <1>2, TemplateRefers

(* The inputs that all the Capabilities of a Recipe have in common are     *)
(* inputs of each of them.                                                 *)
LEMMA CommonInputs ==
  ASSUME NEW provided, capability \in provided
  PROVE  commonCapabilityInputs(provided) \subseteq Fields(capability.inputs)
BY DEF commonCapabilityInputs

(* The Step that is under way, as loading has found it.                    *)
LEMMA StepIsRight ==
  ASSUME Surroundings, Choices, Passed, Production, at \in Working, Count < Len(recipe.steps)
  PROVE  LET context == [inputs |-> commonCapabilityInputs(Provided(recipe, tree)),
                         results |-> ResultsBefore(recipe, Count + 1)]
         IN /\ Known(context) /\ StepFits(CurrentStep)
            /\ CurrentStep.approval # None \/ recipe.defaults.approval # None
            /\ environmentFits(CurrentStep.env, recipe.requires, context)
            /\ CurrentStep.directory # None => templateFits(CurrentStep.directory, context)
            /\ \A product \in Entries(CurrentStep.produces) :
                 product.file # None => templateFits(product.file, context)
<1>1. /\ ShellFits(recipe) /\ ShellMeans(recipe, Provided(recipe, tree))
      /\ Len(recipe.steps) \in Nat /\ DOMAIN recipe.steps = 1..Len(recipe.steps)
  BY StepsHold
<1>2. Count \in Nat
  BY FS_CardinalityType DEF Production, Count
<1>3. Count + 1 \in DOMAIN recipe.steps /\ CurrentStep = recipe.steps[Count + 1]
  BY <1>1, <1>2 DEF CurrentStep, Count
<1>4. /\ StepFits(CurrentStep)
      /\ StepMeans(recipe, Count + 1, commonCapabilityInputs(Provided(recipe, tree)))
  BY <1>1, <1>3 DEF ShellFits, ShellMeans
<1>5. capability \in Provided(recipe, tree)
  BY RecipeHolds DEF Surroundings, Choices, Passed, Working
<1>6. commonCapabilityInputs(Provided(recipe, tree)) \subseteq Fields(capability.inputs)
  BY <1>5, CommonInputs
<1>7. \A id \in DOMAIN ResultsBefore(recipe, Count + 1) :
        id \in DOMAIN products /\ Fields(ResultsBefore(recipe, Count + 1)[id]) \subseteq DOMAIN products[id]
  BY ResultsHeld
<1> HIDE DEF Count
<1>8. Known([inputs |-> commonCapabilityInputs(Provided(recipe, tree)),
             results |-> ResultsBefore(recipe, Count + 1)])
  BY <1>6, <1>7 DEF Known
<1> QED
  BY <1>3, <1>4, <1>8 DEF StepMeans

(* Before the first Step a template refers to inputs only.                 *)
LEMMA FirstIsRight ==
  ASSUME tree \in Trees, Validate(tree), Chosen(capability), recipe # None, Provides(recipe, capability),
         recipe.runtime = "shell"
  PROVE  LET first == [inputs |-> commonCapabilityInputs(Provided(recipe, tree)), results |-> <<>>]
         IN /\ Known(first) /\ ShellFits(recipe) /\ ShellMeans(recipe, Provided(recipe, tree))
            /\ environmentFits(recipe.env, recipe.requires, first)
            /\ recipe.defaults.directory # None => templateFits(recipe.defaults.directory, first)
            /\ recipe.requires # None => \A t \in Range(recipe.requires.files) : templateFits(t, first)
<1>1. ShellFits(recipe) /\ ShellMeans(recipe, Provided(recipe, tree)) /\ capability \in Provided(recipe, tree)
  BY RecipeHolds DEF recipeFits, recipeMeans
<1>2. commonCapabilityInputs(Provided(recipe, tree)) \subseteq Fields(capability.inputs)
  BY <1>1, CommonInputs
<1>3. DOMAIN <<>> = {}
  OBVIOUS
<1>4. Known([inputs |-> commonCapabilityInputs(Provided(recipe, tree)), results |-> <<>>])
  BY <1>2, <1>3 DEF Known
<1> QED
  BY <1>1, <1>4 DEF ShellMeans

(* What the preflight finds is there to be seen.                           *)
LEMMA PreflightReasons ==
  ASSUME tree \in Trees, Validate(tree), Chosen(capability), recipe # None, Provides(recipe, capability),
         recipe.runtime = "shell", NEW found \in PreflightCauses
  PROVE  Reasons(found)
<1> DEFINE requires == recipe.requires
           commands == [k \in DOMAIN requires.commands |-> CommandCause(requires.commands[k])]
           files == [k \in DOMAIN requires.files |-> FileCause(requires.files[k])]
           steps == [k \in DOMAIN recipe.steps |-> StepCause(recipe.steps[k])]
           first == [inputs |-> commonCapabilityInputs(Provided(recipe, tree)), results |-> <<>>]
<1>1. /\ Known(first) /\ ShellFits(recipe) /\ ShellMeans(recipe, Provided(recipe, tree))
      /\ requires # None => \A t \in Range(requires.files) : templateFits(t, first)
  BY FirstIsRight
<1>2. \/ requires # None /\ found \in FirstOf(commands)
      \/ requires # None /\ found = "hostEnv" /\ ~(Range(requires.hostEnv) \subseteq host.env)
      \/ requires # None /\ found \in FirstOf(files)
      \/ found \in FirstOf(steps)
  BY DEF PreflightCauses, RequirementCauses
<1>3. CASE requires # None /\ found \in FirstOf(commands)
  <2>1. PICK k \in DOMAIN requires.commands : found # None /\ found = CommandCause(requires.commands[k])
    <3>1. found # None /\ \E k \in DOMAIN commands : found = commands[k]
      BY <1>3, FirstIsEntry
    <3> QED
      BY <3>1
  <2> DEFINE command == requires.commands[k]
  <2>2. \/ found = "command" /\ command.name \notin DOMAIN host.commands
        \/ found = "version" /\ command.name \in DOMAIN host.commands /\ ~checkCommandVersion(command)
    BY <2>1 DEF CommandCause
  <2>3. command \in Range(requires.commands)
    BY DEF Range
  <2> HIDE DEF command
  <2> QED
    BY <1>3, <2>2, <2>3 DEF Reasons, StaticCauses
<1>4. CASE requires # None /\ found = "hostEnv" /\ ~(Range(requires.hostEnv) \subseteq host.env)
  BY <1>4 DEF Reasons, StaticCauses
<1>5. CASE requires # None /\ found \in FirstOf(files)
  <2>1. PICK k \in DOMAIN requires.files : found # None /\ found = FileCause(requires.files[k])
    <3>1. found # None /\ \E k \in DOMAIN files : found = files[k]
      BY <1>5, FirstIsEntry
    <3> QED
      BY <3>1
  <2> DEFINE t == requires.files[k]
  <2>2. t \in Range(requires.files)
    BY DEF Range
  <2> HIDE DEF t
  <2>3. found = FileCause(t)
    BY <2>1 DEF t
  <2>4. RenderCause(t) \in Rendering
    BY <1>1, <1>5, <2>2, TemplateRefers
  <2>5. found \in Rendering \/ (found = "file" /\ Place(host, renderTemplate(t)) # "file")
    BY <2>1, <2>3, <2>4 DEF FileCause
  <2>6. CASE found \in Rendering
    BY <2>6 DEF Rendering, Reasons, StaticCauses
  <2>7. CASE found = "file" /\ Place(host, renderTemplate(t)) # "file"
    BY <1>5, <2>2, <2>7 DEF renderTemplate, Reasons, StaticCauses
  <2> QED
    BY <2>5, <2>6, <2>7
<1>6. CASE found \in FirstOf(steps)
  <2>1. PICK k \in DOMAIN recipe.steps : found # None /\ found = StepCause(recipe.steps[k])
    <3>1. found # None /\ \E k \in DOMAIN steps : found = steps[k]
      BY <1>6, FirstIsEntry
    <3> QED
      BY <3>1
  <2> DEFINE step == recipe.steps[k]
  <2>2. StepFits(step) /\ StepMeans(recipe, k, commonCapabilityInputs(Provided(recipe, tree)))
    BY <1>1 DEF ShellFits, ShellMeans
  <2>3. step.run # None /\ step.run.script # "interpolates"
    BY <2>2 DEF StepFits, StepMeans
  <2>4. found = "shell" /\ step.run.shell \notin DOMAIN host.commands
    BY <2>1, <2>3 DEF StepCause
  <2>5. step \in Range(recipe.steps)
    BY DEF Range
  <2> HIDE DEF step
  <2> QED
    BY <2>3, <2>4, <2>5 DEF Reasons, StaticCauses
<1> QED
  BY <1>2, <1>3, <1>4, <1>5, <1>6

(* The causes that come after the preflight.                               *)
LaterCauses ==
  Rendering \union {"directory", "timeout", "script", "product missing", "procedure", "unanswered",
                    "evidence", "output", "media"}

(* The causes that come up after the preflight need no reason.             *)
LEMMA LaterReasons == \A why \in LaterCauses : Reasons(why)
BY DEF LaterCauses, Rendering, Reasons, StaticCauses

(* A Run fails for a cause there is a reason for.                          *)
LEMMA FailuresStay == PreparationInv /\ [Next]_vars => Failures'
<1> SUFFICES ASSUME PreparationInv, [Next]_vars, at' = "failed" PROVE Reasons(cause)'
  BY DEF Failures
<1>0. Surroundings /\ Choices /\ Passed /\ Production /\ Returning /\ Failures /\ Moving
  BY Moves DEF PreparationInv
<1>1. UNCHANGED <<host, recipe>> /\ Reasons(cause') => Reasons(cause)'
  BY DEF Reasons, checkCommandVersion, Free, Meets
<1>2. at \notin {"idle", "choose", "recipe", "fulfil"} /\ UNCHANGED <<host, recipe>>
  BY <1>0 DEF Moving, vars, chosen
<1>3. CASE at = "failed"
  <2>1. UNCHANGED cause
    BY <1>0, <1>3 DEF Moving, vars
  <2> QED
    BY <1>0, <1>1, <1>2, <1>3, <2>1 DEF Failures
<1>4. CASE preflight
  <2>1. /\ at = "preflight" /\ recipe # None /\ recipe.runtime # "manual"
        /\ cause' \in PreflightCauses
    BY <1>4 DEF preflight, Go, Fail, Stop
  <2>2. /\ tree \in Trees /\ Validate(tree) /\ Chosen(capability) /\ Provides(recipe, capability)
        /\ recipe.runtime = "shell"
    BY <1>0, <2>1, RecipeHolds DEF Surroundings, Choices, recipeFits
  <2>3. Reasons(cause')
    BY <2>1, <2>2, PreflightReasons
  <2> QED
    BY <1>1, <1>2, <2>3
<1>5. CASE cause' \in LaterCauses
  BY <1>1, <1>2, <1>5, LaterReasons
<1> DEFINE context == [inputs |-> commonCapabilityInputs(Provided(recipe, tree)),
                       results |-> ResultsBefore(recipe, Count + 1)]
           Right == /\ Known(context) /\ StepFits(CurrentStep)
                    /\ CurrentStep.approval # None \/ recipe.defaults.approval # None
                    /\ environmentFits(CurrentStep.env, recipe.requires, context)
                    /\ CurrentStep.directory # None => templateFits(CurrentStep.directory, context)
                    /\ \A product \in Entries(CurrentStep.produces) :
                         product.file # None => templateFits(product.file, context)
<1>6. at \in Working /\ Count < Len(recipe.steps) => Right
  BY <1>0, StepIsRight
<1> HIDE DEF context
<1>7. at \in Working /\ recipe.requires # None => HostIsReady(recipe.requires)
  BY <1>0 DEF Passed
<1>8. at \in Working =>
        /\ recipe # None /\ Provides(recipe, capability) /\ recipe.runtime = "shell"
        /\ tree \in Trees /\ Validate(tree) /\ Chosen(capability)
  BY <1>0 DEF Surroundings, Choices, Passed, Working
<1>9. CASE resolveEnvironment
  <2>1. at = "environment" /\ cause' \in EnvironmentCauses(recipe.env)
    BY <1>9 DEF resolveEnvironment, Go, Fail, Stop
  <2>2. EnvironmentCauses(recipe.env) \subseteq Rendering
    BY <1>7, <1>8, <2>1, FirstIsRight, EnvironmentRefers DEF Working
  <2> QED
    BY <1>5, <2>1, <2>2 DEF LaterCauses
<1>10. CASE Approve
  <2>1. at = "step" /\ Count < Len(recipe.steps) /\ Approval = None
    BY <1>10 DEF Approve, Count, Go, Fail, Stop
  <2> QED
    BY <1>6, <2>1 DEF Approval, Working
<1>11. CASE PrepareStep
  <2>1. /\ at = "prepare" /\ Count < Len(recipe.steps)
        /\ cause' \in EnvironmentCauses(CurrentStep.env) \/ (cause' = workingDirectory /\ workingDirectory # None)
    BY <1>0, <1>11 DEF PrepareStep, Production, Go, Fail, Stop
  <2>2. EnvironmentCauses(CurrentStep.env) \subseteq Rendering
    BY <1>6, <1>7, <2>1, EnvironmentRefers DEF Working
  <2>3. Directory # None => RenderCause(Directory) \in Rendering
    <3>1. CASE CurrentStep.directory # None
      BY <1>6, <2>1, <3>1, TemplateRefers DEF Directory, Working
    <3>2. CASE CurrentStep.directory = None
      BY <1>8, <2>1, <3>2, FirstIsRight, TemplateRefers DEF Directory, Working
    <3> QED
      BY <3>1, <3>2
  <2>4. workingDirectory # None => workingDirectory \in Rendering \union {"directory"}
    BY <2>3 DEF workingDirectory
  <2> QED
    BY <1>5, <2>1, <2>2, <2>4 DEF LaterCauses
<1>12. CASE executeStep
  <2>1. cause' \in {"timeout", "script"}
    BY <1>12 DEF executeStep, Go, Fail, Stop
  <2> QED
    BY <1>5, <2>1 DEF LaterCauses
<1>13. CASE collectProducts
  <2>1. /\ at = "collect" /\ Count < Len(recipe.steps)
        /\ \/ cause' = "product missing"
           \/ \E n \in Fields(CurrentStep.produces) :
                /\ CurrentStep.produces[n].env = None
                /\ cause' = RenderCause(CurrentStep.produces[n].file)
    BY <1>0, <1>13 DEF collectProducts, Production, Go, Fail, Stop
  <2>2. ASSUME NEW n \in Fields(CurrentStep.produces), CurrentStep.produces[n].env = None
        PROVE  RenderCause(CurrentStep.produces[n].file) \in Rendering
    <3>1. ProductFits(CurrentStep.produces[n]) /\ CurrentStep.produces[n] \in Entries(CurrentStep.produces)
      BY <1>6, <2>1 DEF StepFits, Entries, Fields, Range, Working
    <3>2. CurrentStep.produces[n].file # None
      BY <2>2, <3>1 DEF ProductFits
    <3>3. templateFits(CurrentStep.produces[n].file, context) /\ Known(context)
      BY <1>6, <2>1, <3>1, <3>2 DEF Working
    <3> QED
      BY <3>3, TemplateRefers
  <2>3. cause' \in Rendering \union {"product missing"}
    BY <2>1, <2>2
  <2> QED
    BY <1>5, <2>3 DEF LaterCauses
<1>14. CASE runManual
  <2>1. cause' \in {"procedure", "unanswered", "evidence", "output"}
    BY <1>14 DEF runManual, Go, Fail, Stop
  <2> QED
    BY <1>5, <2>1 DEF LaterCauses
<1>15. ASSUME NEW name \in left, ReturnOutput(name), at # "failed" PROVE Reasons(cause)'
  <2>1. at = "returns" /\ ReturnCause(name) # None /\ cause' = ReturnCause(name)
    BY <1>15 DEF ReturnOutput, Fail, Stop
  <2>2. Referable(name)
    BY <2>1, ReturnRefers
  <2>3. ReturnCause(name) \in {"output", "media"}
    BY <2>1, <2>2 DEF ReturnCause
  <2> QED
    BY <1>5, <2>1, <2>3 DEF LaterCauses
<1>16. CASE at # "failed"
  <2>1. \/ preflight \/ resolveEnvironment \/ Approve \/ PrepareStep \/ executeStep
        \/ collectProducts \/ runManual \/ \E name \in left : ReturnOutput(name)
    BY <1>0, <1>16 DEF Moving, vars
  <2> QED
    BY <1>4, <1>9, <1>10, <1>11, <1>12, <1>13, <1>14, <1>15, <1>16, <2>1
<1> QED
  BY <1>3, <1>16

-----------------------------------------------------------------------------
(* The invariant holds.                                                    *)

(* The invariant holds at first.                                           *)
LEMMA PreparationInvInit == Init => PreparationInv
<1> SUFFICES ASSUME Init PROVE PreparationInv
  OBVIOUS
<1> USE DEF Init, Asking, Working, Ended, Starting
<1>1. Surroundings
  BY DEF Surroundings
<1>2. Choices
  BY DEF Choices
<1>3. Passed /\ Production /\ Returning
  BY DEF Passed, Production, Returning
<1>4. Resolved /\ Failures /\ Refusals
  BY DEF Resolved, InputsMeetContract, Executing, Failures, Refusals
<1> QED
  BY <1>1, <1>2, <1>3, <1>4 DEF PreparationInv

(* Every step keeps the invariant.                                         *)
LEMMA PreparationInvNext == PreparationInv /\ [Next]_vars => PreparationInv'
<1> SUFFICES ASSUME PreparationInv, [Next]_vars PROVE PreparationInv'
  OBVIOUS
<1>1. Surroundings' /\ Choices' /\ Passed' /\ Production'
  BY SurroundingsStay, ChoicesStay, PassedStays, ProductionStays
<1>2. Returning' /\ Resolved' /\ Failures' /\ Refusals'
  BY ReturningStays, ResolvedStays, FailuresStay, RefusalsStay
<1> QED
  BY <1>1, <1>2 DEF PreparationInv

(* The invariant of Preparation, with all its parts.                       *)
THEOREM PreparationIsInductive == Spec => []PreparationInv
<1>1. Init => PreparationInv
  BY PreparationInvInit
<1>2. PreparationInv /\ [Next]_vars => PreparationInv'
  BY PreparationInvNext
<1> QED
  BY <1>1, <1>2, PTL DEF Spec

-----------------------------------------------------------------------------
(* The properties.                                                         *)

(* What loading the tree has checked never fails a Run, and run without    *)
(* --input is refused for a required input or an integer written as 1.0.   *)
THEOREM StaticErrorsStayAway == Spec => []StaticErrorsAreCaught
<1>1. PreparationInv => StaticErrorsAreCaught
  <2> SUFFICES ASSUME PreparationInv PROVE StaticErrorsAreCaught
    OBVIOUS
  <2>1. Failures /\ Refusals
    BY DEF PreparationInv
  <2>2. at = "failed" => cause \notin {"template", "environment", "approval", "run", "return"}
    BY <2>1 DEF Failures, Reasons, StaticCauses
  <2>3. (at = "refused" /\ cause = "inputs" /\ request = None /\ given = <<>>) => Excused
    BY <2>1 DEF Refusals
  <2> QED
    BY <2>2, <2>3 DEF StaticErrorsAreCaught, Excused
<1> QED
  BY <1>1, PreparationIsInductive, PTL

(* What validate and the preflight may disagree about.                     *)
ToldOtherwise(c) ==
  LET told == host.commands[c.name]
  IN \/ told.minimal # told.whole[1]
     \/ extractSemver(told.whole[1]) = None
     \/ ~told.whole[1][1].free
     \/ \E condition \in Range(c.version) : parseSemver(condition.of) = None

(* Else they compare the same version with the same conditions.            *)
LEMMA AskedAlike ==
  ASSUME NEW c, c.version # None, c.version \in Seq(Conditions),
         host.commands[c.name] \in CommandAnswers, CommandFits(c, host), ~ToldOtherwise(c)
  PROVE  checkCommandVersion(c)
<1> DEFINE told == host.commands[c.name]
           printed == told.whole[1]
           versions == [k \in DOMAIN told.whole |-> extractSemver(told.whole[k])]
<1>1. /\ told.minimal = printed /\ extractSemver(printed) # None /\ printed[1].free
      /\ \A condition \in Range(c.version) : parseSemver(condition.of) # None
  BY DEF ToldOtherwise
<1>2. printed \in Seq(Occurrences) /\ printed # <<>> /\ DOMAIN told.whole = 1..3
  BY <1>1 DEF CommandAnswers, extractSemver
<1>3. printed[1] \in Occurrences /\ 1 \in DOMAIN printed
  BY <1>2
<1>4. PICK v \in CommandVersion(told.whole) : ~Mismatches(v, c.version)
  BY DEF CommandFits
<1>5. v = parseSemver(printed[1].number) /\ v # None
  <2>1. /\ versions[1] # None /\ versions[1] = parseSemver(printed[1].number)
        /\ DOMAIN versions = 1..3
    BY <1>1, <1>2 DEF extractSemver
  <2>2. PICK k \in DOMAIN versions : v = versions[k] /\ \A i \in 1..(k - 1) : versions[i] = None
    BY <1>4 DEF CommandVersion, FirstOf
  <2> HIDE DEF versions
  <2>3. k = 1
    BY <2>1, <2>2
  <2> QED
    BY <2>1, <2>2, <2>3
<1>6. v = printed[1].number
  BY <1>5 DEF parseSemver
<1>7. \A condition \in Range(c.version) : satisfiesConstraint(v, condition)
  <2> SUFFICES ASSUME NEW k \in DOMAIN c.version PROVE satisfiesConstraint(v, c.version[k])
    BY DEF Range
  <2>1. \A j \in 1..k : parseSemver(c.version[j].of) # None
    <3>1. \A j \in 1..k : j \in DOMAIN c.version
      OBVIOUS
    <3> QED
      BY <1>1, <3>1 DEF Range
  <2> QED
    BY <1>4, <2>1 DEF Mismatches
<1>8. Meets(printed[1].number, c.version)
  BY <1>1, <1>5, <1>6, <1>7 DEF Meets
<1>9. printed[1] \in Free(printed)
  <2> DEFINE free == [k \in DOMAIN printed |-> IF printed[k].free THEN printed[k] ELSE None]
  <2>1. 1 \in DOMAIN free /\ free[1] = printed[1] /\ free[1] # None
    BY <1>1, <1>3, PreparationAssumption
  <2> HIDE DEF free
  <2>2. free[1] \in FirstOf(free)
    BY <2>1 DEF FirstOf
  <2> QED
    BY <2>1, <2>2 DEF Free, free
<1> QED
  BY <1>1, <1>8, <1>9 DEF checkCommandVersion

(* A Run whose host validate has found ready passes its preflight, but for *)
(* what the two ask differently.                                           *)
THEOREM ReadyHostsServe == Spec => []ReadyRuns
<1>1. PreparationInv => ReadyRuns
  <2> SUFFICES ASSUME PreparationInv, valid, at = "failed" PROVE ReadyRuns
    BY DEF ReadyRuns
  <2>1. Surroundings /\ Choices /\ Reasons(cause)
    BY DEF PreparationInv, Failures
  <2>2. ASSUME recipe # None PROVE recipeHostFits(recipe, host) /\ IsRecipe(recipe) /\ recipeFits(recipe)
    <3>1. /\ tree \in Trees /\ Validate(tree) /\ Chosen(capability) /\ Provides(recipe, capability)
      BY <2>1, <2>2 DEF Surroundings, Choices, Ended
    <3>2. /\ IsRecipe(recipe) /\ recipeFits(recipe)
          /\ \E found \in Definitions(tree, "Recipe") : recipe = Document(tree, found)
      BY <3>1, RecipeHolds
    <3> QED
      BY <2>1, <3>2 DEF Surroundings, ValidateHost
  <2>3. cause \notin {"command", "hostEnv"}
    BY <2>1, <2>2 DEF Reasons, recipeHostFits, CommandFits
  <2>4. ASSUME cause = "version"
        PROVE  \E c \in Range(recipe.requires.commands) : c.version # None /\ ToldOtherwise(c)
    <3>1. PICK c \in Range(recipe.requires.commands) : c.name \in DOMAIN host.commands /\ ~checkCommandVersion(c)
      BY <2>1, <2>4 DEF Reasons
    <3>2. /\ CommandFits(c, host) /\ c \in CommandRequirements /\ c.version # Bad
      BY <2>1, <2>2, <2>4, <3>1
      DEF Reasons, recipeHostFits, IsRecipe, Range, recipeFits, ShellFits, requirementsFit
    <3>3. host.commands[c.name] \in CommandAnswers
      BY <2>1, <3>1, PreparationAssumption DEF Surroundings, Range
    <3>4. c.version # None /\ c.version \in Seq(Conditions)
      BY <3>1, <3>2 DEF checkCommandVersion, CommandRequirements
    <3> QED
      BY <3>1, <3>2, <3>3, <3>4, AskedAlike
  <2>5. ASSUME cause = "file"
        PROVE  \E t \in Range(recipe.requires.files) : t.refs # {} \/ Place(host, t.file) = "link"
    BY <2>1, <2>2, <2>5 DEF Reasons, recipeHostFits
  <2>6. ASSUME cause = "shell" PROVE recipe.requires = None
    BY <2>1, <2>2, <2>6 DEF Reasons, recipeHostFits
  <2> QED
    BY <2>3, <2>4, <2>5, <2>6 DEF ReadyRuns, ToldOtherwise
<1> QED
  BY <1>1, PreparationIsInductive, PTL

(* The inputs and the outputs of a Run are those its Capability declares.  *)
THEOREM ContractIsKept == Spec => []ContractIsMet
<1>1. PreparationInv => ContractIsMet
  <2> SUFFICES ASSUME PreparationInv PROVE ContractIsMet
    OBVIOUS
  <2>1. InputsMeetContract
    BY DEF PreparationInv, Resolved
  <2>2. ReturnsMeetContract
    BY DEF PreparationInv, Returning, ReturnsMeetContract, OutputMet
  <2> QED
    BY <2>1, <2>2 DEF ContractIsMet
<1> QED
  BY <1>1, PreparationIsInductive, PTL

(* The first number of ^ that counts.                                      *)
LEMMA FirstThatCounts ==
  ASSUME NEW of \in Versions
  PROVE  (CHOOSE k \in 1..3 : (k = 3 \/ of[k] # 0) /\ \A j \in 1..(k - 1) : of[j] = 0)
           = IF of[1] # 0 THEN 1 ELSE IF of[2] # 0 THEN 2 ELSE 3
<1> DEFINE P(k) == (k = 3 \/ of[k] # 0) /\ \A j \in 1..(k - 1) : of[j] = 0
           first == IF of[1] # 0 THEN 1 ELSE IF of[2] # 0 THEN 2 ELSE 3
<1>1. first \in 1..3 /\ P(first)
  OBVIOUS
<1>2. \A k \in 1..3 : P(k) => k = first
  OBVIOUS
<1> QED
  BY <1>1, <1>2

(* A constraint that is satisfied allows the version, prereleases apart.   *)
LEMMA SatisfiedAllows ==
  ASSUME NEW told \in Occurrences, NEW c \in Conditions,
         parseSemver(told.number) # None, parseSemver(c.of) # None, satisfiesConstraint(told.number, c)
  PROVE  Allows(c, told) \/ (told.pre /\ told.number = c.of)
<1> DEFINE v == told.number
<1> SUFFICES ASSUME ~(told.pre /\ v = c.of) PROVE Allows(c, told)
  OBVIOUS
<1>1. /\ v[1] \in Nat /\ v[2] \in Nat /\ v[3] \in Nat
      /\ c.of[1] \in Nat /\ c.of[2] \in Nat /\ c.of[3] \in Nat
      /\ v \in Versions /\ c.of \in Versions /\ c.op \in {"=", "<", ">", "<=", ">=", "~", "^"}
  BY DEF Versions, Conditions, Occurrences
<1>2. v # c.of => \E k \in 1..3 : v[k] # c.of[k]
  BY <1>1 DEF Versions
<1>3. \A k \in 1..3 : v[k] <= MaxInt /\ c.of[k] <= MaxInt
  BY DEF parseSemver
<1>4. \A n \in Nat : n <= MaxInt => After(n) = n + 1 \/ After(n) < 0
  BY ManifestAssumption DEF After
<1>5. After(c.of[1]) \in Int /\ After(c.of[2]) \in Int /\ After(c.of[3]) \in Int
  BY <1>1, ManifestAssumption DEF After
<1> HIDE DEF v
<1>6. CASE c.op \in {"=", "<", ">", "<=", ">="}
  BY <1>1, <1>2, <1>6 DEF satisfiesConstraint, Allows, Less, v
<1>7. CASE c.op = "~"
  <2>1. ~Less(v, c.of) /\ Less(v, <<c.of[1], After(c.of[2]), 0>>)
    BY <1>7 DEF satisfiesConstraint, v
  <2>2. After(c.of[2]) = c.of[2] + 1 \/ After(c.of[2]) < 0
    BY <1>1, <1>3, <1>4
  <2>3. v[1] = c.of[1] /\ v[2] = c.of[2]
    BY <1>1, <1>5, <2>1, <2>2 DEF Less
  <2> QED
    BY <1>1, <1>7, <2>1, <2>3 DEF Allows, v
<1>8. CASE c.op = "^"
  <2>1. \A k \in 1..(IF c.of[1] # 0 THEN 1 ELSE IF c.of[2] # 0 THEN 2 ELSE 3) : v[k] = c.of[k]
    <3>1. ~Less(v, c.of)
      BY <1>8 DEF satisfiesConstraint, v
    <3>2. Less(v, IF c.of[1] > 0 THEN <<After(c.of[1]), 0, 0>>
                  ELSE IF c.of[2] > 0 THEN <<0, After(c.of[2]), 0>> ELSE <<0, 0, After(c.of[3])>>)
      BY <1>8 DEF satisfiesConstraint, v
    <3>3. \A k \in 1..3 : After(c.of[k]) = c.of[k] + 1 \/ After(c.of[k]) < 0
      BY <1>1, <1>3, <1>4
    <3> QED
      BY <1>1, <1>5, <3>1, <3>2, <3>3 DEF Less
  <2>2. ~Less(v, c.of)
    BY <1>8 DEF satisfiesConstraint, v
  <2> QED
    BY <1>1, <1>8, <2>1, <2>2, FirstThatCounts DEF Allows, v
<1> QED
  BY <1>1, <1>6, <1>7, <1>8

(* No script runs before every command has answered with a version that    *)
(* each condition allows, a prerelease of the version it names included.   *)
THEOREM VersionsAreMet == Spec => []VersionIsMet
<1>1. PreparationInv => VersionIsMet
  <2> DEFINE Printed(command) == host.commands[command.name].minimal
             Answers(command) ==
               \E k \in DOMAIN Printed(command) :
                 /\ Printed(command)[k].free /\ \A j \in 1..(k - 1) : ~Printed(command)[j].free
                 /\ \A c \in Range(command.version) :
                      \/ Allows(c, Printed(command)[k])
                      \/ Printed(command)[k].pre /\ Printed(command)[k].number = c.of
  <2> SUFFICES ASSUME PreparationInv, at \in Working, recipe.requires # None,
                      NEW command \in Range(recipe.requires.commands), command.version # None
               PROVE  Answers(command)
    BY DEF VersionIsMet, Working
  <2> DEFINE printed == Printed(command)
             free == [k \in DOMAIN printed |-> IF printed[k].free THEN printed[k] ELSE None]
  <2>1. Surroundings /\ Choices /\ HostIsReady(recipe.requires) /\ recipe # None
    BY DEF PreparationInv, Passed
  <2>2. ShellFits(recipe) /\ IsRecipe(recipe)
    BY <2>1, RecipeHolds, StepsHold DEF Surroundings, Choices, PreparationInv, Working
  <2>3. command \in CommandRequirements /\ command.version # Bad
    BY <2>2 DEF IsRecipe, ShellFits, requirementsFit, Range
  <2>4. \A c \in Range(command.version) : c \in Conditions
    BY <2>3 DEF CommandRequirements, Range
  <2>5. command.name \in DOMAIN host.commands /\ checkCommandVersion(command)
    BY <2>1 DEF HostIsReady
  <2>6. printed \in Seq(Occurrences)
    <3>1. host.commands[command.name] \in CommandAnswers
      BY <2>1, <2>5, PreparationAssumption DEF Surroundings, Range
    <3> QED
      BY <3>1 DEF CommandAnswers
  <2>7. PICK told \in Free(printed) : Meets(told.number, command.version)
    BY <2>5 DEF checkCommandVersion
  <2>8. PICK k \in DOMAIN printed : /\ told = free[k] /\ free[k] # None
                                    /\ \A j \in 1..(k - 1) : free[j] = None
    <3>1. told \in FirstOf(free)
      BY <2>7 DEF Free
    <3>2. DOMAIN free = DOMAIN printed
      OBVIOUS
    <3> HIDE DEF free
    <3> QED
      BY <3>1, <3>2 DEF FirstOf
  <2>9. printed[k].free /\ told = printed[k] /\ told \in Occurrences
    <3>1. printed[k].free /\ told = printed[k]
      BY <2>8
    <3>2. printed[k] \in Occurrences
      BY <2>6
    <3> QED
      BY <3>1, <3>2
  <2>10. ASSUME NEW j \in 1..(k - 1) PROVE ~printed[j].free
    <3>1. j \in DOMAIN printed
      BY <2>6
    <3>2. printed[j] \in Occurrences
      BY <2>6, <3>1
    <3> QED
      BY <2>8, <3>1, <3>2, PreparationAssumption
  <2>11. ASSUME NEW c \in Range(command.version)
         PROVE  Allows(c, told) \/ (told.pre /\ told.number = c.of)
    BY <2>4, <2>7, <2>9, SatisfiedAllows DEF Meets
  <2> QED
    BY <2>9, <2>10, <2>11
<1> QED
  BY <1>1, PreparationIsInductive, PTL
=============================================================================
