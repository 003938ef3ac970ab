---------------------------- MODULE Preparation ----------------------------
(***************************************************************************)
(* What happens to the data of one Run, for run and for the fulfilment of  *)
(* a Request: the tree is loaded, a Capability and a Recipe are chosen,    *)
(* the inputs are typed, the host is asked, the Steps pass values and      *)
(* files on, and the outputs the Capability promises are returned.         *)
(* validate, by another process, may look at the same tree and host first. *)
(*                                                                         *)
(* Events, the index and the coordinator are in RunExecution; here a Run   *)
(* that ends badly carries the cause.                                      *)
(***************************************************************************)
EXTENDS Manifest

CONSTANTS
  Trees, Hosts,   (* what the disk may hold; what the host may offer        *)
  Givens,         (* the values of --input                                  *)
  Texts,          (* what a person or a script may write as a value         *)
  Requests,       (* Requests made for a Capability of some tree            *)
  Media,          (* the media types a file may turn out to have            *)
  MaxChanges      (* changes of the host                                    *)

(* Why a command refuses, or a Run ends badly.                             *)
Causes ==
  {"discover", "tree", "capability", "inputs", "ambiguous", "options", "lock", "digest", "no Recipe", "host",
   "command", "version", "hostEnv", "file", "run", "shell", "template", "braces", "unset",
   "environment", "approval", "rejected", "directory", "timeout", "script", "product missing",
   "procedure", "unanswered", "evidence", "output", "return", "media"}

ASSUME PreparationAssumption ==
  /\ MaxChanges \in Nat
  /\ None \notin Causes \union Literals \union Requests \union Occurrences
  /\ Texts \subseteq {v \in Literals : v.is = "string"}
  /\ \A values \in Givens : Range(values) \subseteq Texts
  /\ \A asked \in Requests : Range(asked.inputs) \subseteq Literals
  /\ \A t \in Trees : \A file \in Range(t.files) :
       /\ file.kind = "Capability" => IsCapability(file.document)
       /\ file.kind = "Recipe" => IsRecipe(file.document)
  /\ \A h \in Hosts : Range(h.commands) \subseteq CommandAnswers

VARIABLES
  tree, host, changes,
  valid,        (* the last validate found nothing, and nothing has changed *)
  request,      (* the Request that is fulfilled, or None for run           *)
  at, cause,
  capability, recipe,
  given,        (* the inputs as they were written                          *)
  inputs,       (* the inputs of the Run                                    *)
  products,     (* what the Steps so far have produced                      *)
  left,         (* outputs still to be returned                             *)
  returns,
  artifacts     (* the media type of each artifact of the Run               *)

data == <<given, inputs, products, left, returns, artifacts>>
chosen == <<request, capability, recipe>>
vars == <<tree, host, changes, valid, at, cause, chosen, data>>

Init ==
  /\ tree \in Trees /\ host \in Hosts /\ changes = 0 /\ valid = FALSE
  /\ request = None /\ at = "idle" /\ cause = None
  /\ capability = None /\ recipe = None
  /\ given = <<>> /\ inputs = <<>> /\ products = <<>>
  /\ left = {} /\ returns = <<>> /\ artifacts = <<>>

Go(place) == at' = place /\ UNCHANGED cause
Stop(place, why) == at' = place /\ cause' = why

(* A command that refuses has created no Run; a Run that fails has one.    *)
Refuse(why) == Stop("refused", why)
Fail(why) == Stop("failed", why)

-----------------------------------------------------------------------------
(* Values at run time.                                                     *)

normalizeScalar(v, type) ==
  IF (type = "string" /\ v.is = "string") \/ (type = "boolean" /\ v.is = "bool") THEN v
  ELSE IF type = "integer" /\ (v.is = "int" \/ (v.is = "json" /\ v.as = "int")) /\ Portable(v.n)
  THEN Value("int", "int", v.n)
  ELSE IF type = "number" /\ v.is \in {"int", "float", "json"} /\ (Integral(v.n) => Portable(v.n))
  THEN Float(v.n)
  ELSE None

parseOutputString(v, type) ==
  IF type = "string" THEN v
  ELSE IF type = "integer" /\ v.as = "int" THEN normalizeScalar(Value("int", "int", v.n), type)
  ELSE IF type = "number" /\ v.as \in {"int", "float"} THEN normalizeScalar(Float(v.n), type)
  ELSE IF type = "boolean" /\ v.as = "bool" THEN Value("bool", "bool", v.n)
  ELSE None

convertOutput(v, output) ==
  IF output.type = "artifact"
  THEN IF v.is # "artifact" THEN None
       ELSE IF output.media = None THEN v ELSE [v EXCEPT !.as = output.media]
  ELSE IF v.is = "string" THEN parseOutputString(v, output.type)
  ELSE normalizeScalar(v, output.type)

enumContains(options, v, type) ==
  \E k \in DOMAIN options : normalizeScalar(options[k], type) = v

Supplied(c, values, name) == IF name \in DOMAIN values THEN values[name] ELSE c.inputs[name].default

InputAccepted(input, v) ==
  LET normalized == normalizeScalar(v, input.type)
  IN /\ normalized # None
     /\ input.enum # None => enumContains(input.enum, normalized, input.type)

InputsResolve(c, values) ==
  /\ DOMAIN values \subseteq Fields(c.inputs)
  /\ \A name \in Fields(c.inputs) :
       LET v == Supplied(c, values, name)
       IN IF v = None THEN ~c.inputs[name].required ELSE InputAccepted(c.inputs[name], v)

resolveInputs(c, values) ==
  [name \in {n \in Fields(c.inputs) : Supplied(c, values, n) # None} |->
     normalizeScalar(Supplied(c, values, name), c.inputs[name].type)]

missingRequiredInputNames(c, values) ==
  {name \in Fields(c.inputs) \ DOMAIN values :
     c.inputs[name].required /\ c.inputs[name].default = None}

Typed(c, texts) ==
  [name \in DOMAIN texts |->
     IF name \in Fields(c.inputs) THEN parseOutputString(texts[name], c.inputs[name].type) ELSE None]

Has(e) ==
  \/ e[1] = "inputs" /\ e[2] \in DOMAIN inputs
  \/ e[1] = "steps" /\ e[2] \in DOMAIN products /\ e[3] \in DOMAIN products[e[2]]

resolveExpression(e) == IF e[1] = "inputs" THEN inputs[e[2]] ELSE products[e[2]][e[3]]

Renders(t) ==
  /\ t.form \in {"text", "exact"}
  /\ \A e \in t.refs : Has(e) /\ resolveExpression(e).as # "braces"

(* Why a template does not render: it is at fault itself, an optional      *)
(* input has no value, or a value contains the braces of a template.       *)
RenderCause(t) ==
  IF t.form \in {"torn", "obsolete"} THEN "template"
  ELSE IF \A e \in t.refs : Has(e) THEN "braces"
  ELSE IF \A e \in {f \in t.refs : ~Has(f)} : e[1] = "inputs" /\ e[2] \in Fields(capability.inputs)
  THEN "unset" ELSE "template"

(* A template of one expression names the file its value is called.        *)
renderTemplate(t) ==
  IF t.refs = {} THEN t.file ELSE resolveExpression(CHOOSE e \in t.refs : TRUE).as

-----------------------------------------------------------------------------
(* validate, and the host.                                                 *)

Check ==
  /\ valid' = (Discoverable(tree) /\ Validate(tree) /\ ValidateHost(tree, host))
  /\ UNCHANGED <<tree, host, changes, at, cause, chosen, data>>

(* Somebody installs, upgrades or removes something.                       *)
ChangeHost ==
  /\ at = "idle" /\ changes < MaxChanges /\ changes' = changes + 1
  /\ host' \in Hosts \ {host} /\ valid' = FALSE
  /\ UNCHANGED <<tree, at, cause, chosen, data>>

-----------------------------------------------------------------------------
(* run: the choices before there is a Run.                                 *)

localCatalog ==
  /\ at = "idle"
  /\ IF ~Discoverable(tree) THEN Refuse("discover")
     ELSE IF Validate(tree) THEN Go("choose") ELSE Refuse("tree")
  /\ UNCHANGED <<tree, host, changes, valid, chosen, data>>

findCapability(name, version) == Revision(tree, "Capability", name, version)

One(found) == Document(tree, CHOOSE one \in found : TRUE)

ChooseCapability ==
  /\ at = "choose" /\ request = None
  /\ \E c \in {Document(tree, found) : found \in Definitions(tree, "Capability")} :
       \E version \in {None, c.version} :
         LET named == findCapability(c.name, version)
         IN IF Cardinality(named) = 1 THEN capability' = One(named) /\ Go("inputs")
            ELSE Refuse("capability") /\ UNCHANGED capability
  /\ UNCHANGED <<tree, host, changes, valid, request, recipe, data>>

(* Required inputs that are missing are asked for, if there is a terminal. *)
ParseInputs ==
  /\ at = "inputs"
  /\ \E values \in Givens :
       \E answers \in {<<>>} \union [missingRequiredInputNames(capability, values) -> Texts] :
         LET written == [name \in DOMAIN values \union DOMAIN answers |->
                           IF name \in DOMAIN values THEN values[name] ELSE answers[name]]
             typed == Typed(capability, written)
         IN /\ given' = written
            /\ IF None \notin Range(typed) /\ InputsResolve(capability, typed)
               THEN inputs' = resolveInputs(capability, typed) /\ Go("recipe")
               ELSE Refuse("inputs") /\ UNCHANGED inputs
  /\ UNCHANGED <<tree, host, changes, valid, chosen, products, left, returns, artifacts>>

ResolveRecipe(name, version) ==
  {found \in RecipesForCapability(tree, capability.name) :
     LET r == Document(tree, found)
     IN name \in {None, r.name} /\ version \in {None, r.version}}

(* --detach, --output and --evidence go with one runtime each, and the lock *)
(* file or the remote registry may hold another revision.                  *)
Begin == Go("invocation") \/ Refuse("options") \/ Refuse("lock")

(* --recipe names one; else the only one, a picked one or none at all.     *)
ChooseRecipe ==
  LET matches == ResolveRecipe(None, None)
      names == {Document(tree, found).name : found \in matches}
      versions == {Document(tree, found).version : found \in matches}
  IN
  /\ at = "recipe"
  /\ \/ \E name \in names, version \in versions \union {None} :
          /\ Cardinality(ResolveRecipe(name, version)) = 1
          /\ recipe' = One(ResolveRecipe(name, version)) /\ Begin
     \/ \E found \in matches : recipe' = Document(tree, found) /\ Begin
     \/ matches = {} /\ Begin /\ UNCHANGED recipe
     \/ Cardinality(matches) > 1 /\ Refuse("ambiguous") /\ UNCHANGED recipe
  /\ UNCHANGED <<tree, host, changes, valid, request, capability, data>>

-----------------------------------------------------------------------------
(* A Request to fulfil.  A Share names revisions by their digests, so the  *)
(* local documents have to be the same; a Request of the Space names only  *)
(* the Capability, and Execute compares the digest.                        *)

TakeRequest ==
  /\ at = "choose" /\ request = None
  /\ \E asked \in Requests :
       LET c == asked.capability
           named == findCapability(c.name, c.version)
       IN /\ request' = asked
          /\ IF Cardinality(named) # 1 THEN Refuse("capability") /\ UNCHANGED capability
             ELSE /\ capability' = One(named)
                  /\ IF asked.via = "share" /\ One(named) # c THEN Refuse("digest") ELSE Go("fulfil")
  /\ UNCHANGED <<tree, host, changes, valid, recipe, data>>

(* The Recipe a Share names; else the only one; with several, a Share lets *)
(* the operator pick, the Space refuses.  --yes runs the Space's without   *)
(* any Recipe by hand.                                                     *)
resolveListenFulfillment ==
  LET asked == request.recipe
      matches == IF asked = None THEN ResolveRecipe(None, None)
                 ELSE ResolveRecipe(asked.name, asked.version)
      Takes(found) == recipe' = Document(tree, found) /\ Go("checkHost")
      Leaves(why) == Refuse(why) /\ UNCHANGED recipe
  IN
  /\ at = "fulfil"
  /\ IF asked # None
     THEN IF Cardinality(matches) = 1 /\ One(matches) = asked
          THEN \E found \in matches : Takes(found) ELSE Leaves("digest")
     ELSE \/ Cardinality(matches) = 1 /\ \E found \in matches : Takes(found)
          \/ matches = {} /\ Go("checkHost") /\ UNCHANGED recipe
          \/ matches = {} /\ request.via = "space" /\ Leaves("no Recipe")
          \/ /\ Cardinality(matches) > 1 /\ request.via = "share"
             /\ \E found \in matches : Takes(found)
          \/ Cardinality(matches) > 1 /\ request.via = "space" /\ Leaves("ambiguous")
  /\ UNCHANGED <<tree, host, changes, valid, request, capability, data>>

validateShareHost ==
  /\ at = "checkHost"
  /\ IF recipe # None /\ ~recipeHostFits(recipe, host) THEN Refuse("host") ELSE Go("invocation")
  /\ UNCHANGED <<tree, host, changes, valid, chosen, data>>

-----------------------------------------------------------------------------
(* Execute.                                                                *)

validateExistingRequest == request # None => request.whole /\ request.capability = capability

(* The inputs of a Request are JSON; those of run are typed already.       *)
validateInvocation ==
  /\ at = "invocation"
  /\ LET values == IF request = None THEN inputs ELSE request.inputs
     IN IF validateExistingRequest /\ InputsResolve(capability, values)
        THEN inputs' = resolveInputs(capability, values) /\ Go("preflight")
        ELSE Refuse(IF validateExistingRequest THEN "inputs" ELSE "digest") /\ UNCHANGED inputs
  /\ UNCHANGED <<tree, host, changes, valid, chosen, given, products, left, returns, artifacts>>

(* The first version in the output that stands free, without what follows  *)
(* it, is compared; the exit status is of no interest.                     *)
Free(printed) == FirstOf([k \in DOMAIN printed |-> IF printed[k].free THEN printed[k] ELSE None])

Meets(v, constraint) ==
  /\ parseSemver(v) # None
  /\ \A c \in Range(constraint) : parseSemver(c.of) # None /\ satisfiesConstraint(v, c)

checkCommandVersion(command) ==
  command.version # None =>
    \E told \in Free(host.commands[command.name].minimal) : Meets(told.number, command.version)

CommandCause(command) ==
  IF command.name \notin DOMAIN host.commands THEN "command"
  ELSE IF checkCommandVersion(command) THEN None ELSE "version"

FileCause(t) == IF ~Renders(t) THEN RenderCause(t)
                ELSE IF Place(host, renderTemplate(t)) = "file" THEN None ELSE "file"

StepCause(step) ==
  IF step.run = None THEN "run"
  ELSE IF step.run.script = "interpolates" THEN "run"
  ELSE IF step.run.shell \in DOMAIN host.commands THEN None ELSE "shell"

RequirementCauses(requires) ==
  LET commands == FirstOf([k \in DOMAIN requires.commands |-> CommandCause(requires.commands[k])])
  IN IF commands # {} THEN commands
     ELSE IF ~(Range(requires.hostEnv) \subseteq host.env) THEN {"hostEnv"}
     ELSE FirstOf([k \in DOMAIN requires.files |-> FileCause(requires.files[k])])

(* The first fault that is found, if there is one.                         *)
PreflightCauses ==
  LET required == IF recipe.requires = None THEN {} ELSE RequirementCauses(recipe.requires)
  IN IF required # {} THEN required
     ELSE FirstOf([k \in DOMAIN recipe.steps |-> StepCause(recipe.steps[k])])

preflight ==
  /\ at = "preflight"
  /\ IF recipe = None THEN Go("manual")
     ELSE IF recipe.runtime = "manual" THEN Go("manual")
     ELSE IF PreflightCauses = {} THEN Go("environment")
     ELSE \E why \in PreflightCauses : Fail(why)
  /\ UNCHANGED <<tree, host, changes, valid, chosen, data>>

(* Why an environment does not resolve, or None.                           *)
EnvironmentCauses(env) ==
  {IF env[name].from = "host_env" THEN "environment" ELSE RenderCause(env[name].literal) :
     name \in {n \in Fields(env) : IF env[n].from = "host_env" THEN env[n].name \notin host.env
                                   ELSE ~Renders(env[n].literal)}}

resolveEnvironment ==
  /\ at = "environment"
  /\ IF EnvironmentCauses(recipe.env) = {} THEN Go("step")
     ELSE \E why \in EnvironmentCauses(recipe.env) : Fail(why)
  /\ UNCHANGED <<tree, host, changes, valid, chosen, data>>

CurrentStep == recipe.steps[Cardinality(DOMAIN products) + 1]

Approval == IF CurrentStep.approval # None THEN CurrentStep.approval ELSE recipe.defaults.approval

(* run has --yes in effect; a fulfilment asks.                             *)
Approve ==
  /\ at = "step" /\ Cardinality(DOMAIN products) < Len(recipe.steps)
  /\ \/ Approval \in {"never", "required"} /\ Go("prepare")
     \/ Approval = "required" /\ request # None /\ Stop("cancelled", "rejected")
     \/ Approval = None /\ Fail("approval")
  /\ UNCHANGED <<tree, host, changes, valid, chosen, data>>

Directory == IF CurrentStep.directory # None THEN CurrentStep.directory ELSE recipe.defaults.directory

workingDirectory ==
  IF Directory = None THEN None
  ELSE IF ~Renders(Directory) THEN RenderCause(Directory)
  ELSE IF Place(host, renderTemplate(Directory)) = "directory" THEN None
  ELSE "directory"

PrepareStep ==
  /\ at = "prepare"
  /\ IF workingDirectory # None THEN Fail(workingDirectory)
     ELSE IF EnvironmentCauses(CurrentStep.env) = {} THEN Go("script")
     ELSE \E why \in EnvironmentCauses(CurrentStep.env) : Fail(why)
  /\ UNCHANGED <<tree, host, changes, valid, chosen, data>>

Timeout == IF CurrentStep.run.timeout # None THEN CurrentStep.run.timeout ELSE recipe.defaults.timeout

(* A duration of many digits fits its pattern and is too large to parse.   *)
(* The Step's condition is not looked at, whatever the schema says of it.  *)
executeStep ==
  /\ at = "script"
  /\ IF Timeout = "huge" THEN Fail("timeout") ELSE Fail("script") \/ Go("collect")
  /\ UNCHANGED <<tree, host, changes, valid, chosen, data>>

Updated(f, x, v) == [y \in DOMAIN f \union {x} |-> IF y = x THEN v ELSE f[y]]

Artifact(media, id) == Value("artifact", media, id)

(* The script has exported any text, or nothing; a file is there or not.   *)
collectProducts ==
  LET step == CurrentStep
      names == Fields(step.produces)
      exports == {n \in names : step.produces[n].env # None}
      files == names \ exports
      torn == {n \in files : ~Renders(step.produces[n].file)}
  IN
  /\ at = "collect"
  /\ \/ /\ \E n \in torn : Fail(RenderCause(step.produces[n].file))
        /\ UNCHANGED <<products, artifacts>>
     \/ names # {} /\ Fail("product missing") /\ UNCHANGED <<products, artifacts>>
     \/ /\ torn = {} /\ Go("step")
        /\ \E texts \in [exports -> Texts], media \in [files -> Media] :
             LET produced == [n \in names |-> IF n \in exports THEN texts[n]
                                              ELSE Artifact(media[n], <<step.id, n>>)]
             IN /\ products' = Updated(products, step.id, produced)
                /\ artifacts' = [id \in DOMAIN artifacts \union ({step.id} \X files) |->
                                   IF id[1] = step.id THEN media[id[2]] ELSE artifacts[id]]
  /\ UNCHANGED <<tree, host, changes, valid, chosen, given, inputs, left, returns>>

-----------------------------------------------------------------------------
(* By hand: the person answers for each output, a file by its path.        *)

manualValue(text, output, id) ==
  IF output.type # "artifact" THEN convertOutput(text, output)
  ELSE IF Place(host, text.as) # "file" THEN None
  ELSE Artifact(output.media, id)

runManual ==
  /\ at = "manual"
  /\ IF recipe # None /\ Place(host, recipe.procedure) # "file"
     THEN Fail("procedure") /\ UNCHANGED <<returns, artifacts>>
     ELSE \/ Fail("unanswered") /\ UNCHANGED <<returns, artifacts>>
          \/ Fail("evidence") /\ UNCHANGED <<returns, artifacts>>
          \/ \E answers \in [Fields(capability.outputs) -> Texts], detected \in Media :
               LET Described(name) ==
                     IF capability.outputs[name].media # None THEN capability.outputs[name]
                     ELSE [capability.outputs[name] EXCEPT !.media = detected]
                   values == [name \in DOMAIN answers |->
                                manualValue(answers[name], Described(name), <<"manual", name>>)]
                   files == {name \in DOMAIN answers : capability.outputs[name].type = "artifact"}
               IN IF None \in Range(values) THEN Fail("output") /\ UNCHANGED <<returns, artifacts>>
                  ELSE /\ returns' = values
                       /\ artifacts' = [id \in {"manual"} \X files |-> values[id[2]].as]
                       /\ Go("succeeded")
  /\ UNCHANGED <<tree, host, changes, valid, chosen, given, inputs, products, left>>

-----------------------------------------------------------------------------
(* The outputs, one by one in an order nobody knows: Go maps.              *)

BeginReturns ==
  /\ at = "step" /\ Cardinality(DOMAIN products) = Len(recipe.steps)
  /\ left' = Fields(capability.outputs) /\ Go("returns")
  /\ UNCHANGED <<tree, host, changes, valid, chosen, given, inputs, products, returns, artifacts>>

Referred(name) == CHOOSE e \in recipe.returns[name].refs : TRUE

Referable(name) ==
  /\ name \in Fields(recipe.returns) /\ recipe.returns[name].form = "exact"
  /\ Has(Referred(name))
  /\ (resolveExpression(Referred(name)).is = "artifact") = (capability.outputs[name].type = "artifact")

Converted(name) == convertOutput(resolveExpression(Referred(name)), capability.outputs[name])

Returned(id) == \E name \in DOMAIN returns : returns[name].is = "artifact" /\ returns[name].n = id

(* Mutant: one artifact may be returned under two media types.             *)
AnyMediaType(name) ==
  IF ~Referable(name) THEN "return" ELSE IF Converted(name) = None THEN "output" ELSE None

(* Why an output cannot be returned, or None.                              *)
ReturnCause(name) ==
  IF ~Referable(name) THEN "return"
  ELSE LET v == Converted(name)
       IN IF v = None THEN "output"
          ELSE IF v.is = "artifact" /\ Returned(v.n) /\ artifacts[v.n] # v.as THEN "media"
          ELSE None

(* An artifact keeps the media type it is returned with, and later         *)
(* references to its product see it.                                       *)
ReturnOutput(name) ==
  /\ at = "returns" /\ name \in left
  /\ IF ReturnCause(name) # None
     THEN Fail(ReturnCause(name)) /\ UNCHANGED <<products, left, returns, artifacts>>
     ELSE LET v == Converted(name)
              e == Referred(name)
          IN /\ returns' = Updated(returns, name, v)
             /\ left' = left \ {name} /\ UNCHANGED <<at, cause>>
             /\ IF v.is = "artifact"
                THEN /\ artifacts' = [artifacts EXCEPT ![v.n] = v.as]
                     /\ products' = [products EXCEPT ![e[2]][e[3]] = v]
                ELSE UNCHANGED <<artifacts, products>>
  /\ UNCHANGED <<tree, host, changes, valid, chosen, given, inputs>>

Succeed ==
  /\ at = "returns" /\ left = {} /\ Go("succeeded")
  /\ UNCHANGED <<tree, host, changes, valid, chosen, data>>

-----------------------------------------------------------------------------
Next ==
  \/ Check \/ ChangeHost
  \/ localCatalog \/ ChooseCapability \/ ParseInputs \/ ChooseRecipe
  \/ TakeRequest \/ resolveListenFulfillment \/ validateShareHost
  \/ validateInvocation \/ preflight \/ resolveEnvironment
  \/ Approve \/ PrepareStep \/ executeStep \/ collectProducts \/ runManual
  \/ BeginReturns \/ (\E name \in left : ReturnOutput(name)) \/ Succeed

Spec == Init /\ [][Next]_vars

-----------------------------------------------------------------------------
(* Properties.                                                             *)

(* What loading the tree has checked never turns up while a Run is under   *)
(* way: a template that refers to nothing, an undeclared variable of the   *)
(* host, a Step without approval or script, an output that is not          *)
(* returned or that is of another kind than its product.  (manifest/       *)
(* semantic.go and structural.go against runner.go, template.go and        *)
(* result.go, which check it all again.)  Nor is a run without --input     *)
(* refused but for a required input without a default, or for an integer   *)
(* whose default or enumeration is written as 1.0: loading takes it, the   *)
(* Run does not.  (rules.go:67 against validate.go:258.)                   *)
StaticErrorsAreCaught ==
  /\ at = "failed" => cause \notin {"template", "environment", "approval", "run", "return"}
  /\ (at = "refused" /\ cause = "inputs" /\ request = None /\ given = <<>>) =>
       \E name \in Fields(capability.inputs) :
         LET input == capability.inputs[name]
         IN \/ input.required /\ input.default = None
            \/ /\ input.type = "integer"
               /\ \E v \in Entries(input.enum) \union {input.default} : v # None /\ v.is = "float"

(* If validate finds nothing, a Run for which the host has not changed     *)
(* passes its preflight, but for what the two ask differently: a command   *)
(* that answers --version otherwise in the Run's environment, or with no   *)
(* version, or with one that is glued to a word, a condition with a number *)
(* that is too large, a file whose name depends on the inputs, a link out  *)
(* of the tree, a Recipe without requires.  (manifest/host.go:100 against  *)
(* execution/validate.go:351.)                                             *)
ReadyRuns ==
  (valid /\ at = "failed") =>
    /\ cause \notin {"command", "hostEnv"}
    /\ cause = "version" =>
         \E command \in Range(recipe.requires.commands) :
           LET told == host.commands[command.name]
           IN /\ command.version # None
              /\ \/ told.minimal # told.whole[1]
                 \/ extractSemver(told.whole[1]) = None
                 \/ ~told.whole[1][1].free
                 \/ \E c \in Range(command.version) : parseSemver(c.of) = None
    /\ cause = "file" =>
         \E t \in Range(recipe.requires.files) : t.refs # {} \/ Place(host, t.file) = "link"
    /\ cause = "shell" => recipe.requires = None

MeetsType(v, type) ==
  \/ type = "string" /\ v.is = "string"
  \/ type = "boolean" /\ v.is = "bool"
  \/ type = "integer" /\ v.is = "int" /\ Integral(v.n) /\ Portable(v.n)
  \/ type = "number" /\ v.is = "float"

Executing == at \in {"preflight", "environment", "step", "prepare", "script", "collect",
                    "manual", "returns", "failed", "cancelled", "succeeded"}

InputsMeetContract ==
  Executing =>
    /\ DOMAIN inputs \subseteq Fields(capability.inputs)
    /\ \A name \in Fields(capability.inputs) :
         LET input == capability.inputs[name]
         IN /\ input.required \/ input.default # None => name \in DOMAIN inputs
            /\ name \in DOMAIN inputs =>
                 /\ MeetsType(inputs[name], input.type)
                 /\ input.enum # None => containsScalar(input.enum, inputs[name])

ReturnsMeetContract ==
  at = "succeeded" =>
    \A name \in Fields(capability.outputs) :
      LET output == capability.outputs[name]
      IN /\ name \in DOMAIN returns
         /\ IF output.type # "artifact" THEN MeetsType(returns[name], output.type)
            ELSE /\ returns[name].is = "artifact"
                 /\ returns[name].as = artifacts[returns[name].n]
                 /\ output.media \in {None, returns[name].as}

(* The inputs of a Run are those the Capability declares, each of its type *)
(* and, as numbers, one of its enumeration, whichever way they came:       *)
(* written, asked for, defaulted or as JSON.  (validate.go:157, 210.)  It  *)
(* succeeds with every output, each of its type, and each artifact under   *)
(* one media type, the declared one where there is one, in whatever order  *)
(* the outputs are returned.  (result.go:96.)                              *)
ContractIsMet == InputsMeetContract /\ ReturnsMeetContract

(* What a condition means for a version that may be a prerelease, which    *)
(* comes before its release.                                               *)
Allows(c, told) ==
  LET v == told.number
      before == Less(v, c.of) \/ (v = c.of /\ told.pre)
      fixed == IF c.op = "~" THEN 2 ELSE CHOOSE k \in 1..3 :
                 /\ k = 3 \/ c.of[k] # 0
                 /\ \A j \in 1..(k - 1) : c.of[j] = 0
  IN CASE c.op = "=" -> v = c.of /\ ~told.pre
       [] c.op = ">" -> Less(c.of, v)
       [] c.op = "<" -> before
       [] c.op = ">=" -> ~before
       [] c.op = "<=" -> ~Less(c.of, v)
       [] OTHER -> ~before /\ \A k \in 1..fixed : v[k] = c.of[k]

(* No script runs before every required command has answered --version, in *)
(* the Run's environment, with a version that stands free and before any   *)
(* other free one, and that each condition allows: from the first number   *)
(* of ^ that is not zero on, and from the third of ~ on, it may be greater.*)
(* A prerelease of the very version a condition names is taken for it.     *)
(* (validate.go:412.)                                                      *)
VersionIsMet ==
  (at \in {"environment", "step", "prepare", "script", "collect", "returns"} /\ recipe.requires # None) =>
      \A command \in Range(recipe.requires.commands) :
        command.version # None =>
          LET printed == host.commands[command.name].minimal
          IN \E k \in DOMAIN printed :
               /\ printed[k].free /\ \A j \in 1..(k - 1) : ~printed[j].free
               /\ \A c \in Range(command.version) :
                    Allows(c, printed[k]) \/ (printed[k].pre /\ printed[k].number = c.of)
=============================================================================
