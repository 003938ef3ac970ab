------------------------------ MODULE Manifest ------------------------------
(***************************************************************************)
(* The documents of a Space, Capabilities and Recipes, and what the CLI    *)
(* checks of them before anything runs: Discover, Load and Validate.       *)
(*                                                                         *)
(* A check is a predicate that holds if it reports no diagnostic; the      *)
(* message and the field it names are left out.  Bad stands for a text     *)
(* that the pattern, the length or the enumeration of its field refuses.   *)
(* The published schema repeats structural rules: a document it refuses is *)
(* one that does not decode.                                               *)
(***************************************************************************)
EXTENDS Integers, Sequences, FiniteSets, Functions

CONSTANTS
  None,       (* a field that is not there                                  *)
  Bad,        (* a text its field refuses                                   *)
  MaxSafe,    (* the largest portable integer                               *)
  MaxInt      (* the largest number of a version that is read               *)

ASSUME ManifestAssumption ==
  /\ MaxSafe \in Nat /\ MaxInt \in Nat /\ None # Bad
  /\ None \notin [is : {"int", "float"}, as : {"int", "float"}, n : Int]

Fields(f) == IF f = None THEN {} ELSE DOMAIN f
Entries(f) == IF f = None THEN {} ELSE Range(f)

(* The first entry that is something, if there is one.                     *)
FirstOf(s) == {s[k] : k \in {j \in DOMAIN s : s[j] # None /\ \A i \in 1..(j - 1) : s[i] = None}}

-----------------------------------------------------------------------------
(* Values.  n is the number in halves, as says how a text or a JSON number *)
(* is spelled, or the media type of an artifact, whose n is its id.        *)

Value(is, as, n) == [is |-> is, as |-> as, n |-> n]
Whole(i) == Value("int", "int", 2 * i)
Float(halves) == Value("float", "float", halves)
Text(as, halves) == Value("string", as, halves)

Integral(n) == n % 2 = 0
Portable(n) == -2 * MaxSafe <= n /\ n <= 2 * MaxSafe

isNumber(v) == v.is \in {"int", "float"}
ScalarTypes == {"string", "integer", "number", "boolean"}

scalarMatches(v, type) ==
  \/ type = "string" /\ v.is = "string"
  \/ type = "boolean" /\ v.is = "bool"
  \/ type = "integer" /\ isNumber(v) /\ Integral(v.n) /\ Portable(v.n)
  \/ type = "number" /\ isNumber(v) /\ (Integral(v.n) => Portable(v.n))

scalarEqual(v, w) == IF isNumber(v) /\ isNumber(w) THEN v.n = w.n ELSE v = w

containsScalar(values, v) == \E w \in Range(values) : scalarEqual(v, w)

(* 1 and 1.0 have the same key.                                            *)
scalarKey(v) == IF v # None /\ isNumber(v) THEN Float(v.n) ELSE v

inputSignature(input) ==
  [input EXCEPT !.default = scalarKey(@),
                !.enum = IF @ = None THEN <<>> ELSE [k \in DOMAIN @ |-> scalarKey(@[k])]]

-----------------------------------------------------------------------------
(* What a document that decodes is made of.                                *)

Literals ==
  {v \in [is : {"string", "bool", "int", "float", "json"}, as : STRING, n : Int] :
     "int" \in {v.is, v.as} => Integral(v.n)}

InputContracts ==
  [type : STRING \union {Bad}, required : BOOLEAN,
   default : Literals \union {None}, enum : Seq(Literals) \union {None}]

OutputContracts == [type : STRING \union {Bad}, media : STRING \union {None}]

IsCapability(c) == Entries(c.inputs) \subseteq InputContracts /\ Entries(c.outputs) \subseteq OutputContracts

Versions == [1..3 -> Nat]

Conditions == [op : {"=", "<", ">", "<=", ">=", "~", "^"}, of : Versions]

CommandRequirements ==
  [name : STRING \union {Bad}, version : Seq(Conditions) \union {None, Bad}]

(* Between the braces of an exact template there is one expression.        *)
Templates ==
  {t \in [form : {"text", "exact", "torn", "obsolete"}, refs : SUBSET Seq(STRING), file : STRING \union {None, Bad}] :
     t.form = "exact" => \E e \in t.refs : t.refs = {e}}

IsRecipe(r) ==
  /\ r.requires # None => r.requires.commands \in Seq(CommandRequirements)
  /\ r.steps # None => r.steps \in Seq(Range(r.steps))
  /\ Entries(r.returns) \subseteq Templates

-----------------------------------------------------------------------------
(* Templates: the expressions of a text, and whether the text is nothing   *)
(* else (exact), has a brace too many (torn) or the old ${{ }} (obsolete). *)
(* An expression is <<"inputs", name>>, <<"steps", step, product>> or      *)
(* something else.  file is the text itself where there is no expression.  *)

ExpressionFits(e, context) ==
  \/ e[1] = "inputs" /\ e[2] \in context.inputs
  \/ /\ e[1] = "steps" /\ e[2] \in DOMAIN context.results
     /\ e[3] \in Fields(context.results[e[2]])

templateFits(t, context) ==
  /\ t.form \in {"text", "exact"}
  /\ \A e \in t.refs : ExpressionFits(e, context)

environmentFits(env, requires, context) ==
  \A name \in Fields(env) :
    LET value == env[name]
    IN IF value.from = "host_env"
       THEN requires # None /\ value.name \in Range(requires.hostEnv)
       ELSE templateFits(value.literal, context)

-----------------------------------------------------------------------------
(* One document by itself.                                                 *)

metadataFits(d) == Bad \notin {d.name, d.version, d.metadata}

ContractFits(input) ==
  /\ input.type \in ScalarTypes
  /\ input.enum # None =>
       /\ input.enum # <<>>
       /\ \A v \in Range(input.enum) : scalarMatches(v, input.type)
       /\ \A j, k \in DOMAIN input.enum :
            j # k => ~scalarEqual(input.enum[j], input.enum[k])
  /\ input.default # None =>
       /\ scalarMatches(input.default, input.type)
       /\ input.enum # None => containsScalar(input.enum, input.default)

OutputFits(output) ==
  /\ output.type \in ScalarTypes \union {"artifact"}
  /\ output.media # None => output.type = "artifact"

capabilityFits(c) ==
  /\ metadataFits(c)
  /\ c.inputs # None
  /\ Bad \notin Fields(c.inputs) \union Fields(c.outputs)
  /\ \A name \in Fields(c.inputs) : ContractFits(c.inputs[name])
  /\ Fields(c.outputs) # {}
  /\ \A name \in Fields(c.outputs) : OutputFits(c.outputs[name])

Distinct(s) == \A j, k \in DOMAIN s : j # k => s[j] # s[k]

PathFits(t) == t # None => t.file # Bad

requirementsFit(requires) ==
  requires # None =>
    /\ Distinct(requires.commands) /\ Distinct(requires.hostEnv) /\ Distinct(requires.files)
    /\ \A command \in Range(requires.commands) : Bad \notin {command.name, command.version}
    /\ Bad \notin Range(requires.hostEnv)
    /\ \A t \in Range(requires.files) : PathFits(t)

ApprovalFits(approval) == approval \in {None, "never", "required"}

defaultsFit(defaults) ==
  /\ ApprovalFits(defaults.approval)
  /\ defaults.timeout # Bad
  /\ PathFits(defaults.directory)

ProductFits(product) ==
  /\ (product.file = None) # (product.env = None)
  /\ PathFits(product.file) /\ product.env # Bad

StepFits(step) ==
  /\ Bad \notin {step.id, step.name}
  /\ ApprovalFits(step.approval)
  /\ PathFits(step.directory)
  /\ Bad \notin Fields(step.env)
  /\ step.run # None
  /\ step.run.shell \in {"sh", "bash"}
  /\ step.run.script # "empty"
  /\ step.run.timeout # Bad
  /\ step.produces # None => Fields(step.produces) # {}
  /\ \A name \in Fields(step.produces) : name # Bad /\ ProductFits(step.produces[name])

ManualFits(r) ==
  /\ r.procedure \notin {None, Bad}
  /\ Fields(r.evidence) # {}
  /\ \A name \in Fields(r.evidence) : name # Bad /\ r.evidence[name] \in {"string", "artifact"}
  /\ r.requires = None /\ r.env = None /\ r.steps = None /\ r.returns = None
  /\ defaultsFit(r.defaults)

ShellFits(r) ==
  /\ r.procedure = None /\ r.evidence = None
  /\ requirementsFit(r.requires)
  /\ Bad \notin Fields(r.env)
  /\ defaultsFit(r.defaults)
  /\ r.steps # None /\ r.steps # <<>>
  /\ \A k \in DOMAIN r.steps : StepFits(r.steps[k])
  /\ Fields(r.returns) # {} /\ Bad \notin Fields(r.returns)

recipeFits(r) ==
  /\ metadataFits(r)
  /\ r.provides # <<>> /\ Distinct(r.provides) /\ Bad \notin Range(r.provides)
  /\ \/ r.runtime = "manual" /\ ManualFits(r)
     \/ r.runtime = "shell" /\ ShellFits(r)

-----------------------------------------------------------------------------
(* The documents together.  A tree has files, each in a directory, and the *)
(* Space manifests that declare other discovery roots.  A file below two   *)
(* roots is found twice.                                                   *)

Within(directory, root) == root \in {directory, "."}

DiscoveryRoots(tree) ==
  IF tree.spaces = <<>> THEN {"capabilities", "recipes"} ELSE tree.spaces[1]

Discoverable(tree) == Len(tree.spaces) <= 1 /\ Bad \notin DiscoveryRoots(tree)

Discover(tree) ==
  {found \in (DOMAIN tree.files) \X DiscoveryRoots(tree) :
     Within(tree.files[found[1]].directory, found[2])}

Kinds(tree) == {tree.files[found[1]].kind : found \in Discover(tree)}

(* One document of a known kind, with no field it does not have.           *)
Decodes(tree) == "undecodable" \notin Kinds(tree)

(* No anchors, tags, merges or keys given twice, no literal that YAML and  *)
(* JSON read in two ways.                                                  *)
JSONCompatible(tree) == "only YAML" \notin Kinds(tree)

Definitions(tree, kind) == {found \in Discover(tree) : tree.files[found[1]].kind = kind}
Document(tree, found) == tree.files[found[1]].document
Named(tree, kind, name) ==
  {found \in Definitions(tree, kind) : Document(tree, found).name = name}
Revision(tree, kind, name, version) ==
  {found \in Named(tree, kind, name) : version \in {None, Document(tree, found).version}}

RevisionsAreUnique(tree, kind) ==
  \A one, two \in Definitions(tree, kind) :
    one # two => \/ Document(tree, one).name # Document(tree, two).name
                 \/ Document(tree, one).version # Document(tree, two).version

Provided(r, tree) ==
  {Document(tree, found) : found \in UNION {Named(tree, "Capability", name) : name \in Range(r.provides)}}

commonCapabilityInputs(provided) ==
  IF provided = {} THEN {}
  ELSE {name \in UNION {Fields(c.inputs) : c \in provided} :
          \A c, d \in provided :
            /\ name \in Fields(c.inputs) /\ name \in Fields(d.inputs)
            /\ inputSignature(c.inputs[name]) = inputSignature(d.inputs[name])}

(* What all of them declare they declare alike.                            *)
ContractsAgree(provided) ==
  /\ \A name \in UNION {Fields(c.inputs) : c \in provided} :
       (\A c \in provided : name \in Fields(c.inputs)) => name \in commonCapabilityInputs(provided)
  /\ \A c, d \in provided : \A name \in Fields(c.outputs) \intersect Fields(d.outputs) :
       c.outputs[name] = d.outputs[name]

(* Mutant: a Step may use its own results.                                 *)
ResultsUpTo(r, k) ==
  [id \in {r.steps[j].id : j \in (1..k) \intersect DOMAIN r.steps} |->
     (CHOOSE step \in Range(r.steps) : step.id = id).produces]

(* The results of the Steps before the k-th.                               *)
ResultsBefore(r, k) ==
  [id \in {r.steps[j].id : j \in 1..(k - 1)} |->
     (CHOOSE step \in Range(r.steps) : step.id = id).produces]

StepMeans(r, k, inputs) ==
  LET step == r.steps[k]
      context == [inputs |-> inputs, results |-> ResultsBefore(r, k)]
  IN /\ \A j \in 1..(k - 1) : r.steps[j].id # step.id
     /\ step.approval # None \/ r.defaults.approval # None
     /\ environmentFits(step.env, r.requires, context)
     /\ step.directory # None => templateFits(step.directory, context)
     /\ step.run # None => step.run.script # "interpolates"
     /\ \A product \in Entries(step.produces) :
          product.file # None => templateFits(product.file, context)

ReturnMeans(t, outputs, context) ==
  /\ templateFits(t, context)
  /\ outputs # {}
  /\ t.form = "exact"
  /\ \A e \in t.refs :
       /\ e[1] = "steps"
       /\ LET product == context.results[e[2]][e[3]]
          IN \A output \in outputs :
               IF output.type = "artifact" THEN product.file # None ELSE product.env # None

ShellMeans(r, provided) ==
  LET inputs == commonCapabilityInputs(provided)
      first == [inputs |-> inputs, results |-> <<>>]
      last == [inputs |-> inputs, results |-> ResultsBefore(r, Len(r.steps) + 1)]
      Outputs(name) == {c.outputs[name] : c \in {d \in provided : name \in Fields(d.outputs)}}
  IN /\ ContractsAgree(provided)
     /\ environmentFits(r.env, r.requires, first)
     /\ r.defaults.directory # None => templateFits(r.defaults.directory, first)
     /\ r.requires # None => \A t \in Range(r.requires.files) : templateFits(t, first)
     /\ \A k \in DOMAIN r.steps : StepMeans(r, k, inputs)
     /\ \A name \in Fields(r.returns) : ReturnMeans(r.returns[name], Outputs(name), last)
     /\ UNION {Fields(c.outputs) : c \in provided} \subseteq Fields(r.returns)

recipeMeans(r, tree) ==
  /\ \A name \in Range(r.provides) : Cardinality(Named(tree, "Capability", name)) = 1
  /\ r.runtime = "shell" => ShellMeans(r, Provided(r, tree))

Means(tree) ==
  /\ RevisionsAreUnique(tree, "Capability") /\ RevisionsAreUnique(tree, "Recipe")
  /\ \A found \in Definitions(tree, "Recipe") : recipeMeans(Document(tree, found), tree)

Fits(tree) ==
  /\ \A found \in Definitions(tree, "Capability") : capabilityFits(Document(tree, found))
  /\ \A found \in Definitions(tree, "Recipe") : recipeFits(Document(tree, found))

(* What run, describe and node up ask of the tree; validate asks the host too. *)
Validate(tree) == JSONCompatible(tree) /\ Decodes(tree) /\ Fits(tree) /\ Means(tree)

RecipesForCapability(tree, name) ==
  {found \in Definitions(tree, "Recipe") : name \in Range(Document(tree, found).provides)}

-----------------------------------------------------------------------------
(* The host.  A command has printed the versions x.y.z that stand in its   *)
(* output, in their order: whether one stands free of letters and digits   *)
(* before it, and whether a prerelease follows it.  whole are its answers  *)
(* to --version, version and -version in the whole environment, minimal    *)
(* is the one to --version in the Run's.  One that is late is empty: it is *)
(* treated like one without a version.                                     *)

Occurrences == [number : Versions, free : BOOLEAN, pre : BOOLEAN]
CommandAnswers == [whole : [1..3 -> Seq(Occurrences)], minimal : Seq(Occurrences)]

(* ParseInt takes numbers of 64 bits, and adding one to the last wraps.    *)
parseSemver(v) == IF \A k \in 1..3 : v[k] <= MaxInt THEN v ELSE None
After(n) == IF n = MaxInt THEN -(MaxInt + 1) ELSE n + 1

Less(v, w) ==
  \/ v[1] < w[1]
  \/ v[1] = w[1] /\ v[2] < w[2]
  \/ v[1] = w[1] /\ v[2] = w[2] /\ v[3] < w[3]

(* Mutant: the caret counts from the first number, zero or not.            *)
CaretAlwaysMajor(v, c) ==
  \/ c.op = "=" /\ v = c.of
  \/ c.op \in {">", ">="} /\ Less(c.of, v)
  \/ c.op \in {"<", "<="} /\ Less(v, c.of)
  \/ c.op \in {">=", "<="} /\ v = c.of
  \/ /\ c.op \in {"~", "^"} /\ ~Less(v, c.of)
     /\ Less(v, IF c.op = "^" THEN <<c.of[1] + 1, 0, 0>> ELSE <<c.of[1], c.of[2] + 1, 0>>)

satisfiesConstraint(v, c) ==
  LET upper == IF c.op = "~" THEN <<c.of[1], After(c.of[2]), 0>>
               ELSE IF c.of[1] > 0 THEN <<After(c.of[1]), 0, 0>>
               ELSE IF c.of[2] > 0 THEN <<0, After(c.of[2]), 0>>
               ELSE <<0, 0, After(c.of[3])>>
  IN \/ c.op = "=" /\ v = c.of
     \/ c.op \in {">", ">="} /\ Less(c.of, v)
     \/ c.op \in {"<", "<="} /\ Less(v, c.of)
     \/ c.op \in {">=", "<="} /\ v = c.of
     \/ c.op \in {"~", "^"} /\ ~Less(v, c.of) /\ Less(v, upper)

Place(host, path) == IF path \in DOMAIN host.places THEN host.places[path] ELSE "missing"

extractSemver(printed) == IF printed = <<>> THEN None ELSE parseSemver(printed[1].number)

(* The first question that is answered with a version.                     *)
CommandVersion(whole) == FirstOf([k \in DOMAIN whole |-> extractSemver(whole[k])])

(* A condition that cannot be read ends the comparison, as if it held.     *)
Mismatches(v, constraint) ==
  \E k \in DOMAIN constraint :
    /\ \A j \in 1..k : parseSemver(constraint[j].of) # None
    /\ ~satisfiesConstraint(v, constraint[k])

CommandFits(command, host) ==
  /\ command.name \in DOMAIN host.commands
  /\ command.version # None =>
       \E v \in CommandVersion(host.commands[command.name].whole) : ~Mismatches(v, command.version)

(* Mutant: the variables of the host are left to the Run.                  *)
HostWithoutVariables(r, host) ==
  r.runtime = "shell" /\ r.requires # None =>
    /\ \A command \in Range(r.requires.commands) : CommandFits(command, host)
    /\ \A step \in Range(r.steps) : step.run.shell \in DOMAIN host.commands
    /\ \A t \in Range(r.requires.files) :
         t.refs = {} => Place(host, t.file) \in {"file", "link"}

(* A Recipe without requires is not looked at, nor is a file whose name is *)
(* a template; a link may lead out of the tree.                            *)
recipeHostFits(r, host) ==
  r.runtime = "shell" /\ r.requires # None =>
    /\ \A command \in Range(r.requires.commands) : CommandFits(command, host)
    /\ \A step \in Range(r.steps) : step.run # None => step.run.shell \in DOMAIN host.commands
    /\ Range(r.requires.hostEnv) \subseteq host.env
    /\ \A t \in Range(r.requires.files) :
         t.refs = {} => Place(host, t.file) \in {"file", "link"}

ValidateHost(tree, host) ==
  \A found \in Definitions(tree, "Recipe") : recipeHostFits(Document(tree, found), host)
=============================================================================
