---------------------------- MODULE MCPreparation ----------------------------
(* The instance of Preparation that TLC checks: one Capability and one     *)
(* Recipe that are right, and what a person may have written instead.      *)
EXTENDS Preparation, TLC

Template(form, refs, file) == [form |-> form, refs |-> refs, file |-> file]
Plain(file) == Template("text", {}, file)
Input(name) == <<"inputs", name>>
Result(step, name) == <<"steps", step, name>>
Exact(e) == Template("exact", {e}, None)

Contract(type, required, default, enum) ==
  [type |-> type, required |-> required, default |-> default, enum |-> enum]
Output(type, media) == [type |-> type, media |-> media]
Word == Text("word", 0)

Cap == [name |-> "c", version |-> 1, metadata |-> None,
        inputs |-> ("n" :> Contract("string", TRUE, None, None)),
        outputs |-> ("o" :> Output("integer", None) @@ "f" :> Output("artifact", None))]

Contracts ==
  {Contract("integer", TRUE, Whole(1), <<Whole(1), Whole(2)>>),
   Contract("integer", FALSE, Float(2), None),
   Contract("integer", FALSE, None, <<Float(2), Whole(2)>>),
   Contract("number", FALSE, Whole(1), <<Float(2), Float(1)>>),
   Contract("number", TRUE, None, None),
   Contract("boolean", FALSE, None, None),
   Contract("string", FALSE, None, <<Word>>),
   Contract("string", FALSE, Word, <<Word, Text("int", 2)>>),
   Contract("string", FALSE, Whole(1), None),
   Contract("integer", FALSE, Whole(4), None),
   Contract("integer", FALSE, Whole(1), <<Whole(2)>>),
   Contract("integer", FALSE, None, <<Whole(1), Float(2)>>),
   Contract("integer", FALSE, None, <<>>),
   Contract("number", FALSE, None, <<Word>>),
   Contract(Bad, FALSE, None, None)}

Caps ==
  {[Cap EXCEPT !.inputs = "n" :> contract] : contract \in Contracts}
  \union {[Cap EXCEPT !.outputs = "f" :> Output("artifact", None) @@ "g" :> Output("artifact", media)] :
            media \in {None, "pdf", "text"}}
  \union {[Cap EXCEPT !.outputs = "o" :> Output(type, media)] :
            type \in {"integer", "number", "boolean", "string", Bad}, media \in {None, "pdf"}}
  \union {[Cap EXCEPT !.outputs = None], [Cap EXCEPT !.inputs = None], [Cap EXCEPT !.name = Bad]}

Step(id, directory, env, produces) ==
  [id |-> id, name |-> None, approval |-> None, directory |-> directory, env |-> env,
   run |-> [shell |-> "sh", script |-> "plain", timeout |-> None], produces |-> produces]
Exports == [file |-> None, env |-> "P"]
Writes(t) == [file |-> t, env |-> None]
One1 == Step("s", None, None, "p" :> Exports @@ "q" :> Writes(Plain("word")))
Two(directory) == Step("t", directory, None, None)
Go1(version) == [name |-> "go", version |-> version]
Caret(a, b, c) == <<[op |-> "^", of |-> <<a, b, c>>]>>

Rec == [name |-> "r", version |-> 1, metadata |-> None, provides |-> <<"c">>, runtime |-> "shell",
        procedure |-> None, evidence |-> None,
        requires |-> [commands |-> <<Go1(Caret(0, 1, 1))>>, hostEnv |-> <<"TOKEN">>, files |-> <<Plain("word")>>],
        env |-> "E" :> [from |-> "host_env", name |-> "TOKEN"],
        defaults |-> [approval |-> "required", timeout |-> None, directory |-> None],
        steps |-> <<One1>>,
        returns |-> "o" :> Exact(Result("s", "p")) @@ "f" :> Exact(Result("s", "q"))]
Suited(c) ==
  [Rec EXCEPT !.returns = [name \in Fields(c.outputs) |-> Exact(Result("s", IF name = "o" THEN "p" ELSE "q"))]]

Literal(t) == [from |-> "literal", literal |-> t]
Constraints ==
  {<<[op |-> op, of |-> v]>> : op \in {"=", "<", ">", "<=", ">=", "~", "^"}, v \in {<<0, 1, 1>>, <<0, 0, 1>>, <<1, 0, 0>>}}
  \union {Caret(0, 2, 0), Caret(3, 0, 0), Caret(0, 1, 1) \o Caret(0, 3, 0), Caret(3, 0, 0) \o Caret(1, 0, 0)}

Recs ==
  {[Rec EXCEPT !.requires.commands = <<Go1(version)>>] : version \in Constraints \union {None, Bad}}
  \union {[Rec EXCEPT !.requires.commands = commands] :
            commands \in {<<Go1(Caret(1, 0, 0)), [name |-> "gone", version |-> None]>>,
                          <<[name |-> "gone", version |-> None], Go1(Caret(1, 0, 0))>>}}
  \union {[Rec EXCEPT !.requires.files = <<t>>] :
            t \in {Exact(Input("n")), Exact(Input("z")), Exact(Result("s", "p")), Plain("link"), Plain("dir"),
                   Template("torn", {}, None), Plain(Bad)}}
  \union {[Rec EXCEPT !.env = "E" :> Literal(t)] :
            t \in {Plain("word"), Exact(Input("n")), Template("obsolete", {}, None), Exact(<<"other">>)}}
  \union {[Rec EXCEPT !.steps = <<One1, Two(t)>>] :
            t \in {Exact(Input("n")), Exact(Result("s", "p")), Exact(Result("t", "p")), Exact(Result("s", "z")), Plain("dir")}}
  \union {[Rec EXCEPT !.defaults = [approval |-> approval, timeout |-> timeout, directory |-> None]] :
            approval \in {"never", None, Bad}, timeout \in {None, "huge", Bad}}
  \union {[Rec EXCEPT !.steps = <<[One1 EXCEPT !.run = run]>>] :
            run \in {None, [shell |-> "bash", script |-> "plain", timeout |-> None],
                     [shell |-> "sh", script |-> "interpolates", timeout |-> None]}}
  \union {[Rec EXCEPT !.steps = <<[One1 EXCEPT !.produces = "p" :> Exports @@ "q" :> Writes(t)]>>] :
            t \in {Exact(Result("s", "p")), Exact(Input("n"))}}
  \union {[Rec EXCEPT !.returns = "f" :> t @@ "o" :> Exact(Result("s", "p"))] :
            t \in {Exact(Result("s", "p")), Plain("word"), Exact(Input("n")), Exact(Result("z", "p"))}}
  \union {[Rec EXCEPT !.requires = None], [Rec EXCEPT !.requires = None, !.env = None],
          [Rec EXCEPT !.returns = "o" :> Exact(Result("s", "p"))],
          [Rec EXCEPT !.provides = <<"d">>], [Rec EXCEPT !.steps = <<One1, One1>>]}

Manual(procedure) ==
  [Rec EXCEPT !.runtime = "manual", !.procedure = procedure, !.evidence = "e" :> "string",
              !.requires = None, !.env = None, !.steps = None, !.returns = None]

File(kind, directory, document) == [kind |-> kind, directory |-> directory, document |-> document]
CapFile(c) == File("Capability", "capabilities", c)
RecFile(r) == File("Recipe", "recipes", r)
Tree(c, r) == [files |-> "c" :> CapFile(c) @@ "r" :> RecFile(r), spaces |-> <<>>]
With(file, more) == [Tree(Cap, Rec) EXCEPT !.files = @ @@ (file :> more)]

AllTrees ==
  {Tree(c, Suited(c)) : c \in Caps} \union {Tree(Cap, r) : r \in Recs \union {Rec}}
  \union {Tree(Cap, Manual(procedure)) : procedure \in {"word", "gone", None}}
  \union {Tree([Cap EXCEPT !.inputs = "n" :> Contract("string", FALSE, None, None)],
               [Rec EXCEPT !.env = "E" :> Literal(Exact(Input("n")))])}
  \union {[files |-> "c" :> CapFile(Cap), spaces |-> <<>>],
          With("s", RecFile([Rec EXCEPT !.name = "s"])),
          With("s", RecFile([Rec EXCEPT !.version = 2])),
          With("d", CapFile([Cap EXCEPT !.version = 2])),
          With("d", CapFile(Cap)),
          With("u", File("undecodable", "recipes", None)),
          With("y", File("only YAML", "recipes", None))}
  \union {[Tree(Cap, Rec) EXCEPT !.spaces = spaces] :
            spaces \in {<<{"."}>>, <<{".", "recipes"}>>, <<{Bad}>>, <<{"."}, {"."}>>}}
  \union {[With("d", CapFile([Cap EXCEPT !.name = "d", !.inputs = declared])) EXCEPT
             !.files["r"].document.provides = <<"c", "d">>, !.files["r"].document.env = "E" :> Literal(Exact(Input("n")))] :
            declared \in {Cap.inputs, "n" :> Contract("boolean", FALSE, None, None), "m" :> Contract("string", FALSE, None, None)}}

Occurrence(number, free, pre) == [number |-> number, free |-> free, pre |-> pre]
Release(a, b, c) == <<Occurrence(<<a, b, c>>, TRUE, FALSE)>>
Prerelease(a, b, c) == <<Occurrence(<<a, b, c>>, TRUE, TRUE)>>
Glued(a, b, c) == <<Occurrence(<<a, b, c>>, FALSE, FALSE)>>
Answers(whole, minimal) == [whole |-> whole, minimal |-> minimal]
Answer(printed) == Answers(<<printed, <<>>, <<>>>>, printed)
Host0 == [commands |-> "go" :> Answer(Release(0, 1, 1)) @@ "sh" :> Answer(<<>>),
          env |-> {"TOKEN"}, places |-> "word" :> "file" @@ "dir" :> "directory" @@ "link" :> "link"]
AllHosts ==
  {[Host0 EXCEPT !.commands["go"] = Answer(printed)] :
     printed \in {<<>>, Release(0, 1, 1), Release(0, 2, 0), Prerelease(0, 1, 1), Glued(0, 1, 1),
                  Glued(1, 0, 0) \o Release(0, 1, 1), Prerelease(1, 0, 0) \o Release(0, 1, 1), Release(3, 0, 0)}}
  \union {[Host0 EXCEPT !.commands["go"] = Answers(whole, whole[1])] :
            whole \in {<<<<>>, <<>>, Glued(0, 1, 1)>>, <<Release(0, 3, 0), Release(0, 1, 1), <<>>>>}}
  \union {[Host0 EXCEPT !.commands["go"] = Answers(<<Release(1, 0, 0), <<>>, <<>>>>, Release(0, 1, 1))],
          [Host0 EXCEPT !.commands["go"] = Answers(<<Release(0, 1, 1), <<>>, <<>>>>, <<>>)]}
  \union {[Host0 EXCEPT !.commands = "go" :> Answer(Release(0, 1, 1))],
          [Host0 EXCEPT !.commands = "sh" :> Answer(<<>>)],
          [Host0 EXCEPT !.env = {}],
          [Host0 EXCEPT !.places = "dir" :> "directory"]}

AllTexts == {Text("int", 2), Text("int", 8), Text("float", 1), Text("bool", 1), Text("braces", 0), Word}
AllGivens == {<<>>, "z" :> Word} \union {"n" :> text : text \in AllTexts}

Json(as, n) == Value("json", as, n)
Asked(via, c, r, values) == [via |-> via, capability |-> c, recipe |-> r, inputs |-> values, whole |-> TRUE]
AllRequests ==
  {Asked(via, Cap, None, "n" :> Word) : via \in {"share", "space"}}
  \union {Asked("share", Cap, r, "n" :> Word) : r \in {Rec, [Rec EXCEPT !.version = 2]}}
  \union {Asked("space", [Cap EXCEPT !.inputs = "n" :> contract], None, "n" :> v) :
            contract \in {Contract("integer", TRUE, Whole(1), <<Whole(1), Whole(2)>>), Contract("number", TRUE, None, None)},
            v \in {Json("int", 2), Json("float", 2), Json("int", 8)}}
  \union {[Asked("space", Cap, None, <<>>) EXCEPT !.whole = FALSE]}
=============================================================================
