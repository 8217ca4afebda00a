--------------------------- MODULE BridgeScripts ---------------------------
(***************************************************************************)
(* The commands written by hand that make several calls over the bridge:   *)
(* import-online-asset, scene regen, evaluate-scene-visually, and the web  *)
(* search. CallBridge dials once per call; it knows neither the verify     *)
(* gate, nor --dry-run, nor the cache. A call is one step here: a script   *)
(* shares nothing with the other invocations but the bridge.               *)
(***************************************************************************)
EXTENDS ApiClient, Sequences

CONSTANT NumObjects  \* bound: the objects an import brings or a scene holds

ASSUME NumObjectsAssumption == NumObjects \in Nat \ {0}

VARIABLES
  wants,  \* the optional stages asked for, and what the script finds
  todo,   \* the next call of the plan
  got,    \* the calls that the script takes for done
  did,    \* the calls that were carried out
  noted   \* the failures that the report names

scriptVars == <<wants, todo, got, did, noted>>

Objects == 1..NumObjects

InitScripts ==
  /\ wants = Each({})
  /\ todo = Each(1)
  /\ got = Each({})
  /\ did = Each({})
  /\ noted = Each({})

PerObject(stage) == [o \in Objects |-> <<stage, o>>]
Once(stage) == <<<<stage, 0>>>>

ImportPlan ==
  Once("download") \o Once("import_file") \o PerObject("place")
    \o PerObject("measure") \o PerObject("simplify") \o Once("organize")

\* The picture of an object is taken, named by the model, and applied.
RegenPlan ==
  Once("structural") \o
  [k \in 1..(2 * NumObjects) |->
     <<IF k % 2 = 1 THEN "capture" ELSE "rename", (k + 1) \div 2>>]

EvaluatePlan == Once("capture_scene") \o Once("critique")
SearchPlan == Once("search")

Plan(i) ==
  CASE cmd[i].plan = "import" -> ImportPlan
    [] cmd[i].plan = "regen" -> RegenPlan
    [] cmd[i].plan = "evaluate" -> EvaluatePlan
    [] OTHER -> SearchPlan

\* What a user can ask of a script, and what it can find: "over_budget" is a
\* vertex count above the target, "vision" and "judge" need an API key.
Wishes(c) ==
  CASE c.plan = "import" -> {"place", "simplify", "over_budget", "organize"}
    [] c.plan = "regen" -> {"vision"}
    [] c.plan = "evaluate" -> {"judge"}
    [] OTHER -> {}

\* The web, not Blender, answers these.
FromWeb == {"download", "search", "critique"}

\* A failure of these ends the script with an error.
Required == {"download", "import_file", "structural", "capture_scene",
             "search"}

Scripting(i) == pc[i] = "ready" /\ cmd[i].kind = "script"

Call(i) == Plan(i)[todo[i]]
Finished(i) == todo[i] > Len(Plan(i))

\* The condition under which the script makes its next call at all.
Due(i) ==
  LET stage == Call(i)[1]
      object == Call(i)[2]
  IN  CASE stage = "place" ->
             "place" \in wants[i] /\ <<"place", 0>> \notin noted[i]
        [] stage = "measure" -> "simplify" \in wants[i]
        [] stage = "simplify" ->
             "over_budget" \in wants[i] /\ <<"measure", object>> \in got[i]
        [] stage = "organize" -> "organize" \in wants[i]
        [] stage = "capture" -> "vision" \in wants[i]
        [] stage = "rename" -> <<"capture", object>> \in got[i]
        [] OTHER -> TRUE

Step(i) == todo' = [todo EXCEPT ![i] = @ + 1]

Skip(i) ==
  /\ Scripting(i) /\ ~Finished(i) /\ ~Due(i)
  /\ Step(i)
  /\ UNCHANGED <<clientVars, wants, got, did, noted>>

\* Fault: an error of the placement is dropped.
NotesButPlacement(call) ==
  IF call[1] \in {"simplify", "organize"} THEN {call} ELSE {}

\* The names under which a failure shows in the report: a placement as one,
\* a simplification and the filing each. The others are passed over.
Notes(call) ==
  CASE call[1] = "place" -> {<<"place", 0>>}
    [] call[1] \in {"simplify", "organize"} -> {call}
    [] OTHER -> {}

\* Without an API key nothing is captured for a verdict.
CanCall(i) ==
  /\ Scripting(i) /\ ~Finished(i) /\ Due(i)
  /\ cmd[i].plan = "evaluate" => "judge" \in wants[i]

CallSucceeds(i) ==
  /\ CanCall(i)
  /\ Call(i)[1] \in FromWeb \/ (up /\ transport = "ws")
  /\ Step(i)
  /\ got' = [got EXCEPT ![i] = @ \cup {Call(i)}]
  /\ did' = [did EXCEPT ![i] = @ \cup {Call(i)}]
  /\ UNCHANGED <<clientVars, wants, noted>>

\* An answer that says success: false. Only a placement does not look.
CallRefused(i) ==
  /\ CanCall(i)
  /\ Call(i)[1] \notin FromWeb \cup Required /\ up /\ transport = "ws"
  /\ Step(i)
  /\ IF Call(i)[1] = "place"
     THEN got' = [got EXCEPT ![i] = @ \cup {Call(i)}] /\ UNCHANGED noted
     ELSE /\ noted' = [noted EXCEPT ![i] = @ \cup Notes(Call(i))]
          /\ UNCHANGED got
  /\ UNCHANGED <<clientVars, wants, did>>

\* The dial, the call or its answer fails; the call may have been carried
\* out all the same if there was anyone to take it.
MayHaveRun(i) ==
  \/ UNCHANGED did
  \/ /\ up /\ transport = "ws"
     /\ Call(i)[1] \notin FromWeb
     /\ did' = [did EXCEPT ![i] = @ \cup {Call(i)}]

CallFails(i) ==
  /\ CanCall(i)
  /\ Call(i)[1] \notin Required \cup {"critique"}
  /\ MayHaveRun(i)
  /\ Step(i)
  /\ noted' = [noted EXCEPT ![i] = @ \cup Notes(Call(i))]
  /\ UNCHANGED <<clientVars, wants, got>>

GiveUp(i) ==
  /\ CanCall(i)
  /\ Call(i)[1] \in Required
  /\ MayHaveRun(i)
  /\ Return(i, "error")
  /\ UNCHANGED <<worldVars, cacheVars, requestVars, cmd, opt, wants, todo,
                 got, noted>>

\* Without a verdict the command reports success: false and exits with 0.
NoVerdict(i) ==
  /\ Scripting(i) /\ cmd[i].plan = "evaluate"
  /\ \/ "judge" \notin wants[i] /\ todo[i] = 1
     \/ ~Finished(i) /\ Call(i)[1] = "critique"
  /\ Return(i, "no_report")
  /\ UNCHANGED <<worldVars, cacheVars, requestVars, cmd, opt, scriptVars>>

Report(i) ==
  /\ Scripting(i) /\ Finished(i)
  /\ Return(i, "report")
  /\ UNCHANGED <<worldVars, cacheVars, requestVars, cmd, opt, scriptVars>>

RunScript(i) ==
  \/ Skip(i) \/ CallSucceeds(i) \/ CallRefused(i) \/ CallFails(i)
  \/ GiveUp(i) \/ NoVerdict(i) \/ Report(i)
=============================================================================
