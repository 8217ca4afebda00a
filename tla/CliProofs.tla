----------------------------- MODULE CliProofs -----------------------------
(***************************************************************************)
(* Theorems about CliInvocation, for every number of overlapping runs,     *)
(* retries, objects of a script, and restarts of the other end: what may   *)
(* be sent, what an exit code tells, what the shared cache holds and what  *)
(* doctor makes of it, and that the reports of the scripts tell what is so.*)
(***************************************************************************)
EXTENDS CliInvocation, SequenceTheorems, TLAPS

Replies == HttpReplies \cup BridgeReplies
Places == {"new", "ready", "waiting", "resend", "store", "done"}
Wires == {"none", "queued", "broken"} \cup Replies
Entries == [kind : {"fresh", "old"}, version : Nat, raced : BOOLEAN]

\* The commands a run can have, once its input was checked.
Checked == {Given(c) : c \in Classes}

\* Where the variables take their values.
Typed ==
  /\ transport \in {"ws", "http"} /\ up \in BOOLEAN /\ longDown \in BOOLEAN
  /\ version \in Nat /\ reported \in Nat /\ epoch \in Nat
  /\ cache \in {NoEntry} \cup Entries
  /\ pc \in [Invocations -> Places]
  /\ cmd \in [Invocations -> {NoCommand} \cup Checked]
  /\ opt \in [Invocations -> Options]
  /\ attempt \in [Invocations -> 0..MaxRetries]
  /\ wire \in [Invocations -> Wires]
  /\ orphans \in [Invocations -> Nat] /\ sent \in [Invocations -> Nat]
  /\ ran \in [Invocations -> Nat] /\ seen \in [Invocations -> Nat]
  /\ sentEpoch \in [Invocations -> Nat]
  /\ outcome \in [Invocations -> Outcomes]

----------------------------------------------------------------------------
(* What is true of a run, as a relation between its place p, its command c *)
(* and options o, its request w, its counters and its outcome x.           *)

Licensed(c, o) ==
  c.kind # "script" /\ o.mode # "dry" /\ ~(IsMutation(c) /\ o.mode = "verify")

Replayable(c, o) == c.readOnly \/ c.verb = "GET" \/ o.key

\* A place goes with so many requests sent, and with a request or none.
Placed(p, c, w, a, s, x) ==
  /\ (p = "done") <=> (x # "none")
  /\ p # "new" => c \in Checked
  /\ p \in {"new", "ready"} => a = 0 /\ s = 0
  /\ p \in {"new", "ready", "resend", "done"} => w = "none"
  /\ p = "waiting" => s = a + 1 /\ w # "none"
  /\ p = "resend" => s = a /\ s > 0
  /\ p = "store" => s > 0 /\ w \in Successes /\ c.kind = "probe"
  /\ s <= MaxRetries + 1

\* What is sent is licensed, what is sent again may be, and the other end
\* has at most what was sent.
Allowed(p, c, o, w, h, s, r) ==
  /\ s > 0 => Licensed(c, o)
  /\ s > 1 \/ p = "resend" => Replayable(c, o)
  /\ h + r + (IF w = "queued" THEN 1 ELSE 0) <= s

\* The answers that tell what became of the request do so truly.
Telling(y, h, r) ==
  /\ y \in {"conflict", "denied", "missing", "limited"} => h = 0 /\ r = 0
  /\ y \in {"ok", "partial"} => h = 0 /\ r = 1

Told(c, o, w, h, s, r, x) ==
  /\ IsMutation(c) /\ ~o.key => Telling(w, h, r) /\ Telling(x, h, r)
  /\ x \in {"usage", "config", "help", "synthetic", "dry_run"} => s = 0
  /\ x = "dry_run" => o.mode = "dry"
  /\ x = "cached" => c.kind = "probe"
  /\ x \in {"report", "no_report"} => c.kind = "script"
  /\ x \in HttpReplies => s > 0

PlacedAt(k) == Placed(pc[k], cmd[k], wire[k], attempt[k], sent[k], outcome[k])
AllowedAt(k) ==
  Allowed(pc[k], cmd[k], opt[k], wire[k], orphans[k], sent[k], ran[k])
ToldAt(k) ==
  Told(cmd[k], opt[k], wire[k], orphans[k], sent[k], ran[k], outcome[k])
SoundAt(k) == PlacedAt(k) /\ AllowedAt(k) /\ ToldAt(k)

Sound == \A k \in Invocations : SoundAt(k)

----------------------------------------------------------------------------
(* The steps, by what they do to the request.                              *)

Endings ==
  {"cached", "synthetic", "dry_run", "no_equivalent", "network", "error",
   "report", "no_report"}

\* A run ends before it sends anything through the client.
Quit(i, x) ==
  /\ pc[i] = "ready" /\ Return(i, x)
  /\ x = "cached" => cmd[i].kind = "probe" /\ cache.kind = "fresh"
  /\ x = "dry_run" => opt[i].mode = "dry"
  /\ x \in {"report", "no_report"} => cmd[i].kind = "script"
  /\ UNCHANGED <<worldVars, cacheVars, requestVars, cmd, opt>>

Send(i) == (Live(i) \/ pc[i] = "resend") /\ Put(i)

\* The part of Invoke that the client's variables see.
StartsRun(i, c) ==
  /\ pc[i] = "new"
  /\ cmd' = [cmd EXCEPT ![i] = Given(c)]
  /\ \E o \in Options : opt' = [opt EXCEPT ![i] = o]
  /\ \/ \E x \in {"help", "usage", "config", "stdin"} : Return(i, x)
     \/ pc' = [pc EXCEPT ![i] = "ready"] /\ UNCHANGED outcome
  /\ UNCHANGED <<worldVars, cacheVars, requestVars>>

Client(i) ==
  \/ \E c \in Classes : StartsRun(i, c)
  \/ \E x \in Endings : Quit(i, x)
  \/ Send(i) \/ Succeed(i) \/ Refused(i) \/ NetworkError(i)
  \/ StoreResponse(i) \/ Serve(i) \/ ServeOrphan(i)

\* Invoke starts a run, whatever it asks for.
LEMMA InvokeStarts ==
  ASSUME NEW i \in Invocations, NEW c \in Classes, Invoke(i, c)
  PROVE  StartsRun(i, c)
<1>1. PICK o \in OptionsOf(c) :
        /\ opt' = [opt EXCEPT ![i] = IF c.kind = "script" THEN NoOptions ELSE o]
        /\ \/ \E x \in Refusals(c, o.mode) : Return(i, x) /\ UNCHANGED wants
           \/ /\ pc' = [pc EXCEPT ![i] = "ready"]
              /\ UNCHANGED outcome
  BY DEF Invoke
<1>2. o \in Options /\ NoOptions \in Options
  BY DEF OptionsOf, Options, NoOptions, Modes
<1>3. \E q \in Options : opt' = [opt EXCEPT ![i] = q]
  BY <1>1, <1>2
<1>4. Refusals(c, o.mode) \subseteq {"help", "usage", "config", "stdin"}
  BY DEF Refusals
<1>5. \/ \E x \in {"help", "usage", "config", "stdin"} : Return(i, x)
      \/ pc' = [pc EXCEPT ![i] = "ready"] /\ UNCHANGED outcome
  BY <1>1, <1>4
<1>6. QED
  BY <1>3, <1>5 DEF Invoke, StartsRun

\* What the client or a script does without sending ends the run.
LEMMA Quits ==
  ASSUME NEW i \in Invocations,
         \/ HitCache(i) \/ ShortCircuit(i) \/ PrintRequest(i)
         \/ NoEquivalent(i) \/ Unreachable(i) \/ GiveUp(i)
         \/ NoVerdict(i) \/ Report(i)
  PROVE  \E x \in Endings : Quit(i, x)
<1>1. CASE HitCache(i)
  <2>1. Quit(i, "cached")
    BY <1>1 DEF HitCache, InCache, CacheEnabled, Quit
  <2>2. QED
    BY <2>1 DEF Endings
<1>2. CASE ShortCircuit(i)
  <2>1. Quit(i, "synthetic")
    BY <1>2 DEF ShortCircuit, Quit
  <2>2. QED
    BY <2>1 DEF Endings
<1>3. CASE PrintRequest(i)
  <2>1. Quit(i, "dry_run")
    BY <1>3 DEF PrintRequest, Quit
  <2>2. QED
    BY <2>1 DEF Endings
<1>4. CASE NoEquivalent(i)
  <2>1. Quit(i, "no_equivalent")
    BY <1>4 DEF NoEquivalent, Live, Quit
  <2>2. QED
    BY <2>1 DEF Endings
<1>5. CASE Unreachable(i)
  <2>1. Quit(i, "network")
    BY <1>5 DEF Unreachable, Live, Quit
  <2>2. QED
    BY <2>1 DEF Endings
<1>6. CASE GiveUp(i)
  <2>1. Quit(i, "error")
    BY <1>6 DEF GiveUp, CanCall, Scripting, Quit
  <2>2. QED
    BY <2>1 DEF Endings
<1>7. CASE NoVerdict(i)
  <2>1. Quit(i, "no_report")
    BY <1>7 DEF NoVerdict, Scripting, Quit
  <2>2. QED
    BY <2>1 DEF Endings
<1>8. CASE Report(i)
  <2>1. Quit(i, "report")
    BY <1>8 DEF Report, Scripting, Quit
  <2>2. QED
    BY <2>1 DEF Endings
<1>9. QED
  BY <1>1, <1>2, <1>3, <1>4, <1>5, <1>6, <1>7, <1>8

\* Every step is one of a run's client, one of the world, or leaves the
\* client's variables alone.
LEMMA StepKinds ==
  ASSUME [Next]_vars
  PROVE  \/ \E i \in Invocations : Client(i)
         \/ World
         \/ UNCHANGED clientVars
<1>1. CASE UNCHANGED vars
  BY <1>1 DEF vars
<1>2. CASE World
  BY <1>2
<1>3. ASSUME NEW i \in Invocations, Act(i)
      PROVE  Client(i) \/ UNCHANGED clientVars
  <2>1. CASE \E c \in Classes : Invoke(i, c)
    BY <2>1, InvokeStarts DEF Client
  <2>2. CASE \/ HitCache(i) \/ ShortCircuit(i) \/ PrintRequest(i)
             \/ NoEquivalent(i) \/ Unreachable(i) \/ GiveUp(i)
             \/ NoVerdict(i) \/ Report(i)
    BY <2>2, Quits DEF Client
  <2>3. CASE CallBridgeMethod(i) \/ SendHttp(i)
    <3>1. Send(i)
      BY <2>3 DEF CallBridgeMethod, SendHttp, Send
    <3>2. QED
      BY <3>1 DEF Client
  <2>4. CASE \/ Succeed(i) \/ Refused(i) \/ NetworkError(i)
             \/ StoreResponse(i) \/ OtherEnd(i)
    BY <2>4 DEF Client, OtherEnd
  <2>5. CASE Skip(i) \/ CallSucceeds(i) \/ CallRefused(i) \/ CallFails(i)
    <3>1. UNCHANGED clientVars
      BY <2>5 DEF Skip, CallSucceeds, CallRefused, CallFails
    <3>2. QED
      BY <3>1
  <2>6. QED
    BY <1>3, <2>1, <2>2, <2>3, <2>4, <2>5 DEF Act, DoInternal, RunScript
<1>4. QED
  BY <1>1, <1>2, <1>3 DEF Next

----------------------------------------------------------------------------
(* Types.                                                                  *)

\* The runs start with values of their types.
LEMMA TypedInit == Init => Typed
<1> SUFFICES ASSUME Init PROVE Typed
  OBVIOUS
<1>1. NoOptions \in Options
  BY DEF NoOptions, Options, Modes
<1>2. 0 \in 0..MaxRetries
  BY MaxRetriesAssumption
<1>3. "none" \in Outcomes /\ "none" \in Wires /\ "new" \in Places
  BY DEF Outcomes, Wires, Places
<1>4. QED
  BY <1>1, <1>2, <1>3 DEF Init, InitClient, Each, Typed

\* A step of a run's client keeps the types.
LEMMA TypedClient ==
  ASSUME Typed, NEW i \in Invocations, Client(i)
  PROVE  Typed'
<1> USE DEF Typed, worldVars, cacheVars, requestVars
<1>1. ASSUME NEW c \in Classes, StartsRun(i, c)
      PROVE  Typed'
  <2>1. Given(c) \in Checked /\ "ready" \in Places /\ "done" \in Places
        /\ {"help", "usage", "config", "stdin"} \subseteq Outcomes
    BY DEF Checked, Places, Outcomes
  <2>2. QED
    BY <1>1, <2>1 DEF StartsRun, Return
<1>2. ASSUME NEW x \in Endings, Quit(i, x)
      PROVE  Typed'
  <2>1. x \in Outcomes /\ "done" \in Places
    BY DEF Endings, Outcomes, BridgeReplies, Places
  <2>2. QED
    BY <1>2, <2>1 DEF Quit, Return
<1>3. CASE Send(i)
  BY <1>3 DEF Send, Put, Places, Wires
<1>4. CASE Succeed(i)
  <2>1. UNCHANGED <<transport, up, longDown, version, cmd, opt, attempt, orphans, sent, ran>>
    BY <1>4 DEF Succeed
  <2>2. cache' \in {NoEntry} \cup Entries /\ reported' \in Nat /\ epoch' \in Nat
    BY <1>4 DEF Succeed, EvictAfterMutation
  <2>3. /\ pc' \in [Invocations -> Places] /\ outcome' \in [Invocations -> Outcomes]
        /\ wire' \in [Invocations -> Wires] /\ seen' \in [Invocations -> Nat]
        /\ sentEpoch' \in [Invocations -> Nat]
    BY <1>4 DEF Succeed, Return, Hangup, Places, Outcomes, HttpReplies, Successes, Wires
  <2>4. QED
    BY <2>1, <2>2, <2>3
<1>5. CASE Refused(i)
  <2>1. /\ wire' \in [Invocations -> Wires] /\ seen' \in [Invocations -> Nat]
        /\ sentEpoch' \in [Invocations -> Nat]
    BY <1>5 DEF Refused, Hangup, Wires
  <2>2. /\ pc' \in [Invocations -> Places] /\ outcome' \in [Invocations -> Outcomes]
        /\ attempt' \in [Invocations -> 0..MaxRetries]
    BY <1>5, MaxRetriesAssumption DEF Refused, RetryOr, RetriesLeft, Return,
      Places, Outcomes, HttpReplies, Successes, BridgeReplies
  <2>3. QED
    BY <1>5, <2>1, <2>2 DEF Refused
<1>6. CASE NetworkError(i)
  <2>1. /\ wire' \in [Invocations -> Wires] /\ seen' \in [Invocations -> Nat]
        /\ sentEpoch' \in [Invocations -> Nat] /\ orphans' \in [Invocations -> Nat]
    BY <1>6 DEF NetworkError, Hangup, Wires
  <2>2. /\ pc' \in [Invocations -> Places] /\ outcome' \in [Invocations -> Outcomes]
        /\ attempt' \in [Invocations -> 0..MaxRetries]
    BY <1>6, MaxRetriesAssumption DEF NetworkError, RetryOr, RetriesLeft, Return,
      Places, Outcomes
  <2>3. QED
    BY <1>6, <2>1, <2>2 DEF NetworkError
<1>7. CASE StoreResponse(i)
  <2>1. cache' \in Entries
    BY <1>7 DEF StoreResponse, Entries
  <2>2. QED
    BY <1>7, <2>1 DEF StoreResponse, Return, Hangup, Places, Outcomes,
      HttpReplies, Successes, Wires
<1>8. CASE Serve(i)
  <2>1. \A x \in Answers : x \in Wires
    BY DEF Answers, Wires, Replies
  <2>2. version' \in Nat /\ ran' \in [Invocations -> Nat]
    BY <1>8 DEF Serve, CarryOut, Ignore
  <2>3. QED
    BY <1>8, <2>1, <2>2 DEF Serve
<1>9. CASE ServeOrphan(i)
  <2>1. version' \in Nat /\ ran' \in [Invocations -> Nat]
    BY <1>9 DEF ServeOrphan, CarryOut, Ignore
  <2>2. orphans' \in [Invocations -> Nat]
    BY <1>9 DEF ServeOrphan
  <2>3. QED
    BY <1>9, <2>1, <2>2 DEF ServeOrphan
<1>10. QED
  BY <1>1, <1>2, <1>3, <1>4, <1>5, <1>6, <1>7, <1>8, <1>9 DEF Client

\* The other end comes and goes, and time passes, within the types.
LEMMA TypedWorld ==
  ASSUME Typed, World
  PROVE  Typed'
<1> USE DEF Typed, worldVars, cacheVars, requestVars
<1>1. CASE Stop
  BY <1>1 DEF Stop, Each, Wires
<1>2. CASE Start
  BY <1>2 DEF Start
<1>3. CASE Age
  <2>1. cache' \in {NoEntry} \cup Entries
    BY <1>3 DEF Age, NoEntry, Entries
  <2>2. QED
    BY <1>3, <2>1 DEF Age
<1>4. QED
  BY <1>1, <1>2, <1>3 DEF World

\* Types are kept by every step.
LEMMA TypedStep ==
  ASSUME Typed, [Next]_vars
  PROVE  Typed'
<1>1. CASE UNCHANGED clientVars
  BY <1>1 DEF Typed, clientVars, worldVars, cacheVars, requestVars
<1>2. QED
  BY <1>1, StepKinds, TypedClient, TypedWorld

----------------------------------------------------------------------------
(* The soundness of runs.                                                  *)

\* A run that a step leaves alone stays sound.
Untouched(k) ==
  /\ pc'[k] = pc[k] /\ cmd'[k] = cmd[k] /\ opt'[k] = opt[k]
  /\ attempt'[k] = attempt[k] /\ wire'[k] = wire[k]
  /\ orphans'[k] = orphans[k] /\ sent'[k] = sent[k] /\ ran'[k] = ran[k]
  /\ outcome'[k] = outcome[k]

LEMMA UntouchedSound ==
  ASSUME NEW k \in Invocations, SoundAt(k), Untouched(k)
  PROVE  SoundAt(k)'
BY DEF Untouched, SoundAt, PlacedAt, AllowedAt, ToldAt

\* A step of one run's client touches no other run.
LEMMA OthersUntouched ==
  ASSUME Typed, NEW i \in Invocations, Client(i), NEW k \in Invocations \ {i}
  PROVE  Untouched(k)
<1> USE DEF Typed, worldVars, cacheVars, requestVars, Untouched, Return
<1>1. ASSUME NEW c \in Classes, StartsRun(i, c)
      PROVE  Untouched(k)
  BY <1>1 DEF StartsRun
<1>2. ASSUME NEW x \in Endings, Quit(i, x)
      PROVE  Untouched(k)
  BY <1>2 DEF Quit
<1>3. CASE Send(i)
  BY <1>3 DEF Send, Put
<1>4. CASE Succeed(i)
  BY <1>4 DEF Succeed, Hangup
<1>5. CASE Refused(i)
  BY <1>5 DEF Refused, Hangup, RetryOr
<1>6. CASE NetworkError(i)
  BY <1>6 DEF NetworkError, Hangup, RetryOr
<1>7. CASE StoreResponse(i)
  BY <1>7 DEF StoreResponse, Hangup
<1>8. CASE Serve(i)
  BY <1>8 DEF Serve, CarryOut, Ignore
<1>9. CASE ServeOrphan(i)
  BY <1>9 DEF ServeOrphan, CarryOut, Ignore
<1>10. QED
  BY <1>1, <1>2, <1>3, <1>4, <1>5, <1>6, <1>7, <1>8, <1>9 DEF Client

\* Only doctor is a probe, and it reads.
LEMMA ProbesRead ==
  ASSUME NEW c \in Checked
  PROVE  c.kind = "probe" => c.verb = "GET"
<1> DEFINE NoProbe(d) == d.kind # "probe"
<1>1. /\ \A path : NoProbe(MutateCommand(path)) /\ NoProbe(GuardedCommand(path))
      /\ \A path : NoProbe(PromotedCommand(path)) /\ NoProbe(QueryCommand(path))
      /\ \A plan, input : NoProbe(ScriptCommand(plan, input))
  BY DEF MutateCommand, GuardedCommand, PromotedCommand, QueryCommand, ScriptCommand
<1>2. \A d \in AssetsCommands : NoProbe(d)
  BY <1>1 DEF AssetsCommands, AssetsAiGenerate, AssetsAssetBrowser,
    AssetsImportOnline, AssetsSearchOnline
<1>3. \A d \in CameraLightingCommands : NoProbe(d)
  BY <1>1 DEF CameraLightingCommands, CameraLightingCameraSetup,
    CameraLightingCompositorEffects, CameraLightingEvaluateScene,
    CameraLightingFrameObjects, CameraLightingLightSetup,
    CameraLightingLookAt, CameraLightingScreenshot,
    CameraLightingStudioLighting, CameraLightingSunSkyRig
<1>4. \A d \in MaterialCommands : NoProbe(d)
  BY <1>1 DEF MaterialCommands, MaterialAssign, MaterialCreate,
    MaterialEditNodes, MaterialPbrSetup, MaterialProceduralGrunge,
    MaterialSlots, MaterialToonShader, MaterialTransparency,
    MaterialTriplanar
<1>5. \A d \in MeshCommands : NoProbe(d)
  BY <1>1 DEF MeshCommands, MeshApplyTransform, MeshBoolean, MeshCreate,
    MeshDecimate, MeshDelete, MeshDuplicate, MeshMeshOp, MeshModifier,
    MeshOriginCursor, MeshRemesh, MeshSimplifyGeometry, MeshTransform,
    MeshUvUnwrap
<1>6. \A d \in PhysicsSimCommands : NoProbe(d)
  BY <1>1 DEF PhysicsSimCommands, PhysicsSimAddForceField,
    PhysicsSimBakeFluid, PhysicsSimConfigurePhysics, PhysicsSimSetupCloth,
    PhysicsSimSetupRigidBody
<1>7. \A d \in RenderPipelineCommands : NoProbe(d)
  BY <1>1 DEF RenderPipelineCommands, RenderPipelineBakeTextures,
    RenderPipelineExportUnityFbx, RenderPipelineGenerateLods,
    RenderPipelineRenderAnim, RenderPipelineRenderImage,
    RenderPipelineVfxShadowCatcher, RenderPipelineVfxTracking
<1>8. \A d \in RiggingAnimCommands : NoProbe(d)
  BY <1>1 DEF RiggingAnimCommands, RiggingAnimApplyHairGroom,
    RiggingAnimCreateArmature, RiggingAnimCreateHairCurves,
    RiggingAnimPoseBone, RiggingAnimSetKeyframe,
    RiggingAnimSetupHumanoidRig, RiggingAnimSetupIk,
    RiggingAnimTimelineRange, RiggingAnimTurntable
<1>9. \A d \in SceneCommands : NoProbe(d)
  BY <1>1 DEF SceneCommands, SceneBusy, SceneCheckpointCreate,
    SceneCheckpointList, SceneCheckpointRestore, SceneCollection,
    SceneHierarchy, SceneInfo, SceneJobCancel, SceneJobList, SceneJobStatus,
    ScenePerformance, ScenePurgeOrphans, SceneRegen
<1>10. \A d \in Commands : d.kind = "probe" => d.verb = "GET"
  <2>1. /\ NoProbe(DocsPromoted) /\ NoProbe(PythonExecPromoted)
        /\ NoProbe(SimplifyGeometryPromoted) /\ NoProbe(ImportOnlineAssetPromoted)
        /\ NoProbe(EvaluateSceneVisuallyPromoted) /\ NoProbe(SearchOnlineAssetsPromoted)
    BY <1>1 DEF DocsPromoted, PythonExecPromoted, SimplifyGeometryPromoted,
      ImportOnlineAssetPromoted, EvaluateSceneVisuallyPromoted, SearchOnlineAssetsPromoted
  <2>2. Doctor.verb = "GET"
    BY DEF Doctor
  <2>3. QED
    BY <1>2, <1>3, <1>4, <1>5, <1>6, <1>7, <1>8, <1>9, <2>1, <2>2 DEF Commands
<1>11. PICK d \in Commands : c = Given(Class(d))
  BY DEF Checked, Classes
<1>12. c.kind = d.kind /\ c.verb = d.verb
  BY <1>11 DEF Given, Class
<1>13. QED
  BY <1>10, <1>11, <1>12

\* A mutation without a key is no request that may be repeated.
LEMMA MutationIsSentOnce ==
  ASSUME NEW k \in Invocations, AllowedAt(k), IsMutation(cmd[k]), ~opt[k].key,
         Typed
  PROVE  sent[k] <= 1
BY DEF AllowedAt, Allowed, Replayable, IsMutation, Typed

\* The runs start sound.
LEMMA SoundInit == Init => Sound
<1> SUFFICES ASSUME Init, NEW k \in Invocations PROVE SoundAt(k)
  BY DEF Sound
<1>1. PlacedAt(k)
  BY MaxRetriesAssumption DEF Init, InitClient, Each, PlacedAt, Placed
<1>2. AllowedAt(k)
  BY DEF Init, InitClient, Each, AllowedAt, Allowed
<1>3. ToldAt(k)
  BY DEF Init, InitClient, Each, ToldAt, Told, Telling, HttpReplies, Successes
<1>4. QED
  BY <1>1, <1>2, <1>3 DEF SoundAt

\* A run that starts or ends without a request is sound.
LEMMA SoundWithoutRequest ==
  ASSUME Typed, NEW i \in Invocations, SoundAt(i),
         (\E c \in Classes : StartsRun(i, c)) \/ (\E x \in Endings : Quit(i, x))
  PROVE  SoundAt(i)'
<1> USE DEF Typed, worldVars, cacheVars, requestVars
<1>1. ASSUME NEW c \in Classes, StartsRun(i, c)
      PROVE  SoundAt(i)'
  <2>1. /\ cmd'[i] = Given(c) /\ Given(c) \in Checked
        /\ wire'[i] = wire[i] /\ attempt'[i] = attempt[i] /\ sent'[i] = sent[i]
        /\ orphans'[i] = orphans[i] /\ ran'[i] = ran[i]
    BY <1>1 DEF StartsRun, Checked
  <2>2. \/ pc'[i] = "done" /\ outcome'[i] \in {"help", "usage", "config", "stdin"}
        \/ pc'[i] = "ready" /\ outcome'[i] = outcome[i]
    BY <1>1 DEF StartsRun, Return
  <2>3. /\ sent[i] = 0 /\ wire[i] = "none" /\ attempt[i] = 0 /\ outcome[i] = "none"
        /\ orphans[i] = 0 /\ ran[i] = 0
    BY <1>1 DEF StartsRun, SoundAt, PlacedAt, Placed, AllowedAt, Allowed
  <2>4. PlacedAt(i)'
    BY <2>1, <2>2, <2>3, MaxRetriesAssumption DEF PlacedAt, Placed
  <2>5. AllowedAt(i)'
    BY <2>1, <2>2, <2>3 DEF AllowedAt, Allowed
  <2>6. ToldAt(i)'
    BY <2>1, <2>2, <2>3 DEF ToldAt, Told, Telling, HttpReplies, Successes
  <2>7. QED
    BY <2>4, <2>5, <2>6 DEF SoundAt
<1>2. ASSUME NEW x \in Endings, Quit(i, x)
      PROVE  SoundAt(i)'
  <2>1. /\ cmd'[i] = cmd[i] /\ opt'[i] = opt[i]
        /\ wire'[i] = wire[i] /\ attempt'[i] = attempt[i] /\ sent'[i] = sent[i]
        /\ orphans'[i] = orphans[i] /\ ran'[i] = ran[i]
        /\ pc'[i] = "done" /\ outcome'[i] = x
    BY <1>2 DEF Quit, Return
  <2>2. /\ sent[i] = 0 /\ wire[i] = "none" /\ attempt[i] = 0 /\ cmd[i] \in Checked
        /\ orphans[i] = 0 /\ ran[i] = 0
    BY <1>2 DEF Quit, SoundAt, PlacedAt, Placed, AllowedAt, Allowed
  <2>3. /\ x = "cached" => cmd[i].kind = "probe"
        /\ x \in {"report", "no_report"} => cmd[i].kind = "script"
        /\ x = "dry_run" => opt[i].mode = "dry"
        /\ x # "none" /\ x \notin HttpReplies \cup {"usage", "config"}
    BY <1>2 DEF Quit, Endings, HttpReplies, Successes
  <2>4. PlacedAt(i)'
    BY <2>1, <2>2, <2>3, MaxRetriesAssumption DEF PlacedAt, Placed
  <2>5. AllowedAt(i)'
    BY <2>1, <2>2 DEF AllowedAt, Allowed
  <2>6. ToldAt(i)'
    BY <2>1, <2>2, <2>3 DEF ToldAt, Told, Telling, HttpReplies, Successes
  <2>7. QED
    BY <2>4, <2>5, <2>6 DEF SoundAt
<1>3. QED
  BY <1>1, <1>2

\* Sending, and reading the reply, keep a run sound.
LEMMA SoundRequest ==
  ASSUME Typed, NEW i \in Invocations, SoundAt(i),
         \/ Send(i) \/ Succeed(i) \/ Refused(i) \/ NetworkError(i)
         \/ StoreResponse(i)
  PROVE  SoundAt(i)'
<1> USE DEF Typed
<1>1. CASE Send(i)
  <2>1. /\ cmd'[i] = cmd[i] /\ opt'[i] = opt[i] /\ attempt'[i] = attempt[i]
        /\ orphans'[i] = orphans[i] /\ ran'[i] = ran[i] /\ outcome'[i] = outcome[i]
        /\ pc'[i] = "waiting" /\ wire'[i] = "queued" /\ sent'[i] = sent[i] + 1
    BY <1>1 DEF Send, Put
  <2>2. pc[i] \in {"ready", "resend"}
    BY <1>1 DEF Send, Live
  <2>3. /\ sent[i] = attempt[i] /\ wire[i] = "none" /\ outcome[i] = "none"
        /\ cmd[i] \in Checked
    BY <2>2 DEF SoundAt, PlacedAt, Placed
  <2>4. Licensed(cmd[i], opt[i])
    BY <1>1, <2>2 DEF Send, Live, GateCloses, Licensed, SoundAt, PlacedAt, Placed,
      AllowedAt, Allowed
  <2>5. sent[i] > 0 => Replayable(cmd[i], opt[i])
    BY <2>2 DEF SoundAt, PlacedAt, Placed, AllowedAt, Allowed
  <2>6. orphans[i] + ran[i] <= sent[i]
    BY <2>3 DEF SoundAt, AllowedAt, Allowed
  <2>7. PlacedAt(i)'
    BY <2>1, <2>3, MaxRetriesAssumption DEF PlacedAt, Placed
  <2>8. AllowedAt(i)'
    BY <2>1, <2>4, <2>5, <2>6 DEF AllowedAt, Allowed
  <2>9. ToldAt(i)'
    BY <2>1, <2>3 DEF ToldAt, Told, Telling, HttpReplies, Successes
  <2>10. QED
    BY <2>7, <2>8, <2>9 DEF SoundAt
<1>2. CASE Succeed(i)
  <2>1. PICK x \in Successes :
          /\ pc[i] = "waiting" /\ wire[i] = x
          /\ IF CacheEnabled(i)
             THEN /\ pc' = [pc EXCEPT ![i] = "store"]
                  /\ UNCHANGED <<outcome, wire, seen, sentEpoch>>
             ELSE Return(i, x) /\ Hangup(i)
          /\ UNCHANGED <<worldVars, cmd, opt, attempt, orphans, sent, ran>>
    BY <1>2 DEF Succeed, Arrived
  <2>2. sent[i] = attempt[i] + 1 /\ outcome[i] = "none" /\ cmd[i] \in Checked
    BY <2>1 DEF SoundAt, PlacedAt, Placed
  <2>3. \/ /\ pc'[i] = "store" /\ outcome'[i] = "none" /\ wire'[i] = x
           /\ cmd[i].kind = "probe"
        \/ pc'[i] = "done" /\ outcome'[i] = x /\ wire'[i] = "none"
    BY <2>1, <2>2 DEF Return, Hangup, CacheEnabled
  <2>4. PlacedAt(i)'
    BY <2>1, <2>2, <2>3, MaxRetriesAssumption DEF PlacedAt, Placed, Successes
  <2>5. AllowedAt(i)'
    BY <2>1, <2>3 DEF AllowedAt, Allowed, SoundAt
  <2>6. ToldAt(i)'
    BY <2>1, <2>2, <2>3 DEF ToldAt, Told, Telling, HttpReplies, Successes, SoundAt
  <2>7. QED
    BY <2>4, <2>5, <2>6 DEF SoundAt
<1>3. ASSUME NEW x, Refused(i) \/ NetworkError(i),
             pc[i] = "waiting",
             x \in {"conflict", "denied", "missing", "limited"} => wire[i] = x,
             x \in {"conflict", "denied", "missing", "limited", "failed", "error", "network"},
             \/ RetryOr(i, x)
             \/ Return(i, x) /\ UNCHANGED attempt,
             wire' = [wire EXCEPT ![i] = "none"],
             UNCHANGED <<cmd, opt, sent, ran>>,
             \/ orphans' = orphans
             \/ wire[i] = "queued" /\ orphans' = [orphans EXCEPT ![i] = @ + 1]
                /\ x = "network"
      PROVE  SoundAt(i)'
  <2>1. /\ sent[i] = attempt[i] + 1 /\ outcome[i] = "none" /\ cmd[i] \in Checked
    BY <1>3 DEF SoundAt, PlacedAt, Placed
  <2>2. /\ cmd'[i] = cmd[i] /\ opt'[i] = opt[i] /\ sent'[i] = sent[i]
        /\ ran'[i] = ran[i] /\ wire'[i] = "none"
    BY <1>3
  <2>3. \/ /\ pc'[i] = "resend" /\ attempt'[i] = attempt[i] + 1
           /\ outcome'[i] = "none" /\ Replayable(cmd[i], opt[i])
        \/ pc'[i] = "done" /\ outcome'[i] = x
    BY <1>3, <2>1 DEF RetryOr, Return, CanReplay, Replayable
  <2>4. orphans'[i] + ran[i] <= sent[i]
    BY <1>3 DEF SoundAt, AllowedAt, Allowed
  <2>5. PlacedAt(i)'
    BY <1>3, <2>1, <2>2, <2>3, MaxRetriesAssumption DEF PlacedAt, Placed
  <2>6. AllowedAt(i)'
    <3>1. /\ sent[i] > 0 => Licensed(cmd[i], opt[i])
          /\ sent[i] > 1 => Replayable(cmd[i], opt[i])
      BY DEF SoundAt, AllowedAt, Allowed
    <3>2. orphans'[i] + ran'[i] + 0 <= sent'[i] /\ wire'[i] # "queued"
      <4>1. orphans'[i] \in Nat /\ ran[i] \in Nat /\ sent[i] \in Nat
        BY <1>3
      <4>2. QED
        BY <2>2, <2>4, <4>1
    <3>3. pc'[i] = "resend" => Replayable(cmd[i], opt[i])
      BY <2>3
    <3>4. QED
      BY <2>2, <3>1, <3>2, <3>3 DEF AllowedAt, Allowed
  <2>7. x \in {"conflict", "denied", "missing", "limited"} => orphans'[i] = orphans[i]
    BY <1>3
  <2>8. ToldAt(i)'
    BY <1>3, <2>1, <2>2, <2>3, <2>7 DEF ToldAt, Told, Telling, HttpReplies, Successes, SoundAt
  <2>9. QED
    BY <2>5, <2>6, <2>8 DEF SoundAt
<1>4. CASE Refused(i)
  <2>1. PICK x \in {"conflict", "denied", "missing", "limited", "failed", "error"} :
          /\ pc[i] = "waiting" /\ wire[i] = x
          /\ RetryOr(i, x) \/ (Return(i, x) /\ UNCHANGED attempt)
    BY <1>4 DEF Refused, Arrived
  <2>2. wire' = [wire EXCEPT ![i] = "none"] /\ UNCHANGED <<cmd, opt, sent, ran, orphans>>
    BY <1>4 DEF Refused, Hangup
  <2>3. QED
    BY <1>3, <1>4, <2>1, <2>2
<1>5. CASE NetworkError(i)
  <2>1. /\ pc[i] = "waiting"
        /\ RetryOr(i, "network") \/ (Return(i, "network") /\ UNCHANGED attempt)
        /\ wire' = [wire EXCEPT ![i] = "none"] /\ UNCHANGED <<cmd, opt, sent, ran>>
    BY <1>5 DEF NetworkError, Hangup
  <2>2. \/ orphans' = orphans
        \/ wire[i] = "queued" /\ orphans' = [orphans EXCEPT ![i] = @ + 1]
    BY <1>5 DEF NetworkError
  <2>3. QED
    BY <1>3, <1>5, <2>1, <2>2
<1>6. CASE StoreResponse(i)
  <2>1. /\ pc[i] = "store" /\ pc'[i] = "done" /\ outcome'[i] = "ok" /\ wire'[i] = "none"
        /\ cmd'[i] = cmd[i] /\ opt'[i] = opt[i] /\ sent'[i] = sent[i]
        /\ ran'[i] = ran[i] /\ orphans'[i] = orphans[i] /\ attempt'[i] = attempt[i]
    BY <1>6 DEF StoreResponse, Return, Hangup
  <2>2. /\ wire[i] \in Successes /\ sent[i] > 0 /\ sent[i] <= MaxRetries + 1
        /\ cmd[i] \in Checked /\ ~IsMutation(cmd[i])
    BY <2>1, ProbesRead DEF SoundAt, PlacedAt, Placed, IsMutation
  <2>3. PlacedAt(i)'
    BY <2>1, <2>2 DEF PlacedAt, Placed
  <2>4. AllowedAt(i)'
    BY <2>1, <2>2 DEF AllowedAt, Allowed, SoundAt
  <2>5. ToldAt(i)'
    BY <2>1, <2>2 DEF ToldAt, Told, Telling, HttpReplies, Successes, SoundAt
  <2>6. QED
    BY <2>3, <2>4, <2>5 DEF SoundAt
<1>7. QED
  BY <1>1, <1>2, <1>4, <1>5, <1>6

\* The other end keeps a run sound: what it answers is what it did.
LEMMA SoundService ==
  ASSUME Typed, NEW i \in Invocations, SoundAt(i), Serve(i) \/ ServeOrphan(i)
  PROVE  SoundAt(i)'
<1> USE DEF Typed
<1>1. CASE Serve(i)
  <2>1. PICK x \in Answers :
          /\ wire' = [wire EXCEPT ![i] = x]
          /\ \/ x \in {"ok", "partial"} \cup Ambiguous /\ CarryOut(i)
             \/ x \notin {"ok", "partial"} /\ Ignore
    BY <1>1 DEF Serve
  <2>2. x \in Replies
    BY DEF Answers, Replies
  <2>3. /\ cmd'[i] = cmd[i] /\ opt'[i] = opt[i] /\ sent'[i] = sent[i]
        /\ pc'[i] = pc[i] /\ outcome'[i] = outcome[i]
        /\ orphans'[i] = orphans[i] /\ attempt'[i] = attempt[i]
        /\ wire[i] = "queued" /\ wire'[i] = x
    BY <1>1, <2>1 DEF Serve
  <2>4. /\ x \in {"ok", "partial"} => ran'[i] = ran[i] + 1
        /\ x \in {"conflict", "denied", "missing", "limited"} => ran'[i] = ran[i]
        /\ ran'[i] = ran[i] \/ ran'[i] = ran[i] + 1
    BY <1>1, <2>1 DEF CarryOut, Ignore, Ambiguous
  <2>5. pc[i] = "waiting" /\ outcome[i] = "none"
    BY <2>3 DEF SoundAt, PlacedAt, Placed, Successes, Places
  <2>6. orphans[i] + ran[i] + 1 <= sent[i]
    BY <2>3 DEF SoundAt, AllowedAt, Allowed
  <2>7. PlacedAt(i)'
    BY <2>2, <2>3, <2>5 DEF PlacedAt, Placed, SoundAt, Replies, HttpReplies, Successes, BridgeReplies
  <2>8. AllowedAt(i)'
    BY <2>2, <2>3, <2>4, <2>6 DEF AllowedAt, Allowed, SoundAt, Replies, HttpReplies, Successes, BridgeReplies
  <2>9. ASSUME IsMutation(cmd[i]), ~opt[i].key
        PROVE  Telling(x, orphans[i], ran'[i])
    <3>1. sent[i] <= 1
      BY <2>9, MutationIsSentOnce DEF SoundAt
    <3>2. orphans[i] = 0 /\ ran[i] = 0
      BY <2>6, <3>1
    <3>3. QED
      BY <2>4, <3>2 DEF Telling
  <2>10. ToldAt(i)'
    <3>1. IsMutation(cmd[i]) /\ ~opt[i].key => Telling("none", orphans[i], ran'[i])
      BY DEF Telling
    <3>2. QED
      BY <2>3, <2>5, <2>9, <3>1 DEF ToldAt, Told, SoundAt
  <2>11. QED
    BY <2>7, <2>8, <2>10 DEF SoundAt
<1>2. CASE ServeOrphan(i)
  <2>1. /\ cmd'[i] = cmd[i] /\ opt'[i] = opt[i] /\ sent'[i] = sent[i]
        /\ pc'[i] = pc[i] /\ outcome'[i] = outcome[i] /\ attempt'[i] = attempt[i]
        /\ wire'[i] = wire[i] /\ orphans[i] > 0 /\ orphans'[i] = orphans[i] - 1
        /\ ran'[i] = ran[i] \/ ran'[i] = ran[i] + 1
    BY <1>2 DEF ServeOrphan, CarryOut, Ignore
  <2>2. PlacedAt(i)'
    BY <2>1 DEF PlacedAt, Placed, SoundAt
  <2>3. AllowedAt(i)'
    BY <2>1 DEF AllowedAt, Allowed, SoundAt
  <2>4. ToldAt(i)'
    BY <2>1 DEF ToldAt, Told, Telling, SoundAt
  <2>5. QED
    BY <2>2, <2>3, <2>4 DEF SoundAt
<1>3. QED
  BY <1>1, <1>2

\* Restarts of the other end and the passage of time keep every run sound.
LEMMA SoundWorld ==
  ASSUME Typed, Sound, World
  PROVE  Sound'
<1> SUFFICES ASSUME NEW k \in Invocations PROVE SoundAt(k)'
  BY DEF Sound
<1> USE DEF Typed, requestVars
<1>1. CASE Stop
  <2>1. /\ cmd'[k] = cmd[k] /\ opt'[k] = opt[k] /\ sent'[k] = sent[k]
        /\ pc'[k] = pc[k] /\ outcome'[k] = outcome[k] /\ attempt'[k] = attempt[k]
        /\ ran'[k] = ran[k] /\ orphans'[k] = 0
        /\ wire'[k] = IF wire[k] = "queued" THEN "broken" ELSE wire[k]
    BY <1>1 DEF Stop, Each
  <2>2. PlacedAt(k)'
    BY <2>1 DEF PlacedAt, Placed, Successes, SoundAt, Sound
  <2>3. AllowedAt(k)'
    BY <2>1 DEF AllowedAt, Allowed, SoundAt, Sound
  <2>4. ToldAt(k)'
    BY <2>1 DEF ToldAt, Told, Telling, SoundAt, Sound
  <2>5. QED
    BY <2>2, <2>3, <2>4 DEF SoundAt
<1>2. CASE Start \/ Age
  <2>1. Untouched(k)
    BY <1>2 DEF Start, Age, Untouched
  <2>2. QED
    BY <2>1, UntouchedSound DEF Sound
<1>3. QED
  BY <1>1, <1>2 DEF World

\* Every step keeps every run sound.
LEMMA SoundStep ==
  ASSUME Typed, Sound, [Next]_vars
  PROVE  Sound'
<1>1. ASSUME NEW i \in Invocations, Client(i)
      PROVE  Sound'
  <2>1. ASSUME NEW k \in Invocations \ {i}
        PROVE  SoundAt(k)'
    BY <1>1, <2>1, OthersUntouched, UntouchedSound DEF Sound
  <2>2. SoundAt(i)'
    BY <1>1, SoundWithoutRequest, SoundRequest, SoundService DEF Client, Sound
  <2>3. QED
    BY <2>1, <2>2 DEF Sound
<1>2. CASE UNCHANGED clientVars
  <2>1. \A k \in Invocations : Untouched(k)
    BY <1>2 DEF clientVars, requestVars, Untouched
  <2>2. QED
    BY <2>1, UntouchedSound DEF Sound
<1>3. QED
  BY <1>1, <1>2, StepKinds, SoundWorld

----------------------------------------------------------------------------
(* The cache and the clock.                                                *)

\* Nothing fresh, and no reply, is older than the absence of the other end.
Recent ==
  /\ up => ~longDown
  /\ cache.kind = "fresh" => ~longDown
  /\ \A k \in Invocations : wire[k] \in Replies => wire[k] \in Answers /\ ~longDown

\* A reply tells of what was reported before its request was sent.
Current ==
  /\ reported <= version
  /\ \A k \in Invocations :
       /\ seen[k] <= version /\ sentEpoch[k] <= epoch
       /\ wire[k] \in Replies /\ sentEpoch[k] = epoch => seen[k] >= reported
  /\ FreshUnlessRaced

IInv == Typed /\ Sound /\ Recent /\ Current

\* Nothing is cached and nothing was reported at the start.
LEMMA CoherentInit == Init => Recent /\ Current
BY DEF Init, InitClient, Each, NoEntry, Recent, Current, FreshUnlessRaced,
  Replies, HttpReplies, Successes, BridgeReplies

\* No step lets a fresh response or a reply outlive five minutes of absence.
LEMMA RecentStep ==
  ASSUME IInv, [Next]_vars
  PROVE  Recent'
<1> USE DEF IInv, Typed, worldVars, cacheVars, requestVars
<1>1. ASSUME NEW i \in Invocations, Client(i)
      PROVE  Recent'
  <2>1. UNCHANGED <<transport, up, longDown>> /\ Answers' = Answers
    <3>1. UNCHANGED <<transport, up, longDown>>
      BY <1>1 DEF Client, StartsRun, Quit, Send, Put, Succeed, Refused, NetworkError,
        StoreResponse, Serve, ServeOrphan
    <3>2. QED
      BY <3>1 DEF Answers
  <2>2. \A k \in Invocations \ {i} : wire'[k] = wire[k]
    BY <1>1, OthersUntouched DEF Untouched
  <2>3. wire'[i] \in Replies => wire'[i] \in Answers /\ ~longDown
    <3>1. \/ wire'[i] = wire[i] \/ wire'[i] \in {"none", "queued"}
          \/ up /\ wire'[i] \in Answers
      BY <1>1 DEF Client, StartsRun, Quit, Send, Put, Succeed, Refused, NetworkError,
        StoreResponse, Serve, ServeOrphan, Hangup
    <3>2. QED
      BY <3>1 DEF Recent, Replies, HttpReplies, Successes, BridgeReplies
  <2>4. cache'.kind = "fresh" => ~longDown
    <3>1. cache' \in {cache, NoEntry} \/ StoreResponse(i)
      BY <1>1 DEF Client, StartsRun, Quit, Send, Put, Succeed, EvictAfterMutation,
        Refused, NetworkError, Serve, ServeOrphan
    <3>2. ASSUME StoreResponse(i)
          PROVE  ~longDown
      <4>1. wire[i] \in Successes
        BY <3>2 DEF StoreResponse, Sound, SoundAt, PlacedAt, Placed
      <4>2. QED
        BY <4>1 DEF Recent, Replies, HttpReplies, Successes
    <3>3. QED
      BY <3>1, <3>2 DEF Recent, NoEntry
  <2>5. QED
    BY <2>1, <2>2, <2>3, <2>4 DEF Recent
<1>2. CASE Stop
  BY <1>2 DEF Stop, Recent, Answers, Replies, HttpReplies, Successes, BridgeReplies
<1>3. CASE Start
  BY <1>3 DEF Start, Recent, Answers
<1>4. CASE Age
  <2>1. \A k \in Invocations : wire[k] \notin Replies
    BY <1>4 DEF Age, Recent
  <2>2. cache'.kind # "fresh"
    BY <1>4 DEF Age, NoEntry, Entries
  <2>3. UNCHANGED <<up, wire>> /\ longDown' = ~up
    BY <1>4 DEF Age
  <2>4. QED
    BY <2>1, <2>2, <2>3 DEF Recent
<1>5. CASE UNCHANGED clientVars
  BY <1>5 DEF clientVars, Recent, Answers
<1>6. QED
  BY <1>1, <1>2, <1>3, <1>4, <1>5, StepKinds DEF World

\* No step brings a response into the cache that misses a reported mutation
\* without being marked as raced.
LEMMA CurrentStep ==
  ASSUME IInv, [Next]_vars
  PROVE  Current'
<1> USE DEF IInv, Typed, worldVars, cacheVars, requestVars
<1>1. ASSUME NEW i \in Invocations,
             \/ \E c \in Classes : StartsRun(i, c)
             \/ \E x \in Endings : Quit(i, x)
      PROVE  Current'
  BY <1>1 DEF StartsRun, Quit, Current, FreshUnlessRaced
<1>2. ASSUME NEW i \in Invocations, Send(i)
      PROVE  Current'
  <2>1. /\ UNCHANGED <<version, cache, reported, epoch, seen>>
        /\ wire' = [wire EXCEPT ![i] = "queued"]
        /\ sentEpoch' = [sentEpoch EXCEPT ![i] = epoch]
    BY <1>2 DEF Send, Put
  <2>2. QED
    BY <2>1 DEF Current, FreshUnlessRaced, Replies, HttpReplies, Successes, BridgeReplies
<1>3. ASSUME NEW i \in Invocations, Succeed(i)
      PROVE  Current'
  <2>1. UNCHANGED version
    BY <1>3 DEF Succeed
  <2>2. \/ /\ wire' = [wire EXCEPT ![i] = "none"] /\ seen' = [seen EXCEPT ![i] = 0]
           /\ sentEpoch' = [sentEpoch EXCEPT ![i] = 0]
        \/ UNCHANGED <<wire, seen, sentEpoch>>
    BY <1>3 DEF Succeed, Hangup
  <2>3. \/ UNCHANGED <<cache, reported, epoch>>
        \/ cache' = NoEntry /\ reported' = seen[i] /\ epoch' = epoch + 1
    BY <1>3 DEF Succeed, EvictAfterMutation
  <2>4. reported' <= version' /\ epoch' >= epoch
    BY <2>1, <2>3 DEF Current
  <2>5. ASSUME NEW k \in Invocations
        PROVE  /\ seen'[k] <= version' /\ sentEpoch'[k] <= epoch'
               /\ wire'[k] \in Replies /\ sentEpoch'[k] = epoch' => seen'[k] >= reported'
    <3>1. \/ wire'[k] = "none" /\ seen'[k] = 0 /\ sentEpoch'[k] = 0
          \/ wire'[k] = wire[k] /\ seen'[k] = seen[k] /\ sentEpoch'[k] = sentEpoch[k]
      BY <2>2
    <3>2. /\ seen[k] \in Nat /\ sentEpoch[k] \in Nat /\ epoch \in Nat /\ version \in Nat
          /\ epoch' \in Nat
      BY <2>3
    <3>3. /\ seen[k] <= version /\ sentEpoch[k] <= epoch
          /\ wire[k] \in Replies /\ sentEpoch[k] = epoch => seen[k] >= reported
      BY DEF Current
    <3>4. seen'[k] <= version' /\ sentEpoch'[k] <= epoch'
      BY ONLY <2>1, <2>4, <3>1, <3>2, <3>3
    <3>5. "none" \notin Replies
      BY DEF Replies, HttpReplies, Successes, BridgeReplies
    <3>6. CASE UNCHANGED <<cache, reported, epoch>>
      BY ONLY <3>1, <3>3, <3>4, <3>5, <3>6
    <3>7. CASE epoch' = epoch + 1
      BY ONLY <3>1, <3>2, <3>3, <3>4, <3>5, <3>7
    <3>8. QED
      BY <2>3, <3>4, <3>6, <3>7
  <2>6. FreshUnlessRaced'
    BY <2>3 DEF FreshUnlessRaced, NoEntry, Current
  <2>7. QED
    BY <2>4, <2>5, <2>6 DEF Current
<1>4. ASSUME NEW i \in Invocations, Refused(i) \/ NetworkError(i)
      PROVE  Current'
  <2>1. /\ UNCHANGED <<version, cache, reported, epoch>>
        /\ wire' = [wire EXCEPT ![i] = "none"] /\ seen' = [seen EXCEPT ![i] = 0]
        /\ sentEpoch' = [sentEpoch EXCEPT ![i] = 0]
    BY <1>4 DEF Refused, NetworkError, Hangup
  <2>2. QED
    BY <2>1 DEF Current, FreshUnlessRaced, Replies, HttpReplies, Successes, BridgeReplies
<1>5. ASSUME NEW i \in Invocations, StoreResponse(i)
      PROVE  Current'
  <2>1. /\ UNCHANGED <<version, reported, epoch>>
        /\ wire' = [wire EXCEPT ![i] = "none"] /\ seen' = [seen EXCEPT ![i] = 0]
        /\ sentEpoch' = [sentEpoch EXCEPT ![i] = 0]
        /\ cache' = [kind |-> "fresh", version |-> seen[i], raced |-> sentEpoch[i] # epoch]
    BY <1>5 DEF StoreResponse, Hangup
  <2>2. wire[i] \in Replies
    BY <1>5 DEF StoreResponse, Sound, SoundAt, PlacedAt, Placed, Replies, HttpReplies, Successes
  <2>3. sentEpoch[i] = epoch => seen[i] >= reported
    BY <2>2 DEF Current
  <2>4. FreshUnlessRaced'
    BY <2>1, <2>3 DEF FreshUnlessRaced
  <2>5. QED
    BY <2>1, <2>4 DEF Current, Replies, HttpReplies, Successes, BridgeReplies
<1>6. ASSUME NEW i \in Invocations, Serve(i)
      PROVE  Current'
  <2>1. /\ UNCHANGED <<cache, reported, epoch, sentEpoch>>
        /\ seen' = [seen EXCEPT ![i] = version']
        /\ \A k \in Invocations \ {i} : wire'[k] = wire[k]
    BY <1>6 DEF Serve
  <2>2. version' = version \/ version' = version + 1
    BY <1>6 DEF Serve, CarryOut, Ignore
  <2>3. QED
    BY <2>1, <2>2 DEF Current, FreshUnlessRaced
<1>7. ASSUME NEW i \in Invocations, ServeOrphan(i)
      PROVE  Current'
  <2>1. /\ UNCHANGED <<cache, reported, epoch, sentEpoch, seen, wire>>
        /\ version' = version \/ version' = version + 1
    BY <1>7 DEF ServeOrphan, CarryOut, Ignore
  <2>2. QED
    BY <2>1 DEF Current, FreshUnlessRaced
<1>8. CASE World
  <2>1. UNCHANGED <<version, reported, epoch, sentEpoch, seen>>
    BY <1>8 DEF World, Stop, Start, Age
  <2>2. \A k \in Invocations : wire'[k] \in Replies => wire'[k] = wire[k]
    BY <1>8 DEF World, Stop, Start, Age, Replies, HttpReplies, Successes, BridgeReplies
  <2>3. \/ cache' = cache
        \/ /\ cache'.version = cache.version /\ cache'.raced = cache.raced
           /\ cache.kind = "fresh"
    BY <1>8 DEF World, Stop, Start, Age, NoEntry, Entries
  <2>4. FreshUnlessRaced'
    BY <2>1, <2>3 DEF FreshUnlessRaced, Current
  <2>5. QED
    BY <2>1, <2>2, <2>4 DEF Current
<1>9. CASE UNCHANGED clientVars
  BY <1>9 DEF clientVars, Current, FreshUnlessRaced
<1>10. QED
  BY <1>1, <1>2, <1>3, <1>4, <1>5, <1>6, <1>7, <1>8, <1>9, StepKinds DEF Client

----------------------------------------------------------------------------
(* The theorems.                                                           *)

\* The inductive invariant of overlapping runs: types, the soundness of
\* each run, and what ties the cache and the clock to the replies under way.
THEOREM CliInvariant == Spec => []IInv
<1>1. Init => IInv
  BY TypedInit, SoundInit, CoherentInit DEF IInv
<1>2. IInv /\ [Next]_vars => IInv'
  BY TypedStep, SoundStep, RecentStep, CurrentStep DEF IInv
<1>3. QED
  BY <1>1, <1>2, PTL DEF Spec

\* TypeOK: the variables have the values that the code can give them.
THEOREM TypeCorrect == Spec => []TypeOK
<1>1. IInv => TypeOK
  <2> SUFFICES ASSUME IInv PROVE TypeOK
    OBVIOUS
  <2> USE DEF IInv, Typed
  <2>1. cache.kind \in {"none", "fresh", "old"}
    BY DEF NoEntry, Entries
  <2>2. ASSUME NEW i \in Invocations
        PROVE  /\ orphans[i] \in Nat /\ sent[i] \in Nat /\ ran[i] \in Nat
               /\ (pc[i] = "done") <=> (outcome[i] # "none")
               /\ pc[i] # "new" => cmd[i] \in {Given(c) : c \in Classes}
    BY DEF Sound, SoundAt, PlacedAt, Placed, Checked
  <2>3. QED
    BY <2>1, <2>2 DEF TypeOK, Places, Wires, Replies
<1>2. QED
  BY <1>1, CliInvariant, PTL

\* SendsAreLicensed: nothing previewed or gated is sent, nothing that cannot
\* be replayed is sent twice, nothing is carried out that was not sent.
THEOREM SendsAreLicensedHolds == Spec => []SendsAreLicensed
<1>1. IInv => SendsAreLicensed
  <2> SUFFICES ASSUME IInv, NEW i \in Invocations, pc[i] # "new"
               PROVE  /\ opt[i].mode = "dry" \/ (opt[i].mode = "verify" /\ IsMutation(cmd[i]))
                           => sent[i] = 0
                      /\ sent[i] <= MaxRetries + 1
                      /\ IsMutation(cmd[i]) /\ ~opt[i].key => sent[i] <= 1
                      /\ ran[i] + orphans[i] <= sent[i]
    BY DEF SendsAreLicensed
  <2> USE DEF IInv, Typed
  <2>1. sent[i] > 0 => Licensed(cmd[i], opt[i])
    BY DEF Sound, SoundAt, AllowedAt, Allowed
  <2>2. ran[i] + orphans[i] <= sent[i]
    BY DEF Sound, SoundAt, AllowedAt, Allowed
  <2>3. sent[i] <= MaxRetries + 1
    BY DEF Sound, SoundAt, PlacedAt, Placed
  <2>4. IsMutation(cmd[i]) /\ ~opt[i].key => sent[i] <= 1
    BY MutationIsSentOnce DEF Sound, SoundAt
  <2>5. QED
    BY <2>1, <2>2, <2>3, <2>4 DEF Licensed
<1>2. QED
  BY <1>1, CliInvariant, PTL

\* ExitCodesTellTheTruth: what the exit code and the envelope of a mutation
\* without a key tell of it is so, up to what the answer leaves open: a tool that
\* declined, and a status that the body of another error mentions.
THEOREM ExitCodesTellTheTruthHolds == Spec => []ExitCodesTellTheTruth
<1>1. IInv => ExitCodesTellTheTruth
  <2> SUFFICES ASSUME IInv, NEW i \in Invocations, NEW e \in Finishes(i),
                      pc[i] = "done", IsMutation(cmd[i]), ~opt[i].key
               PROVE  LET code == ExitCode(i, e)
                      IN  /\ code \in {2, 10} => sent[i] = 0
                          /\ code \in {3, 4, 7} /\ e.mention = "none" => ran[i] = 0
                          /\ code = 6 => ran[i] = 1
                          /\ EnvelopeSuccess(i, e) =>
                               ran[i] = 1 \/ outcome[i] = "declined"
                          /\ code = 0 =>
                               \/ ran[i] = 1 \/ outcome[i] = "declined"
                               \/ /\ sent[i] = 0
                                  /\ outcome[i] \in {"help", "synthetic", "dry_run"}
                               \/ /\ Noop(i, e)
                                  /\ e.mention = "conflict" \/ ran[i] = 0
    BY DEF ExitCodesTellTheTruth
  <2> USE DEF IInv, Typed
  <2>1. cmd[i] \in Checked /\ outcome[i] # "none"
    BY DEF Sound, SoundAt, PlacedAt, Placed
  <2>2. cmd[i].kind \notin {"probe", "script"}
    BY <2>1, ProbesRead DEF IsMutation
  <2>3. /\ outcome[i] \in {"conflict", "denied", "missing", "limited"} => ran[i] = 0
        /\ outcome[i] \in {"ok", "partial"} => ran[i] = 1
        /\ outcome[i] \in {"usage", "config", "help", "synthetic", "dry_run"} =>
             sent[i] = 0
        /\ outcome[i] \notin {"cached", "report", "no_report"}
    BY <2>2 DEF Sound, SoundAt, ToldAt, Told, Telling
  <2>4. outcome[i] \in
          {"ok", "partial", "declined", "conflict", "denied", "missing", "limited",
           "failed", "error", "help", "usage", "stdin", "config", "synthetic",
           "dry_run", "no_equivalent", "network"}
    BY <2>1, <2>3 DEF Outcomes, HttpReplies, Successes, BridgeReplies
  <2>5. /\ ErrorCode(i, e) \in {3, 4, 5, 7}
        /\ ErrorCode(i, e) = 3 => "missing" \in Named(i, e)
        /\ ErrorCode(i, e) = 4 => "denied" \in Named(i, e)
        /\ ErrorCode(i, e) = 7 => "limited" \in Named(i, e)
    BY DEF ErrorCode
  <2>6. ASSUME NEW s \in {"conflict", "denied", "missing", "limited"},
               s \in Named(i, e), e.mention # s
        PROVE  ran[i] = 0
    BY <2>3, <2>6 DEF Named
  <2>7. ExitCode(i, e) \in {1, RunECode(i, e)}
        /\ (ExitCode(i, e) = 1 \/ ExitCode(i, e) = RunECode(i, e))
    BY DEF ExitCode
  <2>8. RunECode(i, e) \in {2, 10} => sent[i] = 0
    BY <2>2, <2>3, <2>4, <2>5 DEF RunECode
  <2>9. ASSUME RunECode(i, e) \in {3, 4, 7}, e.mention = "none"
        PROVE  ran[i] = 0
    <3>1. RunECode(i, e) = ErrorCode(i, e)
      BY <2>2, <2>4, <2>9 DEF RunECode
    <3>2. QED
      BY <2>5, <2>6, <2>9, <3>1
  <2>10. RunECode(i, e) = 6 => ran[i] = 1
    <3>1. RunECode(i, e) = 6 => PartialFailure(i)
      BY <2>2, <2>4, <2>5 DEF RunECode
    <3>2. QED
      BY <2>3, <3>1 DEF PartialFailure
  <2>11. EnvelopeSuccess(i, e) => ran[i] = 1 \/ outcome[i] = "declined"
    BY <2>3 DEF EnvelopeSuccess
  <2>12. Noop(i, e) => e.mention = "conflict" \/ ran[i] = 0
    BY <2>6 DEF Noop
  <2>13. RunECode(i, e) = 0 =>
           \/ ran[i] = 1 \/ outcome[i] = "declined" \/ Noop(i, e)
           \/ sent[i] = 0 /\ outcome[i] \in {"help", "synthetic", "dry_run"}
    BY <2>2, <2>3, <2>4, <2>5 DEF RunECode, Failures, Answered
  <2>14. QED
    BY <2>7, <2>8, <2>9, <2>10, <2>11, <2>12, <2>13
<1>2. QED
  BY <1>1, CliInvariant, PTL

\* FreshUnlessRaced: a cached response misses no mutation that was reported
\* before its request was sent.
THEOREM FreshUnlessRacedHolds == Spec => []FreshUnlessRaced
<1>1. IInv => FreshUnlessRaced
  BY DEF IInv, Current
<1>2. QED
  BY <1>1, CliInvariant, PTL

\* StaleVerdictIsBounded: doctor calls reachable what answered this run, or
\* what has not been gone for longer than a cached response lives, except that
\* with --dry-run it says so of anything.
THEOREM StaleVerdictIsBoundedHolds == Spec => StaleVerdictIsBounded
<1>1. ASSUME IInv, IInv', [Next]_vars, NEW i \in Invocations,
             ~SaysReachable(i), SaysReachable(i)'
      PROVE  sent[i] > 0 \/ ~longDown \/ opt[i].mode = "dry"
  <2> USE DEF IInv, Typed, worldVars, cacheVars, requestVars
  <2>1. pc'[i] = "done" /\ cmd'[i].kind = "probe"
        /\ outcome'[i] \in HttpReplies \cup {"cached", "dry_run"}
    BY <1>1 DEF SaysReachable, Sound, SoundAt, PlacedAt, Placed, HttpReplies, Successes
  <2>2. ~Untouched(i)
    BY <1>1 DEF Untouched, SaysReachable
  <2>3. ~World /\ ~UNCHANGED clientVars
    <3>1. World => UNCHANGED <<cmd, outcome>>
      BY DEF World, Stop, Start, Age
    <3>2. QED
      BY <1>1, <3>1 DEF SaysReachable, clientVars
  <2>4. Client(i)
    BY <1>1, <2>2, <2>3, StepKinds, OthersUntouched
  <2>5. sent'[i] > 0 \/ outcome'[i] \in {"cached", "dry_run"}
    BY <1>1, <2>1 DEF Sound, SoundAt, ToldAt, Told
  <2>6. CASE Send(i)
    <3>1. pc'[i] = "waiting"
      BY <1>1, <2>6 DEF Send, Put
    <3>2. QED
      BY <2>1, <3>1
  <2>7. CASE \E x \in Endings : Quit(i, x)
    <3>1. PICK x \in Endings : Quit(i, x)
      BY <2>7
    <3>2. sent'[i] = sent[i] /\ outcome'[i] = x
      BY <1>1, <3>1 DEF Quit, Return
    <3>3. /\ x = "cached" => cache.kind = "fresh"
          /\ x = "dry_run" => opt[i].mode = "dry"
      BY <3>1 DEF Quit
    <3>4. QED
      BY <1>1, <2>5, <3>2, <3>3 DEF Recent
  <2>8. CASE \E c \in Classes : StartsRun(i, c)
    <3>1. outcome'[i] \in {"help", "usage", "config", "stdin", outcome[i]} /\ outcome[i] = "none"
      BY <1>1, <2>8 DEF StartsRun, Return, Sound, SoundAt, PlacedAt, Placed
    <3>2. QED
      BY <2>1, <3>1 DEF HttpReplies, Successes
  <2>9. CASE \/ Succeed(i) \/ Refused(i) \/ NetworkError(i)
             \/ StoreResponse(i) \/ Serve(i) \/ ServeOrphan(i)
    <3>1. sent'[i] = sent[i]
      BY <2>9 DEF Succeed, Refused, NetworkError, StoreResponse, Serve, ServeOrphan
    <3>2. outcome'[i] \notin {"cached", "dry_run"}
      <4>1. /\ outcome'[i] \in {"cached", "dry_run"} => outcome'[i] = outcome[i]
            /\ cmd' = cmd
        <5>1. CASE Succeed(i)
          BY <1>1, <5>1 DEF Succeed, Return, Successes
        <5>2. CASE Refused(i) \/ NetworkError(i)
          BY <1>1, <5>2 DEF Refused, NetworkError, Return, RetryOr
        <5>3. CASE StoreResponse(i) \/ Serve(i) \/ ServeOrphan(i)
          BY <1>1, <5>3 DEF StoreResponse, Serve, ServeOrphan, Return
        <5>4. QED
          BY <2>9, <5>1, <5>2, <5>3
      <4>2. QED
        BY <1>1, <4>1 DEF SaysReachable
    <3>3. QED
      BY <2>5, <3>1, <3>2
  <2>10. QED
    BY <2>4, <2>6, <2>7, <2>8, <2>9 DEF Client
<1>2. IInv /\ IInv' /\ [Next]_vars =>
        [\A i \in Invocations :
           ~SaysReachable(i) /\ SaysReachable(i)' =>
             sent[i] > 0 \/ ~longDown \/ opt[i].mode = "dry"]_vars
  BY <1>1
<1>3. QED
  BY <1>2, CliInvariant, PTL DEF Spec, StaleVerdictIsBounded
---------------------------------------------------------------------------
(* The reports of the scripts, for every number of objects.                *)

N == NumObjects

\* A concatenation has its parts one behind the other.
LEMMA Joined ==
  ASSUME NEW S, NEW s \in Seq(S), NEW t \in Seq(S)
  PROVE  /\ s \o t \in Seq(S) /\ Len(s \o t) = Len(s) + Len(t)
         /\ \A j \in 1..Len(s) : (s \o t)[j] = s[j]
         /\ \A o \in 1..Len(t) : (s \o t)[Len(s) + o] = t[o]
BY ConcatProperties, LenProperties

\* The calls of an import, by their place in the plan.
LEMMA ImportLayout ==
  /\ Len(ImportPlan) = 3 + 3 * N
  /\ ImportPlan[1] = <<"download", 0>>
  /\ ImportPlan[2] = <<"import_file", 0>>
  /\ \A o \in Objects : /\ ImportPlan[2 + o] = <<"place", o>>
                        /\ ImportPlan[2 + N + o] = <<"measure", o>>
                        /\ ImportPlan[2 + 2 * N + o] = <<"simplify", o>>
  /\ ImportPlan[3 + 3 * N] = <<"organize", 0>>
<1> DEFINE Stages == {"download", "import_file", "place", "measure", "simplify", "organize"}
           Steps == Stages \X Nat
           P(stage) == PerObject(stage)
           A == Once("download") \o Once("import_file")
           B == A \o P("place")
           C == B \o P("measure")
           D == C \o P("simplify")
<1>1. N \in Nat \ {0} /\ Objects = 1..N
  BY NumObjectsAssumption DEF N, Objects
<1>2. ASSUME NEW stage \in Stages
      PROVE  /\ P(stage) \in Seq(Steps) /\ Len(P(stage)) = N
             /\ \A o \in 1..N : P(stage)[o] = <<stage, o>>
             /\ Once(stage) \in Seq(Steps) /\ Len(Once(stage)) = 1
             /\ Once(stage)[1] = <<stage, 0>>
  <2>1. P(stage) = [o \in 1..N |-> <<stage, o>>]
    BY <1>1 DEF PerObject
  <2>2. <<stage, 0>> \in Steps /\ \A o \in 1..N : <<stage, o>> \in Steps
    BY <1>1
  <2> HIDE DEF Steps, P, Stages
  <2>3. P(stage) \in [1..N -> Steps]
    BY <2>1, <2>2
  <2>4. P(stage) \in Seq(Steps) /\ Len(P(stage)) = N
    <3>1. P(stage) \in Seq(Steps)
      BY <1>1, <2>3, SeqDef
    <3>2. DOMAIN P(stage) = 1..N
      BY <2>3
    <3>3. Len(P(stage)) \in Nat /\ DOMAIN P(stage) = 1..Len(P(stage))
      BY <3>1, LenProperties
    <3>4. QED
      BY <1>1, <3>1, <3>2, <3>3
  <2>5. Once(stage) \in Seq(Steps) /\ Len(Once(stage)) = 1 /\ Once(stage)[1] = <<stage, 0>>
    <3> DEFINE e == <<stage, 0>>
    <3>1. Once(stage) = <<e>>
      BY DEF Once
    <3> HIDE DEF e
    <3>2. <<e>> \in Seq(Steps) /\ Len(<<e>>) = 1 /\ <<e>>[1] = e
      BY <2>2 DEF e
    <3>3. QED
      BY <3>1, <3>2 DEF e
  <2>6. QED
    BY <2>1, <2>4, <2>5
<1> HIDE DEF P, Steps
<1>3. /\ A \in Seq(Steps) /\ Len(A) = 2
      /\ A[1] = <<"download", 0>> /\ A[2] = <<"import_file", 0>>
  <2> DEFINE s == Once("download")
             t == Once("import_file")
  <2>1. /\ s \in Seq(Steps) /\ Len(s) = 1 /\ s[1] = <<"download", 0>>
        /\ t \in Seq(Steps) /\ Len(t) = 1 /\ t[1] = <<"import_file", 0>>
    BY <1>2
  <2>2. A = s \o t
    OBVIOUS
  <2> HIDE DEF s, t, A
  <2>3. /\ s \o t \in Seq(Steps) /\ Len(s \o t) = 1 + 1
        /\ (s \o t)[1] = s[1] /\ (s \o t)[1 + 1] = t[1]
    <3>1. /\ s \o t \in Seq(Steps) /\ Len(s \o t) = Len(s) + Len(t)
          /\ \A j \in 1..Len(s) : (s \o t)[j] = s[j]
          /\ \A o \in 1..Len(t) : (s \o t)[Len(s) + o] = t[o]
      BY <2>1, Joined
    <3>2. QED
      BY <2>1, <3>1
  <2>4. QED
    BY <2>1, <2>2, <2>3
<1> HIDE DEF A
<1>4. ASSUME NEW s \in Seq(Steps), NEW stage \in Stages, NEW n \in Nat, Len(s) = n
      PROVE  /\ s \o P(stage) \in Seq(Steps) /\ Len(s \o P(stage)) = n + N
             /\ \A j \in 1..n : (s \o P(stage))[j] = s[j]
             /\ \A o \in 1..N : (s \o P(stage))[n + o] = <<stage, o>>
  <2> DEFINE t == P(stage)
  <2>1. /\ t \in Seq(Steps) /\ Len(t) = N
        /\ \A o \in 1..N : t[o] = <<stage, o>>
    BY <1>2
  <2> HIDE DEF t
  <2>2. /\ s \o t \in Seq(Steps) /\ Len(s \o t) = Len(s) + Len(t)
        /\ \A j \in 1..Len(s) : (s \o t)[j] = s[j]
        /\ \A o \in 1..Len(t) : (s \o t)[Len(s) + o] = t[o]
    <3>1. s \in Seq(Steps) /\ t \in Seq(Steps)
      BY <2>1
    <3>2. QED
      BY ONLY <3>1, Joined
  <2>3. QED
    BY <1>4, <2>1, <2>2 DEF t
<1>5. /\ B \in Seq(Steps) /\ Len(B) = 2 + N
      /\ \A j \in 1..2 : B[j] = A[j]
      /\ \A o \in 1..N : B[2 + o] = <<"place", o>>
  <2>1. 2 \in Nat /\ "place" \in Stages
    OBVIOUS
  <2> HIDE DEF Stages
  <2>2. QED
    BY <1>3, <1>4, <2>1
<1> HIDE DEF B
<1>6. /\ C \in Seq(Steps) /\ Len(C) = 2 + N + N
      /\ \A j \in 1..(2 + N) : C[j] = B[j]
      /\ \A o \in 1..N : C[2 + N + o] = <<"measure", o>>
  <2>1. 2 + N \in Nat
    BY <1>1
  <2>2. QED
    BY <1>4, <1>5, <2>1
<1> HIDE DEF C
<1>7. /\ D \in Seq(Steps) /\ Len(D) = 2 + N + N + N
      /\ \A j \in 1..(2 + N + N) : D[j] = C[j]
      /\ \A o \in 1..N : D[2 + N + N + o] = <<"simplify", o>>
  <2>1. 2 + N + N \in Nat
    BY <1>1
  <2>2. QED
    BY <1>4, <1>6, <2>1
<1> HIDE DEF D
<1>8. /\ Len(ImportPlan) = 3 + N + N + N
      /\ \A j \in 1..(2 + N + N + N) : ImportPlan[j] = D[j]
      /\ ImportPlan[3 + N + N + N] = <<"organize", 0>>
  <2> DEFINE t == Once("organize")
  <2>1. ImportPlan = D \o t
    BY DEF ImportPlan, D, C, B, A, P
  <2>2. t \in Seq(Steps) /\ Len(t) = 1 /\ t[1] = <<"organize", 0>>
    BY <1>2
  <2> HIDE DEF t
  <2>3. /\ Len(D \o t) = Len(D) + Len(t)
        /\ \A j \in 1..Len(D) : (D \o t)[j] = D[j]
        /\ \A o \in 1..Len(t) : (D \o t)[Len(D) + o] = t[o]
    <3>1. D \in Seq(Steps) /\ t \in Seq(Steps)
      BY <1>7, <2>2
    <3>2. QED
      BY ONLY <3>1, Joined
  <2>4. QED
    BY <1>1, <1>7, <2>1, <2>2, <2>3
<1>9. ImportPlan[1] = <<"download", 0>> /\ ImportPlan[2] = <<"import_file", 0>>
  <2>1. /\ 1 \in 1..2 /\ 2 \in 1..2
        /\ 1..2 \subseteq 1..(2 + N) /\ 1..2 \subseteq 1..(2 + N + N)
        /\ 1..2 \subseteq 1..(2 + N + N + N)
    BY <1>1
  <2>2. QED
    BY <1>3, <1>5, <1>6, <1>7, <1>8, <2>1
<1>10. ASSUME NEW o \in Objects
       PROVE  /\ ImportPlan[2 + o] = <<"place", o>>
              /\ ImportPlan[2 + N + o] = <<"measure", o>>
              /\ ImportPlan[2 + 2 * N + o] = <<"simplify", o>>
  <2>1. /\ 2 + o \in 1..(2 + N) /\ 2 + o \in 1..(2 + N + N)
        /\ 2 + o \in 1..(2 + N + N + N) /\ 2 + N + o \in 1..(2 + N + N)
        /\ 2 + N + o \in 1..(2 + N + N + N)
        /\ 2 + N + N + o \in 1..(2 + N + N + N) /\ 2 + 2 * N + o = 2 + N + N + o
    BY <1>1
  <2>2. ImportPlan[2 + o] = <<"place", o>>
    BY <1>1, <1>5, <1>6, <1>7, <1>8, <2>1
  <2>3. ImportPlan[2 + N + o] = <<"measure", o>>
    BY <1>1, <1>6, <1>7, <1>8, <2>1
  <2>4. ImportPlan[2 + N + N + o] = <<"simplify", o>>
    BY <1>1, <1>7, <1>8, <2>1
  <2>5. QED
    BY <2>1, <2>2, <2>3, <2>4
<1>11. 3 + N + N + N = 3 + 3 * N
  BY <1>1
<1>12. QED
  BY <1>8, <1>9, <1>10, <1>11

\* Only the first two calls of an import are required, and an object is
\* measured before anything is simplified.
LEMMA ImportOrder ==
  ASSUME NEW j \in 1..Len(ImportPlan)
  PROVE  /\ ImportPlan[j][1] \in Required => j <= 2
         /\ ImportPlan[j][1] = "simplify" => j > 2 + 2 * N
         /\ ImportPlan[j][1] = "measure" => j <= 2 + 2 * N
<1>1. N \in Nat \ {0} /\ Objects = 1..N
  BY NumObjectsAssumption DEF N, Objects
<1>2. CASE j \in 1..2
  BY <1>1, <1>2, ImportLayout
<1>3. CASE j \in 3..(2 + N)
  <2>1. j - 2 \in Objects /\ j = 2 + (j - 2)
    BY <1>1, <1>3
  <2>2. ImportPlan[j] = <<"place", j - 2>>
    BY <2>1, ImportLayout
  <2>3. QED
    BY <2>2 DEF Required
<1>4. CASE j \in (3 + N)..(2 + 2 * N)
  <2>1. j - 2 - N \in Objects /\ j = 2 + N + (j - 2 - N)
    BY <1>1, <1>4
  <2>2. ImportPlan[j] = <<"measure", j - 2 - N>>
    BY <2>1, ImportLayout
  <2>3. QED
    BY <1>1, <1>4, <2>2 DEF Required
<1>5. CASE j \in (3 + 2 * N)..(2 + 3 * N)
  <2>1. j - 2 - 2 * N \in Objects /\ j = 2 + 2 * N + (j - 2 - 2 * N)
    BY <1>1, <1>5
  <2>2. ImportPlan[j] = <<"simplify", j - 2 - 2 * N>>
    BY <2>1, ImportLayout
  <2>3. QED
    BY <1>1, <1>5, <2>2 DEF Required
<1>6. CASE j = 3 + 3 * N
  BY <1>6, ImportLayout DEF Required
<1>7. QED
  BY <1>1, <1>2, <1>3, <1>4, <1>5, <1>6, ImportLayout

----------------------------------------------------------------------------
(* What is true of a script under way.                                     *)

ScriptTyped ==
  /\ todo \in [Invocations -> Nat \ {0}]
  /\ DOMAIN wants = Invocations /\ DOMAIN got = Invocations
  /\ DOMAIN did = Invocations /\ DOMAIN noted = Invocations

\* A call that an import has put behind it: w, g, d and n are what it was
\* asked for, took for done, had carried out, and noted.
Settled(call, w, g, d, n) ==
  /\ call[1] \in {"download", "import_file"} => call \in d
  /\ call[1] = "place" /\ "place" \in w => call \in g \/ <<"place", 0>> \in n
  /\ call[1] = "simplify" /\ {"simplify", "over_budget"} \subseteq w =>
       (<<"measure", call[2]>> \in g => call \in d \cup n)
  /\ call[1] = "organize" /\ "organize" \in w => call \in d \cup n

FirstCalls == {<<"download", 0>>, <<"import_file", 0>>}

Progress(k) ==
  \A j \in 1..Len(ImportPlan) :
    j < todo[k] => Settled(ImportPlan[j], wants[k], got[k], did[k], noted[k])

\* How far a run has come that is no script, that reports, or that failed.
Extent(k) ==
  /\ pc[k] = "new" \/ cmd[k].kind # "script" => todo[k] = 1
  /\ cmd[k].plan = "import" /\ todo[k] <= 2 => did[k] \subseteq FirstCalls
  /\ outcome[k] = "report" => todo[k] > Len(Plan(k))
  /\ outcome[k] = "error" /\ cmd[k].plan = "import" => todo[k] <= 2

\* Nothing is done before the first call, nothing renamed without a picture.
Origin(k) ==
  /\ pc[k] = "new" => did[k] = {}
  /\ \A o \in Objects : <<"rename", o>> \in did[k] => <<"capture", o>> \in got[k]

Honest(k) ==
  /\ cmd[k].plan = "import" => Progress(k)
  /\ Extent(k)
  /\ Origin(k)

SInv == ScriptTyped /\ \A k \in Invocations : Honest(k)

----------------------------------------------------------------------------
(* The steps of a script.                                                  *)

\* What is settled stays so while more is known, but for a measurement that
\* would make a simplification due.
LEMMA SettledGrows ==
  ASSUME NEW call, NEW w, NEW g, NEW d, NEW n, NEW g2, NEW d2, NEW n2,
         Settled(call, w, g, d, n),
         g \subseteq g2, d \subseteq d2, n \subseteq n2,
         call[1] = "simplify" => (<<"measure", call[2]>> \in g2 => <<"measure", call[2]>> \in g)
  PROVE  Settled(call, w, g2, d2, n2)
BY DEF Settled

\* The call that a script makes next, or its end, leaves the client alone.
Advance(i) == Skip(i) \/ CallSucceeds(i) \/ CallRefused(i) \/ CallFails(i)

\* A step only adds the call in hand, or the name it is noted under.
LEMMA AdvanceAdds ==
  ASSUME NEW i \in Invocations, ScriptTyped, Advance(i)
  PROVE  /\ UNCHANGED <<pc, cmd, outcome, wants>>
         /\ Scripting(i) /\ ~Finished(i)
         /\ todo' = [todo EXCEPT ![i] = @ + 1]
         /\ ScriptTyped'
         /\ \A k \in Invocations \ {i} :
              got'[k] = got[k] /\ did'[k] = did[k] /\ noted'[k] = noted[k]
         /\ got[i] \subseteq got'[i] /\ got'[i] \subseteq got[i] \cup {Call(i)}
         /\ did[i] \subseteq did'[i] /\ did'[i] \subseteq did[i] \cup {Call(i)}
         /\ noted[i] \subseteq noted'[i]
<1> USE DEF ScriptTyped, Step, CanCall
<1>1. CASE Skip(i)
  BY <1>1 DEF Skip, clientVars
<1>2. CASE CallSucceeds(i)
  BY <1>2 DEF CallSucceeds, clientVars
<1>3. CASE CallRefused(i)
  BY <1>3 DEF CallRefused, clientVars
<1>4. CASE CallFails(i)
  BY <1>4 DEF CallFails, MayHaveRun, clientVars
<1>5. QED
  BY <1>1, <1>2, <1>3, <1>4 DEF Advance

\* The call that an import leaves behind is settled.
LEMMA CallIsSettled ==
  ASSUME NEW i \in Invocations, ScriptTyped, Advance(i)
  PROVE  Settled(Call(i), wants[i], got'[i], did'[i], noted'[i])
<1> USE DEF ScriptTyped
<1>1. CASE Skip(i)
  <2>1. ~Due(i) /\ got'[i] = got[i] /\ did'[i] = did[i] /\ noted'[i] = noted[i]
    BY <1>1 DEF Skip
  <2>2. Call(i)[1] \notin {"download", "import_file"}
    BY <2>1 DEF Due
  <2>3. Call(i)[1] = "place" => ~("place" \in wants[i]) \/ <<"place", 0>> \in noted[i]
    BY <2>1 DEF Due
  <2>4. Call(i)[1] = "simplify" =>
          ~("over_budget" \in wants[i]) \/ <<"measure", Call(i)[2]>> \notin got[i]
    BY <2>1 DEF Due
  <2>5. Call(i)[1] = "organize" => "organize" \notin wants[i]
    BY <2>1 DEF Due
  <2>6. QED
    BY <2>1, <2>2, <2>3, <2>4, <2>5 DEF Settled
<1>2. CASE CallSucceeds(i)
  <2>1. Call(i) \in got'[i] /\ Call(i) \in did'[i]
    BY <1>2 DEF CallSucceeds
  <2>2. QED
    BY <2>1 DEF Settled
<1>3. CASE CallRefused(i)
  <2>1. Call(i)[1] \notin {"download", "import_file"}
    BY <1>3 DEF CallRefused, Required
  <2>2. Call(i)[1] = "place" => Call(i) \in got'[i]
    BY <1>3 DEF CallRefused
  <2>3. Call(i)[1] \in {"simplify", "organize"} => Call(i) \in noted'[i]
    BY <1>3 DEF CallRefused, Notes
  <2>4. QED
    BY <2>1, <2>2, <2>3 DEF Settled
<1>4. CASE CallFails(i)
  <2>1. Call(i)[1] \notin {"download", "import_file"}
    BY <1>4 DEF CallFails, Required
  <2>2. Call(i)[1] = "place" => <<"place", 0>> \in noted'[i]
    BY <1>4 DEF CallFails, Notes
  <2>3. Call(i)[1] \in {"simplify", "organize"} => Call(i) \in noted'[i]
    BY <1>4 DEF CallFails, Notes
  <2>4. QED
    BY <2>1, <2>2, <2>3 DEF Settled
<1>5. QED
  BY <1>1, <1>2, <1>3, <1>4 DEF Advance

\* A run that a step leaves alone stays honest.
LEMMA UntouchedHonest ==
  ASSUME NEW k \in Invocations, Honest(k),
         pc'[k] = pc[k], cmd'[k] = cmd[k], outcome'[k] = outcome[k],
         wants'[k] = wants[k], todo'[k] = todo[k], got'[k] = got[k],
         did'[k] = did[k], noted'[k] = noted[k]
  PROVE  Honest(k)'
BY DEF Honest, Progress, Extent, Origin, Plan

\* A call that is made, or passed over, keeps its script honest.
LEMMA AdvanceHonest ==
  ASSUME NEW i \in Invocations, ScriptTyped, Honest(i), Advance(i),
         outcome[i] = "none"
  PROVE  Honest(i)'
<1> USE DEF ScriptTyped
<1>1. /\ pc'[i] = "ready" /\ pc[i] = "ready" /\ cmd' = cmd /\ cmd[i].kind = "script"
      /\ outcome'[i] = "none" /\ wants' = wants /\ ~Finished(i)
      /\ todo'[i] = todo[i] + 1
      /\ got[i] \subseteq got'[i] /\ got'[i] \subseteq got[i] \cup {Call(i)}
      /\ did[i] \subseteq did'[i] /\ did'[i] \subseteq did[i] \cup {Call(i)}
      /\ noted[i] \subseteq noted'[i]
  BY AdvanceAdds DEF Scripting
<1>2. ASSUME cmd[i].plan = "import"
      PROVE  Call(i) = ImportPlan[todo[i]] /\ todo[i] \in 1..Len(ImportPlan)
  <2>1. Plan(i) = ImportPlan
    BY <1>2 DEF Plan
  <2>2. Len(ImportPlan) \in Nat
    BY ImportLayout, NumObjectsAssumption DEF N
  <2>3. QED
    BY <1>1, <2>1, <2>2 DEF Call, Finished
<1>3. ASSUME cmd[i].plan = "import", NEW j \in 1..Len(ImportPlan), j < todo[i] + 1
      PROVE  Settled(ImportPlan[j], wants[i], got'[i], did'[i], noted'[i])
  <2>1. CASE j = todo[i]
    BY <1>2, <1>3, <2>1, CallIsSettled
  <2>2. CASE j < todo[i]
    <3>1. Settled(ImportPlan[j], wants[i], got[i], did[i], noted[i])
      BY <1>3, <2>2 DEF Honest, Progress
    <3>2. ASSUME ImportPlan[j][1] = "simplify"
          PROVE  Call(i)[1] # "measure"
      <4>1. N \in Nat /\ todo[i] \in Nat
        BY NumObjectsAssumption DEF N
      <4>2. j > 2 + 2 * N
        BY <1>3, <3>2, ImportOrder
      <4>3. ImportPlan[todo[i]][1] = "measure" => todo[i] <= 2 + 2 * N
        BY <1>2, <1>3, ImportOrder
      <4>4. QED
        BY <1>2, <1>3, <2>2, <4>1, <4>2, <4>3
    <3>3. ASSUME ImportPlan[j][1] = "simplify",
                 <<"measure", ImportPlan[j][2]>> \in got'[i]
          PROVE  <<"measure", ImportPlan[j][2]>> \in got[i]
      <4>1. Call(i) # <<"measure", ImportPlan[j][2]>>
        BY <3>2, <3>3
      <4>2. QED
        BY <1>1, <3>3, <4>1
    <3>4. QED
      BY <1>1, <3>1, <3>3, SettledGrows
  <2>3. QED
    BY <1>3, <2>1, <2>2
<1>4. cmd[i].plan = "import" => Progress(i)'
  BY <1>1, <1>3 DEF Progress
<1>5. ASSUME cmd[i].plan = "import", todo'[i] <= 2
      PROVE  did'[i] \subseteq FirstCalls
  <2>1. todo[i] = 1
    BY <1>1, <1>5
  <2>2. Call(i) \in FirstCalls
    BY <1>2, <1>5, <2>1, ImportLayout DEF FirstCalls
  <2>3. did[i] \subseteq FirstCalls
    BY <1>5, <2>1 DEF Honest, Extent
  <2>4. QED
    BY <1>1, <2>2, <2>3
<1>6. Extent(i)'
  BY <1>1, <1>5 DEF Extent
<1>7. ASSUME NEW o \in Objects, <<"rename", o>> \in did'[i]
      PROVE  <<"capture", o>> \in got'[i]
  <2>1. CASE <<"rename", o>> \in did[i]
    BY <1>1, <2>1 DEF Honest, Origin
  <2>2. CASE <<"rename", o>> \notin did[i]
    <3>1. Call(i) = <<"rename", o>> /\ Call(i) \in did'[i] /\ Call(i) \notin did[i]
      BY <1>1, <1>7, <2>2
    <3>2. Due(i)
      BY <3>1 DEF Advance, Skip, CallSucceeds, CallRefused, CallFails, CanCall
    <3>3. <<"capture", o>> \in got[i]
      BY <3>1, <3>2 DEF Due
    <3>4. QED
      BY <1>1, <3>3
  <2>3. QED
    BY <2>1, <2>2
<1>8. Origin(i)'
  BY <1>1, <1>7 DEF Origin
<1>9. QED
  BY <1>1, <1>4, <1>6, <1>8 DEF Honest

\* A run that begins has its whole plan before it.
LEMMA InvokeHonest ==
  ASSUME NEW i \in Invocations, NEW c \in Classes, ScriptTyped, Typed, PlacedAt(i),
         Honest(i), Invoke(i, c)
  PROVE  /\ Honest(i)' /\ ScriptTyped'
         /\ \A k \in Invocations \ {i} : wants'[k] = wants[k]
<1> USE DEF ScriptTyped, Typed
<1>1. /\ pc[i] = "new" /\ todo[i] = 1 /\ did[i] = {}
      /\ UNCHANGED <<todo, got, did, noted>>
  BY DEF Invoke, Honest, Extent, Origin
<1>2. outcome'[i] \in {outcome[i], "help", "usage", "config", "stdin"}
  BY InvokeStarts DEF StartsRun, Return
<1>3. DOMAIN wants' = Invocations /\ \A k \in Invocations \ {i} : wants'[k] = wants[k]
  BY DEF Invoke
<1>4. Progress(i)'
  <2>1. todo'[i] = 1 /\ \A j \in 1..Len(ImportPlan) : ~(j < 1)
    BY <1>1
  <2>2. QED
    BY <2>1 DEF Progress
<1>5. outcome[i] = "none"
  BY <1>1 DEF PlacedAt, Placed
<1>6. Extent(i)' /\ Origin(i)'
  BY <1>1, <1>2, <1>5 DEF Extent, Origin, Honest, FirstCalls
<1>7. QED
  BY <1>1, <1>3, <1>4, <1>6 DEF Honest

\* A script that ends was as far as its outcome says.
LEMMA EndHonest ==
  ASSUME NEW i \in Invocations, ScriptTyped, Typed, Honest(i),
         GiveUp(i) \/ NoVerdict(i) \/ Report(i)
  PROVE  /\ Honest(i)' /\ ScriptTyped'
         /\ UNCHANGED <<cmd, wants, todo, got, noted>>
         /\ \A k \in Invocations \ {i} : did'[k] = did[k]
<1> USE DEF ScriptTyped, Typed
<1>1. CASE GiveUp(i)
  <2>1. /\ UNCHANGED <<cmd, wants, todo, got, noted>>
        /\ \A k \in Invocations \ {i} : did'[k] = did[k]
        /\ DOMAIN did' = Invocations
        /\ did[i] \subseteq did'[i] /\ did'[i] \subseteq did[i] \cup {Call(i)}
        /\ pc[i] = "ready" /\ pc'[i] = "done" /\ outcome'[i] = "error"
        /\ cmd[i].kind = "script" /\ Call(i)[1] \in Required /\ ~Finished(i)
    BY <1>1 DEF GiveUp, MayHaveRun, CanCall, Scripting, Return
  <2>2. ASSUME cmd[i].plan = "import"
        PROVE  todo[i] <= 2 /\ Call(i) \in FirstCalls
    <3>1. Plan(i) = ImportPlan /\ Len(ImportPlan) \in Nat
      BY <2>2, ImportLayout, NumObjectsAssumption DEF Plan, N
    <3>2. todo[i] \in 1..Len(ImportPlan) /\ Call(i) = ImportPlan[todo[i]]
      BY <2>1, <3>1 DEF Finished, Call
    <3>3. todo[i] <= 2
      BY <2>1, <3>2, ImportOrder
    <3>4. todo[i] \in {1, 2}
      BY <3>3
    <3>5. QED
      BY <3>2, <3>3, <3>4, ImportLayout DEF FirstCalls
  <2>3. ASSUME cmd[i].plan = "import", NEW j \in 1..Len(ImportPlan), j < todo[i]
        PROVE  Settled(ImportPlan[j], wants[i], got[i], did'[i], noted[i])
    <3>1. Settled(ImportPlan[j], wants[i], got[i], did[i], noted[i])
      BY <2>3 DEF Honest, Progress
    <3>2. QED
      BY <2>1, <3>1, SettledGrows
  <2>4. cmd'[i].plan = "import" => Progress(i)'
    BY <2>1, <2>3 DEF Progress
  <2>5. Extent(i)'
    BY <2>1, <2>2 DEF Extent, Honest
  <2>6. Origin(i)'
    <3>1. \A o \in Objects : Call(i) # <<"rename", o>>
      BY <2>1 DEF Required
    <3>2. QED
      BY <2>1, <3>1 DEF Origin, Honest
  <2>7. QED
    BY <2>1, <2>4, <2>5, <2>6 DEF Honest
<1>2. CASE NoVerdict(i) \/ Report(i)
  <2>1. /\ UNCHANGED <<cmd, wants, todo, got, did, noted>>
        /\ pc'[i] = "done" /\ cmd[i].kind = "script"
        /\ outcome'[i] = "no_report" \/ (outcome'[i] = "report" /\ Finished(i))
    BY <1>2 DEF NoVerdict, Report, Scripting, Return, scriptVars
  <2>2. Plan(i)' = Plan(i)
    BY <2>1 DEF Plan
  <2>3. Extent(i)'
    BY <2>1, <2>2 DEF Extent, Honest, Finished
  <2>4. Origin(i)' /\ (cmd[i].plan = "import" => Progress(i)')
    BY <2>1 DEF Origin, Honest, Progress
  <2>5. QED
    BY <2>1, <2>3, <2>4 DEF Honest
<1>3. QED
  BY <1>1, <1>2

\* What the client, the other end and the world do changes no script.
LEMMA ElsewhereHonest ==
  ASSUME IInv, NEW k \in Invocations, Honest(k), UNCHANGED scriptVars,
         \/ \E i \in Invocations : DoInternal(i) \/ OtherEnd(i)
         \/ World \/ UNCHANGED vars
  PROVE  Honest(k)'
<1> USE DEF IInv, Typed
<1>1. UNCHANGED <<cmd, wants, todo, got, did, noted>>
  BY DEF DoInternal, OtherEnd, World, HitCache, ShortCircuit, PrintRequest,
    NoEquivalent, Unreachable, CallBridgeMethod, SendHttp, Put, Succeed, Refused,
    NetworkError, StoreResponse, Serve, ServeOrphan, Stop, Start, Age, vars,
    clientVars, scriptVars
<1>2. ASSUME NEW i \in Invocations, DoInternal(i) \/ OtherEnd(i)
      PROVE  /\ pc'[k] = "new" => pc[k] = "new"
             /\ outcome'[k] = "report" => outcome[k] = "report"
             /\ outcome'[k] = "error" => outcome[k] = "error" \/ pc[k] = "waiting"
  <2>1. \/ UNCHANGED <<pc, outcome>>
        \/ /\ pc' = [pc EXCEPT ![i] = "waiting"] /\ UNCHANGED outcome
        \/ /\ pc' = [pc EXCEPT ![i] = "store"] /\ UNCHANGED outcome
        \/ /\ pc' = [pc EXCEPT ![i] = "resend"] /\ UNCHANGED outcome
        \/ \E x \in Outcomes \ {"report", "error"} : Return(i, x)
        \/ pc[i] = "waiting" /\ Return(i, "error")
    BY <1>2 DEF DoInternal, OtherEnd, HitCache, ShortCircuit, PrintRequest,
      NoEquivalent, Unreachable, CallBridgeMethod, SendHttp, Put, Succeed, Refused,
      NetworkError, StoreResponse, Serve, ServeOrphan, RetryOr, Arrived, Outcomes,
      HttpReplies, Successes
  <2>2. QED
    BY <2>1 DEF Return
<1>3. /\ pc'[k] = "new" => pc[k] = "new"
      /\ outcome'[k] = "report" => outcome[k] = "report"
      /\ outcome'[k] = "error" => outcome[k] = "error" \/ pc[k] = "waiting"
  BY <1>2 DEF World, Stop, Start, Age, vars, clientVars
<1>4. pc[k] = "waiting" => cmd[k].kind # "script"
  BY DEF Sound, SoundAt, PlacedAt, Placed, AllowedAt, Allowed, Licensed
<1>5. outcome'[k] = "error" /\ cmd[k].plan = "import" => todo[k] <= 2
  BY <1>3, <1>4 DEF Honest, Extent
<1>6. Extent(k)'
  BY <1>1, <1>3, <1>5 DEF Honest, Extent, Plan
<1>7. QED
  BY <1>1, <1>3, <1>6 DEF Honest, Progress, Origin

\* Every step keeps every script honest.
LEMMA SInvStep ==
  ASSUME IInv, SInv, [Next]_vars
  PROVE  SInv'
<1> USE DEF SInv
<1>1. ASSUME NEW i \in Invocations, NEW c \in Classes, Invoke(i, c)
      PROVE  SInv'
  <2>1. Honest(i)' /\ ScriptTyped' /\ \A k \in Invocations \ {i} : wants'[k] = wants[k]
    BY <1>1, InvokeHonest DEF IInv, Sound, SoundAt
  <2>2. UNCHANGED <<todo, got, did, noted>>
    BY <1>1 DEF Invoke
  <2>3. ASSUME NEW k \in Invocations \ {i}
        PROVE  pc'[k] = pc[k] /\ cmd'[k] = cmd[k] /\ outcome'[k] = outcome[k]
    <3>1. Client(i)
      BY <1>1, InvokeStarts DEF Client
    <3>2. QED
      BY <3>1, OthersUntouched DEF Untouched, IInv
  <2>4. \A k \in Invocations \ {i} : Honest(k)'
    BY <2>1, <2>2, <2>3, UntouchedHonest
  <2>5. QED
    BY <2>1, <2>4
<1>2. ASSUME NEW i \in Invocations, Advance(i)
      PROVE  SInv'
  <2>1. Scripting(i)
    BY <1>2, AdvanceAdds
  <2>2. outcome[i] = "none"
    BY <2>1 DEF Scripting, IInv, Sound, SoundAt, PlacedAt, Placed
  <2>3. Honest(i)'
    BY <1>2, <2>2, AdvanceHonest
  <2>4. \A k \in Invocations \ {i} : Honest(k)'
    BY <1>2, AdvanceAdds, UntouchedHonest DEF ScriptTyped
  <2>5. ScriptTyped'
    BY <1>2, AdvanceAdds
  <2>6. QED
    BY <2>3, <2>4, <2>5
<1>3. ASSUME NEW i \in Invocations, GiveUp(i) \/ NoVerdict(i) \/ Report(i)
      PROVE  SInv'
  <2>1. /\ Honest(i)' /\ ScriptTyped'
        /\ UNCHANGED <<cmd, wants, todo, got, noted>>
        /\ \A k \in Invocations \ {i} : did'[k] = did[k]
    BY <1>3, EndHonest DEF IInv
  <2>2. ASSUME NEW k \in Invocations \ {i}
        PROVE  pc'[k] = pc[k] /\ outcome'[k] = outcome[k]
    <3>1. Client(i)
      BY <1>3, Quits DEF Client
    <3>2. QED
      BY <3>1, OthersUntouched DEF Untouched, IInv
  <2>3. \A k \in Invocations \ {i} : Honest(k)'
    BY <2>1, <2>2, UntouchedHonest
  <2>4. QED
    BY <2>1, <2>3
<1>4. ASSUME UNCHANGED scriptVars,
             \/ \E i \in Invocations : DoInternal(i) \/ OtherEnd(i)
             \/ World \/ UNCHANGED vars
      PROVE  SInv'
  <2>1. \A k \in Invocations : Honest(k)'
    BY <1>4, ElsewhereHonest
  <2>2. ScriptTyped'
    BY <1>4 DEF ScriptTyped, scriptVars
  <2>3. QED
    BY <2>1, <2>2
<1>5. QED
  BY <1>1, <1>2, <1>3, <1>4 DEF Next, Act, RunScript, Advance, vars

\* Nothing was done at the start.
LEMMA SInvInit == Init => SInv
<1> SUFFICES ASSUME Init PROVE SInv
  OBVIOUS
<1>1. ScriptTyped
  BY DEF Init, InitScripts, Each, ScriptTyped
<1>2. ASSUME NEW k \in Invocations
      PROVE  Honest(k)
  <2>1. /\ pc[k] = "new" /\ outcome[k] = "none" /\ todo[k] = 1 /\ did[k] = {}
    BY DEF Init, InitClient, InitScripts, Each
  <2>2. Progress(k)
    BY <2>1 DEF Progress
  <2>3. QED
    BY <2>1, <2>2 DEF Honest, Extent, Origin, FirstCalls
<1>3. QED
  BY <1>1, <1>2 DEF SInv

\* ReportIsTrue: what a script was asked for was done, or is named as failed,
\* or could not be measured, and an error means that nothing followed it.
THEOREM ReportIsTrueHolds == Spec => []ReportIsTrue
<1>1. Init => SInv
  BY SInvInit
<1>2. IInv /\ SInv /\ [Next]_vars => SInv'
  BY SInvStep
<1>3. SInv => ReportIsTrue
  <2> SUFFICES ASSUME SInv, NEW i \in Invocations
               PROVE  /\ outcome[i] = "report" /\ cmd[i].plan = "import" =>
                           /\ <<"import_file", 0>> \in did[i]
                           /\ "organize" \in wants[i] =>
                                <<"organize", 0>> \in did[i] \cup noted[i]
                           /\ {"simplify", "over_budget"} \subseteq wants[i] =>
                                \A o \in Objects :
                                  <<"measure", o>> \in got[i] =>
                                    <<"simplify", o>> \in did[i] \cup noted[i]
                           /\ "place" \in wants[i] /\ <<"place", 0>> \notin noted[i] =>
                                \A o \in Objects : <<"place", o>> \in got[i]
                      /\ outcome[i] = "error" /\ cmd[i].plan = "import" =>
                           did[i] \subseteq FirstCalls
                      /\ \A o \in Objects :
                           <<"rename", o>> \in did[i] => <<"capture", o>> \in got[i]
    BY DEF ReportIsTrue, FirstCalls
  <2>1. Honest(i)
    BY DEF SInv
  <2>2. outcome[i] = "error" /\ cmd[i].plan = "import" => did[i] \subseteq FirstCalls
    BY <2>1 DEF Honest, Extent
  <2>3. \A o \in Objects : <<"rename", o>> \in did[i] => <<"capture", o>> \in got[i]
    BY <2>1 DEF Honest, Origin
  <2>4. ASSUME outcome[i] = "report", cmd[i].plan = "import"
        PROVE  /\ <<"import_file", 0>> \in did[i]
               /\ "organize" \in wants[i] => <<"organize", 0>> \in did[i] \cup noted[i]
               /\ {"simplify", "over_budget"} \subseteq wants[i] =>
                    \A o \in Objects :
                      <<"measure", o>> \in got[i] =>
                        <<"simplify", o>> \in did[i] \cup noted[i]
               /\ "place" \in wants[i] /\ <<"place", 0>> \notin noted[i] =>
                    \A o \in Objects : <<"place", o>> \in got[i]
    <3>1. todo[i] > Len(ImportPlan) /\ todo[i] \in Nat
      BY <2>1, <2>4 DEF Honest, Extent, Plan, SInv, ScriptTyped
    <3>2. N \in Nat \ {0} /\ Objects = 1..N
      BY NumObjectsAssumption DEF N, Objects
    <3>3. ASSUME NEW j \in 1..Len(ImportPlan)
          PROVE  Settled(ImportPlan[j], wants[i], got[i], did[i], noted[i])
      BY <2>1, <2>4, <3>1, <3>2, ImportLayout DEF Honest, Progress
    <3>4. /\ Settled(<<"import_file", 0>>, wants[i], got[i], did[i], noted[i])
          /\ Settled(<<"organize", 0>>, wants[i], got[i], did[i], noted[i])
      <4>1. 2 \in 1..Len(ImportPlan) /\ 3 + 3 * N \in 1..Len(ImportPlan)
        BY <3>2, ImportLayout
      <4>2. QED
        BY <3>3, <4>1, ImportLayout
    <3>5. ASSUME NEW o \in Objects
          PROVE  /\ Settled(<<"place", o>>, wants[i], got[i], did[i], noted[i])
                 /\ Settled(<<"simplify", o>>, wants[i], got[i], did[i], noted[i])
      <4>1. 2 + o \in 1..Len(ImportPlan) /\ 2 + 2 * N + o \in 1..Len(ImportPlan)
        BY <3>2, ImportLayout
      <4>2. QED
        BY <3>3, <4>1, ImportLayout
    <3>6. QED
      BY <3>4, <3>5 DEF Settled
  <2>5. QED
    BY <2>2, <2>3, <2>4
<1>4. QED
  BY <1>1, <1>2, <1>3, CliInvariant, PTL DEF Spec
=============================================================================
