--------------------------- MODULE CliInvocation ---------------------------
(***************************************************************************)
(* Runs of mcp-blender-pp-cli, from the arguments to the exit code. The    *)
(* runs are processes: they overlap in any way and meet at Blender and in  *)
(* the response cache on disk.                                             *)
(***************************************************************************)
EXTENDS BridgeScripts

CONSTANT Varied  \* bound: the runs that may be scripts or have options

ASSUME VariedAssumption == Varied \subseteq Invocations

vars == <<clientVars, scriptVars>>

Init == InitClient /\ InitScripts

----------------------------------------------------------------------------
(* The start of a run.                                                     *)

\* How a run can end before its request: without its required input, which
\* --dry-run does not ask for, a command prints help or is a usage error;
\* newClient fails if the configuration cannot be loaded, which doctor only
\* reports; a body from --stdin may not be read or parsed.
Refusals(c, mode) ==
  (IF c.input = "optional" \/ mode = "dry" THEN {}
   ELSE IF c.input = "guarded" THEN {"help", "usage"} ELSE {"help"})
  \cup (IF c.kind = "probe" THEN {} ELSE {"config"})
  \cup (IF c.kind \in {"mutate", "query"} THEN {"stdin"} ELSE {})

\* The options that make a difference: only a probe reads the cache, only a
\* mutation over HTTP can carry a key, and CallBridge knows no option.
OptionsOf(c) ==
  {o \in Options :
     /\ o.noCache => c.kind = "probe"
     /\ o.key => IsMutation(c) /\ transport = "http"}

\* The class of a command whose input has been checked.
Given(c) == [c EXCEPT !.input = "optional"]

\* RunE up to the request.
Invoke(i, c) ==
  /\ pc[i] = "new"
  /\ c.kind = "script" => i \in Varied
  /\ cmd' = [cmd EXCEPT ![i] = Given(c)]
  /\ \E o \in OptionsOf(c) :
       /\ o # NoOptions => i \in Varied
       /\ opt' = [opt EXCEPT ![i] = IF c.kind = "script" THEN NoOptions ELSE o]
       /\ \/ \E x \in Refusals(c, o.mode) : Return(i, x) /\ UNCHANGED wants
          \/ \E w \in SUBSET Wishes(c) :
               /\ wants' = [wants EXCEPT ![i] = w]
               /\ pc' = [pc EXCEPT ![i] = "ready"]
               /\ UNCHANGED outcome
  /\ UNCHANGED <<worldVars, cacheVars, requestVars, todo, got, did, noted>>

Act(i) ==
  \/ \E c \in Classes : Invoke(i, c)
  \/ (DoInternal(i) \/ OtherEnd(i)) /\ UNCHANGED scriptVars
  \/ RunScript(i)

Next ==
  \/ \E i \in Invocations : Act(i)
  \/ World /\ UNCHANGED scriptVars

Spec == Init /\ [][Next]_vars

----------------------------------------------------------------------------
(* The end of a run.                                                       *)

\* What else the exit code depends on: flags, whether the output was written
\* and delivered (--deliver), and the text of an error. Errors are told apart
\* by "HTTP 409" and the like in their text, which holds the body of the answer;
\* the body may mention a status of its own.
FlagsOf(c) ==
  IF c.kind = "probe" THEN {"fail-on"} ELSE {"allow-partial-failure", "idempotent"}
Answered == {"conflict", "denied", "missing", "failed", "error"}
Mentions == {"none", "conflict", "denied", "missing", "limited"}
Finishes(i) ==
  [flags : SUBSET FlagsOf(cmd[i]),
   output : {"delivered", "written", "lost"},
   mention : IF outcome[i] \in Answered THEN Mentions ELSE {"none"}]

\* detectPartialFailure is part of the generated template only.
PartialFailure(i) == outcome[i] = "partial" /\ cmd[i].kind = "mutate"

\* doctor: a call that returns no error, and any HTTP status, means that
\* someone answered.
SaysReachable(i) ==
  /\ cmd[i].kind = "probe"
  /\ outcome[i] \in HttpReplies \cup {"cached", "dry_run"}

\* Errors that are classified. The text of a RateLimitedError names no status.
Failures == Answered \cup {"limited", "network", "no_equivalent"}
Named(i, e) == IF outcome[i] \in Answered THEN {outcome[i], e.mention} ELSE {}

ErrorCode(i, e) ==
  CASE "conflict" \in Named(i, e) -> 5
    [] "denied" \in Named(i, e) -> 4
    [] "missing" \in Named(i, e) -> 3
    [] "limited" \in Named(i, e) -> 7
    [] OTHER -> 5

\* --idempotent turns a conflict into a no-op.
Noop(i, e) ==
  /\ "conflict" \in Named(i, e)
  /\ "idempotent" \in e.flags /\ e.output # "lost"

\* The code of the error that RunE returns; 0 if it returns none.
RunECode(i, e) ==
  LET x == outcome[i]
  IN  CASE cmd[i].kind = "probe" ->
             IF e.output = "lost" \/ ("fail-on" \in e.flags /\ ~SaysReachable(i))
             THEN 1 ELSE 0
        [] x = "help" \/ Noop(i, e) -> 0
        [] x = "usage" -> 2
        [] x = "config" -> 10
        [] x \in Failures -> ErrorCode(i, e)
        [] x = "stdin" \/ e.output = "lost" -> 1
        [] PartialFailure(i) /\ "allow-partial-failure" \notin e.flags -> 6
        [] OTHER -> 0

ExitCode(i, e) ==
  IF RunECode(i, e) = 0 /\ e.output # "delivered" THEN 1 ELSE RunECode(i, e)

\* "success" of the JSON envelope of a generated command.
EnvelopeSuccess(i, e) ==
  /\ cmd[i].kind = "mutate"
  /\ \/ outcome[i] \in {"ok", "declined"}
     \/ outcome[i] = "partial" /\ "allow-partial-failure" \in e.flags

----------------------------------------------------------------------------
(* Properties.                                                             *)

\* The variables have the values that the code can give them.
TypeOK ==
  /\ transport \in {"ws", "http"}
  /\ up \in BOOLEAN /\ longDown \in BOOLEAN
  /\ version \in Nat /\ reported \in Nat /\ epoch \in Nat
  /\ cache.kind \in {"none", "fresh", "old"}
  /\ pc \in [Invocations ->
               {"new", "ready", "waiting", "resend", "store", "done"}]
  /\ opt \in [Invocations -> Options]
  /\ wire \in [Invocations ->
                 {"none", "queued", "broken"} \cup HttpReplies \cup
                 BridgeReplies]
  /\ attempt \in [Invocations -> 0..MaxRetries]
  /\ outcome \in [Invocations -> Outcomes]
  /\ \A i \in Invocations :
       /\ orphans[i] \in Nat /\ sent[i] \in Nat /\ ran[i] \in Nat
       /\ (pc[i] = "done") <=> (outcome[i] # "none")
       /\ pc[i] # "new" => cmd[i] \in {Given(c) : c \in Classes}

\* A preview, and a mutation in verify mode, sends nothing; a mutation that
\* cannot be replayed safely is sent once, whatever the network does; and
\* the other end carries nothing out that was not sent.
SendsAreLicensed ==
  \A i \in Invocations :
    pc[i] # "new" =>
      LET preview == opt[i].mode = "dry"
          gated == opt[i].mode = "verify" /\ IsMutation(cmd[i])
          replayable == ~IsMutation(cmd[i]) \/ opt[i].key
      IN  /\ preview \/ gated => sent[i] = 0
          /\ replayable => sent[i] <= MaxRetries + 1
          /\ ~replayable => sent[i] <= 1
          /\ ran[i] + orphans[i] <= sent[i]

\* What the exit code and the envelope of a mutation that carries no key tell of
\* it is so. 2 and 10: nothing was sent. 3, 4 and 7: nothing was done, unless
\* the code was taken from a status that the body of another error mentions.
\* 0, 6 and a success in the envelope: it was done, and only once, unless the
\* answer itself says that the tool declined, nothing was to be sent, or a
\* conflict, or a mention of one, was to be a no-op. 1 and 5 leave it open.
ExitCodesTellTheTruth ==
  \A i \in Invocations :
    pc[i] = "done" /\ IsMutation(cmd[i]) /\ ~opt[i].key =>
      \A e \in Finishes(i) :
        LET code == ExitCode(i, e)
        IN  /\ code \in {2, 10} => sent[i] = 0
            /\ code \in {3, 4, 7} /\ e.mention = "none" => ran[i] = 0
            /\ code = 6 => ran[i] = 1
            /\ EnvelopeSuccess(i, e) => ran[i] = 1 \/ outcome[i] = "declined"
            /\ code = 0 =>
                 \/ ran[i] = 1 \/ outcome[i] = "declined"
                 \/ sent[i] = 0 /\ outcome[i] \in {"help", "synthetic", "dry_run"}
                 \/ Noop(i, e) /\ (e.mention = "conflict" \/ ran[i] = 0)

\* A cached response shows every mutation reported over HTTP, unless its
\* own request was under way while that mutation was reported.
FreshUnlessRaced ==
  cache.kind # "none" /\ ~cache.raced => cache.version >= reported

\* doctor calls a bridge reachable that answered this very run, or that has
\* been gone for no longer than a cached response lives. Only with --dry-run
\* does it say so of a bridge that may be gone for good.
StaleVerdictIsBounded ==
  [][\A i \in Invocations :
       ~SaysReachable(i) /\ SaysReachable(i)' =>
         sent[i] > 0 \/ ~longDown \/ opt[i].mode = "dry"]_vars

\* The report of a script. An import that succeeds has imported; a stage it
\* was asked for was carried out, or is named as failed, or its object could
\* not be measured; a placement that is not named as failed was answered for
\* every object. An error means that nothing after the import was done, and
\* a vision rename only happens to an object whose picture was taken.
ReportIsTrue ==
  \A i \in Invocations :
    /\ outcome[i] = "report" /\ cmd[i].plan = "import" =>
         /\ <<"import_file", 0>> \in did[i]
         /\ "organize" \in wants[i] =>
              <<"organize", 0>> \in did[i] \cup noted[i]
         /\ {"simplify", "over_budget"} \subseteq wants[i] =>
              \A o \in Objects : <<"measure", o>> \in got[i] =>
                                   <<"simplify", o>> \in did[i] \cup noted[i]
         /\ "place" \in wants[i] /\ <<"place", 0>> \notin noted[i] =>
              \A o \in Objects : <<"place", o>> \in got[i]
    /\ outcome[i] = "error" /\ cmd[i].plan = "import" =>
         did[i] \subseteq {<<"download", 0>>, <<"import_file", 0>>}
    /\ \A o \in Objects :
         <<"rename", o>> \in did[i] => <<"capture", o>> \in got[i]
=============================================================================
