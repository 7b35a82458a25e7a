------------------------------ MODULE JobIntake ------------------------------
(***************************************************************************)
(* A request on its way into a worker's graph: checked and shown by the    *)
(* console, sent as the dump of what it parsed, or sent by a caller        *)
(* directly; parsed and composed again by the worker, which then looks up  *)
(* the workflow, stages the inputs, composes the prompt once more and      *)
(* binds the workflow.                                                     *)
(*                                                                         *)
(* The console and the worker each have the envelope registry of the       *)
(* revision they were built from.                                          *)
(***************************************************************************)
EXTENDS TrainedEnvelope, PromptGrammar

CONSTANTS
    Payloads,     \* the requests that callers write
    Ranges,       \* the trained ranges a registry can hold for the model set
    NoRange,      \* the model set is not registered
    Workflows,    \* the hydrated workflows by id: fields they bind, and whether well-formed
    InputKey,     \* the input objects that requests name
    Owned,        \* those under the worker's own principal
    Digest,       \* what an acceptable input object can hold
    MaxReplaced   \* bound: input objects written while the request is on its way

Host == {"console", "worker"}

\* An input object is missing, too large, no image or video, or has a digest.
Unusable == {"missing", "oversized", "odd"}

Field == {"model", "workflow", "mode", "inputs", "width", "height", "frames", "prompt",
          "structured"}

\* A document that the endpoint takes: RequestBase, with Null for an absent field.
Document(p) ==
    /\ DOMAIN p = Field
    /\ {p.width, p.height, p.frames} \subseteq Int \cup {Null}
    /\ Len(p.inputs) \in Nat
    /\ p.structured # Null =>
        /\ p.structured.shots = <<>> \/ Len(p.structured.shots) \in Nat \ {0}
        /\ p.structured.duration \in Int
        /\ \A i \in Indices(p.structured.shots) :
            /\ p.structured.shots[i].cut \in Int \cup {Null}
            /\ p.structured.shots[i].speakers \in Seq(Nat)

ASSUME IntakeAssumption ==
    /\ Owned \subseteq InputKey /\ MaxReplaced \in Nat
    /\ \A r \in Ranges : WellFormed(r)
    /\ NoRange \notin Ranges /\ Digest # {} /\ Digest \cap Unusable = {} /\ Null \notin Int
    /\ \A r \in Ranges : r \in TrainedRange(Int)
    /\ \A p \in Payloads : Document(p)

NoVerdict == [code |-> "none", request |-> Null, text |-> Null]

VARIABLES
    range,    \* the range each host's registry has for the model set
    at,       \* where the request is
    console,  \* what the console answered, NoVerdict for a direct caller
    sent,     \* the input document of the event
    worker,   \* what the handler's validate returned
    contents, \* external: what each input object holds
    replaced,
    staged,   \* the inputs staged in the workspace, by position
    bound     \* the node inputs of the graph that is submitted

intakeVars == <<range, at, console, sent, worker, contents, replaced, staged, bound>>

IntakeInit ==
    /\ range \in [Host -> Ranges \cup {NoRange}]
    /\ at = "new"
    /\ console = NoVerdict /\ worker = NoVerdict
    /\ sent = Null /\ bound = Null
    /\ contents = [k \in InputKey |-> CHOOSE d \in Digest : TRUE]
    /\ replaced = 0
    /\ staged = <<>>

\* apply_trained_defaults; Null stands for an absent dimension too.
Or(value, default) == IF value = Null THEN default ELSE value

Filled(p, r) == [p EXCEPT !.width = Or(@, DefaultWidth(r)), !.height = Or(@, DefaultHeight(r)),
                          !.frames = Or(@, DefaultFrames(r))]

\* Inputs each mode takes; every other key is forbidden.
InputCount == [text |-> {0}, image |-> {1}, reference |-> 1 .. 4]

FieldsHold(p) ==
    /\ p.mode \in DOMAIN InputCount /\ Len(p.inputs) \in InputCount[p.mode]
    /\ p.workflow # "malformed"

OnePromptForm(p) ==
    /\ (p.prompt = Null) # (p.structured = Null)
    /\ p.prompt \notin {"blank", "toolong"}

\* parse_generation_request against the registry of a host.
Parses(p, r) ==
    /\ p.model = "known" /\ r # NoRange
    /\ FieldsHold(p) /\ OnePromptForm(p)
    /\ LET q == Filled(p, r) IN Admitted(r, q.width, q.height, q.frames)

\* resolve_request_prompt: freeform text passes through unvalidated.
PromptCode(q) == IF q.structured = Null THEN "ok" ELSE Composed(q.structured)

PromptText(q) == IF q.structured = Null THEN q.prompt ELSE Wire(q.structured)

\* preflight and validate: parse, then compose and render.
Verdict(p, r) ==
    IF ~Parses(p, r) THEN [NoVerdict EXCEPT !.code = "invalid_request"]
    ELSE LET q == Filled(p, r) IN
         IF PromptCode(q) # "ok" THEN [NoVerdict EXCEPT !.code = PromptCode(q)]
         ELSE [code |-> "ok", request |-> q, text |-> PromptText(q)]

\* Mutant: the document is sent as the caller wrote it.
DumpAsWritten(p, verdict) == p

\* Mutant: the rendered prompt is sent beside the structured one.
DumpRendered(p, verdict) == [verdict.request EXCEPT !.prompt = "text"]

\* model_dump: what was parsed, every key of it.
Dump(p, verdict) == verdict.request

\* generate: a rejected request never reaches the endpoint.
Generate ==
    /\ at = "new"
    /\ \E p \in Payloads :
        /\ console' = Verdict(p, range["console"])
        /\ IF console'.code = "ok" THEN sent' = Dump(p, console') /\ at' = "sent"
           ELSE sent' = Null /\ at' = "refused"
    /\ UNCHANGED <<range, worker, contents, replaced, staged, bound>>

\* A caller of the endpoint that is not the console.
CallDirectly ==
    /\ at = "new"
    /\ \E p \in Payloads : sent' = p
    /\ at' = "sent"
    /\ UNCHANGED <<range, console, worker, contents, replaced, staged, bound>>

\* RunPodRequestHandler.validate.
WorkerValidates ==
    /\ at = "sent"
    /\ worker' = Verdict(sent, range["worker"])
    /\ at' = IF worker'.code = "ok" THEN "validated" ELSE "refused"
    /\ UNCHANGED <<range, console, sent, contents, replaced, staged, bound>>

\* WorkerStartupSteps.workflow: approved, and with bindings.
WorkerStarts ==
    /\ at = "validated"
    /\ at' = IF /\ worker.request.workflow \in DOMAIN Workflows
                /\ Workflows[worker.request.workflow].fields # {} THEN "staging" ELSE "failed"
    /\ UNCHANGED <<range, console, sent, worker, contents, replaced, staged, bound>>

\* Mutant: the digest of the caller is not compared.
StageableAnything(reference) == reference.key \in Owned /\ contents[reference.key] \in Digest

\* InputStager.stage: owned by the principal, downloaded within its bound, with
\* the digest the caller has named, if any, and an image or a video.
Stageable(reference) ==
    /\ reference.key \in Owned
    /\ contents[reference.key] \in Digest
    /\ reference.sha256 \in {Null, contents[reference.key]}

\* One input after the other; the first that fails fails the job.
StageInput ==
    /\ at = "staging"
    /\ Len(staged) < Len(worker.request.inputs)
    /\ LET reference == worker.request.inputs[Len(staged) + 1] IN
        \/ /\ Stageable(reference)
           /\ staged' = Append(staged, contents[reference.key]) /\ UNCHANGED at
        \/ ~Stageable(reference) /\ at' = "failed" /\ UNCHANGED staged
    /\ UNCHANGED <<range, console, sent, worker, contents, replaced, bound>>

InputField == <<"input_0", "input_1", "input_2", "input_3">>

\* The values a binding can name: those of the request, without its structured
\* prompt, the rendered prompt and the staged inputs.
Values ==
    LET inputs == {InputField[i] : i \in 1 .. Len(staged)}
    IN [f \in {"width", "height", "frames", "prompt"} \cup inputs |->
        CASE f = "width" -> worker.request.width
          [] f = "height" -> worker.request.height
          [] f = "frames" -> worker.request.frames
          [] f = "prompt" -> PromptText(worker.request)
          [] OTHER -> staged[CHOOSE i \in 1 .. Len(staged) : InputField[i] = f]]

\* WorkflowBinder.bind: the digest, and a node and a value for every binding.
BindWorkflow ==
    /\ at = "staging"
    /\ Len(staged) = Len(worker.request.inputs)
    /\ LET workflow == Workflows[worker.request.workflow] IN
       IF workflow.wellFormed /\ workflow.fields \subseteq DOMAIN Values
       THEN at' = "bound" /\ bound' = [f \in workflow.fields |-> Values[f]]
       ELSE at' = "failed" /\ UNCHANGED bound
    /\ UNCHANGED <<range, console, sent, worker, contents, replaced, staged>>

\* Somebody writes or removes an input object.
ReplaceInput ==
    /\ replaced < MaxReplaced
    /\ \E k \in InputKey, c \in Digest \cup Unusable :
        c # contents[k] /\ contents' = [contents EXCEPT ![k] = c]
    /\ replaced' = replaced + 1
    /\ UNCHANGED <<range, at, console, sent, worker, staged, bound>>

IntakeNext ==
    \/ Generate \/ CallDirectly \/ WorkerValidates \/ WorkerStarts \/ StageInput
    \/ BindWorkflow \/ ReplaceInput

IntakeSpec == IntakeInit /\ [][IntakeNext]_intakeVars

-----------------------------------------------------------------------------

IntakeTypeOK ==
    /\ range \in [Host -> Ranges \cup {NoRange}]
    /\ at \in {"new", "sent", "validated", "staging", "bound", "refused", "failed"}
    /\ contents \in [InputKey -> Digest \cup Unusable] /\ replaced \in 0 .. MaxReplaced
    /\ staged \in UNION {[1 .. n -> Digest] : n \in 0 .. 4}

\* What the worker binds is what the console showed and derived the job's
\* identity from, even when their registries differ and each of them would fill
\* other dimensions (intake.py:121-168, service.py:87-104, application.py:113-125).
PreviewIsBound ==
    at = "bound" /\ console # NoVerdict =>
        /\ worker.request = console.request
        /\ "prompt" \in DOMAIN bound => bound["prompt"] = console.text
        /\ \A f \in DOMAIN bound \cap {"width", "height", "frames"} : bound[f] = console.request[f]

\* The worker refuses nothing that the console has let through, when they were
\* built from the same registry (intake.py:121: "exactly as the worker's handler
\* validates it").
NoLateRefusal ==
    worker.code # "none" /\ console # NoVerdict /\ range["console"] = range["worker"] =>
        worker.code = "ok"

\* The worker has let the request through.
Passed == at \in {"validated", "staging", "bound"}

\* Whoever sent it, nothing is staged or bound beyond the area and the frames of
\* the worker's own registry, or below what the node can do (contracts.py:168-197).
BoundInEnvelope ==
    Passed =>
        LET r == range["worker"]
            q == worker.request
        IN /\ worker.code = "ok" /\ r # NoRange
           /\ AreaIsCapped(r, q.width, q.height)
           /\ q.width >= MinEdge /\ q.height >= MinEdge
           /\ q.frames \in 1 .. r.maxFrames

\* An input that the caller pinned by its digest is staged with those bytes, in
\* its own position, however the bucket changes on the way; no input of another
\* principal is, and none is missing when the graph is bound (input_staging.py:62-97).
StagedIsNamed ==
    /\ staged # <<>> => at \in {"staging", "bound", "failed"}
    /\ at = "bound" => Len(staged) = Len(worker.request.inputs)
    /\ \A i \in 1 .. Len(staged) : LET reference == worker.request.inputs[i] IN
        /\ reference.key \in Owned
        /\ reference.sha256 # Null => staged[i] = reference.sha256

\* What holds of a request at every step of its way into the graph, together.
IntakeInv == IntakeTypeOK /\ BoundInEnvelope /\ StagedIsNamed

\* A prompt that passed the checks has a wire form: rendering and the keyframe
\* header never refuse it for what the checks are there to find
\* (validation.py:328-418, render.py:87-105, alignment.py:80-92).
ValidIsRenderable ==
    {console.code, worker.code}
        \cap {"unrenderable_vocabulary_value", "alignment_time_outside_duration"} = {}

\* In the text that is bound, speakers are numbered as they are first heard:
\* after any line the ids heard so far are 1 to n (validation.py:157-177).
SpeakersAsHeard ==
    at = "bound" /\ worker.request.structured # Null =>
        LET shots == PromptText(worker.request).shots
            ids == FlattenSeq([i \in DOMAIN shots |-> shots[i].speakers])
            heard(k) == {ids[j] : j \in 1 .. k}
        IN \A k \in DOMAIN ids : heard(k) = 1 .. Cardinality(heard(k))

\* The rendered cut times never run backwards, not even through the rounding to
\* milliseconds, and the closing mark is not before the last of them
\* (render.py:30-35, alignment.py:80-92).
CutsRunForward ==
    at = "bound" /\ worker.request.structured # Null =>
        LET text == PromptText(worker.request)
        IN \A i \in 2 .. Len(text.shots) :
            /\ i > 2 => text.shots[i - 1].opens <= text.shots[i].opens
            /\ text.mark # Null => text.shots[i].opens <= text.mark

\* The text that is bound reads in the order in which it is played.
WireReadsForward == SpeakersAsHeard /\ CutsRunForward

\* tests/console/test_intake_preflight.py:100: "Every refusal names a code, so
\* nothing reaches the endpoint unnamed."  A document whose sections fit its
\* mode but whose fields do not validate raises pydantic's own error, which
\* neither host catches.
RefusalsAreNamed == "ValidationError" \notin {console.code, worker.code}

=============================================================================
