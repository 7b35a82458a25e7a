----------------------------- MODULE IntakeProofs -----------------------------
(***************************************************************************)
(* Whatever a caller writes, whatever ranges the two registries hold, and  *)
(* whoever writes the input bucket: what the worker binds is inside its    *)
(* envelope, is what the console showed, and has a wire form.              *)
(*                                                                         *)
(* The argument: filling a request in leaves a filled request alone        *)
(* (FilledIsStable), so the verdict of the worker is that of the console   *)
(* on the same request (Way), whatever the worker's own defaults are.      *)
(***************************************************************************)
EXTENDS JobIntake, FiniteSetTheorems, WellFoundedInduction, TLAPS

-----------------------------------------------------------------------------
(* The envelope *)

\* The two edge bounds imply the area cap (trained_envelope.py:137-139).
LEMMA EdgesBoundTheArea ==
    ASSUME NEW a \in Nat, NEW b \in Nat, NEW s \in Int, NEW l \in Int, a <= s, b <= l
    PROVE a * b <= s * l
<1>1. s \in Nat /\ l \in Nat OBVIOUS
<1>2. a * b <= s * b BY <1>1
<1>3. s * b <= s * l BY <1>1
<1>4. a * b \in Int /\ s * b \in Int /\ s * l \in Int BY <1>1
<1> QED BY <1>2, <1>3, <1>4

\* trained_envelope.py:137-139, 297-327.
LEMMA AdmittedIsCapped ==
    ASSUME NEW r \in TrainedRange(Int), NEW w \in Int, NEW h \in Int, NEW f \in Int,
           Admitted(r, w, h, f)
    PROVE AreaIsCapped(r, w, h)
<1>1. w \in Nat /\ h \in Nat BY EnvelopeAssumption DEF Admitted
<1>2. r.shortEdge \in Int /\ r.longEdge \in Int BY DEF TrainedRange
<1>3. CASE w <= h
  <2>1. w <= r.shortEdge /\ h <= r.longEdge
    BY <1>1, <1>3 DEF Admitted, WithinCanvas, Least, Greatest
  <2> QED BY <1>1, <1>2, <2>1, EdgesBoundTheArea DEF AreaIsCapped
<1>4. CASE ~ (w <= h)
  <2>1. h <= r.shortEdge /\ w <= r.longEdge
    BY <1>1, <1>4 DEF Admitted, WithinCanvas, Least, Greatest
  <2>2. h * w <= r.shortEdge * r.longEdge BY <1>1, <1>2, <2>1, EdgesBoundTheArea
  <2>3. h * w = w * h BY <1>1
  <2> QED BY <2>2, <2>3 DEF AreaIsCapped
<1> QED BY <1>3, <1>4

-----------------------------------------------------------------------------
(* Filling a request in *)

\* A document filled in has its dimensions and all else of the document
\* (contracts.py:97-134).
LEMMA FilledHas ==
    ASSUME NEW d, Document(d), NEW r \in Ranges
    PROVE /\ Document(Filled(d, r))
          /\ {Filled(d, r).width, Filled(d, r).height, Filled(d, r).frames} \subseteq Int
          /\ \A f \in Field \ {"width", "height", "frames"} : Filled(d, r)[f] = d[f]
<1>1. {DefaultWidth(r), DefaultHeight(r), DefaultFrames(r)} \subseteq Int
  BY IntakeAssumption DEF TrainedRange, DefaultWidth, DefaultHeight, DefaultFrames
<1>2. /\ DOMAIN Filled(d, r) = Field
      /\ \A f \in Field \ {"width", "height", "frames"} : Filled(d, r)[f] = d[f]
      /\ Filled(d, r).width = Or(d.width, DefaultWidth(r))
      /\ Filled(d, r).height = Or(d.height, DefaultHeight(r))
      /\ Filled(d, r).frames = Or(d.frames, DefaultFrames(r))
  BY DEF Document, Filled, Field
<1>3. {Filled(d, r).width, Filled(d, r).height, Filled(d, r).frames} \subseteq Int
  BY <1>1, <1>2 DEF Document, Or
<1>4. Filled(d, r).inputs = d.inputs /\ Filled(d, r).structured = d.structured
  BY <1>2 DEF Field
<1> QED BY <1>2, <1>3, <1>4 DEF Document

\* Filling in a filled document changes nothing, whatever the range
\* (contracts.py:97-134).
LEMMA FilledIsStable ==
    ASSUME NEW d, Document(d), NEW r \in Ranges, NEW other
    PROVE Filled(Filled(d, r), other) = Filled(d, r)
<1>1. PICK q : q = Filled(d, r) OBVIOUS
<1>2. q.width # Null /\ q.height # Null /\ q.frames # Null
  BY <1>1, FilledHas, IntakeAssumption
<1>3. Filled(q, other) = [q EXCEPT !.width = q.width, !.height = q.height, !.frames = q.frames]
  BY <1>2 DEF Filled, Or
<1>4. q = [f \in DOMAIN q |-> q[f]] BY <1>1 DEF Filled
<1>5. Filled(q, other) = q BY <1>3, <1>4
<1> QED BY <1>1, <1>5

-----------------------------------------------------------------------------
(* The prompt *)

\* A document that passes the checks has a wire form, and its closing mark comes
\* after its last cut (validation.py:328-418, render.py:87-105, alignment.py:80-92).
LEMMA ValidHasWireForm ==
    ASSUME NEW doc, doc.shots = <<>> \/ Len(doc.shots) \in Nat \ {0},
           SectionsFit(doc), ValidPrompt(doc)
    PROVE Renderable(doc) /\ MarkAfterFinalCut(doc)
<1>1. Len(doc.shots) \in Nat \ {0} BY DEF SectionsFit, Missing
<1>2. Renderable(doc)
  <2>1. \A i \in Indices(doc.shots) : "motion" \notin doc.shots[i].odd
    BY DEF ValidPrompt, CameraValuesAreInVocabulary
  <2>2. \A i \in Indices(doc.shots) : i > 1 => doc.shots[i].cut # Null
    BY DEF ValidPrompt, OpeningShotDeclaresNoCut
  <2>3. doc.mode = "Ref2VA" => doc.summary # Null BY DEF SectionsFit, Missing
  <2> QED BY <2>1, <2>2, <2>3 DEF Renderable
<1>3. MarkAfterFinalCut(doc)
  <2>1. Len(doc.shots) \in Indices(doc.shots) BY <1>1 DEF Indices
  <2>2. doc.shots[Len(doc.shots)].cut # Null => doc.shots[Len(doc.shots)].cut < doc.duration
    BY <2>1 DEF ValidPrompt, CutTimesAreInsideTheClip
  <2> QED BY <2>2 DEF MarkAfterFinalCut
<1> QED BY <1>2, <1>3

Refusals == {"prompt_mode_unknown", "section_set_mismatch_for_mode", "ValidationError",
             "prompt_structurally_invalid", "caller_span_carries_grammar",
             "alignment_time_not_expressible", "request_bound_loosened", "invalid_request"}

\* Only these refusals are ever given.
LEMMA ComposedIs ==
    ASSUME NEW doc, doc.shots = <<>> \/ Len(doc.shots) \in Nat \ {0}
    PROVE Composed(doc) \in Refusals \cup {"ok"}
<1>1. SectionsFit(doc) /\ ValidPrompt(doc) => Renderable(doc) /\ MarkAfterFinalCut(doc)
  BY ValidHasWireForm
<1>2. CASE SectionsFit(doc) /\ ValidPrompt(doc)
  <2>1. Renderable(doc) /\ MarkAfterFinalCut(doc) BY <1>1, <1>2
  <2> QED BY <2>1, <1>2 DEF Composed, Refusals
<1>3. CASE ~SectionsFit(doc) BY <1>3 DEF Composed, Refusals
<1>4. CASE SectionsFit(doc) /\ ~ValidPrompt(doc) BY <1>4 DEF Composed, Refusals
<1> QED BY <1>2, <1>3, <1>4

-----------------------------------------------------------------------------
(* The verdict of a host *)

\* A verdict is a refusal by name, or the request filled in and its text
\* (intake.py:121-168, runpod_handler.py:67-133).
LEMMA VerdictIs ==
    ASSUME NEW d, Document(d), NEW r \in Ranges \cup {NoRange}
    PROVE /\ Verdict(d, r).code \in Refusals \cup {"ok"}
          /\ Verdict(d, r).code = "ok" =>
                /\ r \in Ranges /\ Parses(d, r) /\ PromptCode(Filled(d, r)) = "ok"
                /\ Verdict(d, r).request = Filled(d, r)
                /\ Verdict(d, r).text = PromptText(Filled(d, r))
<1>1. CASE ~Parses(d, r)
  BY <1>1 DEF Verdict, NoVerdict, Refusals
<1>2. CASE Parses(d, r)
  <2>1. r \in Ranges BY <1>2 DEF Parses
  <2>2. PICK q : q = Filled(d, r) OBVIOUS
  <2>3. PromptCode(q) \in Refusals \cup {"ok"}
    BY <2>1, <2>2, FilledHas, ComposedIs DEF PromptCode, Document
  <2>4. CASE PromptCode(q) # "ok"
    <3>1. Verdict(d, r) = [NoVerdict EXCEPT !.code = PromptCode(q)]
      BY <1>2, <2>2, <2>4 DEF Verdict
    <3> QED BY <2>3, <2>4, <3>1 DEF NoVerdict
  <2>5. CASE PromptCode(q) = "ok"
    <3>1. Verdict(d, r) = [code |-> "ok", request |-> q, text |-> PromptText(q)]
      BY <1>2, <2>2, <2>5 DEF Verdict
    <3> QED BY <1>2, <2>1, <2>2, <2>5, <3>1
  <2> QED BY <2>4, <2>5
<1> QED BY <1>1, <1>2

\* A host accepts, unchanged, what a host of the same registry has accepted
\* (intake.py:121, service.py:87-104).
LEMMA AcceptedIsAccepted ==
    ASSUME NEW d, Document(d), NEW r \in Ranges \cup {NoRange}, Verdict(d, r).code = "ok"
    PROVE Verdict(Filled(d, r), r).code = "ok"
<1>1. r \in Ranges /\ Parses(d, r) /\ PromptCode(Filled(d, r)) = "ok" BY VerdictIs
<1>2. PICK q : q = Filled(d, r) OBVIOUS
<1>3. Filled(q, r) = q BY <1>1, <1>2, FilledIsStable
<1>4. /\ q.model = d.model /\ q.mode = d.mode /\ q.inputs = d.inputs /\ q.workflow = d.workflow
      /\ q.prompt = d.prompt /\ q.structured = d.structured
  BY <1>1, <1>2, FilledHas DEF Field
<1>5. Parses(q, r)
  <2>1. FieldsHold(q) /\ OnePromptForm(q) BY <1>1, <1>4 DEF Parses, FieldsHold, OnePromptForm
  <2>2. Admitted(r, q.width, q.height, q.frames) BY <1>1, <1>2 DEF Parses
  <2> QED BY <1>1, <1>3, <1>4, <2>1, <2>2 DEF Parses
<1>6. Verdict(q, r) = [code |-> "ok", request |-> q, text |-> PromptText(q)]
  BY <1>1, <1>2, <1>3, <1>5 DEF Verdict
<1> QED BY <1>2, <1>6

-----------------------------------------------------------------------------
(* The invariant *)

\* What is on its way is a document; the worker's verdict is a verdict on it, and
\* the console's, if it was asked, one on a document whose dump it then is.
Way ==
    /\ at = "new" => console = NoVerdict
    /\ at \in {"new", "sent"} => worker = NoVerdict
    /\ at \notin {"new", "sent", "refused"} => worker # NoVerdict /\ worker.code = "ok"
    /\ at \in {"new", "sent", "validated", "refused"} => staged = <<>>
    /\ worker # NoVerdict => worker = Verdict(sent, range["worker"]) /\ Document(sent)
    /\ at = "sent" => Document(sent)
    /\ console = NoVerdict \/ \E p \in Payloads : console = Verdict(p, range["console"])
    /\ console # NoVerdict /\ (at = "sent" \/ worker # NoVerdict) =>
            console.code = "ok" /\ sent = console.request

\* Inputs are staged in their order, each as it was named (input_staging.py:62-97).
Inputs ==
    /\ staged \in Seq(Digest)
    /\ staged # <<>> => at \in {"staging", "bound", "failed"}
    /\ at \in {"staging", "bound", "failed"} => Len(staged) <= Len(worker.request.inputs)
    /\ at = "bound" => Len(staged) = Len(worker.request.inputs)
    /\ \A i \in 1 .. Len(staged) :
        /\ worker.request.inputs[i].key \in Owned
        /\ worker.request.inputs[i].sha256 # Null => staged[i] = worker.request.inputs[i].sha256

\* The graph holds the values of the request (workflow_binder.py:33-69).
Binding ==
    at = "bound" =>
        /\ "prompt" \in DOMAIN bound => bound["prompt"] = PromptText(worker.request)
        /\ "width" \in DOMAIN bound => bound["width"] = worker.request.width
        /\ "height" \in DOMAIN bound => bound["height"] = worker.request.height
        /\ "frames" \in DOMAIN bound => bound["frames"] = worker.request.frames

States ==
    /\ range \in [Host -> Ranges \cup {NoRange}]
    /\ at \in {"new", "sent", "validated", "staging", "bound", "refused", "failed"}
    /\ contents \in [InputKey -> Digest \cup Unusable] /\ replaced \in 0 .. MaxReplaced

WayInv == States /\ Way /\ Inputs /\ Binding

\* A request that nobody has looked at.
LEMMA WayStart == IntakeInit => WayInv
<1> SUFFICES ASSUME IntakeInit PROVE WayInv OBVIOUS
<1>1. (CHOOSE d \in Digest : TRUE) \in Digest BY IntakeAssumption
<1>2. States BY <1>1, IntakeAssumption DEF IntakeInit, States
<1>3. Way BY DEF IntakeInit, Way
<1>4. Inputs BY DEF IntakeInit, Inputs
<1>5. Binding BY DEF IntakeInit, Binding
<1> QED BY <1>2, <1>3, <1>4, <1>5 DEF WayInv

\* A verdict is not the lack of one.
LEMMA VerdictIsOne ==
    ASSUME NEW d, Document(d), NEW r \in Ranges \cup {NoRange}
    PROVE Verdict(d, r) # NoVerdict /\ Verdict(d, r).code # "none"
<1>1. Verdict(d, r).code # "none" BY VerdictIs DEF Refusals
<1>2. NoVerdict.code = "none" BY DEF NoVerdict
<1> QED BY <1>1, <1>2

\* The console accepts a document and sends its dump, or refuses it (service.py:73-104).
LEMMA GenerateKeeps == ASSUME WayInv, Generate PROVE WayInv'
<1>1. PICK p \in Payloads :
        /\ console' = Verdict(p, range["console"])
        /\ IF console'.code = "ok" THEN sent' = Dump(p, console') /\ at' = "sent"
           ELSE sent' = Null /\ at' = "refused"
  BY DEF Generate
<1>2. Document(p) /\ range["console"] \in Ranges \cup {NoRange} /\ range' = range
  BY IntakeAssumption DEF WayInv, States, Generate, Host
<1>3. at = "new" /\ worker = NoVerdict /\ worker' = NoVerdict /\ staged = <<>> /\ staged' = <<>>
  BY DEF WayInv, Way, Generate
<1>4. States' BY <1>1 DEF WayInv, States, Generate
<1>5. console'.code = "ok" => Document(sent') /\ sent' = console'.request
  BY <1>1, <1>2, VerdictIs, FilledHas DEF Dump
<1>6. Way'
  <2>1. at' \in {"sent", "refused"} /\ (at' = "sent" <=> console'.code = "ok") BY <1>1
  <2>2. \E q \in Payloads : console' = Verdict(q, range'["console"]) BY <1>1, <1>2
  <2> QED BY <1>3, <1>5, <2>1, <2>2 DEF Way
<1>7. Inputs' /\ Binding' BY <1>1, <1>3 DEF Inputs, Binding
<1> QED BY <1>4, <1>6, <1>7 DEF WayInv

\* Anybody may send a document.
LEMMA CallDirectlyKeeps == ASSUME WayInv, CallDirectly PROVE WayInv'
<1>1. PICK p \in Payloads : sent' = p /\ Document(p) BY IntakeAssumption DEF CallDirectly
<1>2. /\ at' = "sent" /\ console' = NoVerdict /\ worker' = NoVerdict /\ staged' = <<>>
      /\ range' = range
  BY DEF WayInv, Way, CallDirectly
<1>3. States' BY DEF WayInv, States, CallDirectly
<1>4. Way' BY <1>1, <1>2 DEF Way
<1>5. Inputs' /\ Binding' BY <1>2 DEF Inputs, Binding
<1> QED BY <1>3, <1>4, <1>5 DEF WayInv

\* The worker's verdict is on what was sent (runpod_handler.py:67-133).
LEMMA WorkerValidatesKeeps == ASSUME WayInv, WorkerValidates PROVE WayInv'
<1>1. /\ Document(sent) /\ range["worker"] \in Ranges \cup {NoRange} /\ staged = <<>>
      /\ worker = NoVerdict
  BY DEF WayInv, Way, States, WorkerValidates, Host
<1>2. /\ worker' = Verdict(sent, range["worker"])
      /\ at' = IF worker'.code = "ok" THEN "validated" ELSE "refused"
      /\ UNCHANGED <<range, console, sent, contents, replaced, staged>> /\ at = "sent"
  BY DEF WorkerValidates
<1>3. worker' # NoVerdict BY <1>1, <1>2, VerdictIsOne
<1>4. States' BY <1>2 DEF WayInv, States
<1>5. Way' BY <1>1, <1>2, <1>3 DEF WayInv, Way
<1>6. Inputs' /\ Binding' BY <1>1, <1>2 DEF Inputs, Binding
<1> QED BY <1>4, <1>5, <1>6 DEF WayInv

\* The worker's request is the document filled in.
LEMMA WorkerRequest ==
    ASSUME WayInv, worker # NoVerdict, worker.code = "ok"
    PROVE /\ range["worker"] \in Ranges /\ Document(sent) /\ Parses(sent, range["worker"])
          /\ worker = Verdict(sent, range["worker"])
          /\ worker.request = Filled(sent, range["worker"])
          /\ Document(worker.request)
          /\ Len(worker.request.inputs) \in 0 .. 4
<1>1. /\ worker = Verdict(sent, range["worker"])
      /\ Document(sent) /\ range["worker"] \in Ranges \cup {NoRange}
  BY DEF WayInv, Way, States, Host
<1>2. /\ range["worker"] \in Ranges /\ Parses(sent, range["worker"])
      /\ worker.request = Filled(sent, range["worker"])
  BY <1>1, VerdictIs
<1>3. Document(worker.request) /\ worker.request.inputs = sent.inputs
  BY <1>1, <1>2, FilledHas DEF Field
<1>4. Len(sent.inputs) \in 0 .. 4
  <2>1. \A m \in DOMAIN InputCount : InputCount[m] \subseteq 0 .. 4 BY DEF InputCount
  <2> QED BY <1>2, <2>1 DEF Parses, FieldsHold
<1> QED BY <1>1, <1>2, <1>3, <1>4

\* The worker looks up an approved workflow (worker.py:172-187).
LEMMA WorkerStartsKeeps == ASSUME WayInv, WorkerStarts PROVE WayInv'
<1>1. /\ at = "validated" /\ at' \in {"staging", "failed"}
      /\ UNCHANGED <<range, console, sent, worker, contents, replaced, staged>>
  BY DEF WorkerStarts
<1>2. worker # NoVerdict /\ worker.code = "ok" /\ staged = <<>> BY <1>1 DEF WayInv, Way
<1>3. States' BY <1>1 DEF WayInv, States
<1>4. Way' BY <1>1, <1>2 DEF WayInv, Way
<1>5. Inputs' BY <1>1, <1>2, WorkerRequest DEF Inputs
<1>6. Binding' BY <1>1 DEF Binding
<1> QED BY <1>3, <1>4, <1>5, <1>6 DEF WayInv

\* The next input is staged as it was named, or the job fails.
LEMMA StageInputKeeps == ASSUME WayInv, StageInput PROVE WayInv'
<1>1. /\ at = "staging" /\ at' \in {"staging", "failed"}
      /\ UNCHANGED <<range, console, sent, worker, contents, replaced>>
  BY DEF StageInput
<1>2. worker # NoVerdict /\ worker.code = "ok" BY <1>1 DEF WayInv, Way
<1>3. States' BY <1>1 DEF WayInv, States
<1>4. Way' BY <1>1, <1>2 DEF WayInv, Way
<1>5. Binding' BY <1>1 DEF Binding
<1>6. PICK inputs : inputs = worker.request.inputs /\ Len(inputs) \in 0 .. 4
  BY <1>2, WorkerRequest
<1>7. /\ staged \in Seq(Digest) /\ Len(staged) < Len(inputs)
      /\ \A i \in 1 .. Len(staged) :
            /\ inputs[i].key \in Owned
            /\ inputs[i].sha256 # Null => staged[i] = inputs[i].sha256
  BY <1>6 DEF WayInv, Inputs, StageInput
<1>8. Inputs'
  <2>1. CASE staged' = staged BY <1>1, <1>6, <1>7, <2>1 DEF Inputs
  <2>2. CASE staged' # staged
    <3>1. PICK n \in Nat : n = Len(staged) + 1 BY <1>7
    <3>2. PICK reference : reference = inputs[n] OBVIOUS
    <3>3. Stageable(reference) /\ staged' = Append(staged, contents[reference.key])
      BY <1>6, <2>2, <3>1, <3>2 DEF StageInput
    <3>4. PICK digest \in Digest : digest = contents[reference.key]
      BY <3>3 DEF Stageable
    <3>5. /\ staged' \in Seq(Digest) /\ Len(staged') = n
          /\ staged'[n] = digest /\ \A i \in 1 .. Len(staged) : staged'[i] = staged[i]
      BY <1>7, <3>1, <3>3, <3>4
    <3>6. inputs[n].key \in Owned /\ (inputs[n].sha256 # Null => staged'[n] = inputs[n].sha256)
      BY <3>2, <3>3, <3>4, <3>5 DEF Stageable
    <3>7. \A i \in 1 .. Len(staged') :
            /\ inputs[i].key \in Owned
            /\ inputs[i].sha256 # Null => staged'[i] = inputs[i].sha256
      <4> TAKE i \in 1 .. Len(staged')
      <4>1. i = n \/ i \in 1 .. Len(staged) BY <1>7, <3>1, <3>5
      <4> QED BY <1>7, <3>5, <3>6, <4>1
    <3>8. at' = "staging" \/ at' = "failed" BY <1>1
    <3>9. Len(staged') <= Len(inputs) BY <1>6, <1>7, <3>1, <3>5
    <3> QED BY <1>1, <1>6, <3>5, <3>7, <3>8, <3>9 DEF Inputs
  <2> QED BY <2>1, <2>2
<1> QED BY <1>3, <1>4, <1>5, <1>8 DEF WayInv

\* Every binding takes its value from the request.
LEMMA BindWorkflowKeeps == ASSUME WayInv, BindWorkflow PROVE WayInv'
<1>1. /\ at = "staging" /\ at' \in {"bound", "failed"}
      /\ Len(staged) = Len(worker.request.inputs)
      /\ UNCHANGED <<range, console, sent, worker, contents, replaced, staged>>
  BY DEF BindWorkflow
<1>2. worker # NoVerdict /\ worker.code = "ok" BY <1>1 DEF WayInv, Way
<1>3. States' BY <1>1 DEF WayInv, States
<1>4. Way' BY <1>1, <1>2 DEF WayInv, Way
<1>5. Inputs' BY <1>1 DEF WayInv, Inputs
<1>6. Binding'
  <2> SUFFICES ASSUME at' = "bound" PROVE Binding' BY DEF Binding
  <2>1. PICK fields : /\ fields \subseteq DOMAIN Values
                      /\ bound' = [f \in fields |-> Values[f]]
    BY DEF BindWorkflow
  <2>2. \A f \in DOMAIN bound' : f \in DOMAIN Values /\ bound'[f] = Values[f] BY <2>1
  <2>3. \A f \in DOMAIN Values :
          /\ f = "width" => Values[f] = worker.request.width
          /\ f = "height" => Values[f] = worker.request.height
          /\ f = "frames" => Values[f] = worker.request.frames
          /\ f = "prompt" => Values[f] = PromptText(worker.request)
    BY DEF Values
  <2>4. PromptText(worker.request)' = PromptText(worker.request)
    BY <1>1 DEF PromptText, Wire, Milliseconds, Indices
  <2> QED BY <1>1, <2>2, <2>3, <2>4 DEF Binding
<1> QED BY <1>3, <1>4, <1>5, <1>6 DEF WayInv

\* The input bucket changes under the worker.
LEMMA ReplaceInputKeeps == ASSUME WayInv, ReplaceInput PROVE WayInv'
<1>1. UNCHANGED <<range, at, console, sent, worker, staged, bound>> BY DEF ReplaceInput
<1>2. States' BY IntakeAssumption DEF ReplaceInput, WayInv, States
<1>3. Way' /\ Inputs' /\ Binding'
  BY <1>1 DEF WayInv, Way, Inputs, Binding, PromptText, Wire, Milliseconds, Indices
<1> QED BY <1>2, <1>3 DEF WayInv

\* WayInv is inductive.
LEMMA WayStep == WayInv /\ [IntakeNext]_intakeVars => WayInv'
<1> SUFFICES ASSUME WayInv, [IntakeNext]_intakeVars PROVE WayInv' OBVIOUS
<1>1. CASE UNCHANGED intakeVars
  BY <1>1 DEF intakeVars, WayInv, States, Way, Inputs, Binding, PromptText, Wire, Milliseconds,
              Indices
<1> QED
  BY <1>1, GenerateKeeps, CallDirectlyKeeps, WorkerValidatesKeeps, WorkerStartsKeeps,
     StageInputKeeps, BindWorkflowKeeps, ReplaceInputKeeps DEF IntakeNext

\* What is on its way stays as it was sent.
LEMMA WayHolds == IntakeSpec => []WayInv
BY WayStart, WayStep, PTL DEF IntakeSpec

-----------------------------------------------------------------------------
(* What follows *)

\* Rounding to milliseconds keeps the order of times (render.py:30-35).
LEMMA RoundingKeepsOrder ==
    ASSUME NEW t \in Int, NEW u \in Int, t < u
    PROVE Milliseconds(t) <= Milliseconds(u)
<1>1. PICK a \in Int, i \in {0, 1} : a = t \div 2 /\ i = t % 2 /\ t = 2 * a + i
  <2>1. t \div 2 \in Int /\ t % 2 \in 0 .. 1 /\ t = 2 * (t \div 2) + (t % 2) OBVIOUS
  <2>2. t % 2 \in {0, 1} BY <2>1
  <2> QED BY <2>1, <2>2
<1>2. PICK b \in Int, j \in {0, 1} : b = u \div 2 /\ j = u % 2 /\ u = 2 * b + j
  <2>1. u \div 2 \in Int /\ u % 2 \in 0 .. 1 /\ u = 2 * (u \div 2) + (u % 2) OBVIOUS
  <2>2. u % 2 \in {0, 1} BY <2>1
  <2> QED BY <2>1, <2>2
<1>3. a <= b /\ (a = b => i = 0 /\ j = 1) BY <1>1, <1>2
<1>4. Milliseconds(t) = IF i = 0 THEN a ELSE IF a % 2 = 0 THEN a ELSE a + 1
  BY <1>1 DEF Milliseconds
<1>5. Milliseconds(u) = IF j = 0 THEN b ELSE IF b % 2 = 0 THEN b ELSE b + 1
  BY <1>2 DEF Milliseconds
<1> QED BY <1>3, <1>4, <1>5

\* The request of a worker that let it through (contracts.py:168-197).
LEMMA PassedIsInEnvelope == ASSUME WayInv PROVE BoundInEnvelope
<1> SUFFICES ASSUME Passed
             PROVE /\ worker.code = "ok" /\ range["worker"] # NoRange
                   /\ AreaIsCapped(range["worker"], worker.request.width, worker.request.height)
                   /\ worker.request.width >= MinEdge /\ worker.request.height >= MinEdge
                   /\ worker.request.frames \in 1 .. range["worker"].maxFrames
  BY DEF BoundInEnvelope
<1>1. worker # NoVerdict /\ worker.code = "ok" BY DEF WayInv, Way, Passed
<1>2. PICK r \in Ranges : r = range["worker"] BY <1>1, WorkerRequest
<1>3. PICK q : q = worker.request OBVIOUS
<1>4. Parses(sent, r) /\ q = Filled(sent, r) /\ Document(sent) BY <1>1, <1>2, <1>3, WorkerRequest
<1>5. q.width \in Int /\ q.height \in Int /\ q.frames \in Int BY <1>4, FilledHas
<1>6. Admitted(r, q.width, q.height, q.frames) BY <1>4 DEF Parses
<1>7. r \in TrainedRange(Int) /\ r # NoRange BY IntakeAssumption
<1>8. AreaIsCapped(r, q.width, q.height) BY <1>5, <1>6, <1>7, AdmittedIsCapped
<1>9. /\ q.width >= MinEdge /\ q.height >= MinEdge /\ q.frames \in 1 .. r.maxFrames
  BY <1>5, <1>6, <1>7 DEF Admitted, TrainedRange
<1> QED BY <1>1, <1>2, <1>3, <1>7, <1>8, <1>9

\* At every step of its way, whoever sent the request and however the registries
\* differ, it is inside the worker's envelope and its inputs are those it named
\* (contracts.py:168-197, input_staging.py:62-97).
THEOREM IntakeInvariant == IntakeSpec => []IntakeInv
<1>1. ASSUME WayInv PROVE IntakeInv
  <2>1. staged \in Seq(Digest) /\ Len(staged) \in 0 .. 4
    <3>1. staged \in Seq(Digest) /\ Len(staged) \in Nat BY <1>1 DEF WayInv, Inputs
    <3>2. CASE staged = <<>> BY <3>1, <3>2
    <3>3. CASE staged # <<>>
      <4>1. at \in {"staging", "bound", "failed"} BY <1>1, <3>3 DEF WayInv, Inputs
      <4>2. worker # NoVerdict /\ worker.code = "ok" BY <1>1, <4>1 DEF WayInv, Way
      <4>3. PICK m \in Nat : m = Len(staged) BY <3>1
      <4>4. PICK inputs : inputs = worker.request.inputs /\ Len(inputs) \in 0 .. 4
        BY <1>1, <4>2, WorkerRequest
      <4>5. m <= Len(inputs) BY <1>1, <4>1, <4>3, <4>4 DEF WayInv, Inputs
      <4>6. PICK k \in 0 .. 4 : k = Len(inputs) BY <4>4
      <4>7. m <= 4
        <5>1. m <= k BY <4>5, <4>6
        <5> QED BY <5>1
      <4> QED BY <3>1, <4>3, <4>7
    <3> QED BY <3>2, <3>3
  <2>2. staged \in UNION {[1 .. n -> Digest] : n \in 0 .. 4}
    <3>1. staged \in [1 .. Len(staged) -> Digest] BY <2>1
    <3> QED BY <2>1, <3>1
  <2>3. IntakeTypeOK BY <1>1, <2>2 DEF IntakeTypeOK, WayInv, States
  <2>4. StagedIsNamed BY <1>1 DEF StagedIsNamed, WayInv, Inputs
  <2> QED BY <1>1, <2>3, <2>4, PassedIsInEnvelope DEF IntakeInv
<1> QED BY <1>1, WayHolds, PTL

\* What is bound is what the console showed, whatever the two registries hold
\* (intake.py:121-168, service.py:87-104, application.py:113-125).
THEOREM PreviewHolds == IntakeSpec => []PreviewIsBound
<1>1. ASSUME WayInv PROVE PreviewIsBound
  <2> SUFFICES ASSUME at = "bound", console # NoVerdict
               PROVE /\ worker.request = console.request
                     /\ "prompt" \in DOMAIN bound => bound["prompt"] = console.text
                     /\ \A f \in DOMAIN bound \cap {"width", "height", "frames"} :
                            bound[f] = console.request[f]
    BY DEF PreviewIsBound
  <2>1. worker # NoVerdict /\ worker.code = "ok" BY <1>1 DEF WayInv, Way
  <2>2. console.code = "ok" /\ sent = console.request BY <1>1, <2>1 DEF WayInv, Way
  <2>3. PICK p \in Payloads, r \in Ranges \cup {NoRange} : console = Verdict(p, r)
    BY <1>1 DEF WayInv, Way, States, Host
  <2>4. /\ Document(p) /\ r \in Ranges
        /\ console.request = Filled(p, r) /\ console.text = PromptText(Filled(p, r))
    BY <2>2, <2>3, VerdictIs, IntakeAssumption
  <2>5. worker.request = Filled(sent, range["worker"]) BY <1>1, <2>1, WorkerRequest
  <2>6. worker.request = console.request BY <2>2, <2>4, <2>5, FilledIsStable
  <2> QED BY <1>1, <2>4, <2>6 DEF WayInv, Binding
<1> QED BY <1>1, WayHolds, PTL

\* The worker takes all that a console of its own revision let through
\* (intake.py:121, service.py:87-104).
THEOREM NothingIsRefusedLate == IntakeSpec => []NoLateRefusal
<1>1. ASSUME WayInv PROVE NoLateRefusal
  <2> SUFFICES ASSUME worker.code # "none", console # NoVerdict, range["console"] = range["worker"]
               PROVE worker.code = "ok"
    BY DEF NoLateRefusal
  <2>1. worker # NoVerdict BY DEF NoVerdict
  <2>2. worker = Verdict(sent, range["worker"]) BY <1>1, <2>1 DEF WayInv, Way
  <2>3. console.code = "ok" /\ sent = console.request BY <1>1, <2>1 DEF WayInv, Way
  <2>4. PICK p \in Payloads : console = Verdict(p, range["console"])
    BY <1>1 DEF WayInv, Way
  <2>5. range["console"] \in Ranges \cup {NoRange} BY <1>1 DEF WayInv, States, Host
  <2>6. Document(p) BY IntakeAssumption
  <2>7. sent = Filled(p, range["console"]) BY <2>3, <2>4, <2>5, <2>6, VerdictIs
  <2> QED BY <2>2, <2>3, <2>4, <2>5, <2>6, <2>7, AcceptedIsAccepted
<1> QED BY <1>1, WayHolds, PTL

\* No prompt passes the checks and is then refused by the renderer or the header
\* (validation.py:328-418, render.py:87-105, alignment.py:80-92).
THEOREM ValidIsRendered == IntakeSpec => []ValidIsRenderable
<1>1. ASSUME WayInv PROVE ValidIsRenderable
  <2>1. console.code \in Refusals \cup {"ok", "none"}
    <3>1. CASE console = NoVerdict BY <3>1 DEF NoVerdict
    <3>2. CASE console # NoVerdict
      <4>1. PICK p \in Payloads : console = Verdict(p, range["console"])
        BY <1>1, <3>2 DEF WayInv, Way
      <4>2. range["console"] \in Ranges \cup {NoRange} BY <1>1 DEF WayInv, States, Host
      <4> QED BY <4>1, <4>2, VerdictIs, IntakeAssumption
    <3> QED BY <3>1, <3>2
  <2>2. worker.code \in Refusals \cup {"ok", "none"}
    <3>1. CASE worker = NoVerdict BY <3>1 DEF NoVerdict
    <3>2. CASE worker # NoVerdict
      <4>1. worker = Verdict(sent, range["worker"]) /\ Document(sent)
        BY <1>1, <3>2 DEF WayInv, Way
      <4>2. range["worker"] \in Ranges \cup {NoRange} BY <1>1 DEF WayInv, States, Host
      <4> QED BY <4>1, <4>2, VerdictIs
    <3> QED BY <3>1, <3>2
  <2> QED BY <2>1, <2>2 DEF ValidIsRenderable, Refusals
<1> QED BY <1>1, WayHolds, PTL

\* In the text of a prompt that passed the checks no time runs backwards, not even
\* through rounding (render.py:30-35, alignment.py:80-92).
LEMMA TimesRunForward ==
    ASSUME NEW p, NEW n \in Nat \ {0}, n = Len(p.shots), p.duration \in Int,
           \A i \in 1 .. n : p.shots[i].cut \in Int \cup {Null}, ValidPrompt(p),
           NEW i \in 2 .. n
    PROVE /\ i > 2 => Wire(p).shots[i - 1].opens <= Wire(p).shots[i].opens
          /\ Wire(p).mark # Null => Wire(p).shots[i].opens <= Wire(p).mark
<1>1. \A j \in 2 .. n :
        p.shots[j].cut \in Int /\ Wire(p).shots[j].opens = Milliseconds(p.shots[j].cut)
  <2> TAKE j \in 2 .. n
  <2>1. j \in Indices(p.shots) /\ j > 1 BY DEF Indices
  <2>2. p.shots[j].cut # Null BY <2>1 DEF ValidPrompt, OpeningShotDeclaresNoCut
  <2> QED BY <2>1, <2>2 DEF Wire
<1>2. p.shots[i].cut < p.duration
  BY <1>1, IntakeAssumption DEF ValidPrompt, CutTimesAreInsideTheClip, Indices
<1>3. ASSUME i > 2 PROVE p.shots[i - 1].cut < p.shots[i].cut
  <2>1. i - 1 \in 2 .. n BY <1>3
  <2>2. Null \notin {p.shots[i - 1].cut, p.shots[i].cut} BY <1>1, <2>1, IntakeAssumption
  <2>3. i - 1 \in Indices(p.shots) /\ i \in Indices(p.shots) /\ i - 1 < i BY <2>1 DEF Indices
  <2> QED BY <2>2, <2>3 DEF ValidPrompt, CutTimesStrictlyIncrease
<1>4. ASSUME i > 2 PROVE Wire(p).shots[i - 1].opens <= Wire(p).shots[i].opens
  <2>1. i - 1 \in 2 .. n BY <1>4
  <2> QED BY <1>1, <1>3, <1>4, <2>1, RoundingKeepsOrder
<1>5. ASSUME Wire(p).mark # Null PROVE Wire(p).shots[i].opens <= Wire(p).mark
  <2>1. Wire(p).mark = Milliseconds(p.duration) BY <1>5 DEF Wire
  <2> QED BY <1>1, <1>2, <2>1, RoundingKeepsOrder
<1> QED BY <1>4, <1>5

-----------------------------------------------------------------------------
(* The text that is bound *)

\* What the worker binds of a structured prompt has passed the checks.
LEMMA BoundPrompt ==
    ASSUME WayInv, at = "bound", NEW p, p = worker.request.structured, p # Null
    PROVE /\ PromptText(worker.request) = Wire(p) /\ ValidPrompt(p)
          /\ p.duration \in Int /\ Len(p.shots) \in Nat \ {0}
          /\ \A j \in 1 .. Len(p.shots) :
                p.shots[j].cut \in Int \cup {Null} /\ p.shots[j].speakers \in Seq(Nat)
<1>1. worker # NoVerdict /\ worker.code = "ok" BY DEF WayInv, Way
<1>2. PromptText(worker.request) = Wire(p) BY DEF PromptText
<1>3. PICK r \in Ranges :
        /\ Document(sent) /\ worker = Verdict(sent, r)
        /\ worker.request = Filled(sent, r)
  BY <1>1, WorkerRequest
<1>4. PromptCode(worker.request) = "ok" BY <1>1, <1>3, VerdictIs
<1>5. Composed(p) = "ok" BY <1>4 DEF PromptCode
<1>6. SectionsFit(p) /\ ValidPrompt(p) BY <1>5 DEF Composed
<1>7. Document(worker.request) BY <1>1, WorkerRequest
<1>8. Len(p.shots) \in Nat \ {0} BY <1>6, <1>7 DEF Document, SectionsFit, Missing
<1> QED BY <1>2, <1>6, <1>7, <1>8 DEF Document, Indices

LEMMA BoundCutsRunForward == ASSUME WayInv PROVE CutsRunForward
<1> SUFFICES ASSUME at = "bound", worker.request.structured # Null,
                    NEW i \in 2 .. Len(PromptText(worker.request).shots)
             PROVE LET text == PromptText(worker.request) IN
                      /\ i > 2 => text.shots[i - 1].opens <= text.shots[i].opens
                      /\ text.mark # Null => text.shots[i].opens <= text.mark
  BY DEF CutsRunForward
<1>1. PICK p : p = worker.request.structured OBVIOUS
<1>2. PICK n \in Nat \ {0} : n = Len(p.shots) BY <1>1, BoundPrompt
<1>3. /\ PromptText(worker.request) = Wire(p) /\ ValidPrompt(p) /\ p.duration \in Int
      /\ \A j \in 1 .. n : p.shots[j].cut \in Int \cup {Null}
  BY <1>1, <1>2, BoundPrompt
<1>4. Len(Wire(p).shots) = n
  <2>1. Wire(p).shots = [j \in 1 .. n |->
            [number |-> p.shots[j].number,
             opens |-> IF j = 1 THEN p.shots[j].style ELSE Milliseconds(p.shots[j].cut),
             speakers |-> p.shots[j].speakers]]
    BY <1>2 DEF Wire, Indices
  <2> QED BY <1>2, <2>1
<1> QED BY <1>2, <1>3, <1>4, TimesRunForward

-----------------------------------------------------------------------------
(* The speakers *)

\* No set of naturals but the empty one is without a least element: what fails
\* for no least number fails for none.
LEMMA LeastNatural ==
    ASSUME NEW S \in SUBSET Nat, S # {}
    PROVE  \E m \in S : \A n \in S : m <= n
  <1> DEFINE R == OpToRel(<, Nat)
  <1>1. IsWellFoundedOn(R, Nat)
    BY NatLessThanWellFounded
  <1>2. \E x \in S : \A y \in S : ~ (<<y, x>> \in R)
    <2> HIDE DEF R
    <2> QED BY <1>1, WFMin
  <1>3. \A x, y \in Nat : <<y, x>> \in R <=> y < x
    BY DEF OpToRel
  <1>4. PICK m \in S : \A y \in S : ~ (<<y, m>> \in R)
    BY <1>2
  <1>5. \A y \in S : m <= y
    <2> TAKE y \in S
    <2>1. <<y, m>> \notin R BY <1>4
    <2>2. ~ (y < m)
      <3> HIDE DEF R
      <3> QED BY <2>1, <1>3
    <2> QED BY <2>2
  <1> QED
    BY <1>5

\* How FlattenSeq joins a sequence of sequences, one after the other.
JoinAt(f, s, i) == IF i = 1 THEN s[i] ELSE f[i - 1] \o s[i]
Joins(f, s) == f = [i \in 1 .. Len(s) |-> JoinAt(f, s, i)]

LEMMA JoinAtIs ==
    ASSUME NEW E, NEW s \in Seq(Seq(E)), NEW i \in 1 .. Len(s), NEW f,
           i # 1 => f[i - 1] \in Seq(E)
    PROVE JoinAt(f, s, i) \in Seq(E)
<1>1. PICK t \in Seq(E) : t = s[i] OBVIOUS
<1>2. CASE i = 1 BY <1>1, <1>2 DEF JoinAt
<1>3. CASE i # 1
  <2>1. PICK u \in Seq(E) : u = f[i - 1] BY <1>3
  <2>2. JoinAt(f, s, i) = u \o t BY <1>1, <1>3, <2>1 DEF JoinAt
  <2>3. u \o t \in Seq(E) OBVIOUS
  <2> QED BY <2>2, <2>3
<1> QED BY <1>2, <1>3

\* There is such a function, for as many of the sequences as one likes.
LEMMA Joined ==
    ASSUME NEW E, NEW s \in Seq(Seq(E)), NEW n \in 0 .. Len(s)
    PROVE \E f \in [1 .. n -> Seq(E)] : \A i \in 1 .. n : f[i] = JoinAt(f, s, i)
<1> DEFINE Can(k) == \E f \in [1 .. k -> Seq(E)] : \A i \in 1 .. k : f[i] = JoinAt(f, s, i)
           Wrong == {k \in 0 .. Len(s) : ~Can(k)}
<1>1. PICK l \in Nat : l = Len(s) OBVIOUS
<1>2. Can(0)
  <2>1. [i \in 1 .. 0 |-> <<>>] \in [1 .. 0 -> Seq(E)] OBVIOUS
  <2>2. \A i \in 1 .. 0 : FALSE OBVIOUS
  <2> QED BY <2>1, <2>2
<1>3. ASSUME NEW k \in 1 .. l, Can(k - 1) PROVE Can(k)
  <2>1. PICK f \in [1 .. k - 1 -> Seq(E)] : \A i \in 1 .. k - 1 : f[i] = JoinAt(f, s, i)
    BY <1>3
  <2>2. k # 1 => k - 1 \in 1 .. k - 1 OBVIOUS
  <2>3. k \in 1 .. Len(s) /\ (k # 1 => f[k - 1] \in Seq(E)) BY <1>1, <2>1, <2>2
  <2>4. PICK last \in Seq(E) : last = JoinAt(f, s, k) BY <2>3, JoinAtIs
  <2>5. PICK g : g = [i \in 1 .. k |-> IF i < k THEN f[i] ELSE last] OBVIOUS
  <2>6. \A i \in 1 .. k : i < k => i \in 1 .. k - 1 OBVIOUS
  <2>7. g \in [1 .. k -> Seq(E)] BY <2>1, <2>5, <2>6
  <2>8. ASSUME NEW i \in 1 .. k PROVE g[i] = JoinAt(g, s, i)
    <3>1. i # 1 => i - 1 \in 1 .. k /\ i - 1 < k OBVIOUS
    <3>2. JoinAt(g, s, i) = JoinAt(f, s, i) BY <2>5, <3>1 DEF JoinAt
    <3>3. CASE i < k
      <4>1. i \in 1 .. k - 1 /\ g[i] = f[i] BY <2>5, <2>6, <3>3
      <4> QED BY <2>1, <3>2, <4>1
    <3>4. CASE i = k
      <4>1. g[i] = last BY <2>5, <3>4
      <4> QED BY <2>4, <3>2, <3>4, <4>1
    <3> QED BY <3>3, <3>4
  <2> QED BY <2>7, <2>8
<1>4. Wrong = {}
  <2> HIDE DEF Can
  <2> SUFFICES ASSUME Wrong # {} PROVE FALSE OBVIOUS
  <2>1. Wrong \in SUBSET Nat BY <1>1
  <2>2. PICK k \in Wrong : \A m \in Wrong : k <= m
    <3> HIDE DEF Wrong
    <3> QED BY <2>1, LeastNatural
  <2>3. k \in 1 .. l BY <1>1, <1>2
  <2>4. k - 1 \in Wrong BY <1>1, <1>3, <2>3
  <2>5. ~ (k <= k - 1) BY <2>3
  <2> QED
    <3> HIDE DEF Wrong
    <3> QED BY <2>2, <2>4, <2>5
<1>5. Can(n)
  <2> HIDE DEF Can
  <2> QED BY <1>4
<1> QED BY <1>5

\* A sequence of sequences is flattened to a sequence.
LEMMA FlattenedIsSequence ==
    ASSUME NEW E, NEW s \in Seq(Seq(E)), Len(s) # 0
    PROVE FlattenSeq(s) \in Seq(E)
<1>1. PICK l \in Nat \ {0} : l = Len(s) OBVIOUS
<1>2. l \in 0 .. Len(s) /\ l \in 1 .. l BY <1>1
<1>3. PICK f \in [1 .. l -> Seq(E)] : \A i \in 1 .. l : f[i] = JoinAt(f, s, i)
  <2>1. \A n \in 0 .. Len(s) :
          \E f \in [1 .. n -> Seq(E)] : \A i \in 1 .. n : f[i] = JoinAt(f, s, i)
    BY Joined
  <2> QED BY <1>2, <2>1, Zenon
<1>4. Joins(f, s) BY <1>1, <1>3 DEF Joins
<1>5. PICK g : g = (CHOOSE h : Joins(h, s)) OBVIOUS
<1>6. Joins(g, s) BY <1>4, <1>5
<1>7. \A i \in 1 .. l : g[i] = JoinAt(g, s, i) BY <1>1, <1>6 DEF Joins
<1> DEFINE Wrong == {i \in 1 .. l : g[i] \notin Seq(E)}
<1>8. Wrong = {}
  <2> SUFFICES ASSUME Wrong # {} PROVE FALSE OBVIOUS
  <2>1. Wrong \in SUBSET Nat OBVIOUS
  <2>2. PICK k \in Wrong : \A m \in Wrong : k <= m
    <3> HIDE DEF Wrong
    <3> QED BY <2>1, LeastNatural
  <2>3. k \in 1 .. l /\ k \in 1 .. Len(s) /\ g[k] \notin Seq(E) BY <1>1
  <2>4. k # 1 => k - 1 \in 1 .. l /\ ~ (k <= k - 1) BY <2>3
  <2>5. k # 1 => g[k - 1] \in Seq(E) BY <2>2, <2>4
  <2>6. JoinAt(g, s, k) \in Seq(E) BY <2>3, <2>5, JoinAtIs
  <2> QED BY <1>7, <2>3, <2>6
<1>9. g[l] \in Seq(E)
  <2>1. l \notin Wrong
    <3> HIDE DEF Wrong
    <3> QED BY <1>8
  <2> QED BY <1>2, <2>1
<1>10. FlattenSeq(s) = (CHOOSE h : Joins(h, s))[Len(s)] BY DEF FlattenSeq, Joins, JoinAt
<1> QED BY <1>1, <1>5, <1>9, <1>10

\* When every new id is the next number, the ids heard so far are 1 to n after
\* any line (validation.py:157-177).
LEMMA NumberedAsHeard ==
    ASSUME NEW ids \in Seq(Nat),
           \A k \in 1 .. Len(ids) :
              (\A j \in 1 .. k - 1 : ids[j] # ids[k]) => ids[k] = HeardBefore(ids, k) + 1,
           NEW n \in 0 .. Len(ids)
    PROVE {ids[j] : j \in 1 .. n} = 1 .. Cardinality({ids[j] : j \in 1 .. n})
<1> DEFINE heard(k) == {ids[j] : j \in 1 .. k}
           Numbered(k) == \E c \in Nat : heard(k) = 1 .. c
           Wrong == {k \in 0 .. Len(ids) : ~Numbered(k)}
<1>1. PICK l \in Nat : l = Len(ids) OBVIOUS
<1>2. Numbered(0)
  <2>1. heard(0) = 1 .. 0 OBVIOUS
  <2> QED BY <2>1
<1>3. ASSUME NEW k \in 1 .. l, Numbered(k - 1) PROVE Numbered(k)
  <2>1. PICK c \in Nat : heard(k - 1) = 1 .. c BY <1>3
  <2>2. heard(k) = heard(k - 1) \cup {ids[k]} OBVIOUS
  <2>3. CASE ids[k] \in heard(k - 1) BY <2>1, <2>2, <2>3
  <2>4. CASE ids[k] \notin heard(k - 1)
    <3>1. ids[k] = HeardBefore(ids, k) + 1 BY <1>1, <2>4
    <3>2. HeardBefore(ids, k) = Cardinality(1 .. c) BY <2>1 DEF HeardBefore
    <3>3. Cardinality(1 .. c) = c BY FS_Interval
    <3>4. heard(k) = 1 .. c + 1
      <4>1. heard(k) = (1 .. c) \cup {c + 1} BY <2>1, <2>2, <3>1, <3>2, <3>3
      <4> HIDE DEF heard
      <4> QED BY <4>1
    <3>5. c + 1 \in Nat OBVIOUS
    <3> QED
      <4> HIDE DEF heard
      <4> QED BY <3>4, <3>5
  <2> QED BY <2>3, <2>4
<1>4. Wrong = {}
  <2> HIDE DEF Numbered
  <2> SUFFICES ASSUME Wrong # {} PROVE FALSE OBVIOUS
  <2>1. Wrong \in SUBSET Nat BY <1>1
  <2>2. PICK k \in Wrong : \A m \in Wrong : k <= m
    <3> HIDE DEF Wrong
    <3> QED BY <2>1, LeastNatural
  <2>3. k \in 1 .. l BY <1>1, <1>2
  <2>4. k - 1 \in Wrong BY <1>1, <1>3, <2>3
  <2>5. ~ (k <= k - 1) BY <2>3
  <2> QED
    <3> HIDE DEF Wrong
    <3> QED BY <2>2, <2>4, <2>5
<1>5. Numbered(n)
  <2> HIDE DEF Numbered
  <2> QED BY <1>4
<1>6. PICK c \in Nat : {ids[j] : j \in 1 .. n} = 1 .. c BY <1>5
<1>7. Cardinality(1 .. c) = c BY FS_Interval
<1> QED BY <1>6, <1>7

\* After any of the ids those heard so far are 1 to n.
ReadsInOrder(ids) ==
    \A k \in DOMAIN ids : {ids[j] : j \in 1 .. k} = 1 .. Cardinality({ids[j] : j \in 1 .. k})

LEMMA BoundSpeakersAsHeard == ASSUME WayInv PROVE SpeakersAsHeard
<1> SUFFICES ASSUME at = "bound", worker.request.structured # Null
             PROVE ReadsInOrder(FlattenSeq([i \in DOMAIN PromptText(worker.request).shots |->
                                   PromptText(worker.request).shots[i].speakers]))
  BY DEF SpeakersAsHeard, ReadsInOrder
<1>1. PICK p : p = worker.request.structured OBVIOUS
<1>2. PICK n \in Nat \ {0} : n = Len(p.shots) BY <1>1, BoundPrompt
<1>3. /\ PromptText(worker.request) = Wire(p) /\ ValidPrompt(p)
      /\ \A j \in 1 .. n : p.shots[j].speakers \in Seq(Nat)
  BY <1>1, <1>2, BoundPrompt
<1>4. PICK shots : shots = PromptText(worker.request).shots OBVIOUS
<1>5. DOMAIN shots = 1 .. n /\ \A i \in 1 .. n : shots[i].speakers = p.shots[i].speakers
  BY <1>2, <1>3, <1>4 DEF Wire, Indices
<1>6. PICK said : said = [i \in 1 .. n |-> p.shots[i].speakers] OBVIOUS
<1>7. said \in Seq(Seq(Nat)) /\ Len(said) = n BY <1>3, <1>6
<1>8. [i \in DOMAIN shots |-> shots[i].speakers] = said BY <1>5, <1>6
<1>9. PICK ids \in Seq(Nat) : ids = FlattenSeq(said) BY <1>2, <1>7, FlattenedIsSequence
<1>10. Spoken(p) = ids BY <1>2, <1>6, <1>9 DEF Spoken, Indices
<1>11. \A k \in 1 .. Len(ids) :
          (\A j \in 1 .. k - 1 : ids[j] # ids[k]) => ids[k] = HeardBefore(ids, k) + 1
  BY <1>3, <1>10 DEF ValidPrompt, SpeakerIdsAreContinuous, Indices
<1>12. ASSUME NEW k \in DOMAIN ids
       PROVE {ids[j] : j \in 1 .. k} = 1 .. Cardinality({ids[j] : j \in 1 .. k})
  <2>1. k \in 0 .. Len(ids) BY <1>12
  <2> QED BY <1>11, <2>1, NumberedAsHeard
<1>13. ReadsInOrder(ids) BY <1>12 DEF ReadsInOrder
<1> QED BY <1>4, <1>8, <1>9, <1>13

\* The text of a prompt that is bound is read in the order in which it is played,
\* and its speakers are numbered as they are first heard, for every prompt that
\* passes the checks (validation.py:157-177, render.py:30-35, alignment.py:80-92).
THEOREM TextReadsForward == IntakeSpec => []WireReadsForward
<1>1. ASSUME WayInv PROVE WireReadsForward
  BY <1>1, BoundCutsRunForward, BoundSpeakersAsHeard DEF WireReadsForward
<1> QED BY <1>1, WayHolds, PTL

=============================================================================
