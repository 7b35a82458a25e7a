---------------------------- MODULE WorkerProofs ----------------------------
(***************************************************************************)
(* Proofs about Worker, for any number of events and any concurrency.      *)
(*                                                                         *)
(* The argument: the lock (or the main task being alone) leaves one        *)
(* starter, and what a starter awaits says where the lifecycle is.  So a   *)
(* transition is refused only on a worker that has failed already, the     *)
(* launch is reached once, and the last step ends in READY.                *)
(***************************************************************************)
EXTENDS Worker, TLAPS

\* What the invariant needs of the types, and who is starting.
Typed ==
    /\ RuntimeTypeOK
    /\ PromptTypeOK
    /\ launches \in Nat
    /\ gate \in Event \cup {None}
    /\ main \in MainPlace
    /\ \A e \in Event : pc[e] = "starting" <=> stage[e] # "none"
    /\ main = "starting" <=> stage[Main] # "none"

IInv == Typed /\ StartupInv

-----------------------------------------------------------------------------
(* The startup *)

\* A step that succeeds moves the lifecycle along its one edge, and launches a
\* child only on the edge into VALIDATING (supervisor.py start).
LEMMA StepMoves ==
    ASSUME IInv, NEW s \in Starter, StepSucceeds(s)
    PROVE  /\ stage[s] \in Stage \ {"none"}
           /\ lifecycle = StateAt(stage[s])
           /\ lifecycle' = Target(stage[s])
           /\ stage' = [stage EXCEPT ![s] = StepAfter(stage[s])]
           /\ launches' = IF stage[s] = "launch" THEN launches + 1 ELSE launches
           /\ failure' = failure
  <1>1. stage[s] \in Stage \ {"none"} /\ lifecycle \in WorkerState
    BY DEF IInv, Typed, RuntimeTypeOK, StepSucceeds
  <1>2. lifecycle # "failed"
    BY <1>1 DEF StepSucceeds, CanMoveTo, Transitions, Target, Stage, WorkerState
  <1>3. lifecycle = StateAt(stage[s])
    BY <1>1, <1>2 DEF IInv, StartupInv, InStep
  <1>4. launches' = IF stage[s] = "launch" THEN launches + 1 ELSE launches
    BY <1>1 DEF StepSucceeds, Effect, Launch, comfyVars, Stage
  <1> QED
    BY <1>1, <1>3, <1>4 DEF StepSucceeds

\* A transition is refused only after an earlier failure, and nothing is
\* launched by a step whose transition is refused or which raises.
LEMMA StepFails ==
    ASSUME IInv, NEW s \in Starter, StepRejected(s) \/ StepRaises(s)
    PROVE  /\ stage[s] \in Stage \ {"none"}
           /\ lifecycle' = "failed"
           /\ stage' = [stage EXCEPT ![s] = "none"]
           /\ launches' = launches
           /\ failure' \in Failure
           /\ StepRejected(s) => lifecycle = "failed"
           /\ failure' = "raised" \/ lifecycle = "failed"
  <1>1. stage[s] \in Stage \ {"none"} /\ lifecycle \in WorkerState
    BY DEF IInv, Typed, RuntimeTypeOK, StepRejected, StepRaises
  <1>2. \/ lifecycle = StateAt(stage[s])
        \/ stage[s] = "configure" /\ lifecycle = "failed"
    BY <1>1 DEF IInv, StartupInv, InStep
  <1>3. CASE StepRejected(s)
    <2>1. lifecycle = "failed" /\ stage[s] = "configure"
      BY <1>1, <1>2, <1>3
         DEF StepRejected, CanMoveTo, Transitions, Target, StateAt, Stage, WorkerState
    <2>2. launches' = launches
      BY <2>1, <1>3 DEF StepRejected, Effect, comfyVars
    <2> QED
      BY <1>1, <1>3, <2>1, <2>2 DEF StepRejected, Fail, Failure
  <1>4. CASE StepRaises(s)
    <2>1. lifecycle' = "failed" /\ failure' = "raised" /\ launches' = launches
      BY <1>4 DEF StepRaises, Fail, comfyVars
    <2>2. StepRejected(s) => lifecycle = "failed"
      BY <1>1, <1>2
         DEF StepRejected, CanMoveTo, Transitions, Target, StateAt, Stage, WorkerState
    <2> QED
      BY <1>1, <1>4, <2>1, <2>2 DEF StepRaises, Failure
  <1> QED
    BY <1>3, <1>4

\* The state a step leads to is the one in which its successor runs.
LEMMA Chain ==
    ASSUME NEW step \in Stage \ {"none"}
    PROVE  /\ StepAfter(step) \in Stage
           /\ Target(step) \in WorkerState
           /\ StepAfter(step) = "none" <=> step = "validate"
           /\ StepAfter(step) # "none" => Target(step) = StateAt(StepAfter(step))
           /\ Target("validate") = "ready"
           /\ StepAfter(step) # "none" => Target(step) # "ready" /\ Target(step) # "failed"
  BY DEF Stage, StepAfter, Target, StateAt, WorkerState

-----------------------------------------------------------------------------
(* The invariant *)

LEMMA InitIsSound == Init => IInv
  <1> SUFFICES ASSUME Init PROVE IInv
    OBVIOUS
  <1> USE DEF Init, ComfyInit, PromptInit, RuntimeInit
  <1>1. Typed
    BY MainAssumption
       DEF Typed, RuntimeTypeOK, PromptTypeOK, WorkerState, Failure, Stage, Place,
           Outcome, MainPlace, Starter
  <1>2. InStep /\ OneStarter
    BY EventAssumption, MainAssumption DEF InStep, OneStarter, StateAt, Starter
  <1>3. Settled /\ NoChildYet /\ OneChild /\ AdmittedOnlyWhenReady
    BY DEF Settled, NoChildYet, OneChild, AdmittedOnlyWhenReady, Prompting
  <1> QED
    BY <1>1, <1>2, <1>3 DEF IInv, StartupInv

\* What the invariant reads, as it was.
StartupStays == UNCHANGED <<lifecycle, failure, stage, launches, gate, main>>

\* Steps of ComfyUI, of time and of signals change nothing the invariant reads.
LEMMA QuietKeeps ==
    ASSUME IInv, StartupStays, UNCHANGED promptVars
    PROVE  IInv'
  BY DEF IInv, StartupInv, StartupStays, Typed, RuntimeTypeOK, PromptTypeOK, promptVars,
         InStep, OneStarter, Settled, NoChildYet, OneChild, AdmittedOnlyWhenReady, Ready

\* An event that moves among the places of its prompt, or leaves them, keeps
\* the invariant: it holds no lock and is at no stage (executor.py execute).
LEMMA PlaceKeeps ==
    ASSUME IInv, StartupStays, PromptTypeOK', NEW e \in Event, main = "off",
           NEW place \in Place \ {"starting"}, Goto(e, place), pc[e] # "starting",
           place \in Prompting => Ready
    PROVE  IInv'
  <1>1. \A x \in Event : pc'[x] = IF x = e THEN place ELSE pc[x]
    BY DEF Goto, IInv, Typed, PromptTypeOK
  <1>2. Typed'
    BY <1>1 DEF IInv, Typed, StartupStays, RuntimeTypeOK
  <1>3. InStep' /\ Settled' /\ NoChildYet' /\ OneChild'
    BY DEF IInv, StartupInv, StartupStays, InStep, Settled, NoChildYet, OneChild
  <1>4. OneStarter'
    BY DEF IInv, StartupInv, StartupStays, OneStarter
  <1>5. AdmittedOnlyWhenReady'
    BY <1>1 DEF IInv, StartupInv, StartupStays, AdmittedOnlyWhenReady, Ready
  <1> QED
    BY <1>2, <1>3, <1>4, <1>5 DEF IInv, StartupInv

LEMMA ArriveKeeps ==
    ASSUME IInv, NEW e \in Event, Arrive(e)
    PROVE  IInv'
  <1>1. PromptTypeOK'
    BY DEF IInv, Typed, Arrive, Goto, Answer, PromptTypeOK, Place, Outcome
  <1>2. StartupStays /\ main = "off" /\ pc[e] # "starting"
    BY DEF Arrive, StartupStays, comfyVars, runtimeVars
  <1>3. CASE Goto(e, "gate")
    BY <1>1, <1>2, <1>3, PlaceKeeps DEF Place, Prompting
  <1>4. CASE Answer(e, "invalid")
    BY <1>1, <1>2, <1>4, PlaceKeeps DEF Place, Prompting, Answer
  <1> QED
    BY <1>3, <1>4 DEF Arrive

\* Every step of execute goes from a place of a prompt to another, or is done.
LEMMA RenderKeeps ==
    ASSUME IInv, NEW e \in Event, RenderStep(e)
    PROVE  IInv'
  <1> USE DEF Submit, SubmitFails, Poll, Status, StatusFails, Deadline, Cancel, CancelFails
  <1>1. PromptStep(e) /\ UNCHANGED <<runtimeVars, gate, main>>
    BY DEF RenderStep
  <1>2. PromptTypeOK'
    <2>1. /\ pc \in [Event -> Place] /\ outcome \in [Event -> Outcome]
          /\ expired \in [Event -> BOOLEAN]
      BY DEF IInv, Typed, PromptTypeOK
    <2>2. expired' = expired
      BY <1>1 DEF PromptStep
    <2>3. outcome' \in [Event -> Outcome] /\ pc' \in [Event -> Place]
      BY <1>1, <2>1 DEF PromptStep, Goto, Answer, Place, Outcome
    <2> QED
      BY <2>1, <2>2, <2>3 DEF PromptTypeOK
  <1>3. launches' = launches
    BY <1>1 DEF PromptStep, comfyVars, Enqueue, Dequeue
  <1>4. StartupStays
    BY <1>1, <1>3 DEF StartupStays, runtimeVars
  <1>5. pc[e] \in Prompting
    BY <1>1 DEF PromptStep, Prompting
  <1>6. Ready
    BY <1>5 DEF IInv, StartupInv, AdmittedOnlyWhenReady
  <1>7. main = "off"
    BY <1>5 DEF IInv, StartupInv, OneStarter, Prompting
  <1>8. \E place \in {"loop", "asked", "cancel", "done"} : Goto(e, place)
    BY <1>1 DEF PromptStep, Answer
  <1>9. PICK place \in {"loop", "asked", "cancel", "done"} : Goto(e, place)
    BY <1>8
  <1>10. place \in Place \ {"starting"} /\ pc[e] # "starting"
    BY <1>5 DEF Place, Prompting
  <1> QED
    BY <1>2, <1>4, <1>6, <1>7, <1>9, <1>10, PlaceKeeps

\* The event that takes the lock finds nobody starting, so its first step meets
\* a new lifecycle or a failed one (serverless.py ensure_started).
LEMMA EnterGateKeeps ==
    ASSUME IInv, NEW e \in Event, EnterGate(e)
    PROVE  IInv'
  <1>1. PromptTypeOK'
    BY DEF IInv, Typed, EnterGate, Goto, PromptTypeOK, Place
  <1>2. CASE Ready /\ Goto(e, "submit") /\ UNCHANGED <<gate, stage>>
    <2>1. StartupStays
      BY <1>2 DEF EnterGate, StartupStays, comfyVars
    <2>2. main = "off"
      BY DEF EnterGate, IInv, StartupInv, OneStarter
    <2> QED
      BY <1>1, <1>2, <2>1, <2>2, PlaceKeeps DEF Place, Prompting, EnterGate
  <1>3. CASE /\ ~Ready /\ Goto(e, "starting") /\ gate' = e
             /\ stage' = [stage EXCEPT ![e] = "configure"]
    <2>1. /\ pc[e] = "gate" /\ gate = None
          /\ UNCHANGED <<lifecycle, failure, launches, main>>
      BY DEF EnterGate, comfyVars
    <2>2. \A s \in Starter : stage'[s] = IF s = e THEN "configure" ELSE stage[s]
      BY <1>3 DEF IInv, Typed, RuntimeTypeOK
    <2>3. \A x \in Event : pc'[x] = IF x = e THEN "starting" ELSE pc[x]
      BY <1>3 DEF IInv, Typed, PromptTypeOK, Goto
    <2>4. main = "off"
      BY <2>1 DEF IInv, StartupInv, OneStarter
    <2>5. \A s \in Starter : stage[s] = "none"
      BY <2>1, <2>4, EventAssumption DEF IInv, StartupInv, OneStarter, Starter
    <2>6. lifecycle \in {"configuring", "failed"}
      BY <1>3, <2>1, <2>4 DEF IInv, StartupInv, Settled, Ready
    <2>7. Typed'
      <3>1. stage' \in [Starter -> Stage]
        BY <1>3 DEF IInv, Typed, RuntimeTypeOK, Stage
      <3>2. Main # e /\ Main \in Starter /\ \A x \in Event : x \in Starter
        BY MainAssumption DEF Starter
      <3> QED
        BY <1>1, <1>3, <2>1, <2>2, <2>3, <3>1, <3>2 DEF IInv, Typed, RuntimeTypeOK
    <2>8. InStep'
      BY <2>1, <2>2, <2>5, <2>6 DEF InStep, StateAt
    <2>9. OneStarter'
      BY <1>3, <2>1, <2>2, <2>4, <2>5, MainAssumption DEF OneStarter, Starter
    <2>10. Settled' /\ NoChildYet' /\ OneChild'
      BY <1>3, <2>1, <2>4, EventAssumption
         DEF IInv, StartupInv, Settled, NoChildYet, OneChild
    <2>11. AdmittedOnlyWhenReady'
      BY <2>1, <2>3 DEF IInv, StartupInv, AdmittedOnlyWhenReady, Ready, Prompting
    <2> QED
      BY <2>7, <2>8, <2>9, <2>10, <2>11 DEF IInv, StartupInv
  <1> QED
    BY <1>2, <1>3 DEF EnterGate

\* An event that is starting holds the lock, is the only starter, and keeps
\* every other event from being admitted.
LEMMA AloneAtTheGate ==
    ASSUME IInv, NEW e \in Event, stage[e] # "none"
    PROVE  /\ gate = e /\ main = "off" /\ pc[e] = "starting" /\ ~Ready
           /\ \A s \in Starter : s # e => stage[s] = "none"
           /\ \A x \in Event : pc[x] \notin Prompting
  <1>1. gate = e /\ pc[e] = "starting" /\ main = "off"
    BY DEF IInv, Typed, StartupInv, OneStarter
  <1>2. \A s \in Starter : s # e => stage[s] = "none"
    BY <1>1 DEF IInv, StartupInv, OneStarter, Starter
  <1>3. ~Ready
    BY DEF IInv, Typed, StartupInv, InStep, Ready, StateAt, RuntimeTypeOK, Stage, Starter
  <1> QED
    BY <1>1, <1>2, <1>3 DEF IInv, StartupInv, AdmittedOnlyWhenReady

\* The two ways in which a startup step of an event ends.
LEMMA EventStartsKeeps ==
    ASSUME IInv, NEW e \in Event, EventStarts(e)
    PROVE  IInv'
  <1> DEFINE step == stage[e]
             next == StepAfter(step)
  <1>1. e \in Starter /\ Main \in Starter /\ Main # e /\ \A x \in Event : x \in Starter
    BY MainAssumption DEF Starter
  <1>2. StepSucceeds(e)
    BY DEF EventStarts
  <1>3. /\ step \in Stage \ {"none"} /\ lifecycle = StateAt(step)
        /\ lifecycle' = Target(step) /\ failure' = failure
        /\ stage' = [stage EXCEPT ![e] = next]
        /\ launches' = IF step = "launch" THEN launches + 1 ELSE launches
    BY <1>1, <1>2, StepMoves
  <1>4. /\ gate = e /\ main = "off" /\ pc[e] = "starting" /\ ~Ready
        /\ \A s \in Starter : s # e => stage[s] = "none"
        /\ \A x \in Event : pc[x] \notin Prompting
    BY <1>3, AloneAtTheGate
  <1>5. /\ next \in Stage /\ Target(step) \in WorkerState
        /\ next = "none" <=> step = "validate"
        /\ next # "none" => Target(step) = StateAt(next)
        /\ Target("validate") = "ready"
    BY <1>3, Chain
  <1>6. \A s \in Starter : stage'[s] = IF s = e THEN next ELSE stage[s]
    BY <1>3 DEF IInv, Typed, RuntimeTypeOK
  <1>7. main' = main /\ outcome' = outcome /\ expired' = expired
    BY DEF EventStarts
  <1>8. /\ gate' = IF next = "none" THEN None ELSE e
        /\ pc' = IF next = "none" THEN [pc EXCEPT ![e] = "submit"] ELSE pc
    BY <1>1, <1>4, <1>6 DEF EventStarts, LeaveGate, Goto
  <1>9. \A x \in Event : pc'[x] = IF x = e /\ next = "none" THEN "submit" ELSE pc[x]
    BY <1>8 DEF IInv, Typed, PromptTypeOK
  <1>10. launches' \in Nat /\ launches' <= 1 /\ (NoChildYet)'
    BY <1>3, <1>5 DEF IInv, Typed, StartupInv, OneChild, NoChildYet, StateAt, Target, Stage
  <1>11. Typed'
    <2>1. stage' \in [Starter -> Stage] /\ pc' \in [Event -> Place]
      BY <1>3, <1>5, <1>8 DEF IInv, Typed, RuntimeTypeOK, PromptTypeOK, Place
    <2>2. \A x \in Event : pc'[x] = "starting" <=> stage'[x] # "none"
      BY <1>1, <1>4, <1>6, <1>9 DEF IInv, Typed
    <2> QED
      BY <1>1, <1>3, <1>4, <1>5, <1>6, <1>7, <1>8, <1>10, <2>1, <2>2
         DEF IInv, Typed, RuntimeTypeOK, PromptTypeOK
  <1>12. InStep'
    BY <1>3, <1>4, <1>5, <1>6 DEF InStep
  <1>13. OneStarter'
    BY <1>1, <1>4, <1>6, <1>7, <1>8, EventAssumption DEF OneStarter
  <1>14. Settled'
    BY <1>3, <1>4, <1>5, <1>7, <1>8, EventAssumption DEF Settled
  <1>15. AdmittedOnlyWhenReady'
    BY <1>3, <1>4, <1>5, <1>9 DEF AdmittedOnlyWhenReady, Ready, Prompting
  <1> QED
    BY <1>10, <1>11, <1>12, <1>13, <1>14, <1>15 DEF IInv, StartupInv, OneChild

LEMMA EventStartFailsKeeps ==
    ASSUME IInv, NEW e \in Event, EventStartFails(e)
    PROVE  IInv'
  <1>1. e \in Starter /\ Main \in Starter /\ Main # e /\ \A x \in Event : x \in Starter
    BY MainAssumption DEF Starter
  <1>2. StepRejected(e) \/ StepRaises(e)
    BY DEF EventStartFails
  <1>3. /\ stage[e] # "none" /\ lifecycle' = "failed" /\ launches' = launches
        /\ stage' = [stage EXCEPT ![e] = "none"] /\ failure' \in Failure
    BY <1>1, <1>2, StepFails
  <1>4. /\ gate = e /\ main = "off" /\ pc[e] = "starting"
        /\ \A s \in Starter : s # e => stage[s] = "none"
        /\ \A x \in Event : pc[x] \notin Prompting
    BY <1>3, AloneAtTheGate
  <1>5. \A s \in Starter : stage'[s] = "none"
    BY <1>3, <1>4 DEF IInv, Typed, RuntimeTypeOK
  <1>6. /\ main' = main /\ expired' = expired /\ gate' = None
        /\ pc' = [pc EXCEPT ![e] = "done"]
        /\ outcome' = [outcome EXCEPT ![e] = "not_started"]
    BY <1>4 DEF EventStartFails, LeaveGate, Answer, Goto
  <1>7. \A x \in Event : pc'[x] = IF x = e THEN "done" ELSE pc[x]
    BY <1>6 DEF IInv, Typed, PromptTypeOK
  <1>8. Typed'
    <2>1. RuntimeTypeOK'
      BY <1>3 DEF IInv, Typed, RuntimeTypeOK, WorkerState, Stage
    <2>2. PromptTypeOK'
      BY <1>6 DEF IInv, Typed, PromptTypeOK, Place, Outcome
    <2>3. \A x \in Event : pc'[x] = "starting" <=> stage'[x] # "none"
      BY <1>1, <1>4, <1>5, <1>7 DEF IInv, Typed
    <2> QED
      BY <1>1, <1>3, <1>4, <1>5, <1>6, <2>1, <2>2, <2>3 DEF IInv, Typed
  <1>9. InStep' /\ OneStarter'
    BY <1>1, <1>4, <1>5, <1>6, EventAssumption DEF InStep, OneStarter
  <1>10. Settled' /\ NoChildYet' /\ OneChild'
    BY <1>3, <1>4, <1>6 DEF IInv, StartupInv, Settled, NoChildYet, OneChild
  <1>11. AdmittedOnlyWhenReady'
    BY <1>4, <1>7 DEF AdmittedOnlyWhenReady, Prompting
  <1> QED
    BY <1>8, <1>9, <1>10, <1>11 DEF IInv, StartupInv

\* The main task starts alone: no event has arrived.
LEMMA MainAlone ==
    ASSUME IInv, main # "off"
    PROVE  /\ gate = None
           /\ \A x \in Event : pc[x] = "idle" /\ stage[x] = "none"
  <1>1. \A x \in Event : pc[x] = "idle" /\ stage[x] = "none"
    BY DEF IInv, Typed, StartupInv, OneStarter
  <1> QED
    BY <1>1 DEF IInv, Typed, StartupInv, OneStarter

LEMMA MainStartsKeeps ==
    ASSUME IInv, MainStarts
    PROVE  IInv'
  <1> DEFINE step == stage[Main]
             next == StepAfter(step)
  <1>1. Main \in Starter /\ \A x \in Event : x \in Starter /\ x # Main
    BY MainAssumption DEF Starter
  <1>2. StepSucceeds(Main)
    BY DEF MainStarts
  <1>3. /\ step \in Stage \ {"none"} /\ lifecycle = StateAt(step)
        /\ lifecycle' = Target(step) /\ failure' = failure
        /\ stage' = [stage EXCEPT ![Main] = next]
        /\ launches' = IF step = "launch" THEN launches + 1 ELSE launches
    BY <1>1, <1>2, StepMoves
  <1>4. main = "starting"
    BY <1>3 DEF IInv, Typed
  <1>5. gate = None /\ \A x \in Event : pc[x] = "idle" /\ stage[x] = "none"
    BY <1>4, MainAlone
  <1>6. /\ next \in Stage /\ Target(step) \in WorkerState
        /\ next = "none" <=> step = "validate"
        /\ next # "none" => Target(step) = StateAt(next)
        /\ Target("validate") = "ready"
    BY <1>3, Chain
  <1>7. \A s \in Starter : stage'[s] = IF s = Main THEN next ELSE stage[s]
    BY <1>3 DEF IInv, Typed, RuntimeTypeOK
  <1>8. /\ main' = IF next = "none" THEN "waiting" ELSE "starting"
        /\ UNCHANGED <<promptVars, gate>>
    BY <1>1, <1>4, <1>7 DEF MainStarts
  <1>9. launches' \in Nat /\ launches' <= 1 /\ NoChildYet'
    BY <1>3, <1>6 DEF IInv, Typed, StartupInv, OneChild, NoChildYet, StateAt, Target, Stage
  <1>10. Typed'
    <2>1. RuntimeTypeOK'
      BY <1>3, <1>6 DEF IInv, Typed, RuntimeTypeOK
    <2>2. PromptTypeOK' /\ \A x \in Event : pc'[x] = "starting" <=> stage'[x] # "none"
      BY <1>1, <1>5, <1>7, <1>8 DEF IInv, Typed, PromptTypeOK, promptVars
    <2> QED
      BY <1>1, <1>7, <1>8, <1>9, <2>1, <2>2 DEF IInv, Typed, MainPlace
  <1>11. InStep'
    BY <1>1, <1>3, <1>5, <1>6, <1>7 DEF InStep, Starter
  <1>12. OneStarter'
    BY <1>1, <1>5, <1>7, <1>8, EventAssumption DEF OneStarter, promptVars
  <1>13. Settled' /\ AdmittedOnlyWhenReady'
    BY <1>3, <1>5, <1>6, <1>8
       DEF Settled, AdmittedOnlyWhenReady, Prompting, promptVars
  <1> QED
    BY <1>9, <1>10, <1>11, <1>12, <1>13 DEF IInv, StartupInv, OneChild

LEMMA MainStartFailsKeeps ==
    ASSUME IInv, MainStartFails
    PROVE  IInv'
  <1>1. Main \in Starter /\ \A x \in Event : x \in Starter /\ x # Main
    BY MainAssumption DEF Starter
  <1>2. StepRejected(Main) \/ StepRaises(Main)
    BY DEF MainStartFails
  <1>3. /\ stage[Main] # "none" /\ lifecycle' = "failed" /\ launches' = launches
        /\ stage' = [stage EXCEPT ![Main] = "none"] /\ failure' \in Failure
    BY <1>1, <1>2, StepFails
  <1>4. gate = None /\ \A x \in Event : pc[x] = "idle" /\ stage[x] = "none"
    BY <1>3, MainAlone DEF IInv, Typed
  <1>5. \A s \in Starter : stage'[s] = "none"
    BY <1>3, <1>4 DEF IInv, Typed, RuntimeTypeOK, Starter
  <1>6. main' = "exited" /\ UNCHANGED <<promptVars, gate>>
    BY DEF MainStartFails
  <1>7. Typed'
    <2>1. RuntimeTypeOK' /\ PromptTypeOK'
      BY <1>3, <1>6
         DEF IInv, Typed, RuntimeTypeOK, PromptTypeOK, WorkerState, Stage, promptVars
    <2> QED
      BY <1>1, <1>3, <1>4, <1>5, <1>6, <2>1 DEF IInv, Typed, MainPlace, promptVars
  <1>8. InStep' /\ OneStarter'
    BY <1>1, <1>4, <1>5, <1>6, EventAssumption DEF InStep, OneStarter, promptVars
  <1>9. Settled' /\ NoChildYet' /\ OneChild' /\ AdmittedOnlyWhenReady'
    BY <1>3, <1>4, <1>6
       DEF IInv, StartupInv, Settled, NoChildYet, OneChild, AdmittedOnlyWhenReady,
           Prompting, promptVars
  <1> QED
    BY <1>7, <1>8, <1>9 DEF IInv, StartupInv

\* A drain goes from READY to DRAINING to STOPPED, whatever became of the child.
LEMMA MainLeavesKeeps ==
    ASSUME IInv, MainDrains \/ MainExits
    PROVE  IInv'
  <1>1. gate = None /\ \A x \in Event : pc[x] = "idle" /\ stage[x] = "none"
    BY MainAlone DEF MainDrains, MainExits
  <1>2. /\ main # "starting" /\ main' \in {"draining", "exited"}
        /\ UNCHANGED <<promptVars, gate, failure, stage, launches>>
    BY DEF MainDrains, MainExits, DropReadiness, Terminate, Gone, comfyVars
  <1>3. /\ main' = "draining" => lifecycle' = "draining"
        /\ main' = "exited" => lifecycle' = "stopped"
    BY DEF IInv, StartupInv, Settled, MainDrains, MainExits, DropReadiness, Terminate, Ready
  <1>4. \A s \in Starter : stage[s] = "none"
    BY <1>1, <1>2 DEF IInv, Typed, Starter
  <1>5. Typed'
    BY <1>1, <1>2, <1>3
       DEF IInv, Typed, RuntimeTypeOK, PromptTypeOK, promptVars, WorkerState, MainPlace
  <1>6. InStep' /\ OneStarter'
    BY <1>1, <1>2, <1>4, EventAssumption, MainAssumption
       DEF InStep, OneStarter, promptVars, Starter
  <1>7. Settled' /\ NoChildYet' /\ OneChild' /\ AdmittedOnlyWhenReady'
    BY <1>1, <1>2, <1>3
       DEF IInv, StartupInv, Settled, NoChildYet, OneChild, AdmittedOnlyWhenReady,
           Prompting, promptVars
  <1> QED
    BY <1>5, <1>6, <1>7 DEF IInv, StartupInv

LEMMA NextKeeps == IInv /\ [Next]_vars => IInv'
  <1> SUFFICES ASSUME IInv, [Next]_vars PROVE IInv'
    OBVIOUS
  <1>1. CASE ComfyStep
    BY <1>1, QuietKeeps
       DEF ComfyStep, ComfyNext, Dies, Gone, StartPrompt, FinishPrompt, StartupStays,
           runtimeVars
  <1>2. ASSUME NEW e \in Event, Arrive(e) PROVE IInv'
    BY <1>2, ArriveKeeps
  <1>3. ASSUME NEW e \in Event, EnterGate(e) PROVE IInv'
    BY <1>3, EnterGateKeeps
  <1>4. ASSUME NEW e \in Event, EventStep(e) PROVE IInv'
    BY <1>4, EventStartsKeeps, EventStartFailsKeeps, RenderKeeps DEF EventStep
  <1>5. ASSUME NEW e \in Event, TimePasses(e) PROVE IInv'
    <2>1. StartupStays /\ UNCHANGED <<pc, outcome>>
      BY <1>5 DEF TimePasses, Expire, StartupStays, runtimeVars, comfyVars
    <2>2. expired' \in [Event -> BOOLEAN]
      BY <1>5 DEF TimePasses, Expire, IInv, Typed, PromptTypeOK
    <2> QED
      BY <2>1, <2>2
         DEF IInv, StartupInv, StartupStays, Typed, RuntimeTypeOK, PromptTypeOK, InStep,
             OneStarter, Settled, NoChildYet, OneChild, AdmittedOnlyWhenReady, Ready
  <1>6. CASE StopSignal
    BY <1>6, QuietKeeps DEF StopSignal, StartupStays, runtimeVars, comfyVars
  <1>7. CASE MainStep
    BY <1>7, MainStartsKeeps, MainStartFailsKeeps, MainLeavesKeeps DEF MainStep
  <1>8. CASE UNCHANGED vars
    BY <1>8, QuietKeeps DEF vars, StartupStays, runtimeVars, comfyVars
  <1> QED
    BY <1>1, <1>2, <1>3, <1>4, <1>5, <1>6, <1>7, <1>8 DEF Next

-----------------------------------------------------------------------------
(* The queue of ComfyUI *)

\* The first of a queue goes.
LEMMA TailOf ==
    ASSUME NEW E, NEW q \in Seq(E), q # <<>>, IsInjective(q)
    PROVE  /\ Head(q) \in ToSet(q) /\ Head(q) \in E
           /\ Tail(q) \in Seq(E) /\ IsInjective(Tail(q)) /\ ToSet(Tail(q)) \subseteq ToSet(q)
  <1>1. PICK n \in Nat : n = Len(q) /\ n >= 1 /\ DOMAIN q = 1 .. n
    OBVIOUS
  <1>2. /\ Tail(q) \in Seq(E) /\ DOMAIN Tail(q) = 1 .. n - 1
        /\ \A i \in 1 .. n - 1 : Tail(q)[i] = q[i + 1]
    BY <1>1
  <1>3. \A i \in 1 .. n - 1 : i + 1 \in DOMAIN q
    BY <1>1
  <1>4. IsInjective(Tail(q))
    BY <1>2, <1>3 DEF IsInjective
  <1>5. ToSet(Tail(q)) \subseteq ToSet(q)
    BY <1>2, <1>3 DEF ToSet
  <1>6. 1 \in DOMAIN q /\ Head(q) = q[1]
    BY <1>1
  <1> QED
    BY <1>2, <1>4, <1>5, <1>6 DEF ToSet

\* And it does not wait any longer.
LEMMA HeadIsGone ==
    ASSUME NEW E, NEW q \in Seq(E), q # <<>>, IsInjective(q)
    PROVE  Head(q) \notin ToSet(Tail(q))
  <1>1. PICK n \in Nat : n = Len(q) /\ n >= 1 /\ DOMAIN q = 1 .. n
    OBVIOUS
  <1>2. /\ DOMAIN Tail(q) = 1 .. n - 1 /\ Head(q) = q[1]
        /\ \A i \in 1 .. n - 1 : Tail(q)[i] = q[i + 1]
    BY <1>1
  <1>3. \A i \in 1 .. n - 1 : i + 1 \in DOMAIN q /\ 1 \in DOMAIN q /\ i + 1 # 1
    BY <1>1
  <1>4. \A i \in 1 .. n - 1 : q[i + 1] # q[1]
    BY <1>3 DEF IsInjective
  <1> QED
    BY <1>2, <1>4 DEF ToSet

\* One joins that does not wait already.
LEMMA AppendOf ==
    ASSUME NEW E, NEW q \in Seq(E), IsInjective(q), NEW e \in E, e \notin ToSet(q)
    PROVE  /\ Append(q, e) \in Seq(E) /\ IsInjective(Append(q, e))
           /\ ToSet(Append(q, e)) \subseteq ToSet(q) \cup {e}
  <1>1. PICK n \in Nat : n = Len(q) /\ DOMAIN q = 1 .. n
    OBVIOUS
  <1>2. /\ Append(q, e) \in Seq(E) /\ DOMAIN Append(q, e) = 1 .. n + 1
        /\ \A i \in 1 .. n : Append(q, e)[i] = q[i]
        /\ Append(q, e)[n + 1] = e
    BY <1>1
  <1>3. \A i \in 1 .. n + 1 : i = n + 1 \/ i \in DOMAIN q
    BY <1>1
  <1>4. \A i \in DOMAIN q : q[i] # e
    BY DEF ToSet
  <1>5. IsInjective(Append(q, e))
    BY <1>1, <1>2, <1>3, <1>4 DEF IsInjective
  <1>6. ToSet(Append(q, e)) \subseteq ToSet(q) \cup {e}
    BY <1>2, <1>3, <1>1 DEF ToSet
  <1> QED
    BY <1>2, <1>5, <1>6

\* One that waits once is gone when its entry is deleted, and the others stay.
LEMMA RemoveAtOf ==
    ASSUME NEW E, NEW q \in Seq(E), IsInjective(q), NEW i \in DOMAIN q
    PROVE  /\ RemoveAt(q, i) \in Seq(E) /\ IsInjective(RemoveAt(q, i))
           /\ ToSet(RemoveAt(q, i)) \subseteq ToSet(q) \ {q[i]}
  <1>1. PICK n \in Nat : n = Len(q) /\ DOMAIN q = 1 .. n
    OBVIOUS
  <1>2. i \in 1 .. n
    BY <1>1
  <1> DEFINE a == SubSeq(q, 1, i - 1)
             b == SubSeq(q, i + 1, n)
  <1>3. /\ a \in Seq(E) /\ Len(a) = i - 1
        /\ \A k \in 1 .. i - 1 : a[k] = q[k]
    BY <1>1, <1>2
  <1>4. /\ b \in Seq(E) /\ Len(b) = n - i
        /\ \A k \in 1 .. n - i : b[k] = q[i + k]
    BY <1>1, <1>2
  <1>5. RemoveAt(q, i) = a \o b
    BY <1>1 DEF RemoveAt
  <1> HIDE DEF a, b
  <1>6. /\ a \o b \in Seq(E) /\ DOMAIN (a \o b) = 1 .. n - 1
        /\ \A k \in 1 .. n - 1 : (a \o b)[k] = IF k <= i - 1 THEN a[k] ELSE b[k - (i - 1)]
    BY <1>1, <1>2, <1>3, <1>4
  <1>7. \A k \in 1 .. n - 1 : (a \o b)[k] = IF k < i THEN q[k] ELSE q[k + 1]
    <2> SUFFICES ASSUME NEW k \in 1 .. n - 1
                 PROVE  (a \o b)[k] = IF k < i THEN q[k] ELSE q[k + 1]
      OBVIOUS
    <2>1. CASE k < i
      BY <1>2, <1>3, <1>6, <2>1
    <2>2. CASE ~ (k < i)
      <3>1. k - (i - 1) \in 1 .. n - i /\ i + (k - (i - 1)) = k + 1 /\ ~ (k <= i - 1)
        BY <1>2, <2>2
      <3> QED
        BY <1>4, <1>6, <2>2, <3>1
    <2> QED
      BY <2>1, <2>2
  <1>8. PICK r : r = a \o b
    OBVIOUS
  <1> DEFINE from(k) == IF k < i THEN k ELSE k + 1
  <1>9. \A k \in 1 .. n - 1 : from(k) \in 1 .. n /\ from(k) # i /\ r[k] = q[from(k)]
    <2> SUFFICES ASSUME NEW k \in 1 .. n - 1
                 PROVE  from(k) \in 1 .. n /\ from(k) # i /\ r[k] = q[from(k)]
      OBVIOUS
    <2>1. from(k) \in 1 .. n /\ from(k) # i
      BY <1>2
    <2>2. r[k] = IF k < i THEN q[k] ELSE q[k + 1]
      BY <1>7, <1>8
    <2> QED
      BY <2>1, <2>2
  <1>10. \A j, m \in 1 .. n : q[j] = q[m] => j = m
    BY <1>1 DEF IsInjective
  <1>11. IsInjective(r)
    <2> SUFFICES ASSUME NEW k \in 1 .. n - 1, NEW m \in 1 .. n - 1, r[k] = r[m]
                 PROVE  k = m
      BY <1>6, <1>8 DEF IsInjective
    <2>1. from(k) = from(m)
      <3> HIDE DEF from
      <3> QED
        BY <1>9, <1>10
    <2> QED
      BY <1>2, <2>1
  <1>12. ToSet(r) \subseteq ToSet(q) \ {q[i]}
    <2>1. \A j \in 1 .. n : q[j] \in ToSet(q)
      BY <1>1 DEF ToSet
    <2>2. \A k \in 1 .. n - 1 : r[k] \in ToSet(q) /\ r[k] # q[i]
      <3> HIDE DEF from
      <3> QED
        BY <1>2, <1>9, <1>10, <2>1
    <2> QED
      BY <1>6, <1>8, <2>2 DEF ToSet
  <1> QED
    BY <1>5, <1>6, <1>8, <1>11, <1>12

\* All events but one stay where they are.
OnlyMoves(e) == \A x \in Event \ {e} : pc'[x] = pc[x] /\ outcome'[x] = outcome[x]

\* What is to be seen of one step, for the invariant to be kept.
LEMMA QueueStep ==
    ASSUME QueueInv, NEW e \in Event, OnlyMoves(e),
           queue' \in Seq(Event), IsInjective(queue'),
           ToSet(queue') \subseteq ToSet(queue) \cup {e},
           e \in ToSet(queue') =>
               /\ pc'[e] \in {"loop", "asked", "cancel", "done"}
               /\ outcome'[e] # "job_timeout",
           pc'[e] # "done" => outcome'[e] = "none"
    PROVE  QueueInv'
  <1>1. \A x \in ToSet(queue') : x \in Event
    BY DEF ToSet
  <1> QED
    BY <1>1 DEF QueueInv, OnlyMoves

\* Nothing moves and the queue loses at most what it starts or what dies with it.
LEMMA QueueShrinks ==
    ASSUME QueueInv, UNCHANGED <<pc, outcome>>, queue' \in {queue, <<>>, Tail(queue)},
           queue' = Tail(queue) => queue # <<>> \/ queue' = <<>>
    PROVE  QueueInv'
  <1>1. CASE queue' = queue
    BY <1>1 DEF QueueInv
  <1>2. CASE queue' = <<>>
    <2>1. queue' \in Seq(Event) /\ IsInjective(queue') /\ ToSet(queue') = {}
      BY <1>2 DEF IsInjective, ToSet
    <2> QED
      BY <2>1 DEF QueueInv
  <1>3. CASE queue # <<>> /\ queue' = Tail(queue)
    <2>1. /\ queue' \in Seq(Event) /\ IsInjective(queue')
          /\ ToSet(queue') \subseteq ToSet(queue)
      BY <1>3, TailOf DEF QueueInv
    <2> QED
      BY <2>1 DEF QueueInv
  <1> QED
    BY <1>1, <1>2, <1>3

\* An event that has not submitted is not in the queue, and what it does until
\* then leaves the queue alone (serverless.py handle, up to execute).
LEMMA BeforeSubmission ==
    ASSUME IInv, QueueInv, NEW e \in Event, queue' = queue,
           pc[e] \in {"idle", "gate", "starting"},
           \/ UNCHANGED <<pc, outcome>>
           \/ \E place \in {"gate", "starting", "submit"} : Goto(e, place) /\ UNCHANGED outcome
           \/ \E result \in Outcome : Answer(e, result)
    PROVE  QueueInv'
  <1>1. pc \in [Event -> Place] /\ outcome \in [Event -> Outcome]
    BY DEF IInv, Typed, PromptTypeOK
  <1>2. e \notin ToSet(queue) /\ outcome[e] = "none"
    BY DEF QueueInv
  <1>3. CASE UNCHANGED <<pc, outcome>>
    BY <1>3, QueueShrinks
  <1>4. CASE \E place \in {"gate", "starting", "submit"} : Goto(e, place) /\ UNCHANGED outcome
    <2>1. OnlyMoves(e) /\ outcome'[e] = "none"
      BY <1>1, <1>2, <1>4 DEF OnlyMoves, Goto
    <2> QED
      BY <1>2, <2>1, QueueStep DEF QueueInv
  <1>5. CASE \E result \in Outcome : Answer(e, result)
    <2>1. OnlyMoves(e) /\ pc'[e] = "done"
      BY <1>1, <1>5 DEF OnlyMoves, Answer, Goto
    <2> QED
      BY <1>2, <2>1, QueueStep DEF QueueInv
  <1> QED
    BY <1>3, <1>4, <1>5

\* A prompt joins the queue with its submission, and leaves it before it is
\* reported as timed out (executor.py execute).
LEMMA RenderKeepsQueue ==
    ASSUME IInv, QueueInv, NEW e \in Event, RenderStep(e)
    PROVE  QueueInv'
  <1>1. pc \in [Event -> Place] /\ outcome \in [Event -> Outcome]
    BY DEF IInv, Typed, PromptTypeOK
  <1>2. queue \in Seq(Event) /\ IsInjective(queue)
    BY DEF QueueInv
  <1>3. CASE Submit(e) \/ (SubmitFails(e) /\ Enqueue(e))
    <2>1. pc[e] = "submit" /\ queue' = Append(queue, e)
      BY <1>3 DEF Submit, SubmitFails, Enqueue
    <2>2. e \notin ToSet(queue) /\ outcome[e] = "none"
      BY <2>1 DEF QueueInv
    <2>3. /\ queue' \in Seq(Event) /\ IsInjective(queue')
          /\ ToSet(queue') \subseteq ToSet(queue) \cup {e}
      BY <1>2, <2>1, <2>2, AppendOf
    <2>4. /\ OnlyMoves(e)
          /\ \/ pc'[e] = "loop" /\ outcome'[e] = "none"
             \/ pc'[e] = "done" /\ outcome'[e] = "comfy_request_failed"
      BY <1>1, <1>3, <2>2 DEF OnlyMoves, Submit, SubmitFails, Goto, Answer, Outcome
    <2> QED
      BY <2>3, <2>4, QueueStep
  <1>4. CASE \/ SubmitFails(e) /\ UNCHANGED comfyVars
             \/ Poll(e) \/ Status(e) \/ StatusFails(e) \/ Deadline(e)
             \/ CancelFails(e) /\ UNCHANGED comfyVars
    <2>1. queue' = queue
      BY <1>4 DEF Poll, Status, StatusFails, Deadline, comfyVars
    <2>2. pc[e] # "done"
      BY <1>4 DEF SubmitFails, Poll, Status, StatusFails, Deadline, CancelFails
    <2>3. outcome[e] = "none"
      BY <2>2 DEF QueueInv
    <2>4. /\ OnlyMoves(e)
          /\ \/ pc'[e] \in {"loop", "asked", "cancel"} /\ outcome'[e] = "none"
             \/ pc'[e] = "done" /\ outcome'[e] # "job_timeout"
      BY <1>1, <1>4, <2>3
         DEF OnlyMoves, SubmitFails, Poll, Status, StatusFails, Deadline, CancelFails,
             Goto, Answer, Place, Outcome
    <2> QED
      BY <1>2, <2>1, <2>4, QueueStep
  <1>5. CASE (Cancel(e) \/ CancelFails(e)) /\ Dequeue(e)
    <2>1. OnlyMoves(e) /\ pc'[e] = "done"
      BY <1>1, <1>5 DEF OnlyMoves, Cancel, CancelFails, Goto, Answer
    <2>2. /\ queue' \in Seq(Event) /\ IsInjective(queue')
          /\ ToSet(queue') \subseteq ToSet(queue) \ {e}
      <3>1. CASE e \notin ToSet(queue) /\ UNCHANGED queue
        BY <1>2, <3>1
      <3>2. ASSUME NEW i \in DOMAIN queue, queue[i] = e, queue' = RemoveAt(queue, i)
            PROVE  /\ queue' \in Seq(Event) /\ IsInjective(queue')
                   /\ ToSet(queue') \subseteq ToSet(queue) \ {e}
        BY <1>2, <3>2, RemoveAtOf
      <3> QED
        BY <1>5, <3>1, <3>2 DEF Dequeue
    <2> QED
      BY <2>1, <2>2, QueueStep
  <1> QED
    BY <1>3, <1>4, <1>5
       DEF RenderStep, PromptStep, SubmitFails, Cancel, CancelFails

\* Steps of the startup, of the main task, of signals and of time move no prompt;
\* what ComfyUI does and what ends it only shortens the queue.
LEMMA EffectKeepsQueue ==
    ASSUME NEW step \in Stage, Effect(step)
    PROVE  UNCHANGED <<queue, running, history>> /\ child' \in {child, "alive"}
  BY DEF Effect, Launch, comfyVars, Stage

LEMMA QueueKeeps == IInv /\ QueueInv /\ [Next]_vars => QueueInv'
  <1> SUFFICES ASSUME IInv, QueueInv, [Next]_vars PROVE QueueInv'
    OBVIOUS
  <1>1. stage \in [Starter -> Stage] /\ Main \in Starter /\ \A e \in Event : e \in Starter
    BY DEF IInv, Typed, RuntimeTypeOK, Starter
  <1>2. CASE ComfyStep
    BY <1>2, QueueShrinks
       DEF ComfyStep, ComfyNext, Dies, Gone, StartPrompt, FinishPrompt, promptVars
  <1>3. CASE StopSignal \/ MainStep \/ UNCHANGED vars
    <2>1. UNCHANGED <<pc, outcome>> /\ queue' \in {queue, <<>>}
      BY <1>1, <1>3, EffectKeepsQueue
         DEF StopSignal, MainStep, MainStarts, MainStartFails, MainDrains, MainExits,
             Terminate, Gone, StepSucceeds, StepRejected, StepRaises, vars, comfyVars,
             promptVars
    <2> QED
      BY <2>1, QueueShrinks
  <1>4. ASSUME NEW e \in Event, TimePasses(e) PROVE QueueInv'
    BY <1>4, QueueShrinks DEF TimePasses, Expire, comfyVars
  <1>5. ASSUME NEW e \in Event, Arrive(e) PROVE QueueInv'
    BY <1>5, BeforeSubmission DEF Arrive, comfyVars, Outcome
  <1>6. ASSUME NEW e \in Event, EnterGate(e) PROVE QueueInv'
    BY <1>6, BeforeSubmission DEF EnterGate, comfyVars
  <1>7. ASSUME NEW e \in Event, EventStarts(e) \/ EventStartFails(e) PROVE QueueInv'
    <2>1. stage[e] # "none" /\ queue' = queue
      BY <1>1, <1>7, EffectKeepsQueue
         DEF EventStarts, EventStartFails, StepSucceeds, StepRejected, StepRaises, comfyVars
    <2>2. pc[e] = "starting"
      BY <2>1, AloneAtTheGate
    <2> QED
      BY <1>7, <2>1, <2>2, BeforeSubmission DEF EventStarts, EventStartFails, Outcome
  <1>8. ASSUME NEW e \in Event, RenderStep(e) PROVE QueueInv'
    BY <1>8, RenderKeepsQueue
  <1> QED
    BY <1>2, <1>3, <1>4, <1>5, <1>6, <1>7, <1>8 DEF Next, EventStep

LEMMA QueueStarts == Init => QueueInv
  <1> SUFFICES ASSUME Init PROVE QueueInv
    OBVIOUS
  <1>1. queue = <<>> /\ \A e \in Event : outcome[e] = "none"
    BY DEF Init, ComfyInit, PromptInit
  <1>2. queue \in Seq(Event) /\ IsInjective(queue) /\ ToSet(queue) = {}
    BY <1>1 DEF IsInjective, ToSet
  <1> QED
    BY <1>1, <1>2 DEF QueueInv

-----------------------------------------------------------------------------
(* ComfyUI as the worker sees it *)

\* What ComfyUI renders and remembers, and the signal.
ChildTyped ==
    /\ child \in Child
    /\ running \in Event \cup {None}
    /\ history \in [Event -> Ending]
    /\ stop \in BOOLEAN

\* ComfyUI renders what was first in its queue, and nobody else starts a prompt.
LEMMA OnlyTheFirstStarts ==
    ASSUME IInv, QueueInv, [Next]_vars
    PROVE  /\ \/ running' \in {running, None}
              \/ running' \in ToSet(queue)
           /\ \/ UNCHANGED history
              \/ history' = [e \in Event |-> "none"]
              \/ \E ending \in Ending \ {"none"} : history' = [history EXCEPT ![running] = ending]
           /\ child' \in {child, "alive", "dead"}
           /\ stop' \in {stop, TRUE}
  <1>1. stage \in [Starter -> Stage] /\ Main \in Starter /\ \A e \in Event : e \in Starter
    BY DEF IInv, Typed, RuntimeTypeOK, Starter
  <1> DEFINE Quiet == UNCHANGED <<running, history>> /\ child' \in {child, "alive"}
             Lost == running' = None /\ history' = [e \in Event |-> "none"]
                     /\ child' \in {child, "dead"}
  <1>2. CASE ComfyStep
    <2>1. CASE Dies
      BY <1>2, <2>1 DEF ComfyStep, Dies, Gone
    <2>2. CASE StartPrompt
      BY <1>2, <2>2, TailOf DEF ComfyStep, StartPrompt, QueueInv
    <2>3. ASSUME NEW ending \in Ending \ {"none"}, FinishPrompt(ending)
          PROVE  /\ running' = None /\ UNCHANGED <<child, stop>>
                 /\ history' = [history EXCEPT ![running] = ending]
      BY <1>2, <2>3 DEF ComfyStep, FinishPrompt
    <2> QED
      BY <1>2, <2>1, <2>2, <2>3 DEF ComfyStep, ComfyNext
  <1>3. ASSUME NEW e \in Event, Arrive(e) \/ EnterGate(e) \/ TimePasses(e)
        PROVE  UNCHANGED comfyVars /\ UNCHANGED stop
    BY <1>3 DEF Arrive, EnterGate, TimePasses, Expire
  <1>4. ASSUME NEW e \in Event, RenderStep(e)
        PROVE  UNCHANGED <<child, running, history, stop>>
    BY <1>4
       DEF RenderStep, PromptStep, Submit, SubmitFails, Poll, Status, StatusFails,
           Deadline, Cancel, CancelFails, Enqueue, Dequeue, comfyVars
  <1>5. ASSUME NEW s \in Starter, StepSucceeds(s) \/ StepRejected(s) \/ StepRaises(s)
        PROVE  Quiet
    BY <1>1, <1>5, EffectKeepsQueue DEF StepSucceeds, StepRejected, StepRaises, comfyVars
  <1>6. ASSUME NEW e \in Event, EventStarts(e) \/ EventStartFails(e)
        PROVE  Quiet /\ UNCHANGED stop
    BY <1>1, <1>5, <1>6 DEF EventStarts, EventStartFails
  <1>7. CASE MainStep
    <2>1. UNCHANGED stop
      BY <1>7 DEF MainStep, MainStarts, MainStartFails, MainDrains, MainExits
    <2>2. Quiet \/ Lost
      BY <1>1, <1>5, <1>7
         DEF MainStep, MainStarts, MainStartFails, MainDrains, MainExits, Terminate, Gone,
             comfyVars
    <2> QED
      BY <2>1, <2>2
  <1>8. CASE StopSignal \/ UNCHANGED vars
    BY <1>8 DEF StopSignal, vars, comfyVars
  <1>9. QED
    BY <1>2, <1>3, <1>4, <1>6, <1>7, <1>8 DEF Next, EventStep, comfyVars

LEMMA ChildKeeps == IInv /\ QueueInv /\ ChildTyped /\ [Next]_vars => ChildTyped'
  <1> SUFFICES ASSUME IInv, QueueInv, ChildTyped, [Next]_vars PROVE ChildTyped'
    OBVIOUS
  <1>1. child' \in Child /\ stop' \in BOOLEAN
    BY OnlyTheFirstStarts DEF ChildTyped, Child
  <1>2. running' \in Event \cup {None}
    <2>1. \A e \in ToSet(queue) : e \in Event
      BY DEF QueueInv, ToSet
    <2> QED
      BY <2>1, OnlyTheFirstStarts DEF ChildTyped
  <1>3. history' \in [Event -> Ending]
    BY OnlyTheFirstStarts DEF ChildTyped, Ending
  <1> QED
    BY <1>1, <1>2, <1>3 DEF ChildTyped

-----------------------------------------------------------------------------
(* The theorems *)

\* The startup, apart from the types and the queue.
LEMMA StartupHolds == Spec => []StartupInv
  <1>1. IInv => StartupInv
    BY DEF IInv
  <1> QED
    BY <1>1, InitIsSound, NextKeeps, PTL DEF Spec

\* A step from any other state to FAILED is an exception of a startup step, and
\* never a transition that a rival starter made illegal (lifecycle.fail).
THEOREM OwnFailures == Spec => FailsByItsStepsOnly
  <1> DEFINE Own == lifecycle # "failed" /\ lifecycle' = "failed" => failure' = "raised"
  <1>1. IInv /\ [Next]_vars => [Own]_vars
    <2> SUFFICES ASSUME IInv, Next, lifecycle # "failed", lifecycle' = "failed"
                 PROVE  failure' = "raised"
      OBVIOUS
    <2>1. ASSUME NEW s \in Starter, StepSucceeds(s) PROVE FALSE
      <3>1. /\ stage[s] \in Stage \ {"none"}
            /\ lifecycle' = Target(stage[s])
        BY <2>1, StepMoves
      <3> QED
        BY <3>1 DEF Stage, Target
    <2>2. ASSUME NEW s \in Starter, StepRejected(s) \/ StepRaises(s)
          PROVE  failure' = "raised"
      BY <2>2, StepFails
    <2>3. \/ \E s \in Starter : StepSucceeds(s) \/ StepRejected(s) \/ StepRaises(s)
          \/ UNCHANGED lifecycle
          \/ MainDrains \/ MainExits
      BY DEF Next, ComfyStep, Arrive, EnterGate, EventStep, EventStarts, EventStartFails,
             RenderStep, TimePasses, StopSignal, MainStep, MainStarts, MainStartFails,
             runtimeVars, Starter
    <2>4. ~(MainDrains \/ MainExits)
      BY DEF MainDrains, MainExits, DropReadiness, Terminate
    <2> QED
      BY <2>1, <2>2, <2>3, <2>4
  <1> QED
    BY <1>1, InitIsSound, NextKeeps, PTL DEF Spec, FailsByItsStepsOnly

\* A lifecycle with a failure on record has come to one of its two last states.
FailureIsLast == failure # "none" => lifecycle \in {"failed", "stopped"}

LEMMA FailureStaysLast == IInv /\ FailureIsLast /\ [Next]_vars => FailureIsLast'
  <1> SUFFICES ASSUME IInv, FailureIsLast, [Next]_vars PROVE FailureIsLast'
    OBVIOUS
  <1>1. ASSUME NEW s \in Starter, StepSucceeds(s) PROVE failure' = "none"
    <2>1. stage[s] \in Stage \ {"none"} /\ lifecycle = StateAt(stage[s]) /\ failure' = failure
      BY <1>1, StepMoves
    <2> QED
      BY <2>1 DEF FailureIsLast, StateAt, Stage
  <1>2. ASSUME NEW s \in Starter, StepRejected(s) \/ StepRaises(s) PROVE lifecycle' = "failed"
    BY <1>2, StepFails
  <1>3. ASSUME MainDrains \/ MainExits PROVE FailureIsLast'
    BY <1>3 DEF MainDrains, MainExits, DropReadiness, Terminate, FailureIsLast, Ready
  <1>4. \/ \E s \in Starter : StepSucceeds(s) \/ StepRejected(s) \/ StepRaises(s)
        \/ UNCHANGED <<lifecycle, failure>>
        \/ MainDrains \/ MainExits
    BY DEF Next, ComfyStep, Arrive, EnterGate, EventStep, EventStarts, EventStartFails,
           RenderStep, TimePasses, StopSignal, MainStep, MainStarts, MainStartFails,
           runtimeVars, Starter, vars
  <1> QED
    BY <1>1, <1>2, <1>3, <1>4 DEF FailureIsLast

\* After a failed startup no later event launches a ComfyUI, and none gets past
\* the gate (lifecycle.py, supervisor.start, serverless.handle).
THEOREM FailureIsFinal == Spec => FailedForGood
  <1> DEFINE Final == failure # "none" =>
                 /\ UNCHANGED launches
                 /\ \A e \in Event : pc'[e] = "submit" => pc[e] = "submit"
  <1>1. Init => FailureIsLast
    BY DEF Init, RuntimeInit, FailureIsLast
  <1>2. IInv /\ FailureIsLast /\ [Next]_vars => [Final]_vars
    <2> SUFFICES ASSUME IInv, FailureIsLast, Next, failure # "none"
                 PROVE  /\ UNCHANGED launches
                        /\ \A e \in Event : pc'[e] = "submit" => pc[e] = "submit"
      OBVIOUS
    <2>1. ~Ready /\ lifecycle \in {"failed", "stopped"}
      BY DEF FailureIsLast, Ready
    <2>2. ASSUME NEW s \in Starter, StepSucceeds(s) PROVE FALSE
      <3>1. stage[s] \in Stage \ {"none"} /\ lifecycle = StateAt(stage[s])
        BY <2>2, StepMoves
      <3> QED
        BY <2>1, <3>1 DEF StateAt, Stage
    <2>3. ASSUME NEW s \in Starter, StepRejected(s) \/ StepRaises(s)
          PROVE  UNCHANGED launches
      BY <2>3, StepFails
    <2>4. UNCHANGED launches
      <3>1. \/ \E s \in Starter : StepSucceeds(s) \/ StepRejected(s) \/ StepRaises(s)
            \/ UNCHANGED comfyVars
            \/ ComfyStep \/ MainExits \/ \E e \in Event : RenderStep(e)
        BY DEF Next, Arrive, EnterGate, EventStep, EventStarts, EventStartFails,
               TimePasses, Expire, StopSignal, MainStep, MainStarts, MainStartFails,
               MainDrains, Starter
      <3>2. ASSUME ComfyStep \/ MainExits \/ \E e \in Event : RenderStep(e)
            PROVE  UNCHANGED launches
        BY <3>2 DEF ComfyStep, ComfyNext, Dies, Gone, StartPrompt, FinishPrompt, MainExits,
                    Terminate, RenderStep, PromptStep, Submit, SubmitFails, Poll, Status,
                    StatusFails, Deadline, Cancel, CancelFails, Enqueue, Dequeue, comfyVars
      <3> QED
        BY <2>2, <2>3, <3>1, <3>2 DEF comfyVars
    <2>5. ASSUME NEW e \in Event, pc'[e] = "submit" PROVE pc[e] = "submit"
      <3>1. pc \in [Event -> Place]
        BY DEF IInv, Typed, PromptTypeOK
      <3>2. ASSUME NEW x \in Event, pc' # pc,
                   \/ Arrive(x) \/ EnterGate(x) \/ EventStartFails(x) \/ RenderStep(x)
            PROVE  \E place \in Place \ {"submit"} : pc' = [pc EXCEPT ![x] = place]
        BY <2>1, <3>2
           DEF Arrive, EnterGate, EventStartFails, RenderStep, PromptStep, Submit,
               SubmitFails, Poll, Status, StatusFails, Deadline, Cancel, CancelFails, Goto,
               Answer, Place
      <3>3. \A x \in Event : ~EventStarts(x)
        BY <2>2 DEF EventStarts, Starter
      <3>4. \/ \E x \in Event : Arrive(x) \/ EnterGate(x) \/ EventStartFails(x) \/ RenderStep(x)
            \/ pc' = pc
        BY <3>3
           DEF Next, ComfyStep, EventStep, TimePasses, Expire, StopSignal, MainStep,
               MainStarts, MainStartFails, MainDrains, MainExits, promptVars
      <3> QED
        BY <2>5, <3>1, <3>2, <3>4
    <2> QED
      BY <2>4, <2>5
  <1> QED
    BY <1>1, <1>2, InitIsSound, NextKeeps, FailureStaysLast, PTL DEF Spec, FailedForGood

\* Types, startup, queue and child are kept together (serverless.py, worker.py,
\* executor.py).
LEMMA WorkerHolds == Spec => [](IInv /\ QueueInv /\ ChildTyped)
  <1> DEFINE All == IInv /\ QueueInv /\ ChildTyped
  <1>1. Init => All
    <2>1. Init => ChildTyped
      BY DEF Init, ComfyInit, ChildTyped, Child, Ending
    <2> QED
      BY <2>1, InitIsSound, QueueStarts
  <1>2. All /\ [Next]_vars => All'
    BY NextKeeps, QueueKeeps, ChildKeeps
  <1> QED
    BY <1>1, <1>2, PTL DEF Spec

\* Every variable of the worker keeps its type, and an event is at the startup
\* exactly while it is at one of its steps (serverless.py, worker.py).
THEOREM WorkerTypes == Spec => []TypeOK
  <1>1. IInv /\ QueueInv /\ ChildTyped => TypeOK
    BY DEF IInv, Typed, QueueInv, ChildTyped, TypeOK, ComfyTypeOK
  <1> QED
    BY <1>1, WorkerHolds, PTL

\* What supervisor, lock, lifecycle and queue know of each other and of the
\* events holds throughout, for any number of events that arrive in any order and
\* at any concurrency (serverless.py, supervisor.py, executor.py).
THEOREM WorkerInvariant == Spec => []WorkerInv
  <1>1. TypeOK /\ IInv /\ QueueInv => WorkerInv
    BY DEF IInv, WorkerInv
  <1> QED
    BY <1>1, WorkerTypes, WorkerHolds, PTL

\* A prompt that was reported as timed out is not started later: what is reported
\* so was taken from the queue first, it waited there once, and it is not
\* submitted again (executor.py execute and its cancellation).
THEOREM TimedOutStaysOut == Spec => TimedOutNeverStarts
  <1> DEFINE Never == \A e \in Event :
                 running' = e /\ running # e => outcome[e] # "job_timeout"
  <1>1. IInv /\ QueueInv /\ [Next]_vars => [Never]_vars
    <2> SUFFICES ASSUME IInv, QueueInv, [Next]_vars, NEW e \in Event,
                        running' = e, running # e
                 PROVE  outcome[e] # "job_timeout"
      OBVIOUS
    <2>1. e \in ToSet(queue)
      BY OnlyTheFirstStarts, EventAssumption
    <2> QED
      BY <2>1 DEF QueueInv
  <1> QED
    BY <1>1, WorkerHolds, PTL DEF Spec, TimedOutNeverStarts

-----------------------------------------------------------------------------
(* Once rendered, never again *)

Before == {"idle", "gate", "starting", "submit"}

\* What is not submitted yet, or waits in the queue, has never been rendered, and
\* its event has not been told how it ended.
NotYet(e) == pc[e] \in Before \/ e \in ToSet(queue)
Fresh ==
    \A e \in Event : NotYet(e) =>
        history[e] = "none" /\ running # e /\ outcome[e] \notin Reported

\* One event moves, and ComfyUI starts and ends nothing.
LEMMA FreshStep ==
    ASSUME Fresh, NEW e \in Event, OnlyMoves(e), UNCHANGED <<running, history>>,
           ToSet(queue') \subseteq ToSet(queue) \cup {e},
           NotYet(e)' => NotYet(e) /\ outcome'[e] \notin Reported
    PROVE  Fresh'
  BY DEF Fresh, NotYet, OnlyMoves

\* No event moves, and ComfyUI forgets what it loses.
LEMMA FreshFades ==
    ASSUME Fresh, UNCHANGED <<pc, outcome>>, ToSet(queue') \subseteq ToSet(queue),
           \A e \in Event : NotYet(e)' => running' # e /\ history'[e] \in {history[e], "none"}
    PROVE  Fresh'
  BY DEF Fresh, NotYet

\* What ComfyUI takes from its queue it took from there for good; what it ends, or
\* loses with its life, waited no longer.
LEMMA ComfyKeepsFresh ==
    ASSUME IInv, QueueInv, ChildTyped, Fresh, ComfyStep
    PROVE  Fresh'
  <1>1. UNCHANGED <<pc, outcome>>
    BY DEF ComfyStep, promptVars
  <1>2. CASE Dies
    <2>1. queue' = <<>> /\ running' = None /\ history' = [e \in Event |-> "none"]
      BY <1>2 DEF Dies, Gone
    <2>2. ToSet(queue') = {}
      BY <2>1 DEF ToSet
    <2> QED
      BY <1>1, <2>1, <2>2, FreshFades, EventAssumption
  <1>3. CASE StartPrompt
    <2>1. PICK h : h = Head(queue)
      OBVIOUS
    <2>2. queue # <<>> /\ running' = h /\ queue' = Tail(queue) /\ history' = history
      BY <1>3, <2>1 DEF StartPrompt
    <2>3. h \in ToSet(queue) /\ ToSet(Tail(queue)) \subseteq ToSet(queue)
      BY <2>1, <2>2, TailOf DEF QueueInv
    <2>4. h \notin ToSet(Tail(queue))
      BY <2>1, <2>2, HeadIsGone DEF QueueInv
    <2>5. pc[h] \notin Before
      BY <2>3 DEF QueueInv, Before
    <2>6. ~(pc'[h] \in Before \/ h \in ToSet(queue'))
      BY <1>1, <2>2, <2>4, <2>5
    <2>7. \A e \in Event : NotYet(e)' => running' # e
      BY <2>2, <2>6 DEF NotYet
    <2> QED
      BY <1>1, <2>2, <2>3, <2>7, FreshFades
  <1>4. ASSUME NEW ending \in Ending \ {"none"}, FinishPrompt(ending) PROVE Fresh'
    <2>1. /\ running # None /\ running' = None /\ queue' = queue
          /\ history' = [history EXCEPT ![running] = ending]
      BY <1>4 DEF FinishPrompt
    <2>2. \A e \in Event : NotYet(e)' => e # running
      BY <1>1, <2>1 DEF NotYet, Fresh
    <2> QED
      BY <1>1, <2>1, <2>2, FreshFades, EventAssumption DEF ChildTyped
  <1> QED
    BY <1>2, <1>3, <1>4 DEF ComfyStep, ComfyNext

\* A prompt enters the queue from "submit" only, and only what is in the history
\* is told as an ending.
LEMMA RenderKeepsFresh ==
    ASSUME IInv, QueueInv, Fresh, NEW e \in Event, RenderStep(e)
    PROVE  Fresh'
  <1>1. pc \in [Event -> Place] /\ outcome \in [Event -> Outcome]
    BY DEF IInv, Typed, PromptTypeOK
  <1>2. UNCHANGED <<running, history>>
    BY DEF RenderStep, PromptStep, Submit, SubmitFails, Poll, Status, StatusFails,
           Deadline, Cancel, CancelFails, Enqueue, Dequeue, comfyVars
  <1>3. queue \in Seq(Event) /\ IsInjective(queue)
    BY DEF QueueInv
  <1>4. pc[e] # "done" /\ outcome[e] = "none"
    <2>1. pc[e] # "done"
      BY DEF RenderStep, PromptStep, Submit, SubmitFails, Poll, Status, StatusFails,
             Deadline, Cancel, CancelFails
    <2> QED
      BY <2>1 DEF QueueInv
  <1>5. OnlyMoves(e)
    BY <1>1
       DEF OnlyMoves, RenderStep, PromptStep, Submit, SubmitFails, Poll, Status,
           StatusFails, Deadline, Cancel, CancelFails, Goto, Answer
  <1>6. CASE Submit(e) \/ (SubmitFails(e) /\ Enqueue(e))
    <2>1. pc[e] = "submit" /\ queue' = Append(queue, e)
      BY <1>6 DEF Submit, SubmitFails, Enqueue
    <2>2. e \notin ToSet(queue)
      BY <2>1 DEF QueueInv
    <2>3. ToSet(queue') \subseteq ToSet(queue) \cup {e}
      BY <1>3, <2>1, <2>2, AppendOf
    <2>4. outcome'[e] \in {"none", "comfy_request_failed"}
      BY <1>1, <1>4, <1>6 DEF Submit, SubmitFails, Answer
    <2>5. NotYet(e)
      BY <2>1 DEF NotYet, Before
    <2> QED
      BY <1>2, <1>5, <2>3, <2>4, <2>5, FreshStep DEF Reported
  <1>7. CASE \/ SubmitFails(e) /\ UNCHANGED comfyVars
             \/ Poll(e) \/ Status(e) \/ StatusFails(e) \/ Deadline(e)
             \/ CancelFails(e) /\ UNCHANGED comfyVars
    <2>1. queue' = queue
      BY <1>7 DEF Poll, Status, StatusFails, Deadline, comfyVars
    <2>2. pc'[e] \in Before => pc[e] \in Before
      BY <1>1, <1>7
         DEF SubmitFails, Poll, Status, StatusFails, Deadline, CancelFails, Goto, Answer,
             Before
    <2>3. NotYet(e)' => NotYet(e)
      BY <2>1, <2>2 DEF NotYet
    <2>4. outcome'[e] \in Reported => history[e] # "none"
      BY <1>1, <1>4, <1>7
         DEF SubmitFails, Poll, Status, StatusFails, Deadline, CancelFails, Answer, Reported,
             Goto
    <2>5. NotYet(e)' => outcome'[e] \notin Reported
      BY <2>3, <2>4 DEF Fresh
    <2> QED
      BY <1>2, <1>5, <2>1, <2>3, <2>5, FreshStep
  <1>8. CASE (Cancel(e) \/ CancelFails(e)) /\ Dequeue(e)
    <2>1. pc'[e] = "done"
      BY <1>1, <1>8 DEF Cancel, CancelFails, Goto, Answer
    <2>2. ToSet(queue') \subseteq ToSet(queue)
      <3>1. ASSUME NEW i \in DOMAIN queue, queue' = RemoveAt(queue, i)
            PROVE  ToSet(queue') \subseteq ToSet(queue)
        BY <1>3, <3>1, RemoveAtOf
      <3> QED
        BY <1>8, <3>1 DEF Dequeue
    <2>3. outcome'[e] \notin Reported
      BY <1>1, <1>8 DEF Cancel, CancelFails, Answer, Reported
    <2>4. NotYet(e)' => NotYet(e)
      BY <2>1, <2>2 DEF NotYet, Before
    <2> QED
      BY <1>2, <1>5, <2>2, <2>3, <2>4, FreshStep
  <1> QED
    BY <1>6, <1>7, <1>8
       DEF RenderStep, PromptStep, SubmitFails, Cancel, CancelFails

LEMMA FreshKeeps == IInv /\ QueueInv /\ ChildTyped /\ Fresh /\ [Next]_vars => Fresh'
  <1> SUFFICES ASSUME IInv, QueueInv, ChildTyped, Fresh, [Next]_vars PROVE Fresh'
    OBVIOUS
  <1>1. /\ stage \in [Starter -> Stage] /\ Main \in Starter
        /\ pc \in [Event -> Place] /\ outcome \in [Event -> Outcome]
        /\ \A e \in Event : e \in Starter
    BY DEF IInv, Typed, RuntimeTypeOK, PromptTypeOK, Starter
  <1>2. CASE StopSignal \/ MainStep \/ UNCHANGED vars
    <2>1. /\ UNCHANGED <<pc, outcome>>
          /\ \/ UNCHANGED <<queue, running, history>>
             \/ queue' = <<>> /\ running' = None /\ history' = [e \in Event |-> "none"]
      BY <1>1, <1>2, EffectKeepsQueue
         DEF StopSignal, MainStep, MainStarts, MainStartFails, MainDrains, MainExits,
             Terminate, Gone, StepSucceeds, StepRejected, StepRaises, vars, comfyVars,
             promptVars
    <2>2. CASE UNCHANGED <<queue, running, history>>
      BY <2>1, <2>2 DEF Fresh, NotYet
    <2>3. CASE queue' = <<>> /\ running' = None /\ history' = [e \in Event |-> "none"]
      <3>1. ToSet(queue') = {}
        BY <2>3 DEF ToSet
      <3> QED
        BY <2>1, <2>3, <3>1, FreshFades, EventAssumption
    <2> QED
      BY <2>1, <2>2, <2>3
  <1>3. ASSUME NEW e \in Event,
               Arrive(e) \/ EnterGate(e) \/ EventStarts(e) \/ EventStartFails(e)
        PROVE  Fresh'
    <2>1. UNCHANGED <<queue, running, history>>
      BY <1>1, <1>3, EffectKeepsQueue
         DEF Arrive, EnterGate, EventStarts, EventStartFails, StepSucceeds, StepRejected,
             StepRaises, comfyVars
    <2>2. pc[e] \in Before
      <3>1. stage[e] # "none" => pc[e] = "starting"
        BY AloneAtTheGate
      <3> QED
        BY <1>3, <3>1
           DEF Arrive, EnterGate, EventStarts, EventStartFails, StepSucceeds, StepRejected,
               StepRaises, Before
    <2>3. OnlyMoves(e) /\ outcome'[e] \in {outcome[e], "invalid", "not_started"}
      BY <1>1, <1>3
         DEF OnlyMoves, Arrive, EnterGate, EventStarts, EventStartFails, Goto, Answer
    <2>4. NotYet(e) /\ outcome'[e] \notin Reported
      BY <2>2, <2>3 DEF NotYet, Fresh, Reported
    <2> QED
      BY <2>1, <2>3, <2>4, FreshStep
  <1>4. ASSUME NEW e \in Event, TimePasses(e) PROVE Fresh'
    BY <1>4 DEF TimePasses, Expire, comfyVars, Fresh, NotYet
  <1>5. ASSUME NEW e \in Event, RenderStep(e) PROVE Fresh'
    BY <1>5, RenderKeepsFresh
  <1> QED
    BY <1>2, <1>3, <1>4, <1>5, ComfyKeepsFresh DEF Next, EventStep

\* A prompt starts once at most, whatever was lost of the answer to its submission,
\* and none starts whose event was told how it ended (executor.py execute).
THEOREM RenderedOnce == Spec => RendersOnce
  <1> DEFINE All == IInv /\ QueueInv /\ ChildTyped /\ Fresh
             Once == \A e \in Event : running' = e /\ running # e =>
                         history[e] = "none" /\ outcome[e] \notin Reported
  <1>1. Init => All
    <2>1. Init => ChildTyped
      BY DEF Init, ComfyInit, ChildTyped, Child, Ending
    <2>2. Init => Fresh
      BY EventAssumption DEF Init, ComfyInit, PromptInit, Fresh, Reported
    <2> QED
      BY <2>1, <2>2, InitIsSound, QueueStarts
  <1>2. All /\ [Next]_vars => All'
    BY NextKeeps, QueueKeeps, ChildKeeps, FreshKeeps
  <1>3. All /\ [Next]_vars => [Once]_vars
    <2> SUFFICES ASSUME All, [Next]_vars, NEW e \in Event, running' = e, running # e
                 PROVE  history[e] = "none" /\ outcome[e] \notin Reported
      OBVIOUS
    <2>1. e \in ToSet(queue)
      BY OnlyTheFirstStarts, EventAssumption
    <2> QED
      BY <2>1 DEF Fresh, NotYet
  <1> QED
    BY <1>1, <1>2, <1>3, PTL DEF Spec, RendersOnce

=============================================================================
