------------------------------- MODULE Worker -------------------------------
(***************************************************************************)
(* One worker process in either deployment.  The serverless one receives   *)
(* events, several at a time, and lets the first of them start the worker  *)
(* behind a lock; each event then renders its prompt.  The other one runs  *)
(* WorkerApplication.run: start, wait for a signal, drain.                 *)
(***************************************************************************)
EXTENDS PromptExecution, WorkerRuntime, FiniteSets

\* Events the SDK hands to the worker at a time.  It starts with its default of
\* one; the startup gate is written for more.
CONSTANT Concurrency

ASSUME ConcurrencyAssumption == Concurrency \in Nat \ {0}

VARIABLES
    gate,  \* who holds the startup lock
    main,  \* where WorkerApplication.run is, "off" in the serverless worker
    stop   \* whether a signal asked it to stop

vars == <<comfyVars, promptVars, runtimeVars, gate, main, stop>>

MainPlace == {"off", "starting", "waiting", "draining", "exited"}

\* Types, and who may be where: an event is starting exactly while it is at a
\* stage of the startup, and so is the main task (serverless.py, worker.py).
TypeOK ==
    /\ ComfyTypeOK
    /\ PromptTypeOK
    /\ RuntimeTypeOK
    /\ gate \in Event \cup {None}
    /\ main \in MainPlace
    /\ stop \in BOOLEAN
    /\ \A e \in Event : pc[e] = "starting" <=> stage[e] # "none"
    /\ main = "starting" <=> stage[Main] # "none"

Init ==
    /\ ComfyInit
    /\ PromptInit
    /\ gate = None
    /\ stop = FALSE
    /\ \/ main = "off" /\ RuntimeInit({})
       \/ main = "starting" /\ RuntimeInit({Main})

-----------------------------------------------------------------------------
(* The serverless worker *)

InFlight == {e \in Event : pc[e] \notin {"idle", "done"}}

\* Validation has no side effect and comes before the gate.
Arrive(e) ==
    /\ main = "off"
    /\ Cardinality(InFlight) < Concurrency
    /\ pc[e] = "idle"
    /\ \/ Goto(e, "gate") /\ UNCHANGED outcome
       \/ Answer(e, "invalid")
    /\ UNCHANGED <<comfyVars, runtimeVars, expired, gate, main, stop>>

\* Mutant: no lock, only the check.
EnterGateUnlocked(e) ==
    /\ pc[e] = "gate"
    /\ \/ Ready /\ Goto(e, "submit") /\ UNCHANGED stage
       \/ ~Ready /\ Goto(e, "starting") /\ stage' = [stage EXCEPT ![e] = "configure"]
    /\ UNCHANGED <<comfyVars, lifecycle, failure, expired, outcome, gate, main, stop>>

\* ensure_started up to its first await: the lock is free, and it is kept only
\* by the event that starts the worker.
EnterGate(e) ==
    /\ pc[e] = "gate"
    /\ gate = None
    /\ \/ Ready /\ Goto(e, "submit") /\ UNCHANGED <<gate, stage>>
       \/ ~Ready /\ Goto(e, "starting") /\ gate' = e
          /\ stage' = [stage EXCEPT ![e] = "configure"]
    /\ UNCHANGED <<comfyVars, lifecycle, failure, expired, outcome, main, stop>>

LeaveGate(e) == gate' = IF gate = e THEN None ELSE gate

EventStarts(e) ==
    /\ StepSucceeds(e)
    /\ IF stage'[e] = "none"
       THEN Goto(e, "submit") /\ LeaveGate(e)
       ELSE UNCHANGED <<pc, gate>>
    /\ UNCHANGED <<expired, outcome, main, stop>>

EventStartFails(e) ==
    /\ StepRejected(e) \/ StepRaises(e)
    /\ Answer(e, "not_started")
    /\ LeaveGate(e)
    /\ UNCHANGED <<expired, main, stop>>

RenderStep(e) == PromptStep(e) /\ UNCHANGED <<runtimeVars, gate, main, stop>>

TimePasses(e) == Expire(e) /\ UNCHANGED <<runtimeVars, gate, main, stop>>

-----------------------------------------------------------------------------
(* WorkerApplication.run *)

StopSignal ==
    /\ main \in {"starting", "waiting"}
    /\ ~stop
    /\ stop' = TRUE
    /\ UNCHANGED <<comfyVars, promptVars, runtimeVars, gate, main>>

\* Mutant: run does not await the start.
MainStartsDetached ==
    /\ StepSucceeds(Main)
    /\ main' = "waiting"
    /\ UNCHANGED <<promptVars, gate, stop>>

MainStarts ==
    /\ StepSucceeds(Main)
    /\ main' = IF stage'[Main] = "none" THEN "waiting" ELSE main
    /\ UNCHANGED <<promptVars, gate, stop>>

\* The exception leaves run before it can drain.
MainStartFails ==
    /\ StepRejected(Main) \/ StepRaises(Main)
    /\ main' = "exited"
    /\ UNCHANGED <<promptVars, gate, stop>>

\* Mutant: drain goes straight for the child.
MainDrainsUnmarked ==
    /\ main = "waiting"
    /\ stop
    /\ main' = "draining"
    /\ UNCHANGED <<runtimeVars, comfyVars, promptVars, gate, stop>>

MainDrains ==
    /\ main = "waiting"
    /\ stop
    /\ DropReadiness
    /\ main' = "draining"
    /\ UNCHANGED <<comfyVars, promptVars, gate, stop>>

MainExits ==
    /\ main = "draining"
    /\ Terminate
    /\ main' = "exited"
    /\ UNCHANGED <<promptVars, gate, stop>>

-----------------------------------------------------------------------------
ComfyStep == ComfyNext /\ UNCHANGED <<promptVars, runtimeVars, gate, main, stop>>

EventStep(e) == EventStarts(e) \/ EventStartFails(e) \/ RenderStep(e)

MainStep == MainStarts \/ MainStartFails \/ MainDrains \/ MainExits

Next ==
    \/ ComfyStep
    \/ \E e \in Event : Arrive(e) \/ EnterGate(e) \/ EventStep(e) \/ TimePasses(e)
    \/ StopSignal
    \/ MainStep

Spec == Init /\ [][Next]_vars

(***************************************************************************)
(* Every await of the worker ends: requests and commands have deadlines,   *)
(* the health check gives up, and the child is killed in the end.  The     *)
(* startup lock is handed over in the order of arrival.  Nothing is asked  *)
(* of ComfyUI, which may never finish a prompt.                            *)
(***************************************************************************)
Fairness ==
    /\ \A e \in Event : WF_vars(EventStep(e)) /\ WF_vars(TimePasses(e))
    /\ \A e \in Event : SF_vars(EnterGate(e))
    /\ WF_vars(MainStep)

FairSpec == Spec /\ Fairness

-----------------------------------------------------------------------------
(* Properties *)

\* An event reaches ComfyUI only on a worker whose startup has run to its end:
\* handle ignores what ensure_started returns and relies on its exception.
AdmittedOnlyWhenReady ==
    \A e \in Event : pc[e] \in Prompting => Ready

\* However many events arrive together or after a failure, a worker launches
\* one ComfyUI at most: the second one would find the port taken.
OneChild == launches <= 1

StateAt(step) ==
    CASE step = "configure" -> "configuring"
      [] step = "preflight" -> "preflighting"
      [] step = "hydrate"   -> "hydrating"
      [] step = "launch"    -> "starting"
      [] step = "validate"  -> "validating"

\* Whoever awaits a step of the startup finds the lifecycle where that step
\* left it, except at the first step after an earlier failure.
InStep ==
    \A s \in Starter : stage[s] # "none" =>
        \/ lifecycle = StateAt(stage[s])
        \/ stage[s] = "configure" /\ lifecycle = "failed"

\* The holder of the lock, or the main task, is the only starter.
OneStarter ==
    /\ \A e \in Event : gate = e <=> stage[e] # "none"
    /\ main = "off" => stage[Main] = "none"
    /\ main # "off" => \A e \in Event : pc[e] = "idle"

\* With nobody at the startup the lifecycle is at none of its states.
Settled ==
    /\ main = "off" /\ gate = None => lifecycle \in {"configuring", "ready", "failed"}
    /\ main = "waiting"  => lifecycle = "ready"
    /\ main = "draining" => lifecycle = "draining"
    /\ main = "exited"   => lifecycle \in {"failed", "stopped"}

NoChildYet ==
    lifecycle \in {"configuring", "preflighting", "hydrating", "starting"} => launches = 0

\* What the supervisor, the lock and the lifecycle know of each other, however
\* many events arrive at once.
StartupInv ==
    /\ InStep
    /\ OneStarter
    /\ Settled
    /\ NoChildYet
    /\ OneChild
    /\ AdmittedOnlyWhenReady

\* The inductive invariant of the worker.
WorkerInv ==
    /\ TypeOK
    /\ StartupInv
    /\ QueueInv

\* A worker fails because one of its steps did, never because two events
\* started it at once and one met the other's transitions.
FailsByItsStepsOnly ==
    [][lifecycle # "failed" /\ lifecycle' = "failed" => failure' = "raised"]_vars

\* A startup that has failed once failed for good, whichever event comes next and
\* however far it was: no ComfyUI is launched any more and no event is let through
\* to one (lifecycle.py's transitions, supervisor.py start, serverless.py handle).
FailedForGood ==
    [][failure # "none" =>
        /\ UNCHANGED launches
        /\ \A e \in Event : pc'[e] = "submit" => pc[e] = "submit"]_vars

Reported == {"succeeded", "comfy_node_failed", "job_cancelled"}

\* A prompt is rendered once at most: also when the answer to its submission was
\* lost, it starts with no ending in the history, and with none told to its event
\* (executor.py execute, which submits without a retry).
RendersOnce ==
    [][\A e \in Event :
        running' = e /\ running # e =>
            history[e] = "none" /\ outcome[e] \notin Reported]_vars

\* A prompt that was reported as timed out does not start to render later.
TimedOutNeverStarts ==
    [][\A e \in Event :
        running' = e /\ running # e => outcome[e] # "job_timeout"]_vars

\* Every event that passed validation is answered, whatever ComfyUI does and
\* whether or not the worker could be started.
EventsAnswered ==
    \A e \in Event : pc[e] = "gate" ~> pc[e] = "done"

\* A worker that came up and is asked to stop ends STOPPED and without a child.
StopIsObeyed ==
    main = "waiting" /\ stop ~> lifecycle = "stopped" /\ ~Alive

=============================================================================
