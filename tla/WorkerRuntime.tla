--------------------------- MODULE WorkerRuntime ---------------------------
(***************************************************************************)
(* WorkerSupervisor and WorkerLifecycle: the ordered startup of a worker,  *)
(* its failure, and its drain.  Whoever starts the worker is at a stage of *)
(* WorkerSupervisor.start; nothing in start itself keeps two starters      *)
(* apart.                                                                  *)
(***************************************************************************)
EXTENDS ComfyUi

CONSTANT Main  \* WorkerApplication.run, the starter of a worker that has no events

ASSUME MainAssumption == Main \notin Event \cup {None}

Starter == Event \cup {Main}

VARIABLES
    lifecycle,  \* WorkerLifecycle.state
    failure,    \* the exception WorkerLifecycle.fail was given last
    stage       \* the startup step that each starter awaits

runtimeVars == <<lifecycle, failure, stage>>

WorkerState == {"configuring", "preflighting", "hydrating", "starting",
                "validating", "ready", "draining", "failed", "stopped"}

\* Mutant: a failed worker may be started again.
TransitionsRestart ==
    [s \in WorkerState |->
        IF s = "failed" THEN {"preflighting", "stopped"} ELSE
        CASE s = "configuring"  -> {"preflighting", "failed"}
          [] s = "preflighting" -> {"hydrating", "failed"}
          [] s = "hydrating"    -> {"starting", "failed"}
          [] s = "starting"     -> {"validating", "failed"}
          [] s = "validating"   -> {"ready", "failed"}
          [] s = "ready"        -> {"draining", "failed"}
          [] s = "draining"     -> {"stopped", "failed"}
          [] s = "stopped"      -> {}]

\* No edge returns: what has failed can only stop.
Transitions ==
    [s \in WorkerState |->
        CASE s = "configuring"  -> {"preflighting", "failed"}
          [] s = "preflighting" -> {"hydrating", "failed"}
          [] s = "hydrating"    -> {"starting", "failed"}
          [] s = "starting"     -> {"validating", "failed"}
          [] s = "validating"   -> {"ready", "failed"}
          [] s = "ready"        -> {"draining", "failed"}
          [] s = "draining"     -> {"stopped", "failed"}
          [] s = "failed"       -> {"stopped"}
          [] s = "stopped"      -> {}]

\* The steps that start awaits, each with the state that its end leads to.
\* The launch is one step of two: the child is up before VALIDATING is tried.
Stage == {"none", "configure", "preflight", "hydrate", "launch", "validate"}

Target(step) ==
    CASE step = "configure" -> "preflighting"
      [] step = "preflight" -> "hydrating"
      [] step = "hydrate"   -> "starting"
      [] step = "launch"    -> "validating"
      [] step = "validate"  -> "ready"

StepAfter(step) ==
    CASE step = "configure" -> "preflight"
      [] step = "preflight" -> "hydrate"
      [] step = "hydrate"   -> "launch"
      [] step = "launch"    -> "validate"
      [] step = "validate"  -> "none"

Failure == {"none", "raised", "rejected"}

RuntimeTypeOK ==
    /\ lifecycle \in WorkerState
    /\ failure \in Failure
    /\ stage \in [Starter -> Stage]

RuntimeInit(starting) ==
    /\ lifecycle = "configuring"
    /\ failure = "none"
    /\ stage = [s \in Starter |-> IF s \in starting THEN "configure" ELSE "none"]

Ready == lifecycle = "ready"

CanMoveTo(state) == state \in Transitions[lifecycle]

\* WorkerLifecycle.fail: the state once, the reason every time.  Only FAILED
\* and STOPPED have no edge to FAILED, and no starter is left in STOPPED.
Fail(reason) ==
    /\ lifecycle = "failed" \/ CanMoveTo("failed")
    /\ lifecycle' = "failed"
    /\ failure' = reason

\* What the step does to the child.  Health is asked of a live one.
Effect(step) ==
    CASE step = "launch"   -> Launch
      [] step = "validate" -> Alive /\ UNCHANGED comfyVars
      [] OTHER             -> UNCHANGED comfyVars

StepSucceeds(s) ==
    /\ stage[s] # "none"
    /\ Effect(stage[s])
    /\ CanMoveTo(Target(stage[s]))
    /\ lifecycle' = Target(stage[s])
    /\ stage' = [stage EXCEPT ![s] = StepAfter(stage[s])]
    /\ UNCHANGED failure

\* The step is done, but its transition raises.
StepRejected(s) ==
    /\ stage[s] # "none"
    /\ Effect(stage[s])
    /\ ~CanMoveTo(Target(stage[s]))
    /\ Fail("rejected")
    /\ stage' = [stage EXCEPT ![s] = "none"]

\* A directory, B2, the cache, the launch or the health check fails.
StepRaises(s) ==
    /\ stage[s] # "none"
    /\ Fail("raised")
    /\ stage' = [stage EXCEPT ![s] = "none"]
    /\ UNCHANGED comfyVars

\* drain up to its await
DropReadiness ==
    /\ lifecycle' = IF Ready THEN "draining" ELSE lifecycle
    /\ UNCHANGED <<failure, stage>>

\* The child is terminated, or killed when it takes too long.
Terminate ==
    /\ Gone
    /\ lifecycle' = IF lifecycle \in {"draining", "failed"} THEN "stopped" ELSE lifecycle
    /\ UNCHANGED <<failure, stage>>

=============================================================================
