-------------------------- MODULE PromptExecution --------------------------
(***************************************************************************)
(* PromptExecutor.execute against ComfyUI: submit, poll until the prompt   *)
(* ends or the deadline passes, and cancel.  Every HTTP request may fail,  *)
(* and one that fails may have reached ComfyUI all the same.               *)
(***************************************************************************)
EXTENDS ComfyUi

VARIABLES
    pc,       \* where each event is
    expired,  \* whether its deadline has passed
    outcome   \* how it was answered

promptVars == <<pc, expired, outcome>>

\* "gate" and "starting" precede the application; see Worker.
Place == {"idle", "gate", "starting", "submit", "loop", "asked", "cancel", "done"}
Prompting == {"submit", "loop", "asked", "cancel"}

\* The codes of the errors; not_started stands for an exception of the startup
\* and comfy_request_failed for any failure of a request.
Outcome == {"none", "succeeded", "comfy_node_failed", "job_cancelled", "job_timeout",
            "comfy_request_failed", "not_started", "invalid"}

PromptTypeOK ==
    /\ pc \in [Event -> Place]
    /\ expired \in [Event -> BOOLEAN]
    /\ outcome \in [Event -> Outcome]

PromptInit ==
    /\ pc = [e \in Event |-> "idle"]
    /\ expired = [e \in Event |-> FALSE]
    /\ outcome = [e \in Event |-> "none"]

Goto(e, place) == pc' = [pc EXCEPT ![e] = place]

Answer(e, result) ==
    /\ Goto(e, "done")
    /\ outcome' = [outcome EXCEPT ![e] = result]

Submit(e) ==
    /\ pc[e] = "submit"
    /\ Alive
    /\ Enqueue(e)
    /\ Goto(e, "loop")
    /\ UNCHANGED <<expired, outcome>>

\* Mutant: a submission without an answer is tried again.
SubmitRetries(e) ==
    /\ pc[e] = "submit"
    /\ Alive
    /\ Enqueue(e)
    /\ UNCHANGED promptVars

\* The answer may be all that was lost; the event gives up either way.
SubmitFails(e) ==
    /\ pc[e] = "submit"
    /\ \/ UNCHANGED comfyVars
       \/ Alive /\ Enqueue(e)
    /\ Answer(e, "comfy_request_failed")
    /\ UNCHANGED expired

\* The deadline counts from the answer to the submission.
Expire(e) ==
    /\ pc[e] \in {"loop", "asked"}
    /\ ~expired[e]
    /\ expired' = [expired EXCEPT ![e] = TRUE]
    /\ UNCHANGED <<comfyVars, pc, outcome>>

\* Mutant: the loop never looks at the clock.
PollForEver(e) ==
    /\ pc[e] = "loop"
    /\ Goto(e, "asked")
    /\ UNCHANGED <<comfyVars, expired, outcome>>

Poll(e) ==
    /\ pc[e] = "loop"
    /\ ~expired[e]
    /\ Goto(e, "asked")
    /\ UNCHANGED <<comfyVars, expired, outcome>>

\* An answer that comes after the deadline is accepted.
Status(e) ==
    /\ pc[e] = "asked"
    /\ Alive
    /\ \/ history[e] = "success" /\ Answer(e, "succeeded")
       \/ history[e] = "error" /\ Answer(e, "comfy_node_failed")
       \/ history[e] = "cancelled" /\ Answer(e, "job_cancelled")
       \/ history[e] = "none" /\ Goto(e, "loop") /\ UNCHANGED outcome
    /\ UNCHANGED <<comfyVars, expired>>

\* The exception leaves execute, and the prompt stays where it is.
StatusFails(e) ==
    /\ pc[e] = "asked"
    /\ Answer(e, "comfy_request_failed")
    /\ UNCHANGED <<comfyVars, expired>>

Deadline(e) ==
    /\ pc[e] = "loop"
    /\ expired[e]
    /\ Goto(e, "cancel")
    /\ UNCHANGED <<comfyVars, expired, outcome>>

\* Mutant: the timeout is raised and nothing is cancelled.
CancelNothing(e) ==
    /\ pc[e] = "cancel"
    /\ Answer(e, "job_timeout")
    /\ UNCHANGED <<comfyVars, expired>>

Cancel(e) ==
    /\ pc[e] = "cancel"
    /\ Alive
    /\ Dequeue(e)
    /\ Answer(e, "job_timeout")
    /\ UNCHANGED expired

CancelFails(e) ==
    /\ pc[e] = "cancel"
    /\ \/ UNCHANGED comfyVars
       \/ Alive /\ Dequeue(e)
    /\ Answer(e, "comfy_request_failed")
    /\ UNCHANGED expired

PromptStep(e) ==
    \/ Submit(e) \/ SubmitFails(e)
    \/ Poll(e) \/ Status(e) \/ StatusFails(e)
    \/ Deadline(e) \/ Cancel(e) \/ CancelFails(e)

-----------------------------------------------------------------------------
(* Property *)

\* Each prompt waits once; what waits has been submitted and was not reported as
\* timed out, since a timeout takes it from the queue first; and an event that is
\* not done has no outcome yet (executor.py execute).
QueueInv ==
    /\ queue \in Seq(Event) /\ IsInjective(queue)
    /\ \A e \in ToSet(queue) :
        /\ pc[e] \in {"loop", "asked", "cancel", "done"}
        /\ outcome[e] # "job_timeout"
    /\ \A e \in Event : pc[e] # "done" => outcome[e] = "none"

=============================================================================
