------------------------------ MODULE ComfyUi ------------------------------
(***************************************************************************)
(* The ComfyUI child process, as the code under src/ uses it over loopback *)
(* HTTP.  It runs one prompt at a time in the order of submission, keeps a *)
(* history of the finished ones, and may die at any moment with all it     *)
(* holds.  An event submits at most one prompt, so an event names it.      *)
(***************************************************************************)
EXTENDS Naturals, Sequences, SequencesExt

CONSTANTS
    Event,  \* the events a worker receives
    None    \* no event, no failure

ASSUME EventAssumption == None \notin Event

VARIABLES
    child,     \* the process: not launched, alive or dead
    launches,  \* how many were launched
    queue,     \* the prompts that wait
    running,   \* the prompt that renders
    history    \* how the finished ones ended

comfyVars == <<child, launches, queue, running, history>>

Child == {"none", "alive", "dead"}
Ending == {"none", "success", "error", "cancelled"}

ComfyTypeOK ==
    /\ child \in Child
    /\ launches \in Nat
    /\ queue \in Seq(Event)
    /\ running \in Event \cup {None}
    /\ history \in [Event -> Ending]

ComfyInit ==
    /\ child = "none"
    /\ launches = 0
    /\ queue = <<>>
    /\ running = None
    /\ history = [e \in Event |-> "none"]

Alive == child = "alive"

Launch ==
    /\ child' = "alive"
    /\ launches' = launches + 1
    /\ UNCHANGED <<queue, running, history>>

\* What a process holds is gone when it dies or is terminated.
Gone ==
    /\ child' = IF Alive THEN "dead" ELSE child
    /\ queue' = <<>>
    /\ running' = None
    /\ history' = [e \in Event |-> "none"]
    /\ UNCHANGED launches

Dies == Alive /\ Gone

\* POST /prompt
Enqueue(e) ==
    /\ queue' = Append(queue, e)
    /\ UNCHANGED <<child, launches, running, history>>

\* POST /queue with delete: the first entry of that id goes, and a prompt that is
\* already rendering stays.
Dequeue(e) ==
    /\ \/ \E i \in DOMAIN queue :
            /\ queue[i] = e /\ \A k \in 1 .. i - 1 : queue[k] # e
            /\ queue' = RemoveAt(queue, i)
       \/ e \notin ToSet(queue) /\ UNCHANGED queue
    /\ UNCHANGED <<child, launches, running, history>>

StartPrompt ==
    /\ Alive
    /\ running = None
    /\ queue # <<>>
    /\ running' = Head(queue)
    /\ queue' = Tail(queue)
    /\ UNCHANGED <<child, launches, history>>

FinishPrompt(ending) ==
    /\ Alive
    /\ running # None
    /\ history' = [history EXCEPT ![running] = ending]
    /\ running' = None
    /\ UNCHANGED <<child, launches, queue>>

ComfyNext ==
    \/ Dies
    \/ StartPrompt
    \/ \E ending \in Ending \ {"none"} : FinishPrompt(ending)

=============================================================================
