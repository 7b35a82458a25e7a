----------------------------- MODULE JobResult -----------------------------
(***************************************************************************)
(* What a submission promises its caller, without buckets, uploads,        *)
(* retries or processes: a request has at most one deliverable, it appears *)
(* whole in one step, it never changes afterwards, and a caller is told    *)
(* that its request is committed only when the deliverable is there.       *)
(***************************************************************************)
CONSTANTS Job, Task, JobOf, Render, None

VARIABLES
    deliverable,  \* deliverable[j]: the video a consumer reads for request j
    told          \* the tasks whose callers were told "committed"

vars == <<deliverable, told>>

Init ==
    /\ deliverable = [j \in Job |-> None]
    /\ told = {}

Publish(j) ==
    /\ deliverable[j] = None
    /\ \E r \in Render : deliverable' = [deliverable EXCEPT ![j] = r]
    /\ UNCHANGED told

Tell(t) ==
    /\ deliverable[JobOf[t]] # None
    /\ told' = told \cup {t}
    /\ UNCHANGED deliverable

\* The caller asks again.
Ask(t) ==
    /\ told' = told \ {t}
    /\ UNCHANGED deliverable

Next ==
    \/ \E j \in Job : Publish(j)
    \/ \E t \in Task : Tell(t) \/ Ask(t)

Spec == Init /\ [][Next]_vars

=============================================================================
