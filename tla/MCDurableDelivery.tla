-------------------------- MODULE MCDurableDelivery --------------------------
(* Small instances of DurableDelivery for TLC. *)
EXTENDS DurableDelivery, TLC

CONSTANTS t1, t2, p1, p2, j1, j2, r1, r2, w, g1, g2

\* One request, delivered again and again to one process.
OneTask == t1 :> p1
ItsRequest == t1 :> j1

\* One request, delivered to two processes at once.
TwoProcesses == t1 :> p1 @@ t2 :> p2
SameRequest == t1 :> j1 @@ t2 :> j1

\* Two requests, one delivery each, so that a sweep meets two attempts.
TwoTasks == t1 :> p1 @@ t2 :> p1
TwoRequests == t1 :> j1 @@ t2 :> j2

\* One record describes every render, so the renders are interchangeable.
OneRecord == [r \in Render |-> g1]

Symmetry == Permutations(Render)

\* The two processes may trade places, each with its delivery.
Stay == t1 :> t1 @@ t2 :> t2 @@ p1 :> p1 @@ p2 :> p2
Trade == t1 :> t2 @@ t2 :> t1 @@ p1 :> p2 @@ p2 :> p1
RivalSymmetry == {f @@ g : f \in Permutations(Render), g \in {Stay, Trade}}

=============================================================================
