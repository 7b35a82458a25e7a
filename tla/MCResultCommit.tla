--------------------------- MODULE MCResultCommit ---------------------------
(* Small instances of ResultCommit for TLC. *)
EXTENDS ResultCommit, TLC

CONSTANTS t1, t2, t3, p1, p2, j1, r1, r2, w, g1, g2

\* One request delivered to two processes, as when a platform retries a job.
RivalProcesses == t1 :> p1 @@ t2 :> p2
OneRequest == t1 :> j1 @@ t2 :> j1

\* Three deliveries of one request to one process, so that two can wait.
OneProcess == t1 :> p1 @@ t2 :> p1 @@ t3 :> p1
SameRequest == t1 :> j1 @@ t2 :> j1 @@ t3 :> j1

\* Renders that ffprobe tells apart, and renders it does not.
TwoRecords == [r \in Render |-> IF r = r1 THEN g1 ELSE g2]
OneRecord == [r \in Render |-> g1]

=============================================================================
