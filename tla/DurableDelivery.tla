--------------------------- MODULE DurableDelivery ---------------------------
(***************************************************************************)
(* The worker processes that commit results and the control plane that     *)
(* expires and erases them, over one bucket.  Neither side knows the       *)
(* other: they meet only in the objects they head, list, put and delete.   *)
(***************************************************************************)
EXTENDS ResultCommit, Retention

vars == <<commitVars, retentionVars>>

TypeOK == CommitTypeOK /\ RetentionTypeOK

Init == CommitInit /\ RetentionInit

Next ==
    \/ CommitNext /\ UNCHANGED retentionVars
    \/ SweepNext /\ UNCHANGED taskVars
    \/ SubjectNext /\ UNCHANGED taskVars
    \/ NextDay /\ UNCHANGED <<taskVars, retentionVars>>

Spec == Init /\ [][Next]_vars

\* Every sweep deletes and nobody asks for a description: the steps left out
\* change neither the bucket nor a task.
Destructive == UNCHANGED described /\ (sweep'.dry => sweep' = NoSweep)
DestructiveSpec == Init /\ [][Next /\ Destructive]_vars

\* The discipline the operator owes: no submission is in flight while a sweep
\* or an erasure runs, they run one at a time, and no record is described
\* meanwhile.  Nothing in the code holds these apart.
Controlling == sweep.phase # "idle" \/ erasure # NoErasure
Quiet ==
    /\ Controlling => \A t \in Task : pc[t] = "idle"
    /\ sweep.phase = "idle" \/ erasure = NoErasure
DescribedMeanwhile == Controlling /\ \E j \in Job : Describe(j)

QuietSpec == Init /\ [][Next /\ Quiet' /\ ~DescribedMeanwhile]_vars

\* A step of an erasure, or of a sweep that deletes, is not refused and reads
\* every marker.
ControlWell ==
    /\ UNCHANGED taskVars
    /\ \/ StartSweep(FALSE) \/ ListOutputs \/ FinishSweep
       \/ \E j \in Job :
            \/ Classify(j) /\ sweep'.committed[j] = Stored(j, Marker)
            \/ Retain(j) \/ Condemn(j)
       \/ \E k \in Key : DeleteNext(k, FALSE) \/ EraseNext(k, FALSE)

\* In the end submissions stop and the operator repeats such sweeps.
SweptSpec ==
    /\ Init
    /\ [][Next /\ Quiet' /\ Destructive]_vars
    /\ <>[](\A t \in Task : pc[t] = "idle")
    /\ <>[][ControlWell]_vars
    /\ WF_vars(ControlWell /\ Quiet')

-----------------------------------------------------------------------------
(* Properties *)

\* Only the control plane ever removes an object.
Removes(j, k) == Stored(j, k) /\ objects'[j][k] = None

Age(j) == [k \in Key |-> IF Stored(j, k) THEN objects[j][k].day ELSE None]

PastPeriod(j, at) ==
    Members(Age(j)) # {} /\ Expired(Stored(j, Marker), Oldest(Age(j)), at)

\* One process serves all deliveries of the request, so its lock orders them.
Alone(j) == \A t, u \in Task : JobOf[t] = j /\ JobOf[u] = j => ProcessOf[t] = ProcessOf[u]

\* Whatever is left beside a marker has the content the marker records, also
\* while deletions and submissions overlap: a consumer may find an artifact
\* gone, never another attempt's (uploader.py upload, commit.py commit).  It
\* holds for a request that one process serves: of two processes the second may
\* put its own artifact where a sweep took away the one the first has verified.
NeverMixed ==
    \A j \in Job, k \in Role :
        Alone(j) /\ Stored(j, Marker) /\ Stored(j, k) => AsRecorded(j, k)

\* Why: a delivery that has left the lookup is the only one, its request has no
\* marker but its own, and what it has verified is still as it verified it, or
\* gone (application.py submit, commit.py commit).
OwnWork(t) ==
    Alone(JobOf[t]) /\ pc[t] \notin {"idle", "queued", "lookup"} =>
        /\ Stored(JobOf[t], Marker) => pc[t] = "verify" /\ key[t] = Marker
        /\ \A k \in Verified(t) :
            Stored(JobOf[t], k) => Holds(JobOf[t], k, RoleContent(k, render[t]))

\* What holds of the bucket and of everybody who works on it, at any time.
DurableInv ==
    /\ TypeOK
    /\ NeverMixed
    /\ \A t \in Task : Locals(t) /\ OwnWork(t)

\* Under the discipline the same holds for a request that several processes
\* serve: rival deliveries then race each other, but none of them races a sweep.
Unmixed ==
    \A j \in Job, k \in Role :
        Stored(j, Marker) /\ Stored(j, k) => AsRecorded(j, k)

\* Why: what a delivery at work has verified is there until it commits, and a
\* marker that a rival puts meanwhile finds all that it names (commit.py commit).
RivalInv ==
    /\ Unmixed
    /\ \A t \in Task :
        /\ Evidence(t)
        /\ pc[t] \notin {"idle", "queued", "lookup"} /\ Stored(JobOf[t], Marker)
           => Complete(JobOf[t])

\* Whoever is told that a request is committed is told of a complete result,
\* although sweeps and erasures run between the deliveries.  Only where a deletion
\* was cut short or refused may a duplicate converge on the ruin of an older
\* result (application.py submit, reconciler.py _delete_attempt).
ToldIsWhole ==
    [][\A t \in Task :
        outcome'[t] = "returned" /\ outcome[t] # "returned" /\ ~Complete(JobOf[t])
        => pc[t] = "lookup" /\ (ControlDies \/ DeletesRefused)]_vars

\* The sweep takes no object of a complete, readable result before the
\* deliverable period of the attempt is over (reconciler.py run, _committed).
DeliverableKeepsItsPeriod ==
    [][\A j \in Job, k \in Key :
        sweep.victim = j /\ Removes(j, k) /\ Complete(j) => PastPeriod(j, today)]_vars

\* The marker goes and an artifact stays.
Strands(j) == Removes(j, Marker) /\ \E k \in Role : objects'[j][k] # None

\* No sweep and no erasure takes a marker before what it names, as long as none
\* of its own deletes was refused (reconciler.py _delete_attempt,
\* subject_requests.py erase).
MarkerGoesLastUnlessRefused ==
    [][\A j \in Job : Strands(j) => sweep.refused \/ erasure.refused]_vars

\* The sweep takes nothing of a record before the expiry its principal was
\* last told, unless an erasure withdrew it (subject_requests.py describe).
DescribedIsKept ==
    [][\A j \in Job, k \in Key :
        sweep.victim = j /\ Removes(j, k) /\ described[j] # None
        => today >= described[j]]_vars

EndsClean == FinishSweep /\ ~sweep.dry /\ ~sweep.refused

\* A sweep that deletes and ends clean leaves no attempt behind that was past
\* the period of the class it took the attempt for.  That is the class of the
\* attempt only if the marker could be read (reconciler.py clean, _committed).
CleanSweepFollowsItsClasses ==
    [][EndsClean => \A j \in Job :
        Members(Age(j)) # {}
        => ~Expired(sweep.committed[j], Oldest(Age(j)), sweep.at)]_vars

\* What is past its period goes in the end (reconciler.py run).
ExpiredGo == <>[](\A j \in Job : ~PastPeriod(j, today))

=============================================================================
