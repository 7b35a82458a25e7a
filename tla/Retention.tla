----------------------------- MODULE Retention -----------------------------
(***************************************************************************)
(* What the control plane does to the output bucket: the sweep of          *)
(* RetentionReconciler, one attempt after another, and the erasure and     *)
(* description of one record by SubjectRequestService.                     *)
(*                                                                         *)
(* Both list first and delete later, one object per await, with nothing    *)
(* that keeps the bucket still in between.                                 *)
(***************************************************************************)
EXTENDS ResultStore

CONSTANTS
    FailedPeriod,       \* policy days of a failed attempt
    DeliverablePeriod,  \* policy days of a committed deliverable
    WorkerBase,         \* the base prefix the worker's output client is bound to
    SweepBase,          \* the base prefix the retention client is bound to
    MarkerUnreadable,   \* whether the head of a marker may fail
    DeletesRefused,     \* whether the provider may refuse a delete
    ControlDies         \* whether a sweep or an erasure may stop half-way

ASSUME RetentionAssumption ==
    /\ FailedPeriod \in 1..3650
    /\ DeliverablePeriod \in 1..3650
    /\ {MarkerUnreadable, DeletesRefused, ControlDies} \subseteq BOOLEAN

VARIABLES
    sweep,      \* the locals of RetentionReconciler.run
    erasure,    \* the locals of SubjectRequestService.erase
    described   \* the expiry last told to the principal of each record

retentionVars == <<sweep, erasure, described>>

Phase == {"idle", "listing", "classifying", "deciding", "deleting"}

\* A listing gives the day of every object it saw.
ListingOf == [Job -> [Key -> Nat \cup {None}]]

Sweep ==
    [phase : Phase,
     at : Nat,                      \* the instant expiry is judged against
     dry : BOOLEAN,                 \* whether this sweep only reports
     listed : ListingOf,
     committed : [Job -> BOOLEAN],  \* the class decided for each attempt
     pending : SUBSET Job,          \* what the current pass has to visit yet
     victim : Job \cup {None},      \* the attempt being deleted
     left : SUBSET Key,             \* its listed objects not yet tried
     refused : BOOLEAN]             \* whether a delete was counted as failed

Erasure ==
    [job : Job \cup {None},
     left : SUBSET Key,             \* its listed objects not yet tried
     refused : BOOLEAN]             \* whether something was unreachable

RetentionTypeOK ==
    /\ sweep \in Sweep
    /\ erasure \in Erasure
    /\ described \in [Job -> Nat \cup {None}]

NoSweep ==
    [phase |-> "idle", at |-> 0, dry |-> TRUE,
     listed |-> [j \in Job |-> [k \in Key |-> None]],
     committed |-> [j \in Job |-> FALSE],
     pending |-> {}, victim |-> None, left |-> {}, refused |-> FALSE]

NoErasure == [job |-> None, left |-> {}, refused |-> FALSE]

RetentionInit ==
    /\ sweep = NoSweep
    /\ erasure = NoErasure
    /\ described = [j \in Job |-> None]

-----------------------------------------------------------------------------
(* Names and ages *)

OutputPrefix == "outputs/"

\* RcloneB2Client._prefix_target: a namespace that already starts with the
\* base prefix stands for itself, any other one is placed beneath the base.
Target(base, prefix) == IF prefix = base THEN <<prefix>> ELSE <<base, prefix>>

\* The retention client sees the workers' attempts only if both resolve
\* outputs/ to the same place in the bucket.
SeesOutputs == Target(SweepBase, OutputPrefix) = Target(WorkerBase, OutputPrefix)

\* The objects a listing of one attempt namespace returns, with their days.
Listing(j) ==
    [k \in Key |-> IF SeesOutputs /\ Stored(j, k) THEN objects[j][k].day ELSE None]

Members(list) == {k \in Key : list[k] # None}

\* The oldest object dates the attempt.
Oldest(list) ==
    CHOOSE d \in {list[k] : k \in Members(list)} :
        \A k \in Members(list) : d <= list[k]

Period(isCommitted) == IF isCommitted THEN DeliverablePeriod ELSE FailedPeriod

Expired(isCommitted, created, at) == at >= created + Period(isCommitted)

\* Mutant: the objects go in any order.
NextVictimInAnyOrder(keys) == keys

\* The next object of a deletion: the marker only when nothing else is left.
NextVictim(keys) == IF keys = {Marker} THEN keys ELSE keys \ {Marker}

\* A delete succeeds, absent objects included, or is refused, and a refusal
\* that is a lost answer has had its effect all the same.
Delete(j, k, refused) ==
    \/ /\ ~refused
       /\ Remove(j, k)
    \/ /\ refused /\ DeletesRefused
       /\ Remove(j, k) \/ UNCHANGED objects

-----------------------------------------------------------------------------
(* RetentionReconciler.run *)

StartSweep(dry) ==
    /\ sweep.phase = "idle"
    /\ sweep' = [sweep EXCEPT !.phase = "listing", !.at = today, !.dry = dry]
    /\ UNCHANGED <<storeVars, erasure, described>>

Seen(listed) == {j \in Job : Members(listed[j]) # {}}

ListOutputs ==
    LET listed == [j \in Job |-> Listing(j)] IN
    /\ sweep.phase = "listing"
    /\ sweep' = [sweep EXCEPT
            !.listed = listed,
            !.pending = Seen(listed),
            !.phase = IF Seen(listed) = {} THEN "deciding" ELSE "classifying"]
    /\ UNCHANGED <<storeVars, erasure, described>>

\* Mutant: a marker whose head fails counts as absent.
ClassifyFailOpen(j) ==
    /\ sweep.phase = "classifying"
    /\ j \in sweep.pending
    /\ \E there \in {Stored(j, Marker), Stored(j, Marker) /\ ~MarkerUnreadable} :
        LET last == sweep.pending = {j} IN
        sweep' = [sweep EXCEPT
            !.committed[j] = there,
            !.phase = IF last THEN "deciding" ELSE @,
            !.pending = IF last THEN Seen(sweep.listed) ELSE @ \ {j}]
    /\ UNCHANGED <<storeVars, erasure, described>>

\* Every attempt is classified before the first one is deleted.  A marker
\* whose head fails counts as there, which retains the attempt.
Classify(j) ==
    /\ sweep.phase = "classifying"
    /\ j \in sweep.pending
    /\ \E there \in {Stored(j, Marker), Stored(j, Marker) \/ MarkerUnreadable} :
        LET last == sweep.pending = {j} IN
        sweep' = [sweep EXCEPT
            !.committed[j] = there,
            !.phase = IF last THEN "deciding" ELSE @,
            !.pending = IF last THEN Seen(sweep.listed) ELSE @ \ {j}]
    /\ UNCHANGED <<storeVars, erasure, described>>

\* An attempt that is not expired, or a dry run, deletes nothing.
Retain(j) ==
    /\ sweep.phase = "deciding"
    /\ j \in sweep.pending
    /\ sweep.dry \/ ~Expired(sweep.committed[j], Oldest(sweep.listed[j]), sweep.at)
    /\ sweep' = [sweep EXCEPT !.pending = @ \ {j}]
    /\ UNCHANGED <<storeVars, erasure, described>>

\* Mutant: the marker is never among the objects to delete.
CondemnSparesMarker(j) ==
    /\ sweep.phase = "deciding"
    /\ j \in sweep.pending
    /\ ~sweep.dry /\ Expired(sweep.committed[j], Oldest(sweep.listed[j]), sweep.at)
    /\ LET keys == Members(sweep.listed[j]) \ {Marker} IN
       sweep' = [sweep EXCEPT
            !.phase = IF keys = {} THEN @ ELSE "deleting", !.pending = @ \ {j},
            !.victim = IF keys = {} THEN None ELSE j, !.left = keys]
    /\ UNCHANGED <<storeVars, erasure, described>>

Condemn(j) ==
    /\ sweep.phase = "deciding"
    /\ j \in sweep.pending
    /\ ~sweep.dry /\ Expired(sweep.committed[j], Oldest(sweep.listed[j]), sweep.at)
    /\ sweep' = [sweep EXCEPT
            !.phase = "deleting", !.pending = @ \ {j},
            !.victim = j, !.left = Members(sweep.listed[j])]
    /\ UNCHANGED <<storeVars, erasure, described>>

\* Mutant: a refusal is skipped and not counted.
DeleteNextUncounted(k, refused) ==
    /\ sweep.phase = "deleting"
    /\ k \in NextVictim(sweep.left)
    /\ Delete(sweep.victim, k, refused)
    /\ LET last == sweep.left = {k} IN
       sweep' = [sweep EXCEPT
            !.left = @ \ {k},
            !.phase = IF last THEN "deciding" ELSE @,
            !.victim = IF last THEN None ELSE @]
    /\ UNCHANGED <<today, erasure, described>>

\* A refusal is counted and the deletion goes on with the next object.
DeleteNext(k, refused) ==
    /\ sweep.phase = "deleting"
    /\ k \in NextVictim(sweep.left)
    /\ Delete(sweep.victim, k, refused)
    /\ LET last == sweep.left = {k} IN
       sweep' = [sweep EXCEPT
            !.left = @ \ {k},
            !.refused = @ \/ refused,
            !.phase = IF last THEN "deciding" ELSE @,
            !.victim = IF last THEN None ELSE @]
    /\ UNCHANGED <<today, erasure, described>>

FinishSweep ==
    /\ sweep.phase = "deciding"
    /\ sweep.pending = {}
    /\ sweep' = NoSweep
    /\ UNCHANGED <<storeVars, erasure, described>>

\* The listing raises, or the command is interrupted at any await.
SweepDies ==
    /\ ControlDies
    /\ sweep.phase # "idle"
    /\ sweep' = NoSweep
    /\ UNCHANGED <<storeVars, erasure, described>>

-----------------------------------------------------------------------------
(* SubjectRequestService, for an authorized principal *)

\* Mutant: the record is dated by its newest object.
DescribeByNewest(j) ==
    /\ Members(Listing(j)) # {}
    /\ \E k \in Members(Listing(j)) :
        /\ \A i \in Members(Listing(j)) : Listing(j)[i] <= Listing(j)[k]
        /\ described' = [described EXCEPT ![j] =
                Listing(j)[k] + Period(Listing(j)[Marker] # None)]
    /\ UNCHANGED <<storeVars, sweep, erasure>>

Describe(j) ==
    /\ Members(Listing(j)) # {}
    /\ described' = [described EXCEPT ![j] =
            Oldest(Listing(j)) + Period(Listing(j)[Marker] # None)]
    /\ UNCHANGED <<storeVars, sweep, erasure>>

\* Erasing a record withdraws the expiry that was told for it.
StartErasure(j) ==
    /\ erasure = NoErasure
    /\ Members(Listing(j)) # {}
    /\ erasure' = [NoErasure EXCEPT !.job = j, !.left = Members(Listing(j))]
    /\ described' = [described EXCEPT ![j] = None]
    /\ UNCHANGED <<storeVars, sweep>>

EraseNext(k, refused) ==
    /\ erasure # NoErasure
    /\ k \in NextVictim(erasure.left)
    /\ Delete(erasure.job, k, refused)
    /\ erasure' = IF erasure.left = {k} THEN NoErasure
                  ELSE [erasure EXCEPT !.left = @ \ {k}, !.refused = @ \/ refused]
    /\ described' = [described EXCEPT ![erasure.job] = None]
    /\ UNCHANGED <<today, sweep>>

ErasureDies ==
    /\ ControlDies
    /\ erasure # NoErasure
    /\ erasure' = NoErasure
    /\ UNCHANGED <<storeVars, sweep, described>>

-----------------------------------------------------------------------------

SweepNext ==
    \/ \E dry \in BOOLEAN : StartSweep(dry)
    \/ ListOutputs \/ FinishSweep \/ SweepDies
    \/ \E j \in Job : Classify(j) \/ Retain(j) \/ Condemn(j)
    \/ \E k \in Key, refused \in BOOLEAN : DeleteNext(k, refused)

SubjectNext ==
    \/ \E j \in Job : Describe(j) \/ StartErasure(j)
    \/ \E k \in Key, refused \in BOOLEAN : EraseNext(k, refused)
    \/ ErasureDies

=============================================================================
