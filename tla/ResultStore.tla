---------------------------- MODULE ResultStore ----------------------------
(***************************************************************************)
(* The private output bucket, as the code under src/ uses it, and the day  *)
(* on which each object was written.  An attempt namespace                 *)
(*                                                                         *)
(*     outputs/<job>/<attempt>/                                            *)
(*                                                                         *)
(* is derived from the principal and the request hash, so one request has  *)
(* exactly one namespace: a Job here stands for both.  The bucket itself   *)
(* and rclone are external; what they promise the code is stated here.     *)
(***************************************************************************)
EXTENDS Naturals

CONSTANTS
    Job,             \* the requests, each with its one attempt namespace
    Render,          \* the video contents a generation may produce
    Record,          \* the canonical JSON records stored beside a video
    Workflow,        \* the record of the bound workflow, fixed by the request
    Generation,      \* Generation[r]: the record that describes render r
    Stamp,           \* the instants committed_at may read from the clock
    None,            \* an absent object, an unheld lock, an unset value
    RcatOverwrites,  \* whether rcat replaces an object that appeared late
    MaxDay           \* bound of the day counter

Role == {"video", "workflow", "generation"}
Marker == "result.json"
Key == Role \cup {Marker}

\* The marker names the digest of every artifact and the commit instant.  The
\* records are functions of the request and the render, so the render stands
\* for the three digests.
Manifest == [render : Render, committed_at : Stamp]

RoleContent(k, r) ==
    CASE k = "video" -> r
      [] k = "workflow" -> Workflow
      [] OTHER -> Generation[r]

\* What the code ever writes under a key.
Contents(k) ==
    CASE k = "video" -> Render
      [] k = Marker -> Manifest
      [] OTHER -> Record

Data == Render \cup Record \cup Manifest
Object == [data : Data, day : Nat]

ASSUME StoreAssumption ==
    /\ None \notin Job \cup Render \cup Object \cup Nat
    /\ Workflow \in Record
    /\ Generation \in [Render -> Record]
    /\ RcatOverwrites \in BOOLEAN
    /\ MaxDay \in Nat

VARIABLES
    objects,  \* objects[j][k]: what the bucket holds under a key
    today     \* the bucket's clock, in days

storeVars == <<objects, today>>

StoreInit ==
    /\ objects = [j \in Job |-> [k \in Key |-> None]]
    /\ today = 0

Stored(j, k) == objects[j][k] # None

StoreTypeOK ==
    /\ objects \in [Job -> [Key -> Object \cup {None}]]
    /\ \A j \in Job, k \in Key : Stored(j, k) => objects[j][k].data \in Contents(k)
    /\ today \in Nat

\* Mutant: the digests are never compared.
HoldsAnything(j, k, d) == Stored(j, k)

\* The size and digest checks of the code: an object with exactly this content.
Holds(j, k, d) == Stored(j, k) /\ objects[j][k].data = d

Write(j, k, d) ==
    objects' = [objects EXCEPT ![j][k] = [data |-> d, day |-> today]]

Remove(j, k) ==
    objects' = [objects EXCEPT ![j][k] = None]

\* Mutant: the put loses its --immutable.
RcatReplaces(j, k, d) == Write(j, k, d)

\* What rcat may do to a key: create it, and replace it only if the provider
\* lets a late create replace an object that is already there.
RcatLands(j, k, d) ==
    /\ ~Stored(j, k) \/ RcatOverwrites
    /\ Write(j, k, d)

NextDay ==
    /\ today < MaxDay
    /\ today' = today + 1
    /\ UNCHANGED objects

=============================================================================
