----------------------------- MODULE ModelCache -----------------------------
(***************************************************************************)
(* A worker's model cache: WorkerStartupSteps resolves the pinned set,     *)
(* proves capacity, and hydrates and links each artifact in turn, while    *)
(* other callers of the same ArtifactHydrator and CacheEvictor share the   *)
(* disk.  The catalog appears only by what it promises (PublishedSets).    *)
(*                                                                         *)
(* The cache lives on the container's own disk: a process that dies may    *)
(* come back on the same disk or on an empty one.                          *)
(***************************************************************************)
EXTENDS Integers, Sequences, FiniteSets, SequencesExt

CONSTANTS
    Blob, ModelSet,
    Streamed,    \* the blobs with a URL source, whose bytes nobody hashed on the way in
    Artifacts,   \* Artifacts[s]: the blobs of a manifest, its workflow last
    Target,      \* Target[b]: the ComfyUI-relative destination of a blob
    Size,        \* Size[b]: bytes, in units of the smallest artifact
    Age,         \* Age[b]: the order of the files' modification times
    Prefetcher,  \* callers of the hydrator other than the startup
    Disk,        \* bytes of the disk
    Safety,      \* disk_safety_bytes
    HighWater,   \* CachePolicy.high_water_bytes
    MaxLeases,   \* bound of the leases held at a time
    MaxOrphans,  \* bound of the bytes that dead processes leave in partials/
    Startup,     \* the startup sequence as a caller of the hydrator
    None

Caller == Prefetcher \cup {Startup}
Held == {"right", "drifted"}
File == "file"  \* a regular file where a link should be

Named == [s \in ModelSet |-> ToSet(Artifacts[s])]

ASSUME CacheAssumption ==
    /\ IsFiniteSet(Blob)
    /\ Artifacts \in [ModelSet -> Seq(Blob)]
    /\ DOMAIN Target = Blob
    /\ \A s \in ModelSet :  \* ModelSetManifest: something, at destinations of its own
        /\ Artifacts[s] # <<>>
        /\ \A i, k \in DOMAIN Artifacts[s] :
            Target[Artifacts[s][i]] = Target[Artifacts[s][k]] => i = k
    /\ Size \in [Blob -> Nat \ {0}]
    /\ Age \in [Blob -> Nat] /\ IsInjective(Age)
    /\ Startup \notin Prefetcher
    /\ {Disk, Safety, HighWater, MaxLeases, MaxOrphans} \subseteq Nat
    /\ None \notin Blob \cup Held \cup Caller

VARIABLES
    held, published,  \* the catalog
    upstream,  \* what each object holds: the right bytes, or others of their size
    blobs,     \* what the final path of each digest holds
    orphans,   \* bytes of the partials that no process owns any more
    links,     \* what stands at each destination
    boot,      \* the startup: its step, its set, the artifact it is at
    call,      \* each caller of hydrate: where it is, for which blob
    leases     \* CacheIndex._leases, taken by other users of the cache

catalogSide == <<held, published, upstream>>
diskSide == <<blobs, orphans, links>>
cacheVars == <<catalogSide, diskSide, boot, call, leases>>

BootStep == {"down", "resolve", "heads", "probe", "hydrate", "ready", "failed"}
CallStep == {"idle", "waits", "downloads"}

Down == [at |-> "down", set |-> None, pos |-> 1]
Idle == [at |-> "idle", blob |-> None]

CacheTypeOK ==
    /\ held \subseteq Blob /\ published \subseteq ModelSet
    /\ upstream \in [Blob -> Held]
    /\ blobs \in [Blob -> Held \cup {None}]
    /\ orphans \in 0 .. MaxOrphans
    /\ links \in [Range(Target) -> Blob \cup {None, File}]
    /\ boot \in [at : BootStep, set : ModelSet \cup {None}, pos : Nat]
    /\ call \in [Caller -> [at : CallStep, blob : Blob \cup {None}]]
    /\ leases \in [Blob -> Nat]

\* The catalog may be at any point of its history when the first worker starts.
CacheInit ==
    /\ published \in SUBSET ModelSet
    /\ held \in SUBSET Blob
    /\ \A s \in published : Named[s] \subseteq held
    /\ upstream \in [Blob -> Held]
    /\ \A b \in Blob \ Streamed : upstream[b] = "right"
    /\ blobs = [b \in Blob |-> None]
    /\ orphans = 0
    /\ links \in [Range(Target) -> {None, File}]
    /\ boot = Down
    /\ call = [c \in Caller |-> Idle]
    /\ leases = [b \in Blob |-> 0]

Catalog == INSTANCE PublishedSets

CatalogMoves ==
    /\ Catalog!SetsNext
    /\ UNCHANGED <<upstream, diskSide, boot, call, leases>>

-----------------------------------------------------------------------------
(* Sizes *)

Bytes(S) == MapThenSumSet(LAMBDA b : Size[b], S)
Cached == {b \in Blob : blobs[b] # None}
InFlight == {b \in Blob : \E c \in Caller : call[c] = [at |-> "downloads", blob |-> b]}
Used == Bytes(Cached)
Taken == Used + Bytes(InFlight) + orphans

-----------------------------------------------------------------------------
(* WorkerStartupSteps: configure and preflight *)

Up == boot.at # "down"
Needed == Artifacts[boot.set]
BootTo(at, pos) == boot' = [boot EXCEPT !.at = at, !.pos = pos]

Start ==
    /\ ~Up
    /\ \E s \in ModelSet : boot' = [at |-> "resolve", set |-> s, pos |-> 1]
    /\ UNCHANGED <<catalogSide, diskSide, call, leases>>

Resolve ==
    /\ boot.at = "resolve"
    /\ BootTo(IF boot.set \in published THEN "heads" ELSE "failed", 1)
    /\ UNCHANGED <<catalogSide, diskSide, call, leases>>

HeadArtifact ==
    /\ boot.at = "heads"
    /\ IF Needed[boot.pos] \notin held THEN BootTo("failed", 1)
       ELSE IF boot.pos = Len(Needed) THEN BootTo("probe", 1)
       ELSE BootTo("heads", boot.pos + 1)
    /\ UNCHANGED <<catalogSide, diskSide, call, leases>>

\* A partial and a final copy of everything, whatever the cache already holds.
Required(s) == 2 * Bytes(Named[s]) + Safety

Probe ==
    /\ boot.at = "probe"
    /\ BootTo(IF Disk - Taken < Required(boot.set) THEN "failed" ELSE "hydrate", 1)
    /\ UNCHANGED <<catalogSide, diskSide, call, leases>>

\* A directory, a command, the GPU or the authorization is not there.
StartupFails ==
    /\ boot.at \in {"resolve", "heads", "probe"}
    /\ BootTo("failed", 1)
    /\ UNCHANGED <<catalogSide, diskSide, call, leases>>

-----------------------------------------------------------------------------
(* ArtifactHydrator.hydrate, and what the startup does with its result *)

\* Mutant: any file at the final path is a warm hit.
VerifiedPresent(b) == blobs[b] # None

\* The final path holds exactly the bytes of its digest: size and hash agree.
Verified(b) == blobs[b] = "right"

HydrateCall(c) ==
    /\ call[c].at = "idle"
    /\ \/ /\ c = Startup /\ boot.at = "hydrate"
          /\ call' = [call EXCEPT ![c] = [at |-> "waits", blob |-> Needed[boot.pos]]]
       \/ /\ c # Startup /\ Up
          /\ \E b \in Blob : call' = [call EXCEPT ![c] = [at |-> "waits", blob |-> b]]
    /\ UNCHANGED <<catalogSide, diskSide, boot, leases>>

\* ModelMaterializer: a link is replaced, a file is not.  No await separates it
\* from the end of hydrate.
Materialize(b) ==
    IF links[Target[b]] = File THEN BootTo("failed", 1) /\ UNCHANGED links
    ELSE /\ links' = [links EXCEPT ![Target[b]] = b]
         /\ IF boot.pos = Len(Needed) THEN BootTo("ready", 1)
            ELSE BootTo("hydrate", boot.pos + 1)

\* The call ends, and the startup goes on in the same step.
Return(c, ok) ==
    /\ call' = [call EXCEPT ![c] = Idle]
    /\ IF c # Startup THEN UNCHANGED <<boot, links>>
       ELSE IF ok THEN Materialize(call[c].blob)
       ELSE BootTo("failed", 1) /\ UNCHANGED links

\* The lock of a digest is held across the download and nowhere else.
Unlocked(b) == b \notin InFlight

\* A warm hit downloads nothing; anything else at the final path is removed.
Enter(c) ==
    LET b == call[c].blob IN
    /\ call[c].at = "waits" /\ Unlocked(b)
    /\ IF Verified(b) THEN Return(c, TRUE) /\ UNCHANGED blobs
       ELSE /\ blobs' = [blobs EXCEPT ![b] = None]
            /\ call' = [call EXCEPT ![c].at = "downloads"]
            /\ UNCHANGED <<boot, links>>
    /\ UNCHANGED <<catalogSide, orphans, leases>>

\* The partial verifies and is renamed to the final path.
Downloaded(c) ==
    LET b == call[c].blob IN
    /\ call[c].at = "downloads"
    /\ b \in held /\ upstream[b] = "right" /\ Taken <= Disk
    /\ blobs' = [blobs EXCEPT ![b] = "right"]
    /\ Return(c, TRUE)
    /\ UNCHANGED <<catalogSide, orphans, leases>>

\* Mutant: a download that fails keeps its lock.
DownloadFailsLocked(c) ==
    /\ call[c].at = "downloads"
    /\ IF c = Startup THEN Return(c, FALSE) ELSE UNCHANGED <<call, boot, links>>
    /\ UNCHANGED <<catalogSide, blobs, orphans, leases>>

\* The command fails or the partial does not verify; it is unlinked either way.
DownloadFails(c) ==
    /\ call[c].at = "downloads"
    /\ Return(c, FALSE)
    /\ UNCHANGED <<catalogSide, blobs, orphans, leases>>

-----------------------------------------------------------------------------
(* CacheIndex.lease, CacheEvictor.ensure_capacity, and the end of a process *)

\* Nothing is checked: a lease may name a blob that is torn or not there.
Lease(b) ==
    /\ Up
    /\ MapThenSumSet(LAMBDA x : leases[x], Blob) < MaxLeases
    /\ leases' = [leases EXCEPT ![b] = @ + 1]
    /\ UNCHANGED <<catalogSide, diskSide, boot, call>>

Release(b) ==
    /\ leases[b] > 0
    /\ leases' = [leases EXCEPT ![b] = @ - 1]
    /\ UNCHANGED <<catalogSide, diskSide, boot, call>>

\* Mutant: a lease does not protect.
SpareableLeased == Cached \ Named[boot.set]

\* The selected set is what the caller protects.
Spareable == {b \in Cached \ Named[boot.set] : leases[b] = 0}

\* Mutant: the newest go first.
GoesBeforeNewest(b) == {x \in Spareable : Age[x] > Age[b]}

GoesBefore(b) == {x \in Spareable : Age[x] < Age[b]}

\* One synchronous call: each candidate goes if those before it were not
\* enough.  It raises in the end if all of them were not.
EnsureCapacity(required) ==
    /\ Up /\ required <= HighWater
    /\ UNCHANGED <<catalogSide, orphans, links, boot, call, leases>>
    /\ LET target == HighWater - required
           gone == {b \in Spareable : Used - Bytes(GoesBefore(b)) > target}
       IN blobs' = [b \in Blob |-> IF b \in gone THEN None ELSE blobs[b]]

\* The process exits, cleaning up, or dies with its partials on the disk.  The
\* disk comes back, perhaps with a blob torn by the crash, or is a new one.
Stop ==
    /\ Up
    /\ boot' = Down
    /\ call' = [c \in Caller |-> Idle]
    /\ leases' = [b \in Blob |-> 0]
    /\ \/ UNCHANGED diskSide
       \/ /\ orphans + Bytes(InFlight) \in 0 .. MaxOrphans
          /\ orphans' = orphans + Bytes(InFlight)
          /\ \/ UNCHANGED blobs
             \/ \E b \in Cached : blobs' = [blobs EXCEPT ![b] = "drifted"]
          /\ UNCHANGED links
       \/ /\ blobs' = [b \in Blob |-> None]
          /\ orphans' = 0
          /\ links' = [d \in DOMAIN links |-> None]
    /\ UNCHANGED catalogSide

StartupStep ==
    \/ Resolve \/ HeadArtifact \/ Probe \/ HydrateCall(Startup)
    \/ Enter(Startup) \/ Downloaded(Startup) \/ DownloadFails(Startup)

CacheNext ==
    \/ CatalogMoves
    \/ Start \/ Resolve \/ HeadArtifact \/ Probe \/ StartupFails
    \/ \E c \in Caller :
          HydrateCall(c) \/ Enter(c) \/ Downloaded(c) \/ DownloadFails(c)
    \/ \E b \in Blob : Lease(b) \/ Release(b)
    \/ \E r \in Range(Size) : EnsureCapacity(r)
    \/ Stop

\* Each await ends; the lock that the startup waits for is fair.
CacheFairness ==
    /\ WF_cacheVars(StartupStep)
    /\ SF_cacheVars(Enter(Startup))
    /\ \A c \in Prefetcher : WF_cacheVars(Downloaded(c) \/ DownloadFails(c))

CacheSpec == CacheInit /\ [][CacheNext]_cacheVars /\ CacheFairness

-----------------------------------------------------------------------------

\* A worker that is ready reads exactly the bytes its manifest pins, whatever
\* the bucket holds, whatever the last process left on the disk, and whatever
\* is prefetched or evicted meanwhile (worker.py:128-133, hydrator.py:40-60).
ReadyIsWhole ==
    boot.at = "ready" =>
        \A b \in Named[boot.set] : links[Target[b]] = b /\ blobs[b] = "right"

\* Callers of one process never download one digest twice at a time
\* (hydrator.py:38-39).
OneDownloadPerBlob ==
    \A c, d \in Caller :
        c # d /\ call[c].at = "downloads" /\ call[d].at = "downloads"
            => call[c].blob # call[d].blob

\* Why: what the startup has linked stays right while it goes on, since it is
\* protected from the evictor and nobody unlinks a blob that verifies; and it
\* hydrates the artifact it is at and no other (worker.py:118-136).
LinkedStays ==
    /\ boot.at # "down" => boot.set \in ModelSet
    /\ boot.at \in {"heads", "hydrate"} => boot.pos \in DOMAIN Needed
    /\ boot.at = "hydrate" =>
        \A i \in 1 .. boot.pos - 1 : links[Target[Needed[i]]] = Needed[i] /\ Verified(Needed[i])

CallsAreNamed ==
    /\ \A c \in Caller : call[c].at # "idle" => call[c].blob \in Blob
    /\ call[Startup].at # "idle" => boot.at = "hydrate" /\ call[Startup].blob = Needed[boot.pos]

\* What holds of the cache at every step of its callers.
CacheInv == CacheTypeOK /\ LinkedStays /\ CallsAreNamed /\ ReadyIsWhole /\ OneDownloadPerBlob

\* While its process lives, a blob that somebody leases is never evicted, and only
\* a hydration changes it: one that is right stays, one that is torn goes for a
\* download of the same digest, and what comes is right (eviction.py:35-44,
\* hydrator.py:40-46).  And no partial that failed is left (hydrator.py:48-60).
DiskIsKept ==
    [][boot'.at # "down" =>
        /\ \A b \in Blob : leases[b] > 0 /\ blobs'[b] # blobs[b] =>
              blobs'[b] = "right" \/ (blobs[b] = "drifted" /\ b \in InFlight')
        /\ orphans' <= orphans]_cacheVars

\* A call of ensure_capacity takes no blob before an older candidate, goes no
\* further than it must, and gives up only when nothing can be spared
\* (eviction.py:46-58).
EvictsLeast ==
    [][\A r \in Range(Size) :
        LET gone == {b \in Blob : blobs[b] # None /\ blobs'[b] = None}
            left == Bytes({b \in Blob : blobs'[b] # None})
        IN EnsureCapacity(r) =>
            /\ \A b \in gone, c \in Spareable : Age[c] < Age[b] => c \in gone
            /\ \A b \in gone : (\A c \in gone : Age[c] <= Age[b])
                                 => left + Size[b] > HighWater - r
            /\ left > HighWater - r => Spareable \subseteq gone]_cacheVars

\* A startup ends: ready, failed, or gone with its process.
StartupEnds == (boot.at = "resolve") ~> (boot.at \in {"ready", "failed", "down"})

=============================================================================
