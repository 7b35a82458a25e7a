-------------------------- MODULE ModelCacheProofs --------------------------
(***************************************************************************)
(* CacheInv is inductive: for any sets, sizes, prefetchers and disk, a     *)
(* worker that is ready reads the bytes its manifest pins, and callers of  *)
(* one process never download a digest twice at a time.                    *)
(***************************************************************************)
EXTENDS ModelCache, FiniteSetTheorems, WellFoundedInduction, TLAPS

\* The manifest of the startup has members, which are blobs with destinations.
LEMMA NeededAreBlobs ==
    ASSUME boot.set \in ModelSet
    PROVE  /\ Needed \in Seq(Blob) /\ Len(Needed) \in Nat /\ Len(Needed) >= 1
           /\ DOMAIN Needed = 1 .. Len(Needed)
           /\ \A i \in DOMAIN Needed : Needed[i] \in Blob /\ Needed[i] \in Named[boot.set]
           /\ Named[boot.set] = {Needed[i] : i \in DOMAIN Needed}
           /\ Named[boot.set] \subseteq Blob
<1>1. Needed \in Seq(Blob) /\ Needed # <<>> BY CacheAssumption DEF Needed
<1>2. Named[boot.set] = {Needed[i] : i \in DOMAIN Needed} BY DEF Named, Needed, ToSet
<1> QED BY <1>1, <1>2

\* Two artifacts of one manifest have two destinations.
LEMMA DestinationsDiffer ==
    ASSUME boot.set \in ModelSet, NEW i \in DOMAIN Needed, NEW k \in DOMAIN Needed, i # k
    PROVE  Target[Needed[i]] # Target[Needed[k]]
BY CacheAssumption DEF Needed

\* Each blob has a destination.
LEMMA EachHasTarget == ASSUME NEW b \in Blob PROVE Target[b] \in Range(Target)
BY CacheAssumption DEF Range

-----------------------------------------------------------------------------
(* What a step leaves alone *)

\* The parts of the invariant that bear on the disk and the startup.
Rest == LinkedStays /\ ReadyIsWhole

\* A step that keeps the startup and its links, and the blobs that verify, keeps
\* what was linked.
LEMMA OthersKeepRest ==
    ASSUME CacheInv, UNCHANGED <<boot, links>>,
           boot.set \in ModelSet => \A b \in Named[boot.set] : Verified(b) => Verified(b)'
    PROVE  Rest'
<1> USE DEF CacheInv
<1>1. CASE boot.at = "down"
  BY <1>1 DEF Rest, LinkedStays, ReadyIsWhole
<1>2. CASE boot.at # "down"
  <2>1. boot.set \in ModelSet BY <1>2 DEF LinkedStays
  <2>2. Needed' = Needed BY DEF Needed
  <2>3. boot.at = "hydrate" => \A i \in 1 .. boot.pos - 1 : Needed[i] \in Named[boot.set]
    <3>1. SUFFICES ASSUME boot.at = "hydrate", NEW i \in 1 .. boot.pos - 1
                   PROVE  Needed[i] \in Named[boot.set]
      OBVIOUS
    <3>2. PICK n \in Nat : n = boot.pos BY DEF CacheTypeOK
    <3>3. n \in DOMAIN Needed BY <3>1, <3>2 DEF LinkedStays
    <3>4. i \in DOMAIN Needed BY <2>1, <3>2, <3>3, NeededAreBlobs
    <3> QED BY <2>1, <3>4, NeededAreBlobs
  <2>4. LinkedStays'
    BY <2>1, <2>2, <2>3 DEF LinkedStays
  <2>5. ReadyIsWhole'
    BY <2>1 DEF ReadyIsWhole, Verified
  <2> QED BY <2>4, <2>5 DEF Rest
<1> QED BY <1>1, <1>2

\* A startup that has not come to hydrate, or has given up, has linked nothing
\* that counts.
LEMMA BootMovesRest ==
    ASSUME CacheInv, UNCHANGED <<blobs, links>>, boot'.set = boot.set, boot.at # "down",
           boot'.at \in {"heads", "probe", "hydrate", "failed"},
           boot'.at = "heads" => boot'.pos \in DOMAIN Needed,
           boot'.at = "hydrate" => boot'.pos = 1
    PROVE  Rest'
<1> USE DEF CacheInv
<1>1. boot.set \in ModelSet /\ Needed' = Needed BY DEF LinkedStays, Needed
<1>2. 1 \in DOMAIN Needed BY <1>1, NeededAreBlobs
<1>3. boot'.at = "hydrate" => 1 .. boot'.pos - 1 = {} OBVIOUS
<1> QED BY <1>1, <1>2, <1>3 DEF Rest, LinkedStays, ReadyIsWhole

\* Calls that stand still keep what is said of them.
LEMMA CallsStay ==
    ASSUME CacheInv, UNCHANGED call, boot'.set = boot.set,
           boot' = boot \/ call[Startup].at = "idle"
    PROVE  CallsAreNamed' /\ OneDownloadPerBlob'
BY DEF CacheInv, CallsAreNamed, OneDownloadPerBlob, Needed


-----------------------------------------------------------------------------
(* The end of a call of hydrate *)

\* The parts of the type that the end of a call may change.
Typed ==
    /\ links \in [Range(Target) -> Blob \cup {None, File}]
    /\ boot \in [at : BootStep, set : ModelSet \cup {None}, pos : Nat]
    /\ call \in [Caller -> [at : CallStep, blob : Blob \cup {None}]]

\* The startup links what it has hydrated, beside what it has linked before.
LEMMA MaterializeKeeps ==
    ASSUME CacheInv, call[Startup].at # "idle", NEW b, b = call[Startup].blob,
           Materialize(b), blobs'[b] = "right", \A x \in Blob : Verified(x) => Verified(x)'
    PROVE  Rest' /\ boot' \in [at : BootStep, set : ModelSet \cup {None}, pos : Nat]
                 /\ links' \in [Range(Target) -> Blob \cup {None, File}]
<1> USE DEF CacheInv
<1>1. /\ boot.at = "hydrate" /\ b = Needed[boot.pos] /\ boot.set \in ModelSet
      /\ boot.pos \in DOMAIN Needed
  BY DEF CallsAreNamed, LinkedStays
<1>2. PICK n \in Nat : n = boot.pos BY DEF CacheTypeOK
<1>3. n \in 1 .. Len(Needed) /\ b \in Blob /\ Target[b] \in Range(Target)
  BY <1>1, <1>2, NeededAreBlobs, EachHasTarget
<1>4. CASE links[Target[b]] = File
  <2>1. boot' = [boot EXCEPT !.at = "failed", !.pos = 1] /\ links' = links
    BY <1>4 DEF Materialize, BootTo
  <2>2. boot'.at = "failed" /\ boot'.set \in ModelSet
    BY <2>1, <1>1 DEF CacheTypeOK
  <2> QED BY <2>1, <2>2 DEF Rest, LinkedStays, ReadyIsWhole, CacheTypeOK, BootStep
<1>5. CASE links[Target[b]] # File
  <2>1. links' = [links EXCEPT ![Target[b]] = b]
    BY <1>5 DEF Materialize
  <2>2. links' \in [Range(Target) -> Blob \cup {None, File}]
    BY <2>1, <1>3 DEF CacheTypeOK
  <2>3. ASSUME NEW i \in DOMAIN Needed, i <= n
        PROVE  links'[Target[Needed[i]]] = Needed[i] /\ blobs'[Needed[i]] = "right"
    <3>1. Needed[i] \in Blob BY <1>1, NeededAreBlobs
    <3>2. CASE i = n
      BY <3>2, <2>1, <1>1, <1>2, <1>3 DEF CacheTypeOK, Verified
    <3>3. CASE i # n
      <4>1. i \in 1 .. n - 1 BY <3>3, <2>3, <1>1, <1>3, NeededAreBlobs
      <4>2. links[Target[Needed[i]]] = Needed[i] /\ Verified(Needed[i])
        BY <4>1, <1>1, <1>2 DEF LinkedStays
      <4>3. Target[Needed[i]] # Target[b]
        BY <3>3, <1>1, <1>2, DestinationsDiffer
      <4>4. Target[Needed[i]] \in Range(Target) BY <3>1, EachHasTarget
      <4> QED BY <4>2, <4>3, <4>4, <3>1, <2>1 DEF CacheTypeOK, Verified
    <3> QED BY <3>2, <3>3
  <2>4. CASE n = Len(Needed)
    <3>1. boot' = [boot EXCEPT !.at = "ready", !.pos = 1]
      BY <2>4, <1>2, <1>5 DEF Materialize, BootTo
    <3>2. boot'.at = "ready" /\ boot'.set = boot.set
          /\ boot' \in [at : BootStep, set : ModelSet \cup {None}, pos : Nat]
      BY <3>1 DEF CacheTypeOK, BootStep
    <3>3. \A x \in Named[boot.set] : links'[Target[x]] = x /\ blobs'[x] = "right"
      BY <2>3, <2>4, <1>1, NeededAreBlobs
    <3> QED BY <3>2, <3>3, <2>2, <1>1 DEF Rest, LinkedStays, ReadyIsWhole
  <2>5. CASE n # Len(Needed)
    <3> DEFINE m == n + 1
    <3>1. boot' = [boot EXCEPT !.at = "hydrate", !.pos = m] /\ m \in Nat
      BY <2>5, <1>2, <1>5 DEF Materialize, BootTo
    <3> HIDE DEF m
    <3>2. boot'.at = "hydrate" /\ boot'.set = boot.set /\ boot'.pos = m
          /\ boot' \in [at : BootStep, set : ModelSet \cup {None}, pos : Nat]
      BY <3>1 DEF CacheTypeOK, BootStep
    <3>3. Needed' = Needed BY <3>2 DEF Needed
    <3>4. m \in DOMAIN Needed /\ \A i \in 1 .. n : i \in DOMAIN Needed /\ i <= n
      BY <1>1, <1>3, <2>5, NeededAreBlobs DEF m
    <3>5. boot'.pos - 1 = n BY <3>2 DEF m
    <3>6. \A i \in 1 .. n : links'[Target[Needed[i]]] = Needed[i] /\ blobs'[Needed[i]] = "right"
      BY <2>3, <3>4
    <3>7. LinkedStays'
      BY <3>2, <3>3, <3>4, <3>5, <3>6, <1>1 DEF LinkedStays, Verified
    <3>8. ReadyIsWhole' BY <3>2 DEF ReadyIsWhole
    <3> QED BY <3>2, <3>7, <3>8, <2>2 DEF Rest
  <2> QED BY <2>4, <2>5
<1> QED BY <1>4, <1>5

\* A call that ends leaves the others as they are, and the startup goes on with
\* what verifies, or gives up (hydrator.py hydrate, worker.py hydrate).
LEMMA ReturnKeeps ==
    ASSUME CacheInv, NEW c \in Caller, call[c].at # "idle", NEW ok \in BOOLEAN, Return(c, ok),
           ok => blobs'[call[c].blob] = "right", \A x \in Blob : Verified(x) => Verified(x)'
    PROVE  Rest' /\ Typed' /\ CallsAreNamed' /\ OneDownloadPerBlob'
<1> USE DEF CacheInv
<1>1. call' = [call EXCEPT ![c] = Idle] BY DEF Return
<1>2. call' \in [Caller -> [at : CallStep, blob : Blob \cup {None}]]
  BY <1>1 DEF CacheTypeOK, Idle, CallStep
<1>3. call'[c].at = "idle" /\ \A d \in Caller \ {c} : call'[d] = call[d]
  BY <1>1 DEF CacheTypeOK, Idle
<1>4. OneDownloadPerBlob'
  BY <1>3 DEF OneDownloadPerBlob
<1>5. \A d \in Caller : call'[d].at # "idle" => call'[d].blob \in Blob
  BY <1>3 DEF CallsAreNamed
<1>6. Startup \in Caller BY DEF Caller
<1>7. CASE c # Startup
  <2>1. UNCHANGED <<boot, links>> BY <1>7 DEF Return
  <2>2. CallsAreNamed'
    BY <1>3, <1>5, <1>6, <1>7, <2>1 DEF CallsAreNamed, Needed
  <2>3. Rest'
    <3>1. boot.set \in ModelSet => \A b \in Named[boot.set] : Verified(b) => Verified(b)'
      BY NeededAreBlobs
    <3> QED BY <2>1, <3>1, OthersKeepRest
  <2> QED BY <1>2, <1>4, <2>1, <2>2, <2>3 DEF Typed, CacheTypeOK
<1>8. CASE c = Startup
  <2>1. CallsAreNamed' BY <1>3, <1>5, <1>8 DEF CallsAreNamed
  <2>2. CASE ok
    <3>1. Materialize(call[c].blob) BY <1>8, <2>2 DEF Return
    <3>2. /\ Rest' /\ boot' \in [at : BootStep, set : ModelSet \cup {None}, pos : Nat]
          /\ links' \in [Range(Target) -> Blob \cup {None, File}]
      BY <1>8, <2>2, <3>1, MaterializeKeeps
    <3> QED BY <1>2, <1>4, <2>1, <3>2 DEF Typed
  <2>3. CASE ~ok
    <3>1. boot' = [boot EXCEPT !.at = "failed", !.pos = 1] /\ links' = links
      BY <1>8, <2>3 DEF Return, BootTo
    <3>2. boot.set \in ModelSet BY <1>8 DEF CallsAreNamed, LinkedStays
    <3>3. boot'.at = "failed" /\ boot'.set \in ModelSet
      BY <3>1, <3>2 DEF CacheTypeOK
    <3>4. Rest' BY <3>3 DEF Rest, LinkedStays, ReadyIsWhole
    <3> QED BY <1>2, <1>4, <2>1, <3>1, <3>4 DEF Typed, CacheTypeOK, BootStep
  <2> QED BY <2>2, <2>3
<1> QED BY <1>7, <1>8

-----------------------------------------------------------------------------
(* One lemma per step *)

\* Nothing runs on an empty disk.
LEMMA CacheStartsWell == ASSUME CacheInit PROVE CacheInv
<1>1. Startup \in Caller BY DEF Caller
<1>2. boot.at = "down" /\ \A c \in Caller : call[c].at = "idle"
  BY DEF CacheInit, Down, Idle
<1>3. CacheTypeOK
  BY CacheAssumption DEF CacheInit, CacheTypeOK, Held, Down, Idle, BootStep, CallStep, File
<1> QED BY <1>1, <1>2, <1>3 DEF CacheInv, LinkedStays, CallsAreNamed, ReadyIsWhole,
                                OneDownloadPerBlob

\* The catalog grows and touches no disk.
LEMMA CatalogKeeps == ASSUME CacheInv, CatalogMoves PROVE CacheInv'
<1> USE DEF CacheInv
<1>1. UNCHANGED <<upstream, blobs, orphans, links, boot, call, leases>>
  BY DEF CatalogMoves, diskSide
<1>2. held' \subseteq Blob /\ published' \subseteq ModelSet
  BY DEF CatalogMoves, Catalog!SetsNext, Catalog!Hold, Catalog!Publish, CacheTypeOK
<1>3. CacheTypeOK' BY <1>1, <1>2 DEF CacheTypeOK
<1>4. Rest' BY <1>1, OthersKeepRest DEF Verified
<1> QED BY <1>1, <1>3, <1>4, CallsStay DEF Rest

\* A process starts, on whatever disk it finds.
LEMMA StartKeeps == ASSUME CacheInv, Start PROVE CacheInv'
<1> USE DEF CacheInv
<1>1. PICK s \in ModelSet : boot' = [at |-> "resolve", set |-> s, pos |-> 1]
  BY DEF Start
<1>2. UNCHANGED <<held, published, upstream, blobs, orphans, links, call, leases>>
  BY DEF Start, catalogSide, diskSide
<1>3. CacheTypeOK' BY <1>1, <1>2 DEF CacheTypeOK, BootStep
<1>4. Rest' BY <1>1 DEF Rest, LinkedStays, ReadyIsWhole
<1>5. call[Startup].at = "idle"
  BY DEF Start, Up, CallsAreNamed
<1>6. CallsAreNamed' /\ OneDownloadPerBlob'
  BY <1>2, <1>5 DEF CallsAreNamed, OneDownloadPerBlob
<1> QED BY <1>3, <1>4, <1>6 DEF Rest

\* The startup goes on, or gives up, before it hydrates anything.
LEMMA PreflightKeeps ==
    ASSUME CacheInv, Resolve \/ HeadArtifact \/ Probe \/ StartupFails
    PROVE  CacheInv'
<1> USE DEF CacheInv
<1>1. UNCHANGED <<held, published, upstream, blobs, orphans, links, call, leases>>
  BY DEF Resolve, HeadArtifact, Probe, StartupFails, catalogSide, diskSide
<1>2. boot.at \in {"resolve", "heads", "probe"} /\ boot.set \in ModelSet
  BY DEF Resolve, HeadArtifact, Probe, StartupFails, LinkedStays
<1>3. \E at \in {"heads", "probe", "hydrate", "failed"}, m \in Nat :
        /\ BootTo(at, m)
        /\ at = "heads" => m \in DOMAIN Needed
        /\ at = "hydrate" => m = 1
  <2>1. 1 \in DOMAIN Needed BY <1>2, NeededAreBlobs
  <2>2. CASE Resolve BY <2>1, <2>2 DEF Resolve
  <2>3. CASE HeadArtifact
    <3>1. PICK n \in Nat : n = boot.pos BY DEF CacheTypeOK
    <3>2. n \in 1 .. Len(Needed)
      BY <2>3, <1>2, <3>1, NeededAreBlobs DEF HeadArtifact, LinkedStays
    <3>3. n # Len(Needed) => n + 1 \in DOMAIN Needed /\ n + 1 \in Nat
      BY <1>2, <3>2, NeededAreBlobs
    <3> QED BY <2>3, <3>1, <3>3 DEF HeadArtifact
  <2>4. CASE Probe BY <2>4 DEF Probe
  <2>5. CASE StartupFails BY <2>5 DEF StartupFails
  <2> QED BY <2>2, <2>3, <2>4, <2>5
<1>4. PICK at \in {"heads", "probe", "hydrate", "failed"}, m \in Nat :
        /\ boot' = [boot EXCEPT !.at = at, !.pos = m]
        /\ at = "heads" => m \in DOMAIN Needed
        /\ at = "hydrate" => m = 1
  BY <1>3 DEF BootTo
<1>5. /\ boot'.at = at /\ boot'.pos = m /\ boot'.set = boot.set
      /\ boot' \in [at : BootStep, set : ModelSet \cup {None}, pos : Nat]
  BY <1>4 DEF CacheTypeOK, BootStep
<1>6. CacheTypeOK' BY <1>1, <1>5 DEF CacheTypeOK
<1>7. Rest' BY <1>1, <1>2, <1>4, <1>5, BootMovesRest
<1>8. call[Startup].at = "idle" BY <1>2 DEF CallsAreNamed
<1> QED BY <1>1, <1>5, <1>6, <1>7, <1>8, CallsStay DEF Rest

\* A caller asks for a blob, the startup for the one it is at.
LEMMA HydrateCallKeeps == ASSUME CacheInv, NEW c \in Caller, HydrateCall(c) PROVE CacheInv'
<1> USE DEF CacheInv
<1>1. UNCHANGED <<held, published, upstream, blobs, orphans, links, boot, leases>>
  BY DEF HydrateCall, catalogSide, diskSide
<1>2. \E b \in Blob :
        /\ call' = [call EXCEPT ![c] = [at |-> "waits", blob |-> b]]
        /\ c = Startup => boot.at = "hydrate" /\ b = Needed[boot.pos]
  <2>1. CASE c = Startup
    <3>1. boot.at = "hydrate" /\ boot.set \in ModelSet /\ boot.pos \in DOMAIN Needed
      BY <2>1 DEF HydrateCall, LinkedStays
    <3>2. Needed[boot.pos] \in Blob BY <3>1, NeededAreBlobs
    <3> QED BY <2>1, <3>1, <3>2 DEF HydrateCall
  <2>2. CASE c # Startup BY <2>2 DEF HydrateCall
  <2> QED BY <2>1, <2>2
<1>3. PICK b \in Blob :
        /\ call' = [call EXCEPT ![c] = [at |-> "waits", blob |-> b]]
        /\ c = Startup => boot.at = "hydrate" /\ b = Needed[boot.pos]
  BY <1>2
<1>4. /\ call' \in [Caller -> [at : CallStep, blob : Blob \cup {None}]]
      /\ call'[c].at = "waits" /\ call'[c].blob = b
      /\ \A d \in Caller \ {c} : call'[d] = call[d]
  BY <1>3 DEF CacheTypeOK, CallStep
<1>5. CacheTypeOK' BY <1>1, <1>4 DEF CacheTypeOK
<1>6. Rest' BY <1>1, OthersKeepRest DEF Verified
<1>7. CallsAreNamed'
  BY <1>1, <1>3, <1>4 DEF CallsAreNamed, Caller, Needed
<1>8. OneDownloadPerBlob' BY <1>4 DEF OneDownloadPerBlob
<1> QED BY <1>5, <1>6, <1>7, <1>8 DEF Rest

\* A warm hit ends the call; what does not verify goes, and nobody else is
\* downloading it (hydrator.py:38-47).
LEMMA EnterKeeps == ASSUME CacheInv, NEW c \in Caller, Enter(c) PROVE CacheInv'
<1> USE DEF CacheInv
<1>1. PICK b \in Blob : b = call[c].blob
  BY DEF Enter, CallsAreNamed
<1>2. UNCHANGED <<held, published, upstream, orphans, leases>> /\ call[c].at = "waits"
  BY DEF Enter, catalogSide
<1>3. CASE Verified(b)
  <2>1. Return(c, TRUE) /\ UNCHANGED blobs BY <1>1, <1>3 DEF Enter
  <2>2. /\ Rest' /\ Typed' /\ CallsAreNamed' /\ OneDownloadPerBlob'
    BY <1>1, <1>2, <1>3, <2>1, ReturnKeeps DEF Verified
  <2> QED BY <1>2, <2>1, <2>2 DEF Rest, Typed, CacheTypeOK
<1>4. CASE ~Verified(b)
  <2>1. /\ blobs' = [blobs EXCEPT ![b] = None]
        /\ call' = [call EXCEPT ![c].at = "downloads"]
        /\ UNCHANGED <<boot, links>>
    BY <1>1, <1>4 DEF Enter
  <2>2. /\ call' \in [Caller -> [at : CallStep, blob : Blob \cup {None}]]
        /\ call'[c].at = "downloads" /\ call'[c].blob = b
        /\ \A d \in Caller \ {c} : call'[d] = call[d]
    BY <1>1, <2>1 DEF CacheTypeOK, CallStep
  <2>3. CacheTypeOK' BY <1>2, <2>1, <2>2 DEF CacheTypeOK
  <2>4. Rest'
    <3>1. \A x \in Blob : Verified(x) => Verified(x)'
      BY <1>4, <2>1 DEF Verified, CacheTypeOK
    <3> QED BY <2>1, <3>1, OthersKeepRest, NeededAreBlobs
  <2>5. CallsAreNamed'
    BY <1>1, <1>2, <2>1, <2>2 DEF CallsAreNamed, Caller, Needed
  <2>6. \A d \in Caller \ {c} : call[d].at = "downloads" => call[d].blob # b
    <3>1. SUFFICES ASSUME NEW d \in Caller \ {c}, call[d].at = "downloads", call[d].blob = b
                   PROVE  FALSE
      OBVIOUS
    <3>2. call[d] = [at |-> "downloads", blob |-> b] BY <3>1 DEF CacheTypeOK
    <3>3. b \in InFlight BY <3>2 DEF InFlight
    <3> QED BY <1>1, <3>3 DEF Enter, Unlocked
  <2>7. OneDownloadPerBlob' BY <2>2, <2>6 DEF OneDownloadPerBlob
  <2> QED BY <2>3, <2>4, <2>5, <2>7 DEF Rest
<1> QED BY <1>3, <1>4

\* A download ends: with the right bytes, or with none.
LEMMA DownloadEndsKeeps ==
    ASSUME CacheInv, NEW c \in Caller, Downloaded(c) \/ DownloadFails(c)
    PROVE  CacheInv'
<1> USE DEF CacheInv
<1>1. call[c].at = "downloads" /\ UNCHANGED <<held, published, upstream, orphans, leases>>
  BY DEF Downloaded, DownloadFails, catalogSide
<1>2. PICK b \in Blob : b = call[c].blob
  BY <1>1 DEF CallsAreNamed
<1>3. CASE Downloaded(c)
  <2>1. blobs' = [blobs EXCEPT ![b] = "right"] /\ Return(c, TRUE)
    BY <1>2, <1>3 DEF Downloaded
  <2>2. /\ blobs' \in [Blob -> Held \cup {None}] /\ blobs'[b] = "right"
        /\ \A x \in Blob : Verified(x) => Verified(x)'
    BY <2>1 DEF CacheTypeOK, Held, Verified
  <2>3. /\ Rest' /\ Typed' /\ CallsAreNamed' /\ OneDownloadPerBlob'
    BY <1>1, <1>2, <2>1, <2>2, ReturnKeeps
  <2> QED BY <1>1, <2>2, <2>3 DEF Rest, Typed, CacheTypeOK
<1>4. CASE DownloadFails(c)
  <2>1. UNCHANGED blobs /\ Return(c, FALSE) BY <1>4 DEF DownloadFails
  <2>2. /\ Rest' /\ Typed' /\ CallsAreNamed' /\ OneDownloadPerBlob'
    BY <1>1, <2>1, ReturnKeeps DEF Verified
  <2> QED BY <1>1, <2>1, <2>2 DEF Rest, Typed, CacheTypeOK
<1> QED BY <1>3, <1>4

\* Leases come and go and nothing else moves.
LEMMA LeaseKeeps ==
    ASSUME CacheInv, NEW b \in Blob, Lease(b) \/ Release(b)
    PROVE  CacheInv'
<1> USE DEF CacheInv
<1>1. UNCHANGED <<held, published, upstream, blobs, orphans, links, boot, call>>
  BY DEF Lease, Release, catalogSide, diskSide
<1>2. leases' \in [Blob -> Nat]
  <2>1. leases[b] \in Nat BY DEF CacheTypeOK
  <2>2. CASE Lease(b) BY <2>1, <2>2 DEF Lease, CacheTypeOK
  <2>3. CASE Release(b)
    <3>1. leases[b] - 1 \in Nat BY <2>1, <2>3 DEF Release
    <3> QED BY <2>3, <3>1 DEF Release, CacheTypeOK
  <2> QED BY <2>2, <2>3
<1>3. CacheTypeOK' BY <1>1, <1>2 DEF CacheTypeOK
<1>4. Rest' BY <1>1, OthersKeepRest DEF Verified
<1> QED BY <1>1, <1>3, <1>4, CallsStay DEF Rest

\* The evictor spares the selected set (eviction.py:35-44).
LEMMA EvictionKeeps == ASSUME CacheInv, NEW r, EnsureCapacity(r) PROVE CacheInv'
<1> USE DEF CacheInv
<1>1. UNCHANGED <<held, published, upstream, orphans, links, boot, call, leases>>
  BY DEF EnsureCapacity, catalogSide
<1>2. PICK gone \in SUBSET Spareable :
        blobs' = [b \in Blob |-> IF b \in gone THEN None ELSE blobs[b]]
  BY DEF EnsureCapacity
<1>3. CacheTypeOK' BY <1>1, <1>2 DEF CacheTypeOK
<1>4. gone \cap Named[boot.set] = {} BY DEF Spareable
<1>5. boot.set \in ModelSet => \A b \in Named[boot.set] : Verified(b) => Verified(b)'
  BY <1>2, <1>4, NeededAreBlobs DEF Verified
<1>6. Rest' BY <1>1, <1>5, OthersKeepRest
<1> QED BY <1>1, <1>3, <1>6, CallsStay DEF Rest

\* A process that is gone promises nothing.
LEMMA StopKeeps == ASSUME CacheInv, Stop PROVE CacheInv'
<1> USE DEF CacheInv
<1>1. boot' = Down /\ call' = [c \in Caller |-> Idle] /\ leases' = [b \in Blob |-> 0]
      /\ UNCHANGED <<held, published, upstream>>
  BY DEF Stop, catalogSide
<1>2. orphans' \in 0 .. MaxOrphans
  BY CacheAssumption DEF Stop, CacheTypeOK, diskSide
<1>3. blobs' \in [Blob -> Held \cup {None}]
  BY DEF Stop, CacheTypeOK, diskSide, Held
<1>4. links' \in [Range(Target) -> Blob \cup {None, File}]
  BY DEF Stop, CacheTypeOK, diskSide
<1>5. CacheTypeOK'
  BY <1>1, <1>2, <1>3, <1>4 DEF CacheTypeOK, Down, Idle, BootStep, CallStep
<1>6. Startup \in Caller BY DEF Caller
<1>7. boot'.at = "down" /\ \A c \in Caller : call'[c].at = "idle"
  BY <1>1 DEF Down, Idle
<1> QED BY <1>5, <1>6, <1>7 DEF LinkedStays, CallsAreNamed, ReadyIsWhole, OneDownloadPerBlob

-----------------------------------------------------------------------------

\* Whatever happens next, the invariant is kept.
LEMMA NextKeeps == ASSUME CacheInv, [CacheNext]_cacheVars PROVE CacheInv'
<1>1. CASE UNCHANGED cacheVars
  <2>1. UNCHANGED <<held, published, upstream, blobs, orphans, links, boot, call, leases>>
    BY <1>1 DEF cacheVars, catalogSide, diskSide
  <2>2. CacheTypeOK' BY <2>1 DEF CacheInv, CacheTypeOK
  <2>3. Rest' BY <2>1, OthersKeepRest DEF Verified
  <2> QED BY <2>1, <2>2, <2>3, CallsStay DEF CacheInv, Rest
<1> QED BY <1>1, CatalogKeeps, StartKeeps, PreflightKeeps, HydrateCallKeeps, EnterKeeps,
           DownloadEndsKeeps, LeaseKeeps, EvictionKeeps, StopKeeps DEF CacheNext

-----------------------------------------------------------------------------
(* What a lease protects *)

\* What a step may do to a leased blob.
SparesLeased(b) ==
    leases[b] > 0 /\ blobs'[b] # blobs[b] =>
        blobs'[b] = "right" \/ (blobs[b] = "drifted" /\ b \in InFlight')

\* A step of a process that lives changes a leased blob by a hydration only: the
\* hydrator removes what does not verify and starts its download in the same
\* step, and writes only the right bytes; the evictor passes over leases
\* (hydrator.py:40-60, eviction.py:35-44).
LEMMA LeasedIsKept ==
    ASSUME CacheInv, [CacheNext]_cacheVars, ~Stop
    PROVE  (\A b \in Blob : SparesLeased(b)) /\ orphans' = orphans
<1> USE DEF CacheInv
<1>1. ASSUME NEW c \in Caller, Enter(c)
      PROVE  (\A b \in Blob : SparesLeased(b)) /\ orphans' = orphans
  <2>1. CASE Verified(call[c].blob) BY <1>1, <2>1 DEF Enter, SparesLeased
  <2>2. CASE ~Verified(call[c].blob)
    <3>1. /\ blobs' = [blobs EXCEPT ![call[c].blob] = None] /\ orphans' = orphans
          /\ call' = [call EXCEPT ![c].at = "downloads"]
      BY <1>1, <2>2 DEF Enter
    <3>2. call'[c] = [at |-> "downloads", blob |-> call[c].blob]
      BY <3>1 DEF CacheTypeOK
    <3>3. call[c].blob \in Blob BY <1>1 DEF Enter, CallsAreNamed
    <3>4. call[c].blob \in InFlight' BY <3>2, <3>3 DEF InFlight
    <3>5. blobs[call[c].blob] \in {"drifted", None}
      BY <2>2, <3>3 DEF CacheTypeOK, Verified, Held
    <3> QED BY <3>1, <3>3, <3>4, <3>5 DEF CacheTypeOK, SparesLeased
  <2> QED BY <2>1, <2>2
<1>2. ASSUME NEW c \in Caller, Downloaded(c)
      PROVE  (\A b \in Blob : SparesLeased(b)) /\ orphans' = orphans
  <2>1. blobs' = [blobs EXCEPT ![call[c].blob] = "right"] /\ orphans' = orphans
    BY <1>2 DEF Downloaded
  <2> QED BY <2>1 DEF CacheTypeOK, SparesLeased
<1>3. ASSUME NEW r, EnsureCapacity(r)
      PROVE  (\A b \in Blob : SparesLeased(b)) /\ orphans' = orphans
  <2>1. PICK gone \in SUBSET Spareable :
          blobs' = [b \in Blob |-> IF b \in gone THEN None ELSE blobs[b]]
    BY <1>3 DEF EnsureCapacity
  <2>2. \A b \in gone : leases[b] = 0 BY <2>1 DEF Spareable
  <2>3. orphans' = orphans BY <1>3 DEF EnsureCapacity
  <2> QED BY <2>1, <2>2, <2>3 DEF SparesLeased
<1>4. \/ \E c \in Caller : Enter(c) \/ Downloaded(c)
      \/ \E r : EnsureCapacity(r)
      \/ UNCHANGED <<blobs, orphans>>
  BY DEF CacheNext, CatalogMoves, Start, Resolve, HeadArtifact, Probe, StartupFails,
         HydrateCall, DownloadFails, Lease, Release, diskSide, cacheVars
<1>5. CASE UNCHANGED <<blobs, orphans>> BY <1>5 DEF SparesLeased
<1> QED BY <1>1, <1>2, <1>3, <1>4, <1>5

-----------------------------------------------------------------------------
(* Bytes.  A sum over a set is a fold, whose order CHOOSE picks: it is what  *)
(* one counts when each blob is taken apart into units of a byte.            *)

\* Induction on the size of a set is taken as the absence of a least counterexample.
LEMMA LeastNatural ==
    ASSUME NEW S \in SUBSET Nat, S # {}
    PROVE  \E m \in S : \A n \in S : m <= n
  <1> DEFINE R == OpToRel(<, Nat)
  <1>1. IsWellFoundedOn(R, Nat)
    BY NatLessThanWellFounded
  <1>2. \E x \in S : \A y \in S : ~ (<<y, x>> \in R)
    <2> HIDE DEF R
    <2> QED BY <1>1, WFMin
  <1>3. \A x, y \in Nat : <<y, x>> \in R <=> y < x
    BY DEF OpToRel
  <1>4. PICK m \in S : \A y \in S : ~ (<<y, m>> \in R)
    BY <1>2
  <1>5. \A y \in S : m <= y
    <2> TAKE y \in S
    <2>1. <<y, m>> \notin R BY <1>4
    <2>2. ~ (y < m)
      <3> HIDE DEF R
      <3> QED BY <2>1, <1>3
    <2> QED BY <2>2
  <1> QED
    BY <1>5

\* The bytes of S, one by one.
Units(S) == UNION {{b} \X (1 .. Size[b]) : b \in S}

\* One blob more, its bytes more.
LEMMA UnitsAdd ==
    ASSUME NEW S \in SUBSET Blob, IsFiniteSet(Units(S)), NEW b \in Blob \ S
    PROVE  /\ IsFiniteSet(Units(S \cup {b}))
           /\ Cardinality(Units(S \cup {b})) = Size[b] + Cardinality(Units(S))
  <1> DEFINE P == {b} \X (1 .. Size[b])
  <1>1. Size[b] \in Nat BY CacheAssumption
  <1>2. IsFiniteSet(1 .. Size[b]) /\ Cardinality(1 .. Size[b]) = Size[b]
    BY <1>1, FS_Interval
  <1>3. IsFiniteSet({b}) /\ Cardinality({b}) = 1 BY FS_Singleton
  <1>4. IsFiniteSet(P) /\ Cardinality(P) = 1 * Size[b] BY <1>2, <1>3, FS_Product
  <1>5. Units(S \cup {b}) = Units(S) \cup P BY DEF Units
  <1>6. Units(S) \cap P = {} BY DEF Units
  <1> HIDE DEF P
  <1>7. IsFiniteSet(P) /\ Cardinality(P) = Size[b] BY <1>1, <1>4
  <1>8. /\ IsFiniteSet(Units(S) \cup P)
        /\ Cardinality(Units(S) \cup P)
             = Cardinality(Units(S)) + Cardinality(P) - Cardinality(Units(S) \cap P)
    BY <1>7, FS_Union
  <1>9. PICK u \in Nat : u = Cardinality(Units(S)) BY FS_CardinalityType
  <1>10. PICK z \in Nat : z = Size[b] BY <1>1
  <1>11. Cardinality(Units(S) \cap P) = 0 BY <1>6, FS_EmptySet
  <1>12. Cardinality(Units(S) \cup P) = u + z - 0 BY <1>7, <1>8, <1>9, <1>10, <1>11
  <1>13. Cardinality(Units(S) \cup P) = z + u BY <1>12
  <1> QED BY <1>5, <1>8, <1>9, <1>10, <1>13

\* The element that the fold takes first, and what a fold over S is.
Some(s) == CHOOSE x \in s : TRUE
Sums(f, S) == f = [s \in SUBSET S |-> IF s = {} THEN 0 ELSE Size[Some(s)] + f[s \ {Some(s)}]]

\* The operators of the library, opened.
LEMMA BytesSums == ASSUME NEW S PROVE Bytes(S) = (CHOOSE f : Sums(f, S))[S]
BY DEF Bytes, MapThenSumSet, MapThenFoldSet, Sums, Some

\* There are finitely many.
LEMMA UnitsFinite == ASSUME NEW S \in SUBSET Blob PROVE IsFiniteSet(S) /\ IsFiniteSet(Units(S))
  <1> DEFINE U == [b \in S |-> {b} \X (1 .. Size[b])]
             R == {U[b] : b \in S}
  <1>1. IsFiniteSet(S) BY CacheAssumption, FS_Subset
  <1>2. IsFiniteSet(R)
    <2>1. U \in [S -> R] /\ \A y \in R : \E b \in S : U[b] = y OBVIOUS
    <2>2. U \in Surjection(S, R) BY <2>1 DEF Surjection
    <2> HIDE DEF U, R
    <2> QED BY <1>1, <2>2, FS_Surjection
  <1>3. \A T \in R : IsFiniteSet(T)
    <2> SUFFICES ASSUME NEW b \in S PROVE IsFiniteSet({b} \X (1 .. Size[b]))
      OBVIOUS
    <2>1. IsFiniteSet({b}) BY FS_Singleton
    <2>2. IsFiniteSet(1 .. Size[b]) BY CacheAssumption, FS_Interval
    <2> QED BY <2>1, <2>2, FS_Product
  <1>4. Units(S) = UNION R BY DEF Units
  <1> HIDE DEF R
  <1> QED BY <1>1, <1>2, <1>3, <1>4, FS_UNION

\* The fold counts them, in whatever order it goes.
LEMMA BytesAreUnits ==
    ASSUME NEW S \in SUBSET Blob
    PROVE  Bytes(S) = Cardinality(Units(S))
  <1> DEFINE count == [s \in SUBSET S |-> Cardinality(Units(s))]
  <1>1. ASSUME NEW s \in SUBSET S, s # {}
        PROVE  Cardinality(Units(s)) = Size[Some(s)] + Cardinality(Units(s \ {Some(s)}))
    <2>1. Some(s) \in s BY <1>1 DEF Some
    <2>2. PICK x \in s : x = Some(s) BY <2>1
    <2>3. s = (s \ {x}) \cup {x} /\ s \ {x} \in SUBSET Blob /\ x \in Blob \ (s \ {x})
      BY <2>2
    <2>4. IsFiniteSet(Units(s \ {x})) BY <2>3, UnitsFinite
    <2>5. Cardinality(Units((s \ {x}) \cup {x})) = Size[x] + Cardinality(Units(s \ {x}))
      BY <2>3, <2>4, UnitsAdd
    <2> QED BY <2>2, <2>3, <2>5
  <1>2. Cardinality(Units({})) = 0
    BY FS_EmptySet DEF Units
  <1>3. Sums(count, S)
    <2>1. ASSUME NEW s \in SUBSET S
          PROVE  Cardinality(Units(s)) = IF s = {} THEN 0 ELSE Size[Some(s)] + count[s \ {Some(s)}]
      BY <1>1, <1>2
    <2> QED BY <2>1 DEF Sums
  <1>4. PICK g : g = (CHOOSE f : Sums(f, S)) OBVIOUS
  <1>5. Sums(g, S)
    <2> HIDE DEF count
    <2> QED BY <1>3, <1>4
  <1>6. \A s \in SUBSET S : g[s] = IF s = {} THEN 0 ELSE Size[Some(s)] + g[s \ {Some(s)}]
    BY <1>5 DEF Sums
  <1> DEFINE Wrong == {n \in Nat : \E s \in SUBSET S :
                         Cardinality(s) = n /\ g[s] # Cardinality(Units(s))}
  <1>7. Wrong = {}
    <2>1. SUFFICES ASSUME Wrong # {} PROVE FALSE OBVIOUS
    <2>2. PICK n \in Wrong : \A m \in Wrong : n <= m
      <3>1. Wrong \in SUBSET Nat OBVIOUS
      <3> HIDE DEF Wrong
      <3> QED BY <2>1, <3>1, LeastNatural
    <2>3. PICK s \in SUBSET S : Cardinality(s) = n /\ g[s] # Cardinality(Units(s))
      OBVIOUS
    <2>4. s # {} BY <1>2, <1>6, <2>3
    <2>5. PICK x \in s : x = Some(s) BY <2>4 DEF Some
    <2>6. Cardinality(s \ {x}) = n - 1 /\ Cardinality(s \ {x}) \in Nat
      <3>1. IsFiniteSet(s) BY UnitsFinite
      <3>2. IsFiniteSet(s \ {x}) /\ Cardinality(s \ {x}) = Cardinality(s) - 1
        BY <3>1, FS_RemoveElement
      <3> QED BY <2>3, <3>2, FS_CardinalityType
    <2>7. g[s \ {x}] = Cardinality(Units(s \ {x}))
      <3>1. s \ {x} \in SUBSET S OBVIOUS
      <3>2. n - 1 \notin Wrong
        <4>1. n \in Nat OBVIOUS
        <4>2. ~ (n <= n - 1) BY <4>1
        <4> HIDE DEF Wrong
        <4> QED BY <2>2, <4>2
      <3> QED BY <2>6, <3>1, <3>2
    <2> QED BY <1>1, <1>6, <2>3, <2>4, <2>5, <2>7
  <1>8. Cardinality(S) \in Nat BY UnitsFinite, FS_CardinalityType
  <1>9. g[S] = Cardinality(Units(S)) BY <1>7, <1>8
  <1> QED BY <1>4, <1>9, BytesSums

\* Fewer blobs hold no more bytes.
LEMMA BytesGrow ==
    ASSUME NEW S \in SUBSET Blob, NEW T \in SUBSET S
    PROVE  Bytes(S) \in Nat /\ Bytes(T) \in Nat /\ Bytes(T) <= Bytes(S)
  <1>1. Units(T) \subseteq Units(S) BY DEF Units
  <1> QED BY <1>1, UnitsFinite, BytesAreUnits, FS_Subset, FS_CardinalityType

\* One blob more.
LEMMA BytesAdd ==
    ASSUME NEW S \in SUBSET Blob, NEW b \in Blob \ S
    PROVE  Bytes(S \cup {b}) = Size[b] + Bytes(S)
  <1>1. S \cup {b} \in SUBSET Blob OBVIOUS
  <1> QED BY <1>1, UnitsFinite, UnitsAdd, BytesAreUnits

\* What is taken away and what is left make up the whole.
LEMMA BytesOfParts ==
    ASSUME NEW S \in SUBSET Blob, NEW T \in SUBSET S
    PROVE  Bytes(S) = Bytes(T) + Bytes(S \ T)
  <1>1. Units(S \ T) = Units(S) \ Units(T) BY DEF Units
  <1>2. Units(T) \subseteq Units(S) /\ Units(S) \cap Units(T) = Units(T) BY DEF Units
  <1>3. IsFiniteSet(Units(S)) /\ IsFiniteSet(Units(T)) BY UnitsFinite
  <1>4. Cardinality(Units(S) \ Units(T)) = Cardinality(Units(S)) - Cardinality(Units(T))
    BY <1>2, <1>3, FS_Difference
  <1>5. PICK u \in Nat, v \in Nat : u = Cardinality(Units(S)) /\ v = Cardinality(Units(T))
    BY <1>3, FS_CardinalityType
  <1>6. Bytes(S \ T) = u - v BY <1>1, <1>4, <1>5, BytesAreUnits
  <1>7. Bytes(S) = u /\ Bytes(T) = v BY <1>5, BytesAreUnits
  <1> QED BY <1>6, <1>7


\* Ages tell the candidates apart, so the ones that stay have an oldest.
LEMMA OldestOf ==
    ASSUME NEW S \in SUBSET Blob, S # {}
    PROVE  \E b \in S : \A c \in S : Age[b] <= Age[c]
<1> DEFINE Ages == {Age[b] : b \in S}
<1>1. Ages \in SUBSET Nat /\ Ages # {} BY CacheAssumption
<1>2. PICK m \in Ages : \A n \in Ages : m <= n
  <2> HIDE DEF Ages
  <2> QED BY <1>1, LeastNatural
<1>3. PICK b \in S : Age[b] = m OBVIOUS
<1> QED BY <1>2, <1>3

\* What a call of ensure_capacity takes: older ones first, no more than it must,
\* and everything that can be spared if that is still too little.
LEMMA EvictionIsLeast ==
    ASSUME CacheTypeOK, NEW r \in Range(Size), EnsureCapacity(r),
           NEW gone, gone = {b \in Blob : blobs[b] # None /\ blobs'[b] = None},
           NEW left, left = Bytes({b \in Blob : blobs'[b] # None})
    PROVE  /\ \A b \in gone, c \in Spareable : Age[c] < Age[b] => c \in gone
           /\ \A b \in gone : (\A c \in gone : Age[c] <= Age[b])
                                => left + Size[b] > HighWater - r
           /\ left > HighWater - r => Spareable \subseteq gone
<1>1. PICK target \in Int : target = HighWater - r
  BY CacheAssumption DEF Range
<1>2. blobs' = [b \in Blob |->
                  IF b \in {x \in Spareable : Used - Bytes(GoesBefore(x)) > target}
                  THEN None ELSE blobs[b]]
  BY <1>1 DEF EnsureCapacity
<1>3. Spareable \subseteq Cached /\ Cached \subseteq Blob BY DEF Spareable, Cached
<1>4. gone = {x \in Spareable : Used - Bytes(GoesBefore(x)) > target}
  BY <1>2, <1>3 DEF Cached
<1>5. left = Bytes(Cached \ gone)
  <2>1. {b \in Blob : blobs'[b] # None} = Cached \ gone
    BY <1>2, <1>3, <1>4 DEF Cached
  <2> QED BY <2>1
<1>6. \A b \in Blob : Age[b] \in Nat /\ Size[b] \in Nat /\ Size[b] > 0
  BY CacheAssumption
<1>7. ASSUME NEW b \in gone, NEW c \in Spareable, Age[c] < Age[b] PROVE c \in gone
  <2>1. b \in Spareable BY <1>4
  <2>2. GoesBefore(c) \subseteq GoesBefore(b)
    BY <1>3, <1>6, <1>7, <2>1 DEF GoesBefore
  <2>3. GoesBefore(b) \in SUBSET Blob BY <1>3 DEF GoesBefore
  <2>4. PICK u \in Nat, v \in Nat, w \in Nat :
          u = Used /\ v = Bytes(GoesBefore(b)) /\ w = Bytes(GoesBefore(c)) /\ w <= v
    BY <1>3, <2>2, <2>3, BytesGrow DEF Used
  <2>5. u - v > target BY <1>4, <2>4
  <2>6. u - w > target BY <2>4, <2>5
  <2> QED BY <1>4, <2>4, <2>6
<1>8. ASSUME NEW b \in gone, \A c \in gone : Age[c] <= Age[b]
      PROVE  left + Size[b] > HighWater - r
  <2>1. b \in Spareable /\ b \in Cached /\ b \in Blob BY <1>3, <1>4
  <2>2. GoesBefore(b) = gone \ {b}
    <3>1. ASSUME NEW c \in GoesBefore(b) PROVE c \in gone \ {b}
      BY <1>3, <1>6, <1>7, <2>1, <3>1 DEF GoesBefore
    <3>2. ASSUME NEW c \in gone \ {b} PROVE c \in GoesBefore(b)
      <4>1. c \in Spareable /\ c \in Blob /\ Age[c] <= Age[b] /\ c # b
        BY <1>3, <1>4, <1>8, <3>2
      <4>2. Age[c] # Age[b] BY <2>1, <4>1, CacheAssumption DEF IsInjective
      <4> QED BY <1>6, <2>1, <4>1, <4>2 DEF GoesBefore
    <3> QED BY <3>1, <3>2
  <2>3. (Cached \ gone) \cup {b} = Cached \ GoesBefore(b) /\ b \notin Cached \ gone
    BY <2>1, <2>2
  <2>4. PICK u \in Nat, v \in Nat, l \in Nat, z \in Nat :
          u = Used /\ v = Bytes(GoesBefore(b)) /\ l = left /\ z = Size[b]
    BY <1>3, <1>5, <1>6, <2>1, BytesGrow DEF Used, GoesBefore
  <2>5. u = v + Bytes(Cached \ GoesBefore(b))
    BY <1>3, <2>4, BytesOfParts DEF Used, GoesBefore
  <2>6. Bytes(Cached \ GoesBefore(b)) = z + l
    <3>1. Cached \ gone \in SUBSET Blob /\ b \in Blob \ (Cached \ gone)
      BY <1>3, <2>1, <2>3
    <3>2. Bytes((Cached \ gone) \cup {b}) = Size[b] + Bytes(Cached \ gone)
      BY <3>1, BytesAdd
    <3> QED BY <1>5, <2>3, <2>4, <3>2
  <2>7. u - v > target BY <1>4, <2>4
  <2>8. l + z > target BY <2>5, <2>6, <2>7
  <2> QED BY <1>1, <2>4, <2>8
<1>9. ASSUME left > HighWater - r PROVE Spareable \subseteq gone
  <2> DEFINE Kept == Spareable \ gone
  <2>1. SUFFICES ASSUME Kept # {} PROVE FALSE OBVIOUS
  <2>2. PICK c \in Kept : \A d \in Kept : Age[c] <= Age[d]
    <3>1. Kept \in SUBSET Blob BY <1>3
    <3> HIDE DEF Kept
    <3> QED BY <2>1, <3>1, OldestOf
  <2>3. c \in Spareable /\ c \in Blob /\ c \notin gone BY <1>3
  <2>4. GoesBefore(c) = gone
    <3>1. ASSUME NEW d \in GoesBefore(c) PROVE d \in gone
      BY <1>3, <1>6, <2>2, <2>3, <3>1 DEF GoesBefore
    <3>2. ASSUME NEW d \in gone PROVE d \in GoesBefore(c)
      <4>1. d \in Spareable /\ d \in Blob BY <1>3, <1>4
      <4>2. ~ (Age[c] < Age[d]) BY <1>7, <2>3, <3>2
      <4>3. Age[c] # Age[d]
        BY <2>3, <3>2, <4>1, CacheAssumption DEF IsInjective
      <4> QED BY <1>6, <2>3, <4>1, <4>2, <4>3 DEF GoesBefore
    <3> QED BY <3>1, <3>2
  <2>5. PICK u \in Nat, v \in Nat, l \in Nat :
          u = Used /\ v = Bytes(gone) /\ l = left
    BY <1>3, <1>4, <1>5, BytesGrow DEF Used
  <2>6. u = v + l
    BY <1>3, <1>4, <1>5, <2>5, BytesOfParts DEF Used
  <2>7. ~ (u - v > target) BY <1>4, <2>3, <2>4, <2>5
  <2>8. l > target BY <1>1, <1>9, <2>5
  <2> QED BY <2>6, <2>7, <2>8
<1> QED BY <1>7, <1>8, <1>9

-----------------------------------------------------------------------------

\* Whatever the bucket holds, the last process left, and others prefetch, lease
\* or evict, a worker that is ready has exactly the pinned bytes at their
\* destinations, and each digest has one download at a time (worker.py:118-136,
\* hydrator.py:36-60, eviction.py:35-58).
THEOREM CacheInvariant == CacheSpec => []CacheInv
<1>1. CacheInit => CacheInv BY CacheStartsWell
<1>2. CacheInv /\ [CacheNext]_cacheVars => CacheInv' BY NextKeeps
<1> QED BY <1>1, <1>2, PTL DEF CacheSpec

\* While its process lives, a leased blob is never evicted and only a hydration
\* changes it, which removes none that is right and writes none that is wrong;
\* and no failed partial is left behind (eviction.py:35-44, hydrator.py:40-60).
THEOREM LeasesProtect == CacheSpec => DiskIsKept
<1>1. CacheInit => CacheInv BY CacheStartsWell
<1>2. CacheInv /\ [CacheNext]_cacheVars => CacheInv' BY NextKeeps
<1>3. CacheInv /\ [CacheNext]_cacheVars =>
        [boot'.at # "down" => (\A b \in Blob : SparesLeased(b)) /\ orphans' <= orphans]_cacheVars
  <2> SUFFICES ASSUME CacheInv, CacheNext, boot'.at # "down"
               PROVE  (\A b \in Blob : SparesLeased(b)) /\ orphans' <= orphans
    OBVIOUS
  <2>1. ~Stop BY DEF Stop, Down
  <2>2. orphans \in Int BY DEF CacheInv, CacheTypeOK
  <2> QED BY <2>1, <2>2, LeasedIsKept
<1> QED BY <1>1, <1>2, <1>3, PTL DEF CacheSpec, DiskIsKept, SparesLeased

\* A call of ensure_capacity takes no blob before an older candidate, goes no
\* further than it must, and gives up only when nothing can be spared
\* (eviction.py:46-58).
THEOREM EvictionIsFrugal == CacheSpec => EvictsLeast
<1> DEFINE Least(r) ==
      LET gone == {b \in Blob : blobs[b] # None /\ blobs'[b] = None}
          left == Bytes({b \in Blob : blobs'[b] # None})
      IN EnsureCapacity(r) =>
          /\ \A b \in gone, c \in Spareable : Age[c] < Age[b] => c \in gone
          /\ \A b \in gone : (\A c \in gone : Age[c] <= Age[b])
                               => left + Size[b] > HighWater - r
          /\ left > HighWater - r => Spareable \subseteq gone
<1>1. CacheInv => [\A r \in Range(Size) : Least(r)]_cacheVars
  <2> SUFFICES ASSUME CacheInv, NEW r \in Range(Size), EnsureCapacity(r) PROVE Least(r)
    OBVIOUS
  <2> QED BY EvictionIsLeast DEF CacheInv
<1> QED BY <1>1, CacheInvariant, PTL DEF EvictsLeast

=============================================================================
