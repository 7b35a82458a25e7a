---------------------------- MODULE ModelCatalog ----------------------------
(***************************************************************************)
(* `tkr-cloud-video release publish`: StreamingArtifactPublisher over      *)
(* ArtifactRcloneStore, for several operators at once.  A model is         *)
(* streamed by rclone from its pinned URL, a workflow is read from a file; *)
(* the manifest is written last.  No step of it ever deletes an object.    *)
(*                                                                         *)
(* Contents are told apart by what the checks can tell apart: the bytes    *)
(* the digest names, other bytes of the same size, bytes of another size.  *)
(***************************************************************************)
EXTENDS Sequences, Naturals, FiniteSets

CONSTANTS
    Blob, ModelSet,  \* digests of artifacts and of manifests
    Artifacts,       \* Artifacts[s]: the blobs of a manifest, its workflow last
    Streamed,        \* the blobs with a URL source
    Publisher,       \* the operators' processes
    Absent

Bytes == {"right", "drifted", "resized"}

Item == Blob \cup ModelSet

ASSUME CatalogAssumption ==
    /\ Artifacts \in [ModelSet -> Seq(Blob)]
    /\ Streamed \subseteq Blob
    /\ Blob \cap ModelSet = {}
    /\ Absent \notin Bytes

VARIABLES
    source,   \* what each blob's URL or file holds
    objects,  \* the objects under models/, each labelled with the digest of its key
    pub       \* each publisher: where it is, in which set, at which item

catalogVars == <<source, objects, pub>>

PublisherAt == {"idle", "head", "guard", "transfer", "verify", "published", "failed"}

CatalogTypeOK ==
    /\ source \in [Blob -> Bytes]
    /\ objects \in [Item -> Bytes \cup {Absent}]
    /\ pub \in [Publisher -> [at : PublisherAt, set : ModelSet, pos : Nat]]

CatalogInit ==
    /\ source \in [Blob -> Bytes]
    /\ objects = [i \in Item |-> Absent]
    /\ pub \in [Publisher -> [at : {"idle"}, set : ModelSet, pos : {1}]]

\* Mutant: the manifest goes first.
WorkManifestFirst(s) == <<s>> \o Artifacts[s]

\* Every artifact in the order of the manifest, then the manifest itself.
Work(s) == Append(Artifacts[s], s)

ItemOf(p) == Work(pub[p].set)[pub[p].pos]

Publishing(p) == pub[p].at \in {"head", "guard", "transfer", "verify"}

GoTo(p, at) == pub' = [pub EXCEPT ![p].at = at]

\* Mutant: any object under the key counts as the artifact.
SizedAny(i) == objects[i] # Absent

\* What a head can prove: the label is the digest of the key, whoever wrote the
\* object, so only the size tells.
Sized(i) == objects[i] \in {"right", "drifted"}

\* publish_blob has verified a file's bytes before its first await; the manifest
\* is serialised in memory; a URL is whatever it serves.
Payload(i) == IF i \in Streamed THEN source[i] ELSE "right"

BeginPublication(p) ==
    /\ ~Publishing(p)
    /\ \E s \in ModelSet : pub' = [pub EXCEPT ![p] = [at |-> "head", set |-> s, pos |-> 1]]
    /\ UNCHANGED <<source, objects>>

NextItem(p) ==
    LET here == pub[p] IN
    pub' = [pub EXCEPT ![p] =
               IF here.pos = Len(Work(here.set)) THEN [here EXCEPT !.at = "published"]
               ELSE [here EXCEPT !.at = "head", !.pos = here.pos + 1]]

FileDrifted(i) == i \in Blob \ Streamed /\ source[i] # "right"

\* A key that exists is reused if its evidence fits, and is a conflict if not.
LookForItem(p) ==
    LET i == ItemOf(p) IN
    /\ pub[p].at = "head"
    /\ IF FileDrifted(i) THEN GoTo(p, "failed")        \* local_artifact_mismatch
       ELSE \/ Sized(i) /\ NextItem(p)
            \/ objects[i] = Absent /\ GoTo(p, "guard")
            \/ objects[i] = "resized" /\ GoTo(p, "failed")  \* immutable_blob_conflict
    /\ UNCHANGED <<source, objects>>

\* Mutant: a publisher waits for a rival's object to go.
PutWaits(p) ==
    /\ pub[p].at = "guard"
    /\ objects[ItemOf(p)] = Absent
    /\ GoTo(p, "transfer")
    /\ UNCHANGED <<source, objects>>

\* put and put_url look again before they write.
PutLooksAgain(p) ==
    /\ pub[p].at = "guard"
    /\ GoTo(p, IF objects[ItemOf(p)] = Absent THEN "transfer" ELSE "failed")
    /\ UNCHANGED <<source, objects>>

\* The transfer lands, then the command succeeds, or fails or is killed.  A
\* create that lost the race replaces the object: rclone's own check is earlier.
TransferLands(p) ==
    /\ pub[p].at = "transfer"
    /\ objects' = [objects EXCEPT ![ItemOf(p)] = Payload(ItemOf(p))]
    /\ GoTo(p, "verify") \/ GoTo(p, "failed")
    /\ UNCHANGED source

\* rclone finds the object when its turn comes: the same bytes are left alone,
\* other bytes are refused by --immutable.
TransferFinds(p) ==
    /\ pub[p].at = "transfer"
    /\ objects[ItemOf(p)] # Absent
    /\ GoTo(p, IF objects[ItemOf(p)] = Payload(ItemOf(p)) THEN "verify" ELSE "failed")
    /\ UNCHANGED <<source, objects>>

\* The object stays where it is even when its evidence does not fit.
VerifyItem(p) ==
    /\ pub[p].at = "verify"
    /\ \/ Sized(ItemOf(p)) /\ NextItem(p)
       \/ ~Sized(ItemOf(p)) /\ GoTo(p, "failed")       \* remote_verification_failed
    /\ UNCHANGED <<source, objects>>

\* A command fails, a source is missing, or the process dies.
PublicationFails(p) ==
    /\ Publishing(p)
    /\ GoTo(p, "failed")
    /\ UNCHANGED <<source, objects>>

\* A file is edited.  A URL names one commit of its repository and serves the
\* same bytes whenever it is asked, right or wrong.
ChangeSource(b) ==
    /\ \E bytes \in Bytes : bytes # source[b] /\ source' = [source EXCEPT ![b] = bytes]
    /\ UNCHANGED <<objects, pub>>

PublisherStep(p) ==
    LookForItem(p) \/ PutLooksAgain(p) \/ TransferLands(p) \/ TransferFinds(p) \/ VerifyItem(p)

CatalogNext ==
    \/ \E p \in Publisher : BeginPublication(p) \/ PublisherStep(p) \/ PublicationFails(p)
    \/ \E b \in Blob \ Streamed : ChangeSource(b)

CatalogSpec == CatalogInit /\ [][CatalogNext]_catalogVars

\* Every command of rclone has a deadline, so a publication that runs goes on.
CatalogFair == \A p \in Publisher : WF_catalogVars(PublisherStep(p))

-----------------------------------------------------------------------------

\* The catalog keeps its promise to the workers: no manifest before its blobs,
\* and nothing is taken back by a later or a concurrent publication
\* (publisher.py:89-126, streaming_publisher.py:47-70).
Promise == INSTANCE PublishedSets WITH
    Named <- [s \in ModelSet |-> {Artifacts[s][k] : k \in 1 .. Len(Artifacts[s])}],
    held <- {b \in Blob : Sized(b)},
    published <- {s \in ModelSet : objects[s] # Absent}

KeepsPromise == Promise!SetsSpec

\* What is published from a file is exactly what the manifest pins, however the
\* file changed since the manifest was prepared (publisher.py:63-70), and what is
\* published from a URL is what the URL serves.
FilesAreExact ==
    \A i \in Item : objects[i] \in {Absent, IF i \in Streamed THEN source[i] ELSE "right"}

\* What a publisher has passed is there, whatever a rival publishes, and a receipt
\* means a set that resolves: its manifest and every blob that it names are there
\* with their sizes (publisher.py:89-126).
ReceiptResolves ==
    \A p \in Publisher : pub[p].at # "failed" =>
        /\ pub[p].pos \in 1 .. Len(Work(pub[p].set))
        /\ \A k \in 1 .. Len(Work(pub[p].set)) :
            k < pub[p].pos \/ pub[p].at = "published" =>
                objects[Work(pub[p].set)[k]] \in {"right", "drifted"}

\* No manifest is there before the blobs it names.
NamedAreHeld ==
    \A s \in ModelSet : objects[s] # Absent =>
        \A k \in 1 .. Len(Artifacts[s]) : objects[Artifacts[s][k]] \in {"right", "drifted"}

\* What holds at every step of any number of publications, together.
CatalogInv == CatalogTypeOK /\ FilesAreExact /\ ReceiptResolves /\ NamedAreHeld

\* A publication ends, with a receipt or with an error.
PublicationEnds == \A p \in Publisher : Publishing(p) ~> ~Publishing(p)

=============================================================================
