---------------------------- MODULE PublishedSets ----------------------------
(***************************************************************************)
(* What the catalog of model sets promises its readers: a set can be       *)
(* resolved only when every blob it names is held under its digest with    *)
(* its pinned size, and neither a blob nor a set is ever withdrawn.        *)
(***************************************************************************)
EXTENDS FiniteSets

CONSTANTS
    Blob,      \* the digests of model and workflow contents
    ModelSet,  \* the digests of manifests
    Named      \* Named[s]: the blobs that manifest s names

VARIABLES
    held,      \* the blobs that a reader finds with their pinned size
    published  \* the manifests that a reader can get

Hold(b) ==
    /\ held' = held \cup {b}
    /\ UNCHANGED published

Publish(s) ==
    /\ Named[s] \subseteq held
    /\ published' = published \cup {s}
    /\ UNCHANGED held

SetsInit == held = {} /\ published = {}

SetsNext == (\E b \in Blob : Hold(b)) \/ (\E s \in ModelSet : Publish(s))

SetsSpec == SetsInit /\ [][SetsNext]_<<held, published>>

=============================================================================
