------------------------- MODULE ModelCatalogProofs -------------------------
(***************************************************************************)
(* CatalogInv is inductive and the publication implements PublishedSets,   *)
(* for any number of operators, sets and artifacts.                        *)
(*                                                                         *)
(* The argument: all that is ever written under a key is one and the same  *)
(* payload (FilesAreExact), so an object that was found with its size      *)
(* keeps it (SizedStays), and what a publisher has passed stays behind it. *)
(***************************************************************************)
EXTENDS ModelCatalog, TLAPS

CouldHold == {"right", "drifted"}

\* The manifest comes after its artifacts, and is the only manifest among them
\* (publisher.py:89-107).
LEMMA WorkIsArtifactsThenManifest ==
    ASSUME NEW s \in ModelSet
    PROVE /\ Work(s) \in Seq(Item)
          /\ Len(Work(s)) = Len(Artifacts[s]) + 1
          /\ Len(Artifacts[s]) \in Nat
          /\ \A k \in 1 .. Len(Artifacts[s]) :
                Work(s)[k] = Artifacts[s][k] /\ Artifacts[s][k] \in Blob
          /\ Work(s)[Len(Work(s))] = s
<1>1. Artifacts[s] \in Seq(Blob) BY CatalogAssumption
<1>2. Artifacts[s] \in Seq(Item) BY <1>1 DEF Item
<1> QED BY <1>1, <1>2 DEF Work, Item

\* What is written under a key depends on the key only.
LEMMA PayloadIsOne ==
    ASSUME NEW i \in Item
    PROVE Payload(i) = IF i \in Streamed THEN source[i] ELSE "right"
BY DEF Payload

\* The item that a publisher is at.
LEMMA ItemOfIsItem ==
    ASSUME CatalogInv, NEW p \in Publisher, pub[p].at # "failed"
    PROVE /\ pub[p].set \in ModelSet
          /\ pub[p].pos \in 1 .. Len(Work(pub[p].set))
          /\ ItemOf(p) \in Item
          /\ ItemOf(p) \in ModelSet => ItemOf(p) = pub[p].set /\ pub[p].pos = Len(Work(pub[p].set))
<1>1. pub[p].set \in ModelSet /\ pub[p].pos \in 1 .. Len(Work(pub[p].set))
  BY DEF CatalogInv, CatalogTypeOK, ReceiptResolves
<1>2. PICK s \in ModelSet : s = pub[p].set BY <1>1
<1>3. PICK k \in 1 .. Len(Work(s)) : k = pub[p].pos BY <1>1, <1>2
<1>4. Work(s)[k] \in Item BY <1>3, WorkIsArtifactsThenManifest
<1>5. ASSUME Work(s)[k] \in ModelSet PROVE k = Len(Work(s)) /\ Work(s)[k] = s
  <2>1. k \notin 1 .. Len(Artifacts[s])
    BY <1>5, WorkIsArtifactsThenManifest, CatalogAssumption
  <2> QED BY <1>3, <2>1, WorkIsArtifactsThenManifest
<1> QED BY <1>1, <1>2, <1>3, <1>4, <1>5 DEF ItemOf

\* Objects of the right size keep their size.
SizedStays == \A i \in Item : objects[i] \in CouldHold => objects'[i] \in CouldHold

-----------------------------------------------------------------------------
(* Steps that write nothing *)

\* The bucket is as it was and a URL serves what it did: what was said of objects
\* holds, and NamedAreHeld with it.
LEMMA BucketUntouched ==
    ASSUME CatalogInv, UNCHANGED objects,
           source' \in [Blob -> Bytes], \A b \in Streamed : source'[b] = source[b]
    PROVE FilesAreExact' /\ NamedAreHeld'
BY CatalogAssumption DEF CatalogInv, FilesAreExact, NamedAreHeld

\* A publisher that goes elsewhere with the same item behind it, to any place but
\* the end.
LEMMA GoToKeeps ==
    ASSUME CatalogInv, NEW p \in Publisher, NEW at \in PublisherAt \ {"published"},
           pub[p].at # "failed", GoTo(p, at), UNCHANGED <<source, objects>>
    PROVE CatalogInv'
<1>1. pub' \in [Publisher -> [at : PublisherAt, set : ModelSet, pos : Nat]]
  BY DEF CatalogInv, CatalogTypeOK, GoTo
<1>2. /\ \A q \in Publisher : q # p => pub'[q] = pub[q]
      /\ pub'[p].at = at /\ pub'[p].set = pub[p].set /\ pub'[p].pos = pub[p].pos
  BY DEF CatalogInv, CatalogTypeOK, GoTo
<1>3. ReceiptResolves'
  <2> SUFFICES ASSUME NEW q \in Publisher, pub'[q].at # "failed"
               PROVE /\ pub'[q].pos \in 1 .. Len(Work(pub'[q].set))
                     /\ \A k \in 1 .. Len(Work(pub'[q].set)) :
                         k < pub'[q].pos \/ pub'[q].at = "published" =>
                             objects[Work(pub'[q].set)[k]] \in {"right", "drifted"}
    BY DEF ReceiptResolves, Work
  <2> QED BY <1>2 DEF CatalogInv, ReceiptResolves
<1> QED BY <1>1, <1>3, BucketUntouched DEF CatalogInv, CatalogTypeOK

\* A publisher passes an item that has its size (publisher.py:72-87, 89-107).
LEMMA NextItemKeeps ==
    ASSUME CatalogInv, NEW p \in Publisher, pub[p].at \in {"head", "verify"}, Sized(ItemOf(p)),
           NextItem(p), UNCHANGED <<source, objects>>
    PROVE CatalogInv'
<1>0. PICK s \in ModelSet : s = pub[p].set BY ItemOfIsItem
<1>1. PICK pos \in 1 .. Len(Work(s)) : s = pub[p].set /\ pos = pub[p].pos
  BY <1>0, ItemOfIsItem
<1>2. Len(Work(s)) \in Nat BY WorkIsArtifactsThenManifest
<1>3. objects[Work(s)[pos]] \in {"right", "drifted"} BY <1>1 DEF Sized, ItemOf
<1>4. \A k \in 1 .. Len(Work(s)) : k < pos => objects[Work(s)[k]] \in {"right", "drifted"}
  BY <1>1 DEF CatalogInv, ReceiptResolves
<1>5. PICK next \in [at : PublisherAt, set : ModelSet, pos : Nat] :
        /\ pub' = [pub EXCEPT ![p] = next]
        /\ next.set = s
        /\ IF pos = Len(Work(s)) THEN next.at = "published" /\ next.pos = pos
           ELSE next.at = "head" /\ next.pos = pos + 1
  <2>1. PICK here \in [at : PublisherAt, set : ModelSet, pos : Nat] : here = pub[p]
    BY DEF CatalogInv, CatalogTypeOK
  <2>2. here.set = s /\ here.pos = pos BY <1>1, <2>1
  <2>3. pub' = [pub EXCEPT ![p] = IF pos = Len(Work(s)) THEN [here EXCEPT !.at = "published"]
                                  ELSE [here EXCEPT !.at = "head", !.pos = pos + 1]]
    BY <1>1, <2>1, <2>2 DEF NextItem
  <2>4. CASE pos = Len(Work(s))
    <3>1. [here EXCEPT !.at = "published"] \in [at : PublisherAt, set : ModelSet, pos : Nat]
      BY DEF PublisherAt
    <3> QED BY <2>2, <2>3, <2>4, <3>1
  <2>5. CASE pos # Len(Work(s))
    <3>1. [here EXCEPT !.at = "head", !.pos = pos + 1]
            \in [at : PublisherAt, set : ModelSet, pos : Nat]
      <4>1. pos + 1 \in Nat BY <1>2
      <4> QED BY <4>1 DEF PublisherAt
    <3> QED BY <2>2, <2>3, <2>5, <3>1
  <2> QED BY <2>4, <2>5
<1>6. /\ pub' \in [Publisher -> [at : PublisherAt, set : ModelSet, pos : Nat]]
      /\ \A q \in Publisher : q # p => pub'[q] = pub[q]
      /\ pub'[p] = next
  BY <1>5 DEF CatalogInv, CatalogTypeOK
<1>7. ReceiptResolves'
  <2> SUFFICES ASSUME NEW q \in Publisher, pub'[q].at # "failed"
               PROVE /\ pub'[q].pos \in 1 .. Len(Work(pub'[q].set))
                     /\ \A k \in 1 .. Len(Work(pub'[q].set)) :
                         k < pub'[q].pos \/ pub'[q].at = "published" =>
                             objects[Work(pub'[q].set)[k]] \in {"right", "drifted"}
    BY DEF ReceiptResolves, Work
  <2>1. CASE q # p BY <1>6, <2>1 DEF CatalogInv, ReceiptResolves
  <2>2. CASE q = p
    <3>1. CASE pos = Len(Work(s)) BY <1>1, <1>2, <1>3, <1>4, <1>5, <1>6, <2>2, <3>1
    <3>2. CASE pos # Len(Work(s))
      <4>1. pos + 1 \in 1 .. Len(Work(s)) BY <1>2, <3>2
      <4>2. \A k \in 1 .. Len(Work(s)) : k < pos + 1 => k < pos \/ k = pos BY <1>2
      <4> QED BY <1>3, <1>4, <1>5, <1>6, <2>2, <3>2, <4>1, <4>2
    <3> QED BY <3>1, <3>2
  <2> QED BY <2>1, <2>2
<1> QED BY <1>6, <1>7, BucketUntouched DEF CatalogInv, CatalogTypeOK

\* A publication begins with nothing behind it.
LEMMA BeginPublicationKeeps ==
    ASSUME CatalogInv, NEW p \in Publisher, BeginPublication(p)
    PROVE CatalogInv'
<1>1. PICK s \in ModelSet : pub' = [pub EXCEPT ![p] = [at |-> "head", set |-> s, pos |-> 1]]
  BY DEF BeginPublication
<1>2. /\ \A q \in Publisher : q # p => pub'[q] = pub[q]
      /\ pub'[p] = [at |-> "head", set |-> s, pos |-> 1]
  BY <1>1 DEF CatalogInv, CatalogTypeOK
<1>3. 1 \in 1 .. Len(Work(s)) BY WorkIsArtifactsThenManifest
<1>4. ReceiptResolves'
  <2> SUFFICES ASSUME NEW q \in Publisher, pub'[q].at # "failed"
               PROVE /\ pub'[q].pos \in 1 .. Len(Work(pub'[q].set))
                     /\ \A k \in 1 .. Len(Work(pub'[q].set)) :
                         k < pub'[q].pos \/ pub'[q].at = "published" =>
                             objects[Work(pub'[q].set)[k]] \in {"right", "drifted"}
    BY DEF ReceiptResolves, Work, BeginPublication
  <2>1. CASE q # p BY <1>2, <2>1 DEF CatalogInv, ReceiptResolves
  <2>2. CASE q = p BY <1>2, <1>3, <2>2
  <2> QED BY <2>1, <2>2
<1>5. pub' \in [Publisher -> [at : PublisherAt, set : ModelSet, pos : Nat]]
  BY <1>1 DEF CatalogInv, CatalogTypeOK, PublisherAt
<1> QED BY <1>4, <1>5, BucketUntouched DEF BeginPublication, CatalogInv, CatalogTypeOK

-----------------------------------------------------------------------------
(* The step that writes *)

\* A rival's object is replaced by the same bytes (adapters/rclone.py put, put_url).
LEMMA LandingKeepsSizes ==
    ASSUME CatalogInv, NEW p \in Publisher, pub[p].at = "transfer", TransferLands(p)
    PROVE /\ objects' \in [Item -> Bytes \cup {Absent}]
          /\ SizedStays
          /\ FilesAreExact'
          /\ \A i \in Item : i # ItemOf(p) => objects'[i] = objects[i]
<1>1. PICK i \in Item : i = ItemOf(p) BY ItemOfIsItem
<1>2. PICK payload : payload = Payload(i) BY DEF Payload
<1>3. objects' = [objects EXCEPT ![i] = payload] BY <1>1, <1>2 DEF TransferLands
<1>4. payload \in Bytes
  BY <1>1, <1>2, CatalogAssumption DEF Payload, CatalogInv, CatalogTypeOK, Bytes
<1>5. objects[i] \in {Absent, payload} BY <1>2 DEF CatalogInv, FilesAreExact, Payload
<1>6. Absent \notin Bytes /\ CouldHold \subseteq Bytes BY CatalogAssumption DEF CouldHold, Bytes
<1>7. /\ objects' \in [Item -> Bytes \cup {Absent}]
      /\ \A j \in Item : objects'[j] = IF j = i THEN payload ELSE objects[j]
  BY <1>3, <1>4 DEF CatalogInv, CatalogTypeOK
<1>8. SizedStays BY <1>5, <1>6, <1>7 DEF SizedStays
<1>9. FilesAreExact'
  <2>1. \A j \in Item : objects'[j] \in {Absent, IF j \in Streamed THEN source[j] ELSE "right"}
    BY <1>2, <1>7 DEF CatalogInv, FilesAreExact, Payload
  <2>2. source' = source BY DEF TransferLands
  <2> QED BY <2>1, <2>2 DEF FilesAreExact
<1> QED BY <1>1, <1>7, <1>8, <1>9

\* The object lands, and the manifest only behind all its artifacts.
LEMMA TransferLandsKeeps ==
    ASSUME CatalogInv, NEW p \in Publisher, TransferLands(p)
    PROVE CatalogInv'
<1>1. pub[p].at = "transfer" BY DEF TransferLands
<1>2. PICK at \in {"verify", "failed"} : pub' = [pub EXCEPT ![p].at = at]
  BY DEF TransferLands, GoTo
<1>3. /\ pub' \in [Publisher -> [at : PublisherAt, set : ModelSet, pos : Nat]]
      /\ \A q \in Publisher : pub'[q].set = pub[q].set /\ pub'[q].pos = pub[q].pos
      /\ \A q \in Publisher : q # p => pub'[q].at = pub[q].at
      /\ pub'[p].at = at
  BY <1>2 DEF CatalogInv, CatalogTypeOK, PublisherAt
<1>4. ReceiptResolves'
  <2> SUFFICES ASSUME NEW q \in Publisher, pub'[q].at # "failed"
               PROVE /\ pub'[q].pos \in 1 .. Len(Work(pub'[q].set))
                     /\ \A k \in 1 .. Len(Work(pub'[q].set)) :
                         k < pub'[q].pos \/ pub'[q].at = "published" =>
                             objects'[Work(pub'[q].set)[k]] \in {"right", "drifted"}
    BY DEF ReceiptResolves, Work
  <2>1. pub[q].at # "failed" /\ (pub'[q].at = "published" => pub[q].at = "published")
    BY <1>1, <1>2, <1>3
  <2>2. PICK s \in ModelSet : s = pub[q].set BY DEF CatalogInv, CatalogTypeOK
  <2>3. /\ pub[q].pos \in 1 .. Len(Work(s))
        /\ \A k \in 1 .. Len(Work(s)) :
              k < pub[q].pos \/ pub[q].at = "published" => objects[Work(s)[k]] \in CouldHold
    BY <2>1, <2>2 DEF CatalogInv, ReceiptResolves, CouldHold
  <2>4. \A k \in 1 .. Len(Work(s)) : Work(s)[k] \in Item BY WorkIsArtifactsThenManifest
  <2> QED BY <1>1, <1>3, <2>1, <2>2, <2>3, <2>4, LandingKeepsSizes DEF SizedStays, CouldHold
<1>5. NamedAreHeld'
  <2> SUFFICES ASSUME NEW s \in ModelSet, objects'[s] # Absent, NEW k \in 1 .. Len(Artifacts[s])
               PROVE objects'[Artifacts[s][k]] \in {"right", "drifted"}
    BY DEF NamedAreHeld
  <2>1. Artifacts[s][k] \in Item BY WorkIsArtifactsThenManifest DEF Item
  <2>2. CASE objects[s] # Absent
    <3>1. objects[Artifacts[s][k]] \in CouldHold
      BY <2>2 DEF CatalogInv, NamedAreHeld, CouldHold
    <3> QED BY <1>1, <2>1, <3>1, LandingKeepsSizes DEF SizedStays, CouldHold
  <2>3. CASE objects[s] = Absent
    <3>1. s = ItemOf(p) BY <1>1, <2>3, LandingKeepsSizes DEF Item
    <3>2. s = pub[p].set /\ pub[p].pos = Len(Work(s)) BY <1>1, <3>1, ItemOfIsItem
    <3>3. k \in 1 .. Len(Work(s)) /\ k < Len(Work(s)) BY WorkIsArtifactsThenManifest
    <3>4. objects[Work(s)[k]] \in CouldHold
      BY <1>1, <3>2, <3>3 DEF CatalogInv, ReceiptResolves, CouldHold
    <3>5. objects[Artifacts[s][k]] \in CouldHold BY <3>4, WorkIsArtifactsThenManifest
    <3> QED BY <1>1, <2>1, <3>5, LandingKeepsSizes DEF SizedStays, CouldHold
  <2> QED BY <2>2, <2>3
<1>6. source' = source BY DEF TransferLands
<1> QED BY <1>1, <1>3, <1>4, <1>5, <1>6, LandingKeepsSizes DEF CatalogInv, CatalogTypeOK

-----------------------------------------------------------------------------
(* Every step *)

\* A file may be edited at any time (publisher.py:63-70).
LEMMA ChangeSourceKeeps ==
    ASSUME CatalogInv, NEW b \in Blob \ Streamed, ChangeSource(b)
    PROVE CatalogInv'
<1>1. source' \in [Blob -> Bytes] /\ \A c \in Streamed : source'[c] = source[c]
  BY CatalogAssumption DEF ChangeSource, CatalogInv, CatalogTypeOK
<1>2. ReceiptResolves' BY DEF ChangeSource, CatalogInv, ReceiptResolves, Work
<1> QED BY <1>1, <1>2, BucketUntouched DEF ChangeSource, CatalogInv, CatalogTypeOK

\* CatalogInv is inductive.
LEMMA CatalogStep == CatalogInv /\ [CatalogNext]_catalogVars => CatalogInv'
<1> SUFFICES ASSUME CatalogInv, [CatalogNext]_catalogVars PROVE CatalogInv' OBVIOUS
<1>1. ASSUME NEW p \in Publisher, LookForItem(p) PROVE CatalogInv'
  BY <1>1, GoToKeeps, NextItemKeeps DEF LookForItem, PublisherAt
<1>2. ASSUME NEW p \in Publisher, PutLooksAgain(p) PROVE CatalogInv'
  BY <1>2, GoToKeeps DEF PutLooksAgain, PublisherAt
<1>3. ASSUME NEW p \in Publisher, TransferFinds(p) PROVE CatalogInv'
  BY <1>3, GoToKeeps DEF TransferFinds, PublisherAt
<1>4. ASSUME NEW p \in Publisher, VerifyItem(p) PROVE CatalogInv'
  BY <1>4, GoToKeeps, NextItemKeeps DEF VerifyItem, PublisherAt
<1>5. ASSUME NEW p \in Publisher, PublicationFails(p) PROVE CatalogInv'
  BY <1>5, GoToKeeps DEF PublicationFails, Publishing, PublisherAt
<1>6. CASE UNCHANGED catalogVars
  <2>1. UNCHANGED <<source, objects, pub>> BY <1>6 DEF catalogVars
  <2> QED BY <2>1 DEF CatalogInv, CatalogTypeOK, FilesAreExact, ReceiptResolves, NamedAreHeld, Work
<1> QED
  BY <1>1, <1>2, <1>3, <1>4, <1>5, <1>6, BeginPublicationKeeps, TransferLandsKeeps,
     ChangeSourceKeeps
  DEF CatalogNext, PublisherStep

\* Nothing is there before the first publication.
LEMMA CatalogStart == CatalogInit => CatalogInv
<1> SUFFICES ASSUME CatalogInit PROVE CatalogInv OBVIOUS
<1>1. CatalogTypeOK BY DEF CatalogInit, CatalogTypeOK, PublisherAt
<1>2. FilesAreExact /\ NamedAreHeld
  BY DEF CatalogInit, FilesAreExact, NamedAreHeld, Item
<1>3. \A p \in Publisher : pub[p].at = "idle" /\ pub[p].set \in ModelSet /\ pub[p].pos = 1
  BY DEF CatalogInit
<1>4. ReceiptResolves
  <2> SUFFICES ASSUME NEW p \in Publisher
               PROVE /\ pub[p].pos \in 1 .. Len(Work(pub[p].set))
                     /\ \A k \in 1 .. Len(Work(pub[p].set)) : ~ (k < 1)
    BY <1>3 DEF ReceiptResolves
  <2> QED BY <1>3, WorkIsArtifactsThenManifest
<1> QED BY <1>1, <1>2, <1>4 DEF CatalogInv

\* However many operators publish, one key holds one payload, a receipt means a
\* set that resolves, and no manifest is there before its blobs
\* (publisher.py:47-126, streaming_publisher.py:35-70).
THEOREM CatalogInvariant == CatalogSpec => []CatalogInv
BY CatalogStart, CatalogStep, PTL DEF CatalogSpec

-----------------------------------------------------------------------------
(* What the catalog promises *)

Held == {b \in Blob : Sized(b)}

Published == {s \in ModelSet : objects[s] # Absent}

NamedBy(s) == {Artifacts[s][k] : k \in 1 .. Len(Artifacts[s])}

\* A landing is a blob held, or a set published behind all it names, or nothing new.
LEMMA LandingIsPromised ==
    ASSUME CatalogInv, CatalogInv', NEW p \in Publisher, TransferLands(p)
    PROVE \/ \E b \in Blob : Held' = Held \cup {b} /\ Published' = Published
          \/ UNCHANGED <<Held, Published>>
          \/ \E s \in ModelSet :
                NamedBy(s) \subseteq Held /\ Published' = Published \cup {s} /\ Held' = Held
<1>1. pub[p].at = "transfer" BY DEF TransferLands
<1>2. PICK i \in Item : i = ItemOf(p) BY <1>1, ItemOfIsItem
<1>3. \A j \in Item : j # i => objects'[j] = objects[j]
  BY <1>1, <1>2, LandingKeepsSizes
<1>4. SizedStays BY <1>1, LandingKeepsSizes
<1>5. CASE i \in Blob
  <2>1. \A s \in ModelSet : objects'[s] = objects[s] BY <1>3, <1>5, CatalogAssumption DEF Item
  <2>2. Published' = Published BY <2>1 DEF Published
  <2>3. \A b \in Blob : b # i => (objects'[b] \in CouldHold <=> objects[b] \in CouldHold)
    BY <1>3 DEF Item
  <2>4. objects[i] \in CouldHold => objects'[i] \in CouldHold BY <1>4 DEF SizedStays
  <2>5. Held = {b \in Blob : objects[b] \in CouldHold} BY DEF Held, Sized, CouldHold
  <2>6. Held' = {b \in Blob : objects'[b] \in CouldHold} BY DEF Held, Sized, CouldHold
  <2>7. CASE objects'[i] \in CouldHold
    <3>1. Held' = Held \cup {i} BY <1>5, <2>3, <2>5, <2>6, <2>7
    <3> QED BY <1>5, <2>2, <3>1
  <2>8. CASE objects'[i] \notin CouldHold
    <3>1. Held' = Held BY <2>3, <2>4, <2>5, <2>6, <2>8
    <3> QED BY <2>2, <3>1
  <2> QED BY <2>7, <2>8
<1>6. CASE i \in ModelSet
  <2>1. \A b \in Blob : objects'[b] = objects[b] BY <1>3, <1>6, CatalogAssumption DEF Item
  <2>2. Held' = Held BY <2>1 DEF Held, Sized
  <2>3. objects'[i] = Payload(i) /\ Payload(i) \in Bytes
    BY <1>2, CatalogAssumption DEF TransferLands, Payload, CatalogInv, CatalogTypeOK, Bytes
  <2>4. objects'[i] # Absent BY <2>3, CatalogAssumption
  <2>5. Published' = Published \cup {i} BY <1>3, <1>6, <2>4 DEF Published, Item
  <2>6. \A k \in 1 .. Len(Artifacts[i]) : objects'[Artifacts[i][k]] \in {"right", "drifted"}
    BY <1>6, <2>4 DEF CatalogInv, NamedAreHeld
  <2>7. NamedBy(i) \subseteq Held
    <3>1. ASSUME NEW k \in 1 .. Len(Artifacts[i]) PROVE Artifacts[i][k] \in Held
      <4>1. Artifacts[i][k] \in Blob BY <1>6, WorkIsArtifactsThenManifest
      <4> QED BY <2>1, <2>6, <4>1 DEF Held, Sized
    <3> QED BY <3>1 DEF NamedBy
  <2> QED BY <1>6, <2>2, <2>5, <2>7
<1> QED BY <1>5, <1>6 DEF Item

\* A step that writes nothing promises nothing new.
LEMMA QuietIsPromised ==
    ASSUME UNCHANGED objects
    PROVE UNCHANGED <<Held, Published>>
BY DEF Held, Sized, Published

\* Publication implements the promise of PublishedSets: no set before its blobs, and
\* nothing taken back, whoever publishes at the same time (publisher.py:89-126).
THEOREM CatalogKeepsPromise == CatalogSpec => KeepsPromise
<1>1. CatalogInit => Promise!SetsInit
  <2> SUFFICES ASSUME CatalogInit PROVE Promise!SetsInit OBVIOUS
  <2>1. \A i \in Item : objects[i] = Absent BY DEF CatalogInit
  <2>2. Held = {} BY <2>1, CatalogAssumption DEF Held, Sized, Item, Bytes
  <2>3. Published = {} BY <2>1 DEF Published, Item
  <2> QED BY <2>2, <2>3 DEF Promise!SetsInit, Held, Published
<1>2. CatalogInv /\ CatalogInv' /\ [CatalogNext]_catalogVars
        => [Promise!SetsNext]_<<Held, Published>>
  <2> SUFFICES ASSUME CatalogInv, CatalogInv', [CatalogNext]_catalogVars
               PROVE [Promise!SetsNext]_<<Held, Published>>
    OBVIOUS
  <2>1. CASE UNCHANGED objects BY <2>1, QuietIsPromised
  <2>2. ASSUME NEW p \in Publisher, TransferLands(p)
        PROVE [Promise!SetsNext]_<<Held, Published>>
    <3>1. ASSUME NEW b \in Blob, Held' = Held \cup {b}, Published' = Published
          PROVE Promise!SetsNext
      BY <3>1 DEF Promise!SetsNext, Promise!Hold, Held, Published
    <3>2. ASSUME NEW s \in ModelSet, NamedBy(s) \subseteq Held,
                 Published' = Published \cup {s}, Held' = Held
          PROVE Promise!SetsNext
      <4>1. Promise!Publish(s)
        BY <3>2 DEF Promise!Publish, Held, Published, NamedBy
      <4> QED BY <4>1 DEF Promise!SetsNext
    <3> QED BY <2>2, <3>1, <3>2, LandingIsPromised
  <2>3. UNCHANGED objects \/ \E p \in Publisher : TransferLands(p)
    BY DEF CatalogNext, PublisherStep, BeginPublication, LookForItem, PutLooksAgain, TransferFinds,
           VerifyItem, PublicationFails, ChangeSource, catalogVars
  <2> QED BY <2>1, <2>2, <2>3
<1>3. [Promise!SetsNext]_<<Held, Published>>
        <=> [Promise!SetsNext]_<<{b \in Blob : Sized(b)}, {s \in ModelSet : objects[s] # Absent}>>
  BY DEF Held, Published
<1> QED BY <1>1, <1>2, <1>3, CatalogInvariant, PTL DEF CatalogSpec, KeepsPromise, Promise!SetsSpec

=============================================================================
