---------------------------- MODULE MCModelCache ----------------------------
(***************************************************************************)
(* Instances of ModelCache for TLC: two sets with a workflow at the same   *)
(* destination, one of them with a model.                                  *)
(***************************************************************************)
EXTENDS ModelCache

MCArtifacts == [s \in ModelSet |-> IF s = "s1" THEN <<"m", "w1">> ELSE <<"w2">>]
MCTarget == [b \in Blob |-> IF b = "m" THEN "unet" ELSE "workflow"]
MCSize == [b \in Blob |-> IF b = "m" THEN 2 ELSE 1]
MCAge == [b \in Blob |-> CASE b = "m" -> 2 [] b = "w1" -> 1 [] b = "w2" -> 3]

\* The first set is published before the first worker starts, and the second
\* lacks its manifest only.
MCInit ==
    /\ CacheInit
    /\ published = {"s1"} /\ held = Blob
    /\ links["unet"] = None

MCSpec == MCInit /\ [][CacheNext]_cacheVars /\ CacheFairness

=============================================================================
