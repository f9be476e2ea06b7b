----------------------------- MODULE MCManifestRun -----------------------------
(* A manifest of two packages, one of which another document names alone, and a document
   that is no manifest.  One of the upgrades runs older code. *)
EXTENDS ManifestRun

Daily(n) == [kind |-> "daily", year |-> 2023, number |-> n]
Entry(order, n, count) == [order |-> order, source_package_id |-> Daily(n),
                           notice_count_observed |-> count]
Naming(packages) == [manifest_version |-> 1, packages |-> packages]

Both == Naming(<<Entry(1, 220, 1), Entry(2, 221, 1)>>)
OneOnly == Naming(<<Entry(1, 220, 1)>>)
Repeating == Naming(<<Entry(1, 220, 1), Entry(2, 220, 1)>>)

MCDocuments == {Both, OneOnly, Repeating}

MCUpTo == ("newest" :> 2) @@ ("older" :> 1)
=============================================================================
