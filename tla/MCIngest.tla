-------------------------------- MODULE MCIngest --------------------------------
(* One package that two sessions ingest, load and verify. *)
EXTENDS Ingest, TLC

CONSTANTS s1, s2, p1, k1, k2

\* "legacy" passes inspection and holds a member no load can project.
MCMembers ==
    [whole |-> <<"n1", "n2">>, part |-> <<"n1">>, legacy |-> <<"n1", Unreadable>>]
MCArchive == DOMAIN MCMembers
MCNotice == {"n1", "n2"}
MCReferences == [a \in MCArchive |-> [n \in MCNotice |-> 0]]

MCRequests == {[batch |-> 2, contract |-> k1, force |-> f] : f \in BOOLEAN}

\* For the retry run: the code is upgraded and rolled back between two calls.
Versions == {[batch |-> 2, contract |-> k, force |-> FALSE] : k \in {k1, k2}}
WholeMembers == [whole |-> MCMembers.whole]
WholeReferences == [whole |-> MCReferences["whole"]]
WholeAnswer == [p \in {p1} |-> {{"n1", "n2"}}]

\* What the source holds changes from {n1} to {n1, n2} and back.
MCAnswers == [p \in {p1} |-> {{"n1"}, {"n1", "n2"}}]
MCMisfiled == [p \in {p1} |-> {}]

\* The file is replaced by another package, or removed.
MCSwaps == {<<"part", "whole">>, <<"whole", None>>}

Sessions == Permutations({s1, s2})
=============================================================================
