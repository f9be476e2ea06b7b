---------------------------- MODULE MCVerification ----------------------------
(* One package that is loaded, recaptured and verified by two sessions. *)
EXTENDS Verification, TLC

CONSTANTS s1, s2, p1, k1

\* "stray" holds a notice dated outside the package's month.
MCMembers ==
    [whole |-> <<"n1", "n2">>, part |-> <<"n1">>, empty |-> <<>>,
     stray |-> <<"n1", "n3">>]
MCArchive == DOMAIN MCMembers
MCNotice == {"n1", "n2", "n3", "n4"}
MCReferences == [a \in MCArchive |-> [n \in MCNotice |-> 0]]

MCRequests == {[batch |-> 2, contract |-> k1, force |-> f] : f \in BOOLEAN}

\* The source holds what "whole" holds, something else, or nothing yet.
MCAnswers == [p \in {p1} |-> {{"n1", "n2"}, {"n2", "n4"}, {}}]
MCMisfiled == [p \in {p1} |-> {"n3"}]

\* The file is replaced by the whole package after a part of it was loaded.
Corrected == {<<"part", "whole">>}

Sessions == Permutations({s1, s2})
=============================================================================
