--------------------------- MODULE MCCaptureStore ---------------------------
(* Instances of CaptureStore: a package, its archives and the calls made. *)
EXTENDS CaptureStore, TLC

CONSTANTS s1, s2, p1, k1, k2

\* "whole" and "other" load; "repeats" holds an identity twice; "corrupt" breaks
\* off after its first member.
MCArchive == {"whole", "other", "repeats", "corrupt"}
MCNotice == {"n1", "n2", "n3"}
MCMembers ==
    [whole |-> <<"n1", "n2">>, other |-> <<"n3", "n2">>,
     repeats |-> <<"n1", "n1">>, corrupt |-> <<"n1", Unreadable>>]
MCReferences == [a \in MCArchive |-> [n \in MCNotice |-> IF n = "n2" THEN 1 ELSE 0]]

MCRequests ==
    {[batch |-> 1, contract |-> k1, force |-> FALSE],
     [batch |-> 2, contract |-> k2, force |-> TRUE]}

OneRequest == {[batch |-> 1, contract |-> k1, force |-> FALSE]}

\* A retry may ask for another batch size than the load it resumes was begun with.
TwoSizes == {[batch |-> b, contract |-> k1, force |-> FALSE] : b \in {1, 2}}

WholeMembers == [whole |-> <<"n1", "n2", "n3">>]
WholeReferences == [whole |-> MCReferences["whole"]]

MCLegacy ==
    {[pkg |-> p1, sha |-> "whole", contract |-> k1, batch |-> 0,
      status |-> "acquiring", counts |-> <<>>]}

\* The file is only ever replaced by content it has not held before.
ForwardSwaps ==
    {<<"repeats", "whole">>, <<"corrupt", "whole">>, <<"whole", "other">>,
     <<"whole", None>>, <<None, "other">>}

\* The file is replaced and put back.
ReturningSwaps == {<<"whole", "other">>, <<"other", "whole">>}

Sessions == Permutations({s1, s2})
=============================================================================
