--------------------------- MODULE CertifiedNotices ---------------------------
(***************************************************************************)
(* What loading and verifying together promise to a reader: beside the     *)
(* editions of PublishedNotices, whether the source agreed that what is    *)
(* shown is the whole package.  A new edition starts without that, and     *)
(* gains it only when the identifiers shown are exactly a non-empty set    *)
(* the source held.                                                        *)
(***************************************************************************)
EXTENDS PublishedNotices

CONSTANT Answers        \* [Package -> set of the identifier sets the source may hold]

VARIABLE certified

Identifiers(p) == {n[1] : n \in shown[p]}

CInit == Init /\ certified = [p \in Package |-> FALSE]

Reissue(p) == Publish(p) /\ certified' = [certified EXCEPT ![p] = FALSE]

Certify(p) ==
    /\ edition[p] # 0
    /\ Identifiers(p) \in Answers[p] \ {{}}
    /\ certified' = [certified EXCEPT ![p] = TRUE]
    /\ UNCHANGED <<edition, shown>>

Doubt(p) ==
    /\ certified' = [certified EXCEPT ![p] = FALSE]
    /\ UNCHANGED <<edition, shown>>

CNext == \E p \in Package : Reissue(p) \/ Certify(p) \/ Doubt(p)

CSpec == CInit /\ [][CNext]_<<edition, shown, certified>>
=============================================================================
