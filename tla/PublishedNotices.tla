--------------------------- MODULE PublishedNotices ---------------------------
(***************************************************************************)
(* What the capture store promises to a reader of tl_read.notice: at every *)
(* moment a package shows nothing, or the whole content of one archive,    *)
(* and it moves from one edition to a later one in a single step.          *)
(***************************************************************************)
EXTENDS Naturals, Sequences

CONSTANTS
    Package,
    Archive,
    Members         \* [Archive -> sequence of members]

VARIABLES
    edition,        \* acquisition ordinal of what a package shows, 0 for nothing
    shown           \* the notices a reader sees, each with the archive it is from

Content(a) == {<<Members[a][i], a>> : i \in DOMAIN Members[a]}

Init ==
    /\ edition = [p \in Package |-> 0]
    /\ shown = [p \in Package |-> {}]

\* One package moves to a later edition; the others show what they showed.
Publish(p) ==
    /\ edition'[p] > edition[p]
    /\ edition' = [edition EXCEPT ![p] = edition'[p]]
    /\ \E a \in Archive : shown' = [shown EXCEPT ![p] = Content(a)]

Next == \E p \in Package : Publish(p)

Spec == Init /\ [][Next]_<<edition, shown>>
=============================================================================
