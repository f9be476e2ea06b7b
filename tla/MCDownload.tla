------------------------------- MODULE MCDownload -------------------------------
(* Archives at the limits of their package, and what is one step past each of them. *)
EXTENDS Acquisition, PackageContract

Xml(key, size, wrong) ==
    [kind |-> "xml", key |-> key, size |-> size, form |-> "legacy", wrong |-> wrong]
Eforms(key, wrong) == [Xml(key, 1, wrong) EXCEPT !.form = "eforms"]
Of(kind, size) == [Xml(0, size, "") EXCEPT !.kind = kind]
Holding(size, inside) ==
    [kind |-> "container", key |-> 0, size |-> size, form |-> "legacy", wrong |-> "",
     inside |-> inside]

Padded(n, members) == [compressed |-> 1, members |-> members, padding |-> n, tail |-> "padding"]
Plain(members) == Padded(1, members)
Ending(tail, members) == [Plain(members) EXCEPT !.tail = tail]
Large(n, members) == [Plain(members) EXCEPT !.compressed = n]

One == Xml(1, 1, "")
Two == Xml(2, 2, "")
Day1 == Holding(1, Plain(<<One>>))
Day2 == Holding(2, Plain(<<Two>>))

MCArchives == <<
    \* Accepted, at one limit or another.
    Large(2, <<Of("directory", 0), One, Two>>), Plain(<<Day1, Day2>>),
    Plain(<<One, Eforms(2, "change_reference")>>),
    \* An error page, and a body past the artifact's limit.
    Ending("cut", <<>>), Large(3, <<One>>),
    \* One budget: members, containers, what they hold and padding.
    Padded(2, <<Day1, Day2>>), Plain(<<Day1, Holding(2, Padded(2, <<Two>>))>>), Padded(14, <<>>),
    \* Members, notices and containers.
    Plain(<<Xml(1, 3, "")>>), Plain(<<One, Xml(2, 1, ""), Xml(3, 1, "")>>),
    Plain(<<Holding(0, Plain(<<>>)), Holding(0, Plain(<<>>)), Holding(0, Plain(<<>>))>>),
    Plain(<<Holding(3, Plain(<<One>>))>>), Plain(<<Holding(1, Plain(<<Xml(1, 3, "")>>))>>),
    \* Layouts.
    Plain(<<One, Day2>>), Plain(<<Day1, Xml(2, 1, "malformed")>>),
    Plain(<<Day1, Of("other", 1)>>), Plain(<<Of("other", 1), Day1>>), Plain(<<Holding(1, Plain(<<Day1>>))>>),
    \* Members that are none.
    Plain(<<Of("unsafe", 0)>>), Plain(<<One, Of("other", 1)>>), Plain(<<Holding(1, Plain(<<Of("special", 0)>>))>>),
    Plain(<<Xml(1, 1, "doc_id")>>), Plain(<<Holding(1, Plain(<<Eforms(1, "identifier")>>))>>),
    \* Identities.
    Plain(<<Day1, Day1>>), Plain(<<One, One>>), Plain(<<Xml(1, 1, "coded_section"), One>>),
    \* Ends.
    Ending("data", <<One>>), Plain(<<Holding(1, Ending("cut", <<One>>))>>)>>

MCBody == DOMAIN MCArchives
MCLength == [b \in MCBody |-> MCArchives[b].compressed]

\* The policies of a month and of a label that is no identity, scaled down.
MCLimits == limits_from([policy_for([kind |-> "monthly", year |-> 2023, number |-> 2]) EXCEPT
    !.compressed_bytes = 2, !.expanded_bytes = 13, !.member_bytes = 2, !.notices = 2,
    !.container_count = Min({@, 2}), !.container_bytes = 2])
MCOtherLimits == limits_from([policy_for([kind |-> "monthly", year |-> 1066, number |-> 10]) EXCEPT
    !.compressed_bytes = 1, !.expanded_bytes = 6, !.member_bytes = 2, !.notices = 2,
    !.container_count = Min({@, 2}), !.container_bytes = 1])
=============================================================================
