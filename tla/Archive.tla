--------------------------------- MODULE Archive ---------------------------------
(***************************************************************************)
(* The one walk over a package's archive that its inspector, its loader    *)
(* and its survey share (packages.py), under the limits of its policy.     *)
(*                                                                         *)
(* An archive is its members in order, then what follows the end marker.   *)
(* Sizes are counted in units; a header costs one.  A container's member   *)
(* list is in "inside".  Of a member's XML all that counts is the form and *)
(* the one thing that may be wrong with it.                                *)
(***************************************************************************)
EXTENDS Integers, SequencesExt, FiniteSetsExt

\* This layer's view of a policy.
limits_from(policy) == [
    compressed |-> policy.compressed_bytes, expanded |-> policy.expanded_bytes,
    member |-> policy.member_bytes, notices |-> policy.notices,
    container_count |-> policy.container_count, container |-> policy.container_bytes]

\* What parse_notice refuses, for either form.
ParseFaults == [
    legacy |-> {"name", "encoding", "declaration", "malformed", "root", "doc_id", "version"},
    eforms |-> {"name", "encoding", "declaration", "malformed", "root", "customization",
                "identifier"}]

\* What only project_member refuses.
ProjectFaults == [
    legacy |-> {"coded_section", "publication_date", "dispatch_date"},
    eforms |-> {"publication_date", "dispatch_date", "change_reference"}]

Parses(m) == m.wrong \notin ParseFaults[m.form]
Projects(m) == m.wrong \notin ProjectFaults[m.form]

Start == [spent |-> 0, notices |-> 0, containers |-> 0, layout |-> "empty",
          keys |-> {}, rejected |-> 0, duplicates |-> 0, fault |-> FALSE]

Fault(w) == [w EXCEPT !.fault = TRUE]

\* One budget for the outer archive and its containers.  A read stops one unit past it,
\* which is what tells a budget that is reached from one that is exceeded.
Spend(w, n, l) ==
    LET spent == Min({w.spent + n, l.expanded + 1}) IN
    [w EXCEPT !.spent = spent, !.fault = @ \/ spent > l.expanded]

Claim(w, layout) ==
    IF w.layout \in {"empty", layout} THEN [w EXCEPT !.layout = layout] ELSE Fault(w)

\* A fault of one member: the survey counts it, the others stop.
Reject(w, caller) ==
    IF caller = "survey" THEN [w EXCEPT !.rejected = @ + 1] ELSE Fault(w)

\* The caller is "inspect", "load" or "survey".
\* Variant: the survey counts what parses.
ReceiveUnprojected(w, m, caller) ==
    IF caller = "load" /\ ~Projects(m) THEN Fault(w)
    ELSE IF m.key \notin w.keys THEN [w EXCEPT !.keys = @ \cup {m.key}]
    ELSE IF caller = "survey" THEN [w EXCEPT !.duplicates = @ + 1]
    ELSE Fault(w)

\* What the caller does with a member that parsed.
Receive(w, m, caller) ==
    IF caller # "inspect" /\ ~Projects(m) THEN Reject(w, caller)
    ELSE IF m.key \notin w.keys THEN [w EXCEPT !.keys = @ \cup {m.key}]
    ELSE IF caller = "survey" THEN [w EXCEPT !.duplicates = @ + 1]
    ELSE Fault(w)

\* _notice: one candidate member, already known to be a regular file.
Notice(w, m, l, caller, outer) ==
    IF m.size > l.member \/ w.notices >= l.notices THEN Fault(w)
    ELSE LET read == [Spend(w, m.size, l) EXCEPT !.notices = @ + 1]
             placed == IF m.kind = "xml" /\ outer THEN Claim(read, "flat") ELSE read
         IN IF read.fault \/ placed.fault THEN Fault(placed)
            ELSE IF m.kind # "xml" \/ ~Parses(m) THEN Reject(placed, caller)
            ELSE Receive(placed, m, caller)

\* _drain: to the end of the gzip stream, which holds nothing but padding.
Drain(w, a, l) ==
    IF w.fault THEN w
    ELSE IF a.tail # "padding" THEN Fault(w)
    ELSE Spend(w, a.padding, l)

\* One member of a container.
Nested(w, m, l, caller) ==
    LET headed == Spend(w, 1, l) IN
    IF w.fault THEN w
    ELSE IF headed.fault \/ m.kind \in {"unsafe", "special", "container"} THEN Fault(headed)
    ELSE IF m.kind = "directory" THEN headed
    ELSE Notice(headed, m, l, caller, FALSE)

\* _container: the bytes it takes in the outer archive are charged, and what it expands to.
Container(w, m, l, caller) ==
    LET opened == [Spend(w, m.size, l) EXCEPT !.containers = @ + 1] IN
    IF w.fault \/ w.containers >= l.container_count \/ m.size > l.container THEN Fault(w)
    ELSE Drain(FoldLeft(LAMBDA v, inner : Nested(v, inner, l, caller), opened, m.inside.members),
               m.inside, l)

\* One member of the outer archive.  Where no container is allowed, one is an ordinary
\* member with an unsupported name.
Member(w, m, l, caller) ==
    LET headed == Spend(w, 1, l) IN
    IF w.fault THEN w
    ELSE IF headed.fault \/ m.kind \in {"unsafe", "special"} THEN Fault(headed)
    ELSE IF m.kind = "directory" THEN headed
    ELSE IF m.kind = "container" /\ l.container_count > 0
         THEN Container(Claim(headed, "nested"), m, l, caller)
    ELSE Notice(headed, m, l, caller, TRUE)

Walk(a, l, caller) ==
    IF a.compressed > l.compressed THEN Fault(Start)
    ELSE Drain(FoldLeft(LAMBDA w, m : Member(w, m, l, caller), Start, a.members), a, l)

\* What each reader says of an archive.
inspect_package(a, l) == ~Walk(a, l, "inspect").fault
load_accepts(a, l) == ~Walk(a, l, "load").fault
compatible_for_load(a, l) ==
    LET w == Walk(a, l, "survey") IN ~w.fault /\ w.rejected = 0 /\ w.duplicates = 0

-----------------------------------------------------------------------------
(* What the walk is given *)

IsLimits(l) ==
    l \in [compressed : Nat, expanded : Nat, member : Nat, notices : Nat,
           container_count : Nat, container : Nat]

IsLayer(a) ==
    /\ a.padding \in Nat
    /\ a.members \in Seq(Range(a.members))
    /\ \A m \in Range(a.members) : m.size \in Nat

\* What a container inside a container holds is never looked at.
IsArchive(a) ==
    /\ a.compressed \in Nat
    /\ IsLayer(a)
    /\ \A m \in Range(a.members) : m.kind = "container" => IsLayer(m.inside)

-----------------------------------------------------------------------------
(* What the walk decides, without walking *)

IsOpened(m, l) == m.kind = "container" /\ l.container_count > 0

\* The positions of the containers.
Opened(a, l) == {i \in DOMAIN a.members : IsOpened(a.members[i], l)}

\* Where members are: <<i, 0>> is the i-th of the archive, <<i, j>> the j-th inside that one.
Places(a, l) ==
    {<<i, 0>> : i \in DOMAIN a.members} \cup
    UNION {{<<i, j>> : j \in DOMAIN a.members[i].inside.members} : i \in Opened(a, l)}

At(a, p) == IF p[2] = 0 THEN a.members[p[1]] ELSE a.members[p[1]].inside.members[p[2]]

Regular(m) == m.kind \notin {"directory", "unsafe", "special"}

\* The places of what should be a notice.
Candidates(a, l) ==
    {p \in Places(a, l) : Regular(At(a, p)) /\ (p[2] = 0 => p[1] \notin Opened(a, l))}

Total(sizes) == FoldLeft(+, 0, sizes)

Weight(m) == 1 + (IF Regular(m) THEN m.size ELSE 0)

\* What the members of one archive and its end expand to.
Content(a) == a.padding + Total([i \in DOMAIN a.members |-> Weight(a.members[i])])

Expansion(a, l) ==
    Content(a) + Total([i \in DOMAIN a.members |->
        IF i \in Opened(a, l) THEN Content(a.members[i].inside) ELSE 0])

\* Nothing that makes reading on unsafe or meaningless.
SafeArchive(a, l) ==
    /\ a.compressed <= l.compressed
    /\ a.tail = "padding"
    /\ Expansion(a, l) <= l.expanded
    /\ Cardinality(Opened(a, l)) <= l.container_count
    /\ \A i \in Opened(a, l) :
        a.members[i].size <= l.container /\ a.members[i].inside.tail = "padding"
    /\ \A p \in Places(a, l) :
        /\ At(a, p).kind \notin {"unsafe", "special"}
        /\ p[2] # 0 => At(a, p).kind # "container"
        /\ p[2] = 0 /\ Opened(a, l) # {} => At(a, p).kind # "xml"
    /\ Cardinality(Candidates(a, l)) <= l.notices
    /\ \A p \in Candidates(a, l) : At(a, p).size <= l.member

\* A package: every candidate is a notice, and no identity comes twice.
IsPackage(a, l) ==
    /\ SafeArchive(a, l)
    /\ \A p \in Candidates(a, l) : At(a, p).kind = "xml" /\ Parses(At(a, p))
    /\ \A p, q \in Candidates(a, l) : At(a, p).key = At(a, q).key => p = q

\* A package every notice of which can be projected.
IsLoadable(a, l) ==
    /\ IsPackage(a, l)
    /\ \A p \in Candidates(a, l) : Projects(At(a, p))
=============================================================================
