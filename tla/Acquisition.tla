------------------------------- MODULE Acquisition -------------------------------
(***************************************************************************)
(* A download of an archive that is one of many, and what the readers of   *)
(* archives say of what it leaves: Download with the bodies of Archive.    *)
(***************************************************************************)
EXTENDS Download, Archive

CONSTANTS
    Archives,       \* a sequence; a body is the archive at its position
    Limits,         \* of the package that is acquired
    OtherLimits     \* the narrowest, of a label that is no identity

ASSUME AcquisitionAssumption ==
    /\ Body = DOMAIN Archives
    /\ \A b \in Body : Length[b] = Archives[b].compressed
    /\ Packages = {b \in Body : inspect_package(Archives[b], Limits)}
    /\ MaxArtifactBytes = Limits.compressed
    /\ \A b \in Body : IsArchive(Archives[b])
    /\ IsLimits(Limits) /\ IsLimits(OtherLimits)
    /\ \A limit \in DOMAIN Limits : OtherLimits[limit] <= Limits[limit]

\* Under either limits, the walk accepts for each reader exactly what that reader needs,
\* and the survey, which reads on where a load stops, says what the load would do.  The
\* narrower ones only refuse more.
Exact(a) ==
    /\ \A l \in {Limits, OtherLimits} :
        /\ inspect_package(a, l) <=> IsPackage(a, l)
        /\ load_accepts(a, l) <=> IsLoadable(a, l)
        /\ compatible_for_load(a, l) <=> IsLoadable(a, l)
    /\ load_accepts(a, OtherLimits) => load_accepts(a, Limits)

ExactBodies == {b \in Body : Exact(Archives[b])}

-----------------------------------------------------------------------------
(* Properties *)

\* Inspector, loader and survey agree, archive by archive, with what a package is: one
\* budget for all that expands, no layout mixed or nested twice, no member past a limit,
\* nothing after the end, no identity twice, whatever comes first in the archive.  The
\* survey never calls loadable what a load would refuse, nor the reverse; and a label that
\* is no identity can only have work refused.
VerdictsAreExact == temporary # NoFile => temporary.of \in ExactBodies
=============================================================================
