----------------------------- MODULE DownloadProofs -----------------------------
(***************************************************************************)
(* What a download leaves behind, for any bodies, budgets and numbers of   *)
(* attempts and deaths, and what readers say of it.                        *)
(***************************************************************************)
EXTENDS Acquisition, PackageProofs, TLAPS

\* Only a synced file takes a name: what the power leaves of one is the file.
NamesAreSynced ==
    /\ destination.synced /\ durable.synced
    /\ destination # NoFile => Whole(destination)
    /\ durable # NoFile => Whole(durable)

\* The partial file is there from the reply to the rename, and synced when it is read.
PartialShape ==
    /\ at \in {"idle", "attempt", "open", "sync"} => temporary = NoFile
    /\ at = "stream" => temporary.of \in Body
    /\ at \in {"measure", "validate"} => temporary.of \in Body /\ temporary.synced

\* While the call goes on every chunk received was charged, and the budget holds.
BudgetShape ==
    /\ TransferIsBounded
    /\ at # "idle" => received = used /\ used <= MaxTotalBytes

DInv == TypeOK /\ NamesAreSynced /\ PartialShape /\ BudgetShape /\ LitterHasCause

\* Nothing is on disk before the first call.
LEMMA DInitDInv == Init => DInv
<1>. SUFFICES ASSUME Init PROVE DInv
  OBVIOUS
<1>. USE DEF Init
<1>1. /\ 1 \in 1..MaxAttempts /\ 0 \in 0..MaxDeaths /\ 0 \in 0..MaxUnremoved
      /\ 0 <= MaxTotalBytes + 1
  BY DownloadAssumption
<1>2. TypeOK
  BY <1>1 DEF TypeOK
<1>3. NamesAreSynced /\ PartialShape
  BY DEF NamesAreSynced, PartialShape, NoFile
<1>4. BudgetShape
  BY <1>1 DEF BudgetShape, TransferIsBounded
<1>5. LitterHasCause
  BY DEF LitterHasCause
<1>. QED  BY <1>2, <1>3, <1>4, <1>5 DEF DInv

-----------------------------------------------------------------------------
(* How an attempt ends *)

\* Everything but where the call is, its attempt, its budget and its partial file.
Rest == <<destination, durable, deaths, late, received, declared>>

\* The partial file is gone, or left behind as one whose removal failed.
LEMMA DiscardLeaves ==
    ASSUME DInv, Discard, UNCHANGED deaths
    PROVE  /\ temporary' = NoFile /\ litter' \in Nat /\ unremoved' \in 0..MaxUnremoved
           /\ litter' <= deaths' + unremoved'
<1>. USE DEF DInv, TypeOK
<1>1. /\ litter \in Nat /\ unremoved \in 0..MaxUnremoved /\ MaxUnremoved \in Nat
      /\ deaths \in Nat /\ litter <= deaths + unremoved
  BY DownloadAssumption DEF LitterHasCause
<1>2. CASE temporary' = NoFile /\ UNCHANGED <<litter, unremoved>>
  BY <1>1, <1>2
<1>3. CASE unremoved < MaxUnremoved /\ unremoved' = unremoved + 1 /\ Abandon
  <2>1. temporary' = NoFile /\ litter' \in {litter, litter + 1}
    BY <1>3 DEF Abandon
  <2>. QED  BY <1>1, <1>3, <2>1
<1>. QED  BY <1>2, <1>3 DEF Discard

\* Raising and trying again give up the partial file and charge nothing.
LEMMA EndsClean ==
    ASSUME DInv, at # "idle",
           (Raise /\ UNCHANGED <<attempt, used>>) \/ TryAgain, UNCHANGED Rest
    PROVE  DInv'
<1>. USE DEF Rest, DInv
<1>1. /\ Discard /\ UNCHANGED used
      /\ at' \in {"idle", "attempt"} /\ attempt' \in 1..MaxAttempts
  BY DownloadAssumption DEF Raise, TryAgain, Spent, LastAttempt, TypeOK
<1>2. /\ temporary' = NoFile /\ litter' \in Nat /\ unremoved' \in 0..MaxUnremoved
      /\ litter' <= deaths' + unremoved'
  BY <1>1, DiscardLeaves
<1>3. TypeOK' /\ LitterHasCause'
  BY <1>1, <1>2 DEF TypeOK, LitterHasCause
<1>4. NamesAreSynced' /\ PartialShape' /\ BudgetShape'
  BY <1>1, <1>2 DEF NamesAreSynced, PartialShape, BudgetShape, TransferIsBounded, Whole
<1>. QED  BY <1>3, <1>4

\* A death or a loss of power leaves at most one partial file more.
LEMMA DeathLitters ==
    ASSUME DInv, deaths < MaxDeaths, deaths' = deaths + 1, Abandon, at' = "idle",
           destination' \in {destination, durable}, durable' \in {durable, destination'},
           UNCHANGED <<unremoved, attempt, late, used, received, declared>>
    PROVE  DInv'
<1>. USE DEF DInv
<1>1. /\ temporary' = NoFile /\ litter' \in Nat /\ litter' <= litter + 1
      /\ deaths' \in 0..MaxDeaths
  BY DownloadAssumption DEF Abandon, TypeOK
<1>2. TypeOK'
  BY <1>1 DEF TypeOK
<1>3. NamesAreSynced'
  BY DEF NamesAreSynced, Whole
<1>4. PartialShape' /\ BudgetShape'
  BY <1>1 DEF PartialShape, BudgetShape, TransferIsBounded
<1>5. LitterHasCause'
  BY <1>1 DEF TypeOK, LitterHasCause
<1>. QED  BY <1>2, <1>3, <1>4, <1>5

\* A file of a body is a file, also in the place of none.
LEMMA HasBody == ASSUME NEW f \in File \cup {NoFile}, f.of \in Body PROVE f \in File
<1>1. CASE f = NoFile
  <2>1. None \in Body
    BY <1>1 DEF NoFile
  <2>2. [of |-> None, length |-> 0, synced |-> TRUE] \in File
    BY <2>1 DEF File
  <2>. QED  BY <1>1, <2>2 DEF NoFile
<1>. QED  BY <1>1

\* Every step of the call, of the disk and of the machine keeps the invariant.
LEMMA DNextDInv == DInv /\ [Next]_vars => DInv'
<1>. SUFFICES ASSUME DInv, [Next]_vars PROVE DInv'
  OBVIOUS
<1>. USE DEF DInv, disk
<1>1. CASE Begin
  <2>1. 1 \in 1..MaxAttempts /\ 0 <= MaxTotalBytes /\ 0 <= MaxTotalBytes + 1
    BY DownloadAssumption
  <2>2. TypeOK'
    BY <1>1, <2>1 DEF Begin, TypeOK
  <2>. QED  BY <1>1, <2>1, <2>2
            DEF Begin, NamesAreSynced, PartialShape, BudgetShape, TransferIsBounded, Whole,
                               LitterHasCause
<1>2. CASE Expire \/ Attempt
  <2>1. TypeOK'
    BY <1>2 DEF Expire, Attempt, TypeOK
  <2>. QED  BY <1>2, <2>1 DEF Expire, Attempt, NamesAreSynced, PartialShape, BudgetShape,
                               TransferIsBounded, Whole, LitterHasCause
<1>3. CASE Refuse \/ NoReply \/ Interrupted \/ Break
  BY <1>3, EndsClean DEF Refuse, NoReply, Interrupted, Break, Rest
<1>4. CASE Reply
  <2>1. PICK b \in Body : temporary' = [of |-> b, length |-> 0, synced |-> FALSE]
    BY <1>4 DEF Reply
  <2>2. temporary' \in File /\ temporary'.of \in Body
    BY <2>1 DEF File
  <2>3. declared' \in Nat \cup {None}
    BY <1>4, DownloadAssumption DEF Reply
  <2>4. TypeOK'
    BY <1>4, <2>2, <2>3 DEF Reply, TypeOK
  <2>. QED  BY <1>4, <2>2, <2>4 DEF Reply, NamesAreSynced, PartialShape, BudgetShape,
                                     TransferIsBounded, Whole, LitterHasCause
<1>5. CASE Chunk
  <2>1. /\ at = "stream" /\ received = used /\ used <= MaxTotalBytes /\ used \in Nat
        /\ received' = received + 1 /\ used' \in {used, used + 1}
        /\ UNCHANGED <<destination, durable, deaths, attempt, late, declared>>
    BY <1>5 DEF Chunk, BudgetShape, TypeOK
  <2>2. TransferIsBounded' /\ used' \in Nat /\ received' \in Nat
    <3>1. MaxTotalBytes \in Nat
      BY DownloadAssumption
    <3>2. used + 1 <= MaxTotalBytes + 1 /\ used' \in Nat /\ received' \in Nat
      BY <2>1, <3>1
    <3>3. received' = used + 1 /\ used + 1 \in {used', used' + 1}
      BY <2>1
    <3>. QED  BY <3>2, <3>3 DEF TransferIsBounded
  <2>3. NamesAreSynced'
    BY <2>1 DEF NamesAreSynced, Whole
  <2>4. CASE at' = "idle" /\ Discard
    <3>1. /\ temporary' = NoFile /\ litter' \in Nat /\ unremoved' \in 0..MaxUnremoved
          /\ litter' <= deaths' + unremoved'
      BY <2>1, <2>4, DiscardLeaves
    <3>2. TypeOK' /\ LitterHasCause'
      BY <2>1, <2>2, <2>4, <3>1 DEF TypeOK, LitterHasCause
    <3>. QED  BY <2>1, <2>2, <2>3, <2>4, <3>1, <3>2 DEF PartialShape, BudgetShape
  <2>5. CASE /\ ~late /\ used' <= MaxTotalBytes /\ UNCHANGED <<at, litter, unremoved>>
             /\ temporary' = [temporary EXCEPT !.length = @ + 1]
    <3>1. temporary \in File /\ temporary.of \in Body
      BY <2>1, HasBody DEF TypeOK, PartialShape
    <3>2. temporary' \in File /\ temporary'.of = temporary.of
      <4>1. temporary.length \in Nat /\ temporary.length + 1 \in Nat
        BY <3>1 DEF File
      <4>. QED  BY <2>5, <3>1, <4>1 DEF File
    <3>3. TypeOK'
      BY <2>1, <2>2, <2>5, <3>2 DEF TypeOK
    <3>4. used' = used + 1
      BY <1>5, <2>5 DEF Chunk
    <3>. QED  BY <2>1, <2>2, <2>3, <2>5, <3>1, <3>2, <3>3, <3>4
              DEF PartialShape, BudgetShape, LitterHasCause
  <2>6. used' <= MaxTotalBytes \/ used' > MaxTotalBytes
    BY <2>2, DownloadAssumption
  <2>. QED  BY <1>5, <2>4, <2>5, <2>6 DEF Chunk, Raise
<1>6. CASE End
  <2>1. CASE late
    BY <1>6, <2>1, EndsClean DEF End, Rest
  <2>2. CASE ~late
    <3>1. /\ temporary' = [temporary EXCEPT !.synced = TRUE] /\ at' = "measure" /\ at = "stream"
          /\ UNCHANGED <<destination, durable, litter, unremoved, deaths, attempt, late, used,
                         received, declared>>
      BY <1>6, <2>2 DEF End
    <3>2. temporary \in File /\ temporary.of \in Body
      BY <3>1, HasBody DEF TypeOK, PartialShape
    <3>3. temporary' \in File /\ temporary'.of \in Body /\ temporary'.synced
      BY <3>1, <3>2 DEF File
    <3>4. TypeOK'
      BY <3>1, <3>3 DEF TypeOK
    <3>. QED  BY <3>1, <3>3, <3>4 DEF NamesAreSynced, PartialShape, BudgetShape,
                                      TransferIsBounded, Whole, LitterHasCause
  <2>. QED  BY <2>1, <2>2
<1>7. CASE Measure
  <2>1. CASE TryAgain
    BY <1>7, <2>1, EndsClean DEF Measure, Rest
  <2>2. CASE at' = "validate" /\ UNCHANGED <<temporary, litter, unremoved, attempt, used>>
    <3>1. TypeOK'
      BY <1>7, <2>2 DEF Measure, TypeOK
    <3>. QED  BY <1>7, <2>2, <3>1 DEF Measure, NamesAreSynced, PartialShape, BudgetShape,
                                       TransferIsBounded, Whole, LitterHasCause
  <2>. QED  BY <1>7, <2>1, <2>2 DEF Measure
<1>8. CASE Validate
  <2>1. CASE ~Whole(temporary)
    BY <1>8, <2>1, EndsClean DEF Validate, Rest
  <2>2. CASE Whole(temporary)
    <3>1. /\ destination' = temporary /\ temporary' = NoFile /\ at = "validate" /\ at' = "sync"
          /\ UNCHANGED <<litter, unremoved, durable, deaths, attempt, late, used, received,
                         declared>>
      BY <1>8, <2>2 DEF Validate
    <3>2. TypeOK'
      BY <3>1 DEF TypeOK
    <3>3. NamesAreSynced'
      BY <2>2, <3>1 DEF NamesAreSynced, PartialShape, Whole
    <3>. QED  BY <3>1, <3>2, <3>3 DEF PartialShape, BudgetShape, TransferIsBounded, LitterHasCause
  <2>. QED  BY <2>1, <2>2
<1>9. CASE SyncDirectory
  <2>1. TypeOK'
    BY <1>9 DEF SyncDirectory, TypeOK
  <2>. QED  BY <1>9, <2>1 DEF SyncDirectory, NamesAreSynced, PartialShape, BudgetShape,
                               TransferIsBounded, Whole, LitterHasCause
<1>10. CASE Die
  BY <1>10, DeathLitters DEF Die
<1>11. CASE LosePower
  <2>1. Surviving(destination) = {destination} /\ Surviving(durable) = {durable}
    BY DEF NamesAreSynced, Surviving
  <2>. QED  BY <1>11, <2>1, DeathLitters DEF LosePower
<1>12. CASE UNCHANGED vars
  BY <1>12 DEF vars, TypeOK, NamesAreSynced, PartialShape, BudgetShape, TransferIsBounded, Whole,
                               LitterHasCause
<1>. QED  BY <1>1, <1>2, <1>3, <1>4, <1>5, <1>6, <1>7, <1>8, <1>9, <1>10, <1>11, <1>12 DEF Next

\* What holds before, between and after the steps of download_package and the deaths.
LEMMA DInvariance == Spec => []DInv
BY DInitDInv, DNextDInv, PTL DEF Spec

\* The partial file, the budgets and the names download_package gives keep their types.
THEOREM DTypeCorrect == Spec => []TypeOK
<1>1. DInv => TypeOK
  BY DEF DInv
<1>. QED  BY <1>1, DInvariance, PTL

\* download_package validates and syncs a partial file before it renames it: whatever the
\* server sends and wherever process and power fail, a name only ever shows a whole package.
THEOREM NamesAreWhole == Spec => []DestinationIsWhole
<1>1. DInv => DestinationIsWhole
  BY DEF DInv, NamesAreSynced, DestinationIsWhole
<1>. QED  BY <1>1, DInvariance, PTL

\* _ByteBudget is one for all attempts of a call: it receives at most one chunk past it.
THEOREM TransfersAreBounded == Spec => []TransferIsBounded
<1>1. DInv => TransferIsBounded
  BY DEF DInv, BudgetShape
<1>. QED  BY <1>1, DInvariance, PTL

\* Every way out of download_package removes the partial file of its attempt: what stays,
\* through any deaths and any removals that fail unheard, is one file for each of them.
THEOREM LitterIsCaused == Spec => []LitterHasCause
<1>1. DInv => LitterHasCause
  BY DEF DInv
<1>. QED  BY <1>1, DInvariance, PTL

-----------------------------------------------------------------------------
(* What readers say of it *)

\* Nothing that a server may send is judged wrongly.
LEMMA BodiesAreExact == Body \subseteq ExactBodies
<1>1. SUFFICES ASSUME NEW b \in Body PROVE Exact(Archives[b])
  BY DEF ExactBodies
<1> DEFINE a == Archives[b]
<1>2. IsArchive(a) /\ IsLimits(Limits) /\ IsLimits(OtherLimits)
  BY AcquisitionAssumption
<1>3. \A limit \in DOMAIN Limits : OtherLimits[limit] <= Limits[limit]
  BY AcquisitionAssumption
<1> HIDE DEF a
<1>4. ASSUME NEW l \in {Limits, OtherLimits}
      PROVE  /\ inspect_package(a, l) <=> IsPackage(a, l)
             /\ load_accepts(a, l) <=> IsLoadable(a, l)
             /\ compatible_for_load(a, l) <=> IsLoadable(a, l)
  <2>1. IsLimits(l)
    BY <1>2
  <2> QED
    BY <1>2, <2>1, InspectorIsExact, LoaderIsExact, SurveyIsExact
<1>5. load_accepts(a, OtherLimits) => load_accepts(a, Limits)
  BY <1>2, <1>3, WiderLimitsLoadMore
<1> QED
  BY <1>4, <1>5 DEF Exact, a

\* Inspector, loader and survey agree with what a package is on everything that a download
\* ever has in its hands, and a label that is no identity can only have work refused
\* (download.py, download_package; packages.py).
THEOREM VerdictsHold == Spec => []VerdictsAreExact
<1>1. DInv => VerdictsAreExact
  BY BodiesAreExact DEF DInv, TypeOK, VerdictsAreExact, File
<1>2. Spec => []DInv
  BY DInvariance
<1> QED
  BY <1>1, <1>2, PTL
=============================================================================
