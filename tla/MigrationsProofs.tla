----------------------------- MODULE MigrationsProofs -----------------------------
(***************************************************************************)
(* However many processes run migrate, in whatever versions of the code,   *)
(* the schema is what one of them would have left.                         *)
(***************************************************************************)
EXTENDS Migrations, SequenceTheorems, TLAPS

\* What has been applied in order is the versions up to the last.
LEMMA PrefixRange ==
    ASSUME applied \in Seq(1..Versions), applied = [i \in 1..Len(applied) |-> i]
    PROVE  Range(applied) = 1..Len(applied) /\ Range(applied) \subseteq 1..Versions
<1>1. DOMAIN applied = 1..Len(applied)
  OBVIOUS
<1>2. \A i \in 1..Len(applied) : applied[i] = i /\ applied[i] \in 1..Versions
  <2> DEFINE n == Len(applied)
  <2>1. applied = [i \in 1..n |-> i]
    OBVIOUS
  <2>2. \A i \in 1..n : applied[i] \in 1..Versions
    BY ElementOfSeq
  <2> HIDE DEF n
  <2>3. \A i \in 1..n : applied[i] = i
    BY <2>1
  <2> QED
    BY <2>2, <2>3 DEF n
<1>3. Range(applied) = 1..Len(applied)
  BY <1>1, <1>2 DEF Range
<1> QED
  BY <1>2, <1>3

\* The next version of a call that knows the first n is the one after them.
LEMMA NextVersion ==
    ASSUME NEW m \in Migrators, NEW n \in Nat, migrator[m].known = 1..n, Pending(m) # {}
    PROVE  Min(Pending(m)) = n + 1 /\ n + 1 <= UpTo[m]
<1>1. UpTo[m] \in Nat
  BY MigrationsAssumption
<1>2. Pending(m) = (n + 1)..UpTo[m]
  BY <1>1 DEF Pending
<1>3. n + 1 <= UpTo[m]
  BY <1>1, <1>2
<1>4. n + 1 \in Pending(m) /\ \A y \in Pending(m) : n + 1 <= y
  BY <1>1, <1>2, <1>3
<1>5. \A x \in Pending(m) : (\A y \in Pending(m) : x <= y) => x = n + 1
  BY <1>1, <1>2, <1>4
<1> QED
  BY <1>3, <1>4, <1>5 DEF Min

\* A call with nothing left knows everything it was asked for, and what it knows is there.
LEMMA ReturnsComplete ==
    ASSUME NEW m \in Migrators, NEW n \in Nat, migrator[m].known = 1..n, Pending(m) = {},
           applied \in Seq(1..Versions), applied = [i \in 1..Len(applied) |-> i],
           n <= Len(applied)
    PROVE  1..UpTo[m] \subseteq Range(applied)
<1>1. 1..UpTo[m] \subseteq 1..n
  BY DEF Pending
<1>2. 1..n \subseteq 1..Len(applied)
  BY LenProperties
<1> QED
  BY <1>1, <1>2, PrefixRange

\* The first half of SchemaIsPrefix and what calls know give the other half.
LEMMA PrefixSuffices ==
    ASSUME MTypeOK, applied = [i \in 1..Len(applied) |-> i], CallsKnowPrefix
    PROVE  SchemaIsPrefix
<1> SUFFICES ASSUME NEW m \in Migrators, migrator[m].running, Pending(m) = {}
             PROVE  1..UpTo[m] \subseteq Range(applied)
  BY DEF SchemaIsPrefix
<1>1. PICK n \in 0..Len(applied) : migrator[m].known = 1..n
  BY DEF CallsKnowPrefix
<1> QED
  BY <1>1, ReturnsComplete DEF MTypeOK

-----------------------------------------------------------------------------

\* An empty database, with no process at work on it, satisfies the invariant.
LEMMA MInitInv == MInit => MInv
<1> SUFFICES ASSUME MInit PROVE MInv
  OBVIOUS
<1>1. MTypeOK
  BY MigrationsAssumption DEF MInit, MTypeOK, NotMigrating
<1>2. applied = [i \in 1..Len(applied) |-> i]
  BY DEF MInit
<1>3. CallsKnowPrefix
  BY DEF MInit, CallsKnowPrefix, NotMigrating
<1> QED
  BY <1>1, <1>2, <1>3, PrefixSuffices DEF MInv

\* A call that ends takes nothing back.
LEMMA EndKeepsInv ==
    ASSUME MInv, NEW m \in Migrators, UNCHANGED <<applied, upgrades>>,
           migrator' = [migrator EXCEPT ![m] = NotMigrating]
    PROVE  MTypeOK' /\ (applied = [i \in 1..Len(applied) |-> i])' /\ CallsKnowPrefix'
<1>1. MTypeOK'
  BY DEF MInv, MTypeOK, NotMigrating
<1>2. (applied = [i \in 1..Len(applied) |-> i])'
  BY DEF MInv, SchemaIsPrefix
<1>3. CallsKnowPrefix'
  BY DEF MInv, MTypeOK, CallsKnowPrefix, NotMigrating
<1> QED
  BY <1>1, <1>2, <1>3

\* Every step of an upgrade, and every interruption, keeps the invariant.
LEMMA MStepInv == MInv /\ [Migrate]_schema => MInv'
<1> SUFFICES ASSUME MInv, [Migrate]_schema PROVE MInv'
  OBVIOUS
<1> DEFINE InOrder == applied = [i \in 1..Len(applied) |-> i]
<1> SUFFICES MTypeOK' /\ InOrder' /\ CallsKnowPrefix'
  BY PrefixSuffices, PTL DEF MInv
<1> USE DEF MInv
<1>1. ASSUME NEW m \in Migrators, Upgrade(m)
      PROVE  MTypeOK' /\ InOrder' /\ CallsKnowPrefix'
  <2>1. Range(applied) = 1..Len(applied) /\ Len(applied) \in Nat
    BY PrefixRange DEF MTypeOK, SchemaIsPrefix
  <2>2. Range(applied) \subseteq 1..Versions
    BY PrefixRange DEF MTypeOK, SchemaIsPrefix
  <2>3. MTypeOK'
    BY <1>1, <2>2, MigrationsAssumption DEF MTypeOK, Upgrade
  <2>4. InOrder'
    BY <1>1 DEF Upgrade, SchemaIsPrefix
  <2>5. CallsKnowPrefix'
    BY <1>1, <2>1 DEF MTypeOK, Upgrade, CallsKnowPrefix
  <2> QED
    BY <2>3, <2>4, <2>5
<1>2. ASSUME NEW m \in Migrators, ApplyNext(m)
      PROVE  MTypeOK' /\ InOrder' /\ CallsKnowPrefix'
  <2>1. PICK n \in 0..Len(applied) : migrator[m].known = 1..n
    BY <1>2 DEF CallsKnowPrefix, ApplyNext
  <2> DEFINE v == Min(Pending(m))
  <2>2. n \in Nat /\ Len(applied) \in Nat
    BY DEF MTypeOK
  <2>3. v = n + 1 /\ n + 1 <= UpTo[m]
    BY <1>2, <2>1, <2>2, NextVersion DEF ApplyNext
  <2>4. v \in 1..Versions
    BY <2>2, <2>3, MigrationsAssumption
  <2>5. CASE Applies(v)
    <3>1. /\ applied' = Append(applied, v)
          /\ migrator' = [migrator EXCEPT ![m].known = @ \cup {v}]
          /\ upgrades' = upgrades
      BY <1>2, <2>5 DEF ApplyNext
    <3>2. n = Len(applied)
      <4>1. v \notin 1..Len(applied)
        BY <2>5, PrefixRange DEF Applies, MTypeOK, SchemaIsPrefix
      <4> HIDE DEF v
      <4> QED
        BY <2>2, <2>3, <4>1
    <3>3. MTypeOK'
      <4>1. applied' \in Seq(1..Versions)
        BY <2>4, <3>1 DEF MTypeOK
      <4>2. migrator' \in [Migrators -> [running : BOOLEAN, known : SUBSET (1..Versions)]]
        BY <2>4, <3>1 DEF MTypeOK
      <4> QED
        BY <3>1, <4>1, <4>2 DEF MTypeOK
    <3>4. InOrder'
      <4>1. Len(applied') = Len(applied) + 1
        BY <3>1 DEF MTypeOK
      <4>2. \A i \in 1..Len(applied') : applied'[i] = i
        BY <2>2, <2>3, <3>1, <3>2, <4>1 DEF MTypeOK, SchemaIsPrefix
      <4>3. DOMAIN applied' = 1..Len(applied') /\ applied' = [i \in DOMAIN applied' |-> applied'[i]]
        BY <3>3 DEF MTypeOK
      <4> QED
        BY <4>2, <4>3
    <3>5. CallsKnowPrefix'
      <4> SUFFICES ASSUME NEW o \in Migrators, migrator'[o].running
                   PROVE  \E k \in 0..Len(applied') : migrator'[o].known = 1..k
        BY DEF CallsKnowPrefix
      <4>1. Len(applied') = Len(applied) + 1
        BY <3>1 DEF MTypeOK
      <4>2. CASE o = m
        <5>1. migrator'[o].known = 1..(n + 1)
          BY <2>1, <2>2, <2>3, <3>1, <4>2 DEF MTypeOK
        <5> QED
          BY <2>2, <3>2, <4>1, <5>1
      <4>3. CASE o # m
        <5>1. migrator'[o] = migrator[o]
          BY <3>1, <4>3 DEF MTypeOK
        <5>2. PICK k \in 0..Len(applied) : migrator[o].known = 1..k
          BY <5>1 DEF CallsKnowPrefix
        <5> QED
          BY <2>2, <4>1, <5>1, <5>2
      <4> QED
        BY <4>2, <4>3
    <3> QED
      BY <3>3, <3>4, <3>5
  <2>6. CASE ~Applies(v)
    BY <1>2, <2>6, EndKeepsInv DEF ApplyNext
  <2> QED
    BY <2>5, <2>6
<1>3. ASSUME NEW m \in Migrators, UpgradeReturns(m) \/ UpgradeFails(m)
      PROVE  MTypeOK' /\ InOrder' /\ CallsKnowPrefix'
  BY <1>3, EndKeepsInv DEF UpgradeReturns, UpgradeFails
<1>4. ASSUME UNCHANGED schema
      PROVE  MTypeOK' /\ InOrder' /\ CallsKnowPrefix'
  BY <1>4 DEF schema, MTypeOK, SchemaIsPrefix, CallsKnowPrefix
<1> QED
  BY <1>1, <1>2, <1>3, <1>4 DEF Migrate

\* However upgrades overlap or die, and whatever versions of the code run them, the schema
\* is the versions up to some last one in order, each applied once, and a call that has
\* nothing left to do has left everything it was asked for (db/__init__.py, migrate).
THEOREM UpgradesInOrder == MSpec => []SchemaIsPrefix
<1>1. MInv => SchemaIsPrefix
  BY DEF MInv
<1> QED
  BY MInitInv, MStepInv, <1>1, PTL DEF MSpec
=============================================================================
