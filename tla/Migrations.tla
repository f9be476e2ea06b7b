-------------------------------- MODULE Migrations --------------------------------
(***************************************************************************)
(* migrate: apply every schema version that is not recorded yet, in order, *)
(* each with its record in one transaction (db/__init__.py).  What is      *)
(* recorded is read once, before the first of them; several processes may  *)
(* do this at once, and any may die between two transactions.              *)
(***************************************************************************)
EXTENDS Integers, FiniteSets, SequencesExt

CONSTANTS
    Migrators,      \* processes that may run "db upgrade"
    Versions,       \* how many the newest code has: 1..Versions, in their order
    UpTo,           \* [Migrators -> the last version of its code, or its up_to]
    MaxUpgrades     \* bound: calls of migrate

ASSUME MigrationsAssumption ==
    /\ Versions \in Nat \ {0} /\ UpTo \in [Migrators -> 1..Versions]
    /\ MaxUpgrades \in Nat

VARIABLES
    applied,        \* the versions in the order in which they were applied
    upgrades,       \* calls made
    migrator        \* [Migrators -> what its call has in memory]

schema == <<applied, upgrades, migrator>>

NotMigrating == [running |-> FALSE, known |-> {}]

MTypeOK ==
    /\ applied \in Seq(1..Versions)
    /\ upgrades \in 0..MaxUpgrades
    /\ migrator \in [Migrators -> [running : BOOLEAN, known : SUBSET (1..Versions)]]

MInit ==
    /\ applied = <<>> /\ upgrades = 0
    /\ migrator = [m \in Migrators |-> NotMigrating]

\* The versions the call has not applied and did not find recorded.
Pending(m) == (1..UpTo[m]) \ migrator[m].known

\* _recorded_versions, once.
Upgrade(m) ==
    /\ ~migrator[m].running
    /\ upgrades < MaxUpgrades
    /\ upgrades' = upgrades + 1
    /\ migrator' = [migrator EXCEPT ![m] = [running |-> TRUE, known |-> Range(applied)]]
    /\ UNCHANGED applied

\* Variant: statements that do not mind what is already there.
AppliesAgain(v) == TRUE

\* The statements create what must not exist yet, and the record has a primary key.
Applies(v) == v \notin Range(applied)

\* One transaction; what it raises ends the call.
ApplyNext(m) ==
    LET v == Min(Pending(m)) IN
    /\ migrator[m].running /\ Pending(m) # {}
    /\ IF Applies(v)
       THEN /\ applied' = Append(applied, v)
            /\ migrator' = [migrator EXCEPT ![m].known = @ \cup {v}]
       ELSE /\ migrator' = [migrator EXCEPT ![m] = NotMigrating]
            /\ UNCHANGED applied
    /\ UNCHANGED upgrades

UpgradeReturns(m) ==
    /\ migrator[m].running /\ Pending(m) = {}
    /\ migrator' = [migrator EXCEPT ![m] = NotMigrating]
    /\ UNCHANGED <<applied, upgrades>>

\* The process dies, or a statement is cancelled.
UpgradeFails(m) ==
    /\ migrator[m].running
    /\ migrator' = [migrator EXCEPT ![m] = NotMigrating]
    /\ UNCHANGED <<applied, upgrades>>

Migrate ==
    \E m \in Migrators : Upgrade(m) \/ ApplyNext(m) \/ UpgradeReturns(m) \/ UpgradeFails(m)

MSpec == MInit /\ [][Migrate]_schema

\* What a process of the newest code needs to find.
SchemaReady == Range(applied) = 1..Versions

-----------------------------------------------------------------------------
(* Properties *)

\* However upgrades of older and newer code overlap or die, the schema is what one upgrade
\* leaves: the versions from the first to some last one, in order, each applied once.  And
\* a call that has nothing left to do has left everything it was asked for.
SchemaIsPrefix ==
    /\ applied = [i \in 1..Len(applied) |-> i]
    /\ \A m \in Migrators :
        migrator[m].running /\ Pending(m) = {} => 1..UpTo[m] \subseteq Range(applied)

\* What makes it inductive: a call knows the versions up to some one that is applied.
CallsKnowPrefix ==
    \A m \in Migrators : migrator[m].running =>
        \E n \in 0..Len(applied) : migrator[m].known = 1..n

MInv == MTypeOK /\ SchemaIsPrefix /\ CallsKnowPrefix
=============================================================================
