-------------------------- MODULE VerificationProofs --------------------------
(***************************************************************************)
(* Proofs about Verification for any set of packages, sessions, archives,  *)
(* answers of the source and replacements, and any bounds.                 *)
(***************************************************************************)
EXTENDS Verification, CaptureStoreProofs

-----------------------------------------------------------------------------
(* What a step of a load is to the others *)

\* Every row of the captures table is typed, and its identifier is positive.
LEMMA CaptureType ==
    ASSUME StoreInv
    PROVE  \A c \in DOMAIN captures : captures[c] \in Capture /\ c \in Nat \ {0}
<1>1. captures \in Seq(Capture)
  BY DEF StoreInv, TypeOK
<1>. QED  BY <1>1, ElementOfSeq, LenProperties

StoreStep(s) == Start(s) \/ Advance(s) \/ DbError(s) \/ Crash(s) \/ Reap(s)

\* A load moves the pointer of no package but its own.
LEMMA InsideKeepsPointers ==
    ASSUME StoreInv, NEW s \in Session, Inside(s),
           NEW p \in Package, p # job[s].pkg
    PROVE  pointer'[p] = pointer[p]
<1>1. CASE Publish(s) /\ ReadyToPublish(cap[s])
  <2>1. /\ pointer' = [pointer EXCEPT ![captures[cap[s]].pkg] = cap[s]]
        /\ captures[cap[s]].pkg = job[s].pkg
    BY <1>1, PublishTable, WorkCapture DEF Publish, Working
  <2>. QED  BY <2>1 DEF StoreInv, TypeOK
<1>2. CASE ~(Publish(s) /\ ReadyToPublish(cap[s]))
  <2>1. pointer' = pointer
    BY <1>2 DEF Inside, DecideResume, DecideReplay, DecideNew, Prepare, ReadFails, SkipBatch,
       LoadBatch, LoadDuplicate, Recheck, Reconcile, Publish, Fail, DbError, tables
  <2>. QED  BY <2>1
<1>. QED  BY <1>1, <1>2

\* Nobody touches the captures and the pointer of a package whose lock another
\* session holds, nor takes that lock away.
LEMMA StoreStepFrame ==
    ASSUME StoreInv, NEW s \in Session, StoreStep(s)
    PROVE  /\ DOMAIN captures \subseteq DOMAIN captures'
           /\ \A d \in DOMAIN captures : captures'[d].pkg = captures[d].pkg
           /\ \A t \in Session \ {s} : pc'[t] = pc[t]
           /\ \A p \in Package : owner[p] \in Session \ {s} =>
                  /\ owner'[p] = owner[p] /\ pointer'[p] = pointer[p]
                  /\ \A d \in DOMAIN captures : captures[d].pkg = p => captures'[d] = captures[d]
<1>1. CASE Inside(s)
  <2>1. StaysInside(s) /\ OnlyTouches(job[s].pkg)
    BY <1>1, InsideStays, InsideTouches
  <2>2. ASSUME NEW p \in Package, owner[p] \in Session \ {s}
        PROVE  /\ owner'[p] = owner[p] /\ pointer'[p] = pointer[p]
               /\ \A d \in DOMAIN captures : captures[d].pkg = p => captures'[d] = captures[d]
    <3>1. p # job[s].pkg
      BY <2>1, <2>2, HeldInside DEF StaysInside
    <3>. QED  BY <1>1, <2>1, <3>1, InsideKeepsPointers DEF StaysInside, OnlyTouches
  <2>. QED  BY <2>1, <2>2 DEF StaysInside, OnlyTouches
<1>2. CASE Start(s) \/ Acquire(s) \/ RefuseBusy(s) \/ Finish(s) \/ Crash(s) \/ Reap(s)
  <2>1. UNCHANGED <<captures, pointer>> /\ \A t \in Session \ {s} : pc'[t] = pc[t]
    BY <1>2 DEF Start, StartLoad, Acquire, RefuseBusy, Finish, Crash, Reap, Goto, tables,
                StoreInv, TypeOK
  <2>2. ASSUME NEW p \in Package, owner[p] \in Session \ {s} PROVE owner'[p] = owner[p]
    <3>1. CASE Start(s) \/ RefuseBusy(s) \/ Crash(s)
      BY <3>1 DEF Start, StartLoad, RefuseBusy, Crash, lock
    <3>2. CASE Acquire(s)
      <4>1. job[s].pkg \in Package /\ TakeLock(s, job[s].pkg)
        BY <3>2 DEF Acquire, StoreInv, SessionShape, Job
      <4>. QED  BY <2>2, <4>1, TakeLockTable, ConstantsAreDisjoint DEF StoreInv
    <3>3. CASE Finish(s)
      <4>1. job[s].pkg \in Package /\ GiveLock(s, job[s].pkg)
        BY <3>3, HeldInside DEF Finish, Holding
      <4>. QED  BY <2>2, <4>1, GiveLockTable DEF StoreInv
    <3>4. CASE Reap(s)
      BY <2>2, <3>4 DEF Reap
    <3>. QED  BY <1>2, <3>1, <3>2, <3>3, <3>4
  <2>. QED  BY <2>1, <2>2
<1>. QED  BY <1>1, <1>2 DEF StoreStep, Advance, Inside

\* Rows of a capture that was published stay, and so do its bytes.
LEMMA StorePublishedStays ==
    ASSUME StoreInv, Next, NEW c \in DOMAIN captures,
           captures[c].status \in {"published", "superseded"}
    PROVE  /\ LocalKeys(c)' = LocalKeys(c)
           /\ captures'[c].status \in {"published", "superseded"}
           /\ captures'[c].sha = captures[c].sha
<1>1. Kept(c) /\ captures[c] \in Capture
  <2>1. Settled(c)
    BY DEF Settled, OpenStatus
  <2>. QED  BY <2>1, StepKeepsSettled, CaptureType
<1>. QED  BY <1>1 DEF Kept, LocalKeys, Capture

-----------------------------------------------------------------------------
(* Loads beside verifications *)

\* A load by a session that verifies nothing keeps the verifier's invariant.
LEMMA LoadVInv ==
    ASSUME VInv, NEW s \in Session, step[s] = "idle", StoreStep(s),
           UNCHANGED <<evidence, check>>
    PROVE  VInv'
<1>. USE DEF evidence, check
<1>0. Next /\ StoreInv /\ VTypeOK /\ StoreInv'
  BY StepStoreInv DEF StoreStep, Next, VInv
<1>1. /\ DOMAIN captures \subseteq DOMAIN captures'
      /\ \A d \in DOMAIN captures : captures'[d].pkg = captures[d].pkg
      /\ \A t \in Session \ {s} : pc'[t] = pc[t]
      /\ \A p \in Package : owner[p] \in Session \ {s} =>
             /\ owner'[p] = owner[p] /\ pointer'[p] = pointer[p]
             /\ \A d \in DOMAIN captures : captures[d].pkg = p => captures'[d] = captures[d]
  BY <1>0, StoreStepFrame
<1>2. \A c \in DOMAIN captures : captures[c].status \in {"published", "superseded"} =>
          /\ LocalKeys(c)' = LocalKeys(c)
          /\ captures'[c].status \in {"published", "superseded"}
          /\ captures'[c].sha = captures[c].sha
  BY <1>0, StorePublishedStays
<1>3. \A c \in DOMAIN captures : captures[c].pkg \in Package
  BY <1>0, CaptureType DEF Capture
<1>4. VTypeOK'
  BY <1>0, <1>1 DEF VTypeOK, StoreInv
<1>5. VerifierShape'
  BY <1>1, <1>3 DEF VInv, VerifierShape, VerifierHolds, Checking
<1>6. CheckShape'
  <2>1. ASSUME NEW t \in Session, step[t] \in {"open", "walk", "close"}
        PROVE  /\ IsPublished(target[t])' /\ LocalKeys(target[t])' = LocalKeys(target[t])
               /\ captures'[target[t]] = captures[target[t]]
    <3>1. /\ target[t] \in DOMAIN captures /\ IsPublished(target[t]) /\ t # s
          /\ owner[captures[target[t]].pkg] = t
      BY <2>1 DEF VInv, VerifierShape, VerifierHolds, CheckShape, CheckIsFounded,
                    Checking
    <3>2. captures'[target[t]] = captures[target[t]]
          /\ pointer'[captures[target[t]].pkg] = pointer[captures[target[t]].pkg]
      BY <1>1, <1>3, <3>1
    <3>3. LocalKeys(target[t])' = LocalKeys(target[t])
      BY <1>2, <3>1 DEF IsPublished, LocalKeys
    <3>. QED  BY <3>1, <3>2, <3>3 DEF IsPublished
  <2>2. \A c \in Nat : AttemptsOf(c)' = AttemptsOf(c)
    BY DEF AttemptsOf
  <2>3. \A t \in Session : target[t] \in Nat
    BY <1>0 DEF VTypeOK
  <2>. QED  BY <2>1, <2>2, <2>3 DEF VInv, CheckShape, CheckIsFounded, AttemptsOf
<1>7. AttemptShape'
  BY <1>1, <1>2 DEF VInv, AttemptShape
<1>8. CoverageIsLatestVerdict'
  <2>1. ASSUME NEW c \in DOMAIN captures' \ DOMAIN captures
        PROVE  c \notin coverage /\ AttemptsOf(c) = {}
    BY <1>0, <2>1 DEF VInv, VTypeOK, AttemptShape, AttemptsOf
  <2>. QED  BY <1>1, <2>1 DEF VInv, CoverageIsLatestVerdict, AttemptsOf
<1>. QED  BY <1>0, <1>4, <1>5, <1>6, <1>7, <1>8 DEF VInv

-----------------------------------------------------------------------------
(* What loads rely on, beside steps that are not a load's *)

\* A step that leaves the store's tables, locks and lines alone keeps the store's
\* invariant, whatever it counts.
LEMMA StoreInvBeside ==
    ASSUME StoreInv, UNCHANGED <<tables, lock, file, pc, work>>,
           crashes' \in Nat, faults' \in Nat, swaps' \in Nat
    PROVE  StoreInv'
BY DEF StoreInv, TypeOK, SessionShape, LockShape, WorkShape, PointerShape, CapturesOf,
       IsLatest, tables, lock, work

\* A session outside the locked part of a load takes a lock or gives one back.
LEMMA StoreInvLocks ==
    ASSUME StoreInv, NEW s \in Session, pc[s] \notin Holding, NEW p \in Package,
           TakeLock(s, p) \/ GiveLock(s, p), UNCHANGED <<tables, file, pc, work, budgets>>
    PROVE  /\ StoreInv'
           /\ \A q \in Package : owner[q] \in Session \ {s} => owner'[q] = owner[q]
<1>0. /\ UNCHANGED <<captures, batches, rows, pointer, file, pc, job, cap, resumed, done,
                     stream, next, crashes, faults, swaps>>
  BY DEF tables, work, budgets
<1>1. /\ owner' \in [Package -> Session \cup {None}] /\ depth' \in [Package -> Nat]
      /\ \A q \in Package : depth'[q] = 0 <=> owner'[q] = None
      /\ \A q \in Package : owner[q] \in Session \ {s} => owner'[q] = owner[q]
  BY TakeLockTable, GiveLockTable, ConstantsAreDisjoint DEF StoreInv
<1>2. TypeOK'
  BY <1>0, <1>1 DEF StoreInv, TypeOK
<1>3. LockShape'
  <2>1. ASSUME NEW t \in Session, pc[t] \in Holding PROVE owner'[job[t].pkg] = t
    BY <1>1, <2>1, HeldInside
  <2>. QED  BY <1>0, <1>1, <2>1 DEF LockShape
<1>4. SessionShape' /\ WorkShape' /\ PointerShape'
  BY <1>0 DEF StoreInv, SessionShape, WorkShape, PointerShape, CapturesOf, IsLatest
<1>. QED  BY <1>1, <1>2, <1>3, <1>4 DEF StoreInv

\* A session dies, wherever it was.
LEMMA StoreInvDeath ==
    ASSUME StoreInv, NEW s \in Session, Goto(s, "dead"), Forget(s) \/ UNCHANGED work,
           UNCHANGED <<tables, lock, file>>,
           crashes' \in Nat, faults' \in Nat, swaps' \in Nat
    PROVE  StoreInv'
<1>0. UNCHANGED <<captures, batches, rows, pointer, file, owner, depth>>
  BY DEF tables, lock
<1>1. /\ pc' \in [Session -> PC] /\ pc'[s] = "dead"
      /\ \A t \in Session \ {s} : pc'[t] = pc[t]
  BY GotoType DEF StoreInv, PC
<1>2. /\ job' \in [Session -> Job \cup {None}] /\ cap' \in [Session -> Nat]
      /\ resumed' \in [Session -> BOOLEAN] /\ done' \in [Session -> SUBSET Nat]
      /\ stream' \in [Session -> Archive \cup {None}] /\ next' \in [Session -> Nat]
  BY ForgetType DEF StoreInv, TypeOK, work
<1>3. \A t \in Session \ {s} : job'[t] = job[t] /\ cap'[t] = cap[t] /\ stream'[t] = stream[t]
  BY DEF Forget, work, StoreInv, TypeOK
<1>4. TypeOK'
  BY <1>0, <1>1, <1>2 DEF StoreInv, TypeOK
<1>5. SessionShape' /\ LockShape' /\ WorkShape' /\ PointerShape'
  BY <1>0, <1>1, <1>3 DEF StoreInv, SessionShape, LockShape, WorkShape, PointerShape,
     CapturesOf, IsLatest, Holding, Working
<1>. QED  BY <1>4, <1>5 DEF StoreInv

-----------------------------------------------------------------------------
(* The steps of verify_capture *)

\* What every step of session s leaves alone: the verifications of the others.
SparesOthers(s) ==
    \A t \in Session \ {s} :
        /\ step'[t] = step[t] /\ target'[t] = target[t] /\ local'[t] = local[t]
        /\ verdict'[t] = verdict[t] /\ attempt'[t] = attempt[t]

CheckTypes ==
    /\ step \in [Session -> Checking \cup {"idle", "lock"}]
    /\ target \in [Session -> Nat]
    /\ local \in [Session -> SUBSET Notice]
    /\ verdict \in [Session -> Verdict \cup {None}]
    /\ attempt \in [Session -> Nat]

\* A step that writes to no table leaves to show what it does to its own session.
LEMMA QuietStep ==
    ASSUME VInv, NEW s \in Session, UNCHANGED <<tables, evidence>>, StoreInv', CheckTypes',
           SparesOthers(s), \A t \in Session \ {s} : pc'[t] = pc[t],
           \A p \in Package : owner[p] \in Session \ {s} => owner'[p] = owner[p],
           VerifierHolds(s)', CheckIsFounded(s)'
    PROVE  VInv'
<1>0. UNCHANGED <<captures, batches, rows, pointer, attempts, coverage>>
  BY DEF tables, evidence
<1>1. VTypeOK'
  BY <1>0 DEF VInv, VTypeOK, CheckTypes, StoreInv
<1>2. ASSUME NEW t \in Session, t # s PROVE VerifierHolds(t)'
  <2>1. step[t] # "idle" => captures[target[t]].pkg \in Package
    BY <1>2, CaptureType DEF VInv, VerifierShape, VerifierHolds, Capture
  <2>. QED  BY <1>0, <1>2, <2>1 DEF VInv, VerifierShape, VerifierHolds, SparesOthers, Checking
<1>3. ASSUME NEW t \in Session, t # s PROVE CheckIsFounded(t)'
  BY <1>0, <1>3 DEF VInv, CheckShape, CheckIsFounded, SparesOthers, IsPublished, LocalKeys,
     RowsOf, AttemptsOf
<1>4. \A c \in Nat : LocalKeys(c)' = LocalKeys(c)
  BY <1>0 DEF LocalKeys, RowsOf
<1>5. AttemptShape'
  <2>1. \A a \in DOMAIN attempts : attempts[a].capture \in Nat
    BY CaptureType DEF VInv, AttemptShape
  <2>. QED  BY <1>0, <1>4, <2>1 DEF VInv, AttemptShape
<1>6. CoverageIsLatestVerdict'
  BY <1>0 DEF VInv, CoverageIsLatestVerdict, AttemptsOf
<1>. QED  BY <1>1, <1>2, <1>3, <1>5, <1>6 DEF VInv, VerifierShape, CheckShape

\* verify_capture's first lines keep the verifier's invariant.
LEMMA VStartVInv ==
    ASSUME VInv, NEW s \in Session, NEW c \in DOMAIN captures, VStart(s, c)
    PROVE  VInv'
<1>. USE DEF VStart, Do
<1>1. StoreInv'
  BY StoreInvBeside DEF VInv, StoreInv, TypeOK, vars, budgets
<1>2. CheckTypes' /\ SparesOthers(s)
  BY CaptureType DEF VInv, VTypeOK, CheckTypes, SparesOthers
<1>3. VerifierHolds(s)' /\ CheckIsFounded(s)'
  BY DEF VerifierHolds, CheckIsFounded, VInv, VTypeOK, Checking, vars, tables
<1>. QED  BY <1>1, <1>2, <1>3, QuietStep DEF vars, lock

\* Taking the package's advisory lock to verify keeps the verifier's invariant.
LEMMA VAcquireVInv ==
    ASSUME VInv, NEW s \in Session, VAcquire(s)
    PROVE  VInv'
<1>. DEFINE p == captures[target[s]].pkg
<1>. USE DEF VAcquire, Do
<1>0. target[s] \in DOMAIN captures /\ pc[s] = "idle" /\ p \in Package
  BY CaptureType DEF VInv, VerifierShape, VerifierHolds, Capture
<1>1. StoreInv' /\ \A q \in Package : owner[q] \in Session \ {s} => owner'[q] = owner[q]
  BY <1>0, StoreInvLocks DEF VInv, Holding
<1>2. CheckTypes' /\ SparesOthers(s)
  BY DEF VInv, VTypeOK, CheckTypes, SparesOthers, Checking
<1>3. VerifierHolds(s)' /\ CheckIsFounded(s)'
  <2>1. owner'[p] = s
    BY <1>0, TakeLockTable DEF VInv, StoreInv
  <2>2. step'[s] = "reread" /\ target' = target /\ captures' = captures /\ pc' = pc
    BY DEF VInv, VTypeOK, tables
  <2>. QED  BY <1>0, <2>1, <2>2 DEF VerifierHolds, CheckIsFounded
<1>. QED  BY <1>1, <1>2, <1>3, QuietStep

\* The steps after which the session is out of verify_capture.
LEMMA VOutVInv ==
    ASSUME VInv, NEW s \in Session, VRefuseBusy(s) \/ VLeave(s) \/ VCrash(s)
    PROVE  VInv'
<1>0. step[s] # "idle" /\ target[s] \in DOMAIN captures /\ pc[s] = "idle"
      /\ captures[target[s]].pkg \in Package
  BY CaptureType DEF VRefuseBusy, VLeave, VCrash, VInv, VerifierShape, VerifierHolds, Capture
<1>1. /\ StoreInv' /\ \A q \in Package : owner[q] \in Session \ {s} => owner'[q] = owner[q]
      /\ \A t \in Session \ {s} : pc'[t] = pc[t]
      /\ UNCHANGED <<tables, evidence>>
  <2>1. CASE VRefuseBusy(s)
    BY <2>1, StoreInvBeside DEF VRefuseBusy, VInv, StoreInv, TypeOK, vars, budgets, lock
  <2>2. CASE VLeave(s)
    BY <1>0, <2>2, StoreInvLocks DEF VLeave, VInv, Holding
  <2>3. CASE VCrash(s)
    <3>1. /\ Goto(s, "dead") /\ UNCHANGED <<tables, lock, file, work, evidence>>
          /\ crashes' \in Nat /\ faults' \in Nat /\ swaps' \in Nat
      BY <2>3 DEF VCrash, VInv, StoreInv, TypeOK
    <3>2. StoreInv' /\ \A t \in Session \ {s} : pc'[t] = pc[t]
      BY <3>1, StoreInvDeath, GotoType DEF VInv, StoreInv, PC
    <3>. QED  BY <3>1, <3>2 DEF lock
  <2>. QED  BY <2>1, <2>2, <2>3
<1>2. CheckTypes' /\ SparesOthers(s) /\ step'[s] = "idle"
  <2>1. Do(s, "idle") /\ Drop(s)
    BY DEF VRefuseBusy, VLeave, VCrash
  <2>. QED  BY <2>1 DEF Do, Drop, VInv, VTypeOK, CheckTypes, SparesOthers
<1>3. VerifierHolds(s)' /\ CheckIsFounded(s)'
  BY <1>2 DEF VerifierHolds, CheckIsFounded, Checking
<1>. QED  BY <1>1, <1>2, <1>3, QuietStep

\* The steps between the lock and the verdict that write to no table.
LEMMA VUnderLockVInv ==
    ASSUME VInv, NEW s \in Session, VReread(s) \/ VWalk(s) \/ VDbError(s)
    PROVE  VInv'
<1>. USE DEF Do
<1>0. /\ step[s] \in Checking /\ target[s] \in DOMAIN captures /\ pc[s] = "idle"
      /\ owner[captures[target[s]].pkg] = s
  BY DEF VReread, VWalk, VDbError, VInv, VerifierShape, VerifierHolds, Checking
<1>1. /\ StoreInv' /\ UNCHANGED <<captures, batches, rows, pointer, owner, pc, attempts, coverage,
                                  target, attempt>>
  <2>1. CASE VDbError(s)
    BY <2>1, StoreInvBeside DEF VDbError, VInv, StoreInv, TypeOK, tables, lock, evidence
  <2>2. CASE VReread(s) \/ VWalk(s)
    <3>1. UNCHANGED <<vars, evidence, target, attempt>>
      BY <2>2 DEF VReread, VWalk
    <3>2. StoreInv'
      BY <3>1, StoreInvBeside DEF VInv, StoreInv, TypeOK, vars, budgets
    <3>. QED  BY <3>1, <3>2 DEF vars, tables, lock, evidence
  <2>. QED  BY <2>1, <2>2
<1>2. step'[s] \in {"open", "close", "leave"} /\ \A t \in Session \ {s} : step'[t] = step[t]
  BY DEF VReread, VWalk, VDbError, VInv, VTypeOK
<1>3. VerifierHolds(s)'
  BY <1>0, <1>1, <1>2 DEF VerifierHolds
<1>4. CASE VReread(s)
  <2>1. LocalKeys(target[s]) \subseteq Notice
    BY DEF LocalKeys, RowsOf, VInv, StoreInv, TypeOK, Row
  <2>2. CheckTypes' /\ SparesOthers(s)
    BY <1>4, <2>1 DEF VReread, VInv, VTypeOK, CheckTypes, SparesOthers, Checking
  <2>3. CheckIsFounded(s)'
    <3>1. step'[s] = "open" => IsPublished(target[s]) /\ local'[s] = LocalKeys(target[s])
      BY <1>4 DEF VReread, Verifiable, VInv, VTypeOK
    <3>2. step'[s] \in {"open", "leave"}
      BY <1>4 DEF VReread, VInv, VTypeOK
    <3>. QED  BY <1>1, <3>1, <3>2 DEF CheckIsFounded, IsPublished, LocalKeys, RowsOf
  <2>. QED  BY <1>1, <1>3, <2>2, <2>3, QuietStep DEF tables, evidence
<1>5. CASE VWalk(s)
  <2>0. /\ step[s] = "walk" /\ step' = [step EXCEPT ![s] = "close"]
        /\ UNCHANGED <<target, local, attempt>>
    BY <1>5 DEF VWalk
  <2>1. PICK v \in Verdict :
          /\ verdict' = [verdict EXCEPT ![s] = v]
          /\ v.state = "verified" => /\ v.keys = local[s] /\ local[s] # {}
                                     /\ local[s] \in Answers[captures[target[s]].pkg]
    <3>1. CASE verdict' = [verdict EXCEPT ![s] = [state |-> "unavailable", keys |-> None]]
      <4>1. [state |-> "unavailable", keys |-> None] \in Verdict
        BY DEF Verdict, Closed
      <4>. QED  BY <3>1, <4>1
    <3>2. ASSUME NEW there \in Answers[captures[target[s]].pkg],
                 verdict' = [verdict EXCEPT ![s] = [state |-> Compare(local[s], there),
                                                    keys |-> there]]
          PROVE  \E v \in Verdict : /\ verdict' = [verdict EXCEPT ![s] = v]
                                    /\ v.state = "verified" =>
                                        /\ v.keys = local[s] /\ local[s] # {}
                                        /\ local[s] \in Answers[captures[target[s]].pkg]
      <4>1. captures[target[s]].pkg \in Package
        BY <1>0, CaptureType DEF VInv, Capture
      <4>2. there \subseteq Notice
        BY <4>1, AnswersAreTyped
      <4>3. Compare(local[s], there) \in Closed
        BY DEF Compare, Closed
      <4>4. Compare(local[s], there) = "verified" => there = local[s] /\ local[s] # {}
        BY DEF Compare
      <4>5. [state |-> Compare(local[s], there), keys |-> there] \in Verdict
        BY <4>2, <4>3 DEF Verdict
      <4>. QED  BY <3>2, <4>4, <4>5
    <3>. QED  BY <1>5, <3>1, <3>2 DEF VWalk
  <2>2. CheckTypes' /\ SparesOthers(s)
    <3>1. CheckTypes
      BY DEF VInv, VTypeOK, CheckTypes
    <3>2. v \in Verdict /\ verdict' = [verdict EXCEPT ![s] = v]
      BY <2>1
    <3>3. /\ step' \in [Session -> Checking \cup {"idle", "lock"}]
          /\ verdict' \in [Session -> Verdict \cup {None}]
      BY <2>0, <3>1, <3>2 DEF CheckTypes, Checking
    <3>4. SparesOthers(s)
      BY <2>0, <3>1, <3>2 DEF CheckTypes, SparesOthers
    <3>. QED  BY <2>0, <3>1, <3>3, <3>4 DEF CheckTypes
  <2>3. CheckIsFounded(s)'
    <3>1. CheckIsFounded(s)
      BY DEF VInv, CheckShape
    <3>2. step \in [Session -> Checking \cup {"idle", "lock"}]
          /\ verdict \in [Session -> Verdict \cup {None}]
      BY DEF VInv, VTypeOK
    <3>3. step'[s] = "close"
      BY <2>0, <3>2
    <3>4. verdict'[s] = v /\ v \in Verdict
          /\ (v.state = "verified" => /\ v.keys = local[s] /\ local[s] # {}
                                      /\ local[s] \in Answers[captures[target[s]].pkg])
      BY <2>1, <3>2
    <3>. QED  BY <1>1, <2>0, <3>1, <3>3, <3>4 DEF CheckIsFounded, IsPublished, LocalKeys, RowsOf, AttemptsOf
  <2>. QED  BY <1>1, <1>3, <2>2, <2>3, QuietStep DEF tables, evidence
<1>6. CASE VDbError(s)
  <2>1. CheckTypes' /\ SparesOthers(s) /\ step'[s] = "leave"
    BY <1>6 DEF VDbError, VInv, VTypeOK, CheckTypes, SparesOthers, Checking
  <2>2. CheckIsFounded(s)'
    BY <2>1 DEF CheckIsFounded
  <2>. QED  BY <1>1, <1>3, <2>1, <2>2, QuietStep DEF tables, evidence
<1>. QED  BY <1>4, <1>5, <1>6

-----------------------------------------------------------------------------
(* The steps of verify_capture that write evidence *)

\* No other session verifies the capture that s verifies: it would hold the lock.
LEMMA CheckedByOne ==
    ASSUME VInv, NEW s \in Session, step[s] \in Checking, NEW t \in Session, t # s,
           step[t] \in Checking
    PROVE  target[t] # target[s]
BY DEF VInv, VerifierShape, VerifierHolds

\* The identifiers of a capture can be counted.
LEMMA LocalKeysFinite ==
    ASSUME StoreInv, NEW c \in Nat
    PROVE  LocalKeys(c) \subseteq Notice /\ Cardinality(LocalKeys(c)) \in Nat
<1>1. IsFiniteSet(RowsOf(c)) /\ RowsOf(c) \subseteq Row
  BY FS_Subset DEF StoreInv, TypeOK, RowsOf
<1>. DEFINE f == [r \in RowsOf(c) |-> r.notice]
<1>2. f \in Surjection(RowsOf(c), LocalKeys(c))
  BY DEF Surjection, LocalKeys
<1>3. IsFiniteSet(LocalKeys(c))
  BY <1>1, <1>2, FS_Surjection
<1>. QED  BY <1>1, <1>3, FS_CardinalityType DEF LocalKeys, Row

\* What the attempts on record and the standing of one capture have to agree on.
AttemptHolds(a) ==
    LET c == attempts[a].capture IN
    /\ c \in DOMAIN captures /\ captures[c].status \in {"published", "superseded"}
    /\ attempts[a].sha = captures[c].sha
    /\ attempts[a].found = Cardinality(LocalKeys(c))
    /\ attempts[a].state = "verified" => attempts[a].keys = LocalKeys(c) /\ attempts[a].keys # {}

StandingHolds(c) ==
    c \in coverage <=>
        \E a \in AttemptsOf(c) : attempts[a].state = "verified" /\ \A b \in AttemptsOf(c) : b <= a

\* A step that writes evidence about one capture leaves to show what it writes.
LEMMA EvidenceStep ==
    ASSUME VInv, NEW s \in Session, step[s] \in Checking, UNCHANGED <<vars, target, local>>,
           CheckTypes', SparesOthers(s), CheckIsFounded(s)',
           attempts' \in Seq(Attempt), DOMAIN attempts \subseteq DOMAIN attempts',
           coverage' \subseteq DOMAIN captures,
           \A d \in DOMAIN captures \ {target[s]} : d \in coverage' <=> d \in coverage,
           \A a \in DOMAIN attempts : attempts'[a].capture = attempts[a].capture,
           \A a \in DOMAIN attempts' : attempts'[a].capture # target[s] =>
               a \in DOMAIN attempts /\ attempts'[a] = attempts[a],
           \A a \in DOMAIN attempts' : attempts'[a].capture = target[s] => AttemptHolds(a)',
           StandingHolds(target[s])'
    PROVE  VInv'
<1>0. UNCHANGED <<captures, batches, rows, pointer, owner, pc>> /\ StoreInv
      /\ target[s] \in DOMAIN captures
  BY DEF vars, tables, lock, VInv, VerifierShape, VerifierHolds, Checking
<1>1. StoreInv'
  BY StoreInvBeside DEF VInv, StoreInv, TypeOK, vars, budgets
<1>2. VTypeOK'
  BY <1>0, <1>1 DEF VTypeOK, CheckTypes, StoreInv
<1>3. VerifierShape'
  <2>1. ASSUME NEW t \in Session, t # s PROVE VerifierHolds(t)'
    BY <1>0, <2>1 DEF VInv, VerifierShape, VerifierHolds, SparesOthers
  <2>2. VerifierHolds(s)'
    BY <1>0 DEF VInv, VerifierShape, VerifierHolds, Checking
  <2>. QED  BY <2>1, <2>2 DEF VerifierShape
<1>4. \A c \in Nat : LocalKeys(c)' = LocalKeys(c)
  BY <1>0 DEF LocalKeys, RowsOf
<1>5. \A d \in DOMAIN captures \ {target[s]} : AttemptsOf(d)' = AttemptsOf(d)
  BY DEF AttemptsOf
<1>6. CheckShape'
  <2>1. ASSUME NEW t \in Session, t # s PROVE CheckIsFounded(t)'
    <3>1. CheckIsFounded(t) /\ VerifierHolds(t)
      BY DEF VInv, CheckShape, VerifierShape
    <3>2. CASE step[t] \notin Checking
      BY <2>1, <3>2 DEF SparesOthers, CheckIsFounded, Checking
    <3>3. CASE step[t] \in Checking
      <4>1. target[t] \in DOMAIN captures \ {target[s]}
        BY <2>1, <3>1, <3>3, CheckedByOne DEF VerifierHolds, Checking
      <4>2. /\ AttemptsOf(target[t])' = AttemptsOf(target[t])
            /\ LocalKeys(target[t])' = LocalKeys(target[t])
            /\ IsPublished(target[t])' <=> IsPublished(target[t])
        BY <1>0, <1>4, <1>5, <4>1, CaptureType DEF IsPublished, LocalKeys, RowsOf, AttemptsOf
      <4>3. \A a \in AttemptsOf(target[t]) : attempts'[a] = attempts[a]
        BY <4>1 DEF AttemptsOf
      <4>4. /\ step'[t] = step[t] /\ target'[t] = target[t] /\ local'[t] = local[t]
            /\ verdict'[t] = verdict[t] /\ attempt'[t] = attempt[t]
        BY <2>1 DEF SparesOthers
      <4>. QED  BY <1>0, <3>1, <4>2, <4>3, <4>4 DEF CheckIsFounded, IsPublished, LocalKeys, RowsOf,
                                              AttemptsOf
    <3>. QED  BY <3>2, <3>3
  <2>. QED  BY <2>1 DEF CheckShape
<1>7. AttemptShape'
  <2>1. ASSUME NEW a \in DOMAIN attempts' PROVE AttemptHolds(a)'
    <3>1. CASE attempts'[a].capture = target[s]
      BY <3>1
    <3>2. CASE attempts'[a].capture # target[s]
      <4>1. a \in DOMAIN attempts /\ attempts'[a] = attempts[a] /\ AttemptHolds(a)
        BY <3>2 DEF VInv, AttemptShape, AttemptHolds
      <4>2. attempts[a].capture \in Nat
        BY <1>0, <4>1, CaptureType DEF AttemptHolds
      <4>. QED  BY <1>0, <1>4, <4>1, <4>2 DEF AttemptHolds
    <3>. QED  BY <3>1, <3>2
  <2>. QED  BY <2>1 DEF AttemptShape, AttemptHolds
<1>8. CoverageIsLatestVerdict'
  <2>1. ASSUME NEW d \in DOMAIN captures, d # target[s] PROVE StandingHolds(d)'
    <3>1. StandingHolds(d) /\ AttemptsOf(d)' = AttemptsOf(d) /\ (d \in coverage' <=> d \in coverage)
      BY <1>5, <2>1 DEF VInv, CoverageIsLatestVerdict, StandingHolds
    <3>2. \A a \in AttemptsOf(d) : attempts'[a] = attempts[a]
      BY <2>1 DEF AttemptsOf
    <3>. QED  BY <3>1, <3>2 DEF StandingHolds
  <2>. QED  BY <1>0, <2>1 DEF CoverageIsLatestVerdict, StandingHolds
<1>. QED  BY <1>1, <1>2, <1>3, <1>6, <1>7, <1>8 DEF VInv

\* Opening an attempt makes it its capture's latest, and the capture unverified.
LEMMA VOpenVInv ==
    ASSUME VInv, NEW s \in Session, VOpen(s)
    PROVE  VInv'
<1>. DEFINE c == target[s]
            n == Len(attempts) + 1
<1>. USE DEF Do
<1>0. /\ step[s] = "open" /\ c \in DOMAIN captures /\ pc[s] = "idle" /\ c \in Nat
      /\ owner[captures[c].pkg] = s /\ captures[c] \in Capture
      /\ IsPublished(c) /\ local[s] = LocalKeys(c)
      /\ UNCHANGED <<vars, target, local>>
  BY CaptureType DEF VOpen, VInv, VerifierShape, VerifierHolds, CheckShape, CheckIsFounded,
                     Checking
<1>1. UNCHANGED <<captures, batches, rows, pointer, owner, pc>>
  BY <1>0 DEF vars, tables, lock
<1>2. CheckTypes /\ attempts \in Seq(Attempt) /\ coverage \subseteq DOMAIN captures
  BY DEF VInv, VTypeOK, CheckTypes
<1>3. CASE Len(attempts) >= MaxAttempts
  <2>1. /\ UNCHANGED <<attempts, coverage, attempt, verdict>>
        /\ step' = [step EXCEPT ![s] = "leave"]
    BY <1>2, <1>3, LenProperties, AnswersAreTyped DEF VOpen
  <2>2. CheckTypes' /\ SparesOthers(s) /\ step'[s] = "leave"
    BY <1>0, <1>2, <2>1 DEF CheckTypes, SparesOthers, Checking
  <2>3. VerifierHolds(s)' /\ CheckIsFounded(s)'
    BY <1>0, <1>1, <2>2 DEF VerifierHolds, CheckIsFounded
  <2>4. StoreInv'
    BY <1>0, StoreInvBeside DEF VInv, StoreInv, TypeOK, vars, budgets
  <2>. QED  BY <1>1, <2>1, <2>2, <2>3, <2>4, QuietStep DEF tables, evidence
<1>4. CASE Len(attempts) < MaxAttempts
  <2>. DEFINE u == [state |-> "unavailable", keys |-> None]
  <2>1. /\ attempts' = Append(attempts, NewAttempt(s))
        /\ coverage' = coverage \ {c}
        /\ attempt' = [attempt EXCEPT ![s] = n]
        /\ \/ verdict' = verdict /\ step' = [step EXCEPT ![s] = "walk"]
           \/ verdict' = [verdict EXCEPT ![s] = u] /\ step' = [step EXCEPT ![s] = "close"]
    BY <1>4 DEF VOpen
  <2>2. u \in Verdict
    BY DEF Verdict, Closed
  <2>3. n \in Nat /\ DOMAIN attempts = 1..Len(attempts) /\ Len(attempts) \in Nat
    BY <1>2, LenProperties
  <2>4. NewAttempt(s) \in Attempt
    <3>1. Cardinality(local[s]) \in Nat /\ captures[c].sha \in Archive
      BY <1>0, LocalKeysFinite DEF VInv, Capture
    <3>. QED  BY <1>0, <3>1 DEF NewAttempt, Attempt
  <2>5. /\ attempts' \in Seq(Attempt) /\ DOMAIN attempts' = 1..n
        /\ attempts'[n] = NewAttempt(s)
        /\ \A a \in DOMAIN attempts : attempts'[a] = attempts[a]
    BY <1>2, <2>1, <2>3, <2>4, AppendProperties
  <2>6. CheckTypes'
    <3>1. step' \in [Session -> Checking \cup {"idle", "lock"}]
      BY <1>2, <2>1 DEF CheckTypes, Checking
    <3>2. verdict' \in [Session -> Verdict \cup {None}]
      BY <1>2, <2>1, <2>2 DEF CheckTypes
    <3>3. attempt' \in [Session -> Nat]
      BY <1>2, <2>1, <2>3 DEF CheckTypes
    <3>. QED  BY <1>0, <1>2, <3>1, <3>2, <3>3 DEF CheckTypes
  <2>7. SparesOthers(s)
    BY <1>0, <1>2, <2>1 DEF CheckTypes, SparesOthers
  <2>8. LocalKeys(c)' = LocalKeys(c) /\ (IsPublished(c))'
    BY <1>0, <1>1 DEF LocalKeys, RowsOf, IsPublished
  <2>9. n \in AttemptsOf(c)' /\ \A b \in AttemptsOf(c)' : b <= n
    BY <1>0, <2>3, <2>5 DEF AttemptsOf, NewAttempt
  <2>10. attempts'[n].state = "in_progress"
    BY <2>5 DEF NewAttempt
  <2>11. CheckIsFounded(s)'
    <3>1. attempt'[s] = n
      BY <1>2, <2>1 DEF CheckTypes
    <3>2. step'[s] = "close" => verdict'[s] \in Verdict /\ verdict'[s].state # "verified"
      BY <1>2, <2>1, <2>2 DEF CheckTypes
    <3>. QED  BY <1>0, <2>8, <2>9, <2>10, <3>1, <3>2 DEF CheckIsFounded, IsPublished, LocalKeys,
                                                        RowsOf, AttemptsOf
  <2>12. StandingHolds(c)'
    <3>1. c \notin coverage'
      BY <2>1
    <3>2. \A a \in AttemptsOf(c)' : (\A b \in AttemptsOf(c)' : b <= a) => a = n
      BY <2>3, <2>5, <2>9 DEF AttemptsOf
    <3>. QED  BY <1>0, <2>10, <3>1, <3>2 DEF StandingHolds, AttemptsOf
  <2>13. ASSUME NEW a \in DOMAIN attempts', attempts'[a].capture = c PROVE AttemptHolds(a)'
    <3>1. CASE a = n
      BY <1>0, <1>1, <2>5, <2>8, <3>1 DEF AttemptHolds, NewAttempt, IsPublished
    <3>2. CASE a # n
      <4>1. a \in DOMAIN attempts /\ attempts'[a] = attempts[a]
        BY <2>3, <2>5, <3>2
      <4>2. AttemptHolds(a)
        BY <4>1 DEF VInv, AttemptShape, AttemptHolds
      <4>3. \A d \in Nat : LocalKeys(d)' = LocalKeys(d)
        BY <1>1 DEF LocalKeys, RowsOf
      <4>. QED  BY <1>0, <1>1, <2>13, <4>1, <4>2, <4>3 DEF AttemptHolds
    <3>. QED  BY <3>1, <3>2
  <2>14. \A a \in DOMAIN attempts' : attempts'[a].capture # c =>
            a \in DOMAIN attempts /\ attempts'[a] = attempts[a]
    BY <2>3, <2>5 DEF NewAttempt
  <2>. QED  BY <1>0, <1>1, <1>2, <2>1, <2>3, <2>5, <2>6, <2>7, <2>11, <2>12, <2>13, <2>14,
               EvidenceStep DEF Checking
<1>. QED  BY <1>2, <1>3, <1>4, LenProperties, AnswersAreTyped

\* Closing an attempt writes the latest attempt of its capture, which is still open.
LEMMA VCloseVInv ==
    ASSUME VInv, NEW s \in Session, VClose(s)
    PROVE  VInv'
<1>. DEFINE c == target[s]
            a == attempt[s]
            v == verdict[s]
<1>. USE DEF Do
<1>0. /\ step[s] = "close" /\ c \in DOMAIN captures /\ pc[s] = "idle" /\ c \in Nat
      /\ captures[c] \in Capture /\ IsPublished(c) /\ local[s] = LocalKeys(c)
      /\ a \in AttemptsOf(c) /\ \A b \in AttemptsOf(c) : b <= a
      /\ attempts[a].state = "in_progress"
      /\ v \in Verdict /\ (v.state = "verified" => v.keys = LocalKeys(c) /\ v.keys # {})
  BY CaptureType DEF VClose, VInv, VerifierShape, VerifierHolds, CheckShape, CheckIsFounded,
                     Checking
<1>1. /\ UNCHANGED <<vars, target, local, verdict, attempt>>
      /\ step' = [step EXCEPT ![s] = "leave"]
      /\ attempts' = [attempts EXCEPT ![a].state = v.state, ![a].keys = v.keys]
      /\ coverage' = IF v.state = "verified" THEN coverage \cup {c} ELSE coverage \ {c}
  BY <1>0 DEF VClose
<1>2. UNCHANGED <<captures, batches, rows, pointer, owner, pc>>
  BY <1>1 DEF vars, tables, lock
<1>3. CheckTypes /\ attempts \in Seq(Attempt) /\ coverage \subseteq DOMAIN captures
      /\ DOMAIN attempts \subseteq Nat
  BY LenProperties DEF VInv, VTypeOK, CheckTypes
<1>4. a \in DOMAIN attempts /\ attempts[a].capture = c
  BY <1>0 DEF AttemptsOf
<1>5. /\ attempts' \in Seq(Attempt) /\ DOMAIN attempts' = DOMAIN attempts
      /\ attempts'[a].capture = c /\ attempts'[a].sha = attempts[a].sha
      /\ attempts'[a].found = attempts[a].found
      /\ attempts'[a].state = v.state /\ attempts'[a].keys = v.keys
      /\ \A b \in DOMAIN attempts \ {a} : attempts'[b] = attempts[b]
  <2>1. /\ DOMAIN attempts = 1..Len(attempts) /\ Len(attempts) \in Nat
        /\ \A b \in DOMAIN attempts : attempts[b] \in Attempt
    BY <1>3, LenProperties, ElementOfSeq
  <2>2. /\ DOMAIN attempts' = DOMAIN attempts
        /\ attempts' = [b \in DOMAIN attempts |-> attempts'[b]]
        /\ attempts'[a] = [attempts[a] EXCEPT !.state = v.state, !.keys = v.keys]
        /\ \A b \in DOMAIN attempts \ {a} : attempts'[b] = attempts[b]
    BY <1>1, <1>4
  <2>3. /\ attempts'[a] \in Attempt
        /\ attempts'[a].capture = c /\ attempts'[a].sha = attempts[a].sha
        /\ attempts'[a].found = attempts[a].found
        /\ attempts'[a].state = v.state /\ attempts'[a].keys = v.keys
    BY <1>0, <1>4, <2>1, <2>2 DEF Attempt, Verdict
  <2>4. attempts' \in Seq(Attempt)
    <3>1. attempts' \in [1..Len(attempts) -> Attempt]
      BY <2>1, <2>2, <2>3
    <3>2. [1..Len(attempts) -> Attempt] \in {[1..n -> Attempt] : n \in Nat}
      BY <2>1
    <3>3. Seq(Attempt) = UNION {[1..n -> Attempt] : n \in Nat}
      BY SeqDef
    <3>. QED  BY <3>1, <3>2, <3>3, Zenon
  <2>. QED  BY <2>2, <2>3, <2>4
<1>6. CheckTypes' /\ SparesOthers(s) /\ step'[s] = "leave"
  BY <1>1, <1>3 DEF CheckTypes, SparesOthers, Checking
<1>7. CheckIsFounded(s)'
  BY <1>6 DEF CheckIsFounded
<1>8. \A d \in Nat : LocalKeys(d)' = LocalKeys(d)
  BY <1>2 DEF LocalKeys, RowsOf
<1>9. ASSUME NEW b \in DOMAIN attempts', attempts'[b].capture = c PROVE AttemptHolds(b)'
  <2>1. b \in DOMAIN attempts /\ AttemptHolds(b)
    BY <1>5, <1>9 DEF VInv, AttemptShape, AttemptHolds
  <2>2. CASE b = a
    <3>1. /\ c \in DOMAIN captures' /\ captures'[c].status \in {"published", "superseded"}
          /\ attempts'[a].sha = captures'[c].sha
          /\ attempts'[a].found = Cardinality(LocalKeys(c))
          /\ attempts'[a].state = "verified" =>
                attempts'[a].keys = LocalKeys(c) /\ attempts'[a].keys # {}
      BY <1>0, <1>2, <1>4, <1>5, <2>1, <2>2 DEF AttemptHolds
    <3>. QED  BY <1>0, <1>5, <1>8, <2>2, <3>1 DEF AttemptHolds
  <2>3. CASE b # a
    BY <1>0, <1>2, <1>5, <1>8, <1>9, <2>1, <2>3 DEF AttemptHolds
  <2>. QED  BY <2>2, <2>3
<1>10. StandingHolds(c)'
  <2>1. AttemptsOf(c)' = AttemptsOf(c)
    <3>1. \A b \in DOMAIN attempts : attempts'[b].capture = attempts[b].capture
      BY <1>4, <1>5
    <3>. QED  BY <1>1, <1>5, <3>1 DEF AttemptsOf
  <2>2. c \in coverage' <=> v.state = "verified"
    BY <1>1
  <2>3. AttemptsOf(c) \subseteq Nat
    BY <1>3 DEF AttemptsOf
  <2>4. \A b \in AttemptsOf(c) : (\A d \in AttemptsOf(c) : d <= b) => b = a
    BY <1>0, <2>3
  <2>. QED  BY <1>0, <1>1, <1>5, <2>1, <2>2, <2>4 DEF StandingHolds
<1>11. /\ \A b \in DOMAIN attempts : attempts'[b].capture = attempts[b].capture
       /\ \A b \in DOMAIN attempts' : attempts'[b].capture # c =>
              b \in DOMAIN attempts /\ attempts'[b] = attempts[b]
  BY <1>4, <1>5
<1>. QED  BY <1>0, <1>1, <1>3, <1>5, <1>6, <1>7, <1>9, <1>10, <1>11, EvidenceStep DEF Checking

-----------------------------------------------------------------------------
(* Every behaviour *)

\* A store with no capture and no attempt satisfies the verifier's invariant.
THEOREM VInitVInv == VInit => VInv
<1>. SUFFICES ASSUME VInit PROVE VInv
  OBVIOUS
<1>. USE DEF VInit
<1>1. StoreInv
  BY InitIInv DEF IInv
<1>2. VTypeOK
  BY <1>1 DEF VTypeOK, StoreInv
<1>3. VerifierShape /\ CheckShape /\ AttemptShape /\ CoverageIsLatestVerdict
  BY DEF VerifierShape, VerifierHolds, CheckShape, CheckIsFounded, AttemptShape,
     CoverageIsLatestVerdict, AttemptsOf, Checking
<1>. QED  BY <1>1, <1>2, <1>3 DEF VInv

\* Another program replaces or removes an archive file beside verifications.
LEMMA VSwapVInv ==
    ASSUME VInv, NEW p \in Package, SwapFile(p), UNCHANGED <<evidence, check>>
    PROVE  VInv'
<1>. USE DEF evidence, check
<1>1. StoreInv' /\ UNCHANGED <<captures, batches, rows, pointer, owner, pc>>
  <2>1. Next /\ UNCHANGED <<tables, lock, pc>>
    BY DEF Next, SwapFile
  <2>. QED  BY <2>1, StepStoreInv DEF VInv, tables, lock
<1>2. \A c \in Nat : LocalKeys(c)' = LocalKeys(c)
  BY <1>1 DEF LocalKeys, RowsOf
<1>3. VTypeOK' /\ VerifierShape'
  BY <1>1 DEF VInv, VTypeOK, StoreInv, VerifierShape, VerifierHolds
<1>4. CheckShape'
  BY <1>1 DEF VInv, CheckShape, CheckIsFounded, IsPublished, LocalKeys, RowsOf, AttemptsOf
<1>5. AttemptShape'
  <2>1. \A a \in DOMAIN attempts : attempts[a].capture \in Nat
    BY CaptureType DEF VInv, AttemptShape
  <2>. QED  BY <1>1, <1>2, <2>1 DEF VInv, AttemptShape
<1>6. CoverageIsLatestVerdict'
  BY <1>1 DEF VInv, CoverageIsLatestVerdict, AttemptsOf
<1>. QED  BY <1>1, <1>3, <1>4, <1>5, <1>6 DEF VInv

\* Every step of a load, of a verification and of the environment keeps it.
THEOREM VNextVInv == VInv /\ [VNext]_vvars => VInv'
<1>. SUFFICES ASSUME VInv, [VNext]_vvars PROVE VInv'
  OBVIOUS
<1>1. ASSUME NEW s \in Session, Load(s) PROVE VInv'
  BY <1>1, LoadVInv DEF Load, StoreStep
<1>2. ASSUME NEW s \in Session, Verify(s) PROVE VInv'
  BY <1>2, VStartVInv, VAcquireVInv, VOutVInv, VUnderLockVInv, VOpenVInv, VCloseVInv
     DEF Verify, VBegin, VAdvance
<1>3. ASSUME NEW p \in Package, SwapFile(p), UNCHANGED <<evidence, check>> PROVE VInv'
  BY <1>3, VSwapVInv
<1>4. CASE UNCHANGED vvars
  <2>1. StoreInv' /\ UNCHANGED <<captures, batches, rows, pointer, owner, pc, evidence, check>>
    BY <1>4, StoreInvBeside DEF vvars, vars, VInv, StoreInv, TypeOK, budgets, tables, lock
  <2>2. \A c \in Nat : LocalKeys(c)' = LocalKeys(c)
    BY <2>1 DEF LocalKeys, RowsOf
  <2>3. \A a \in DOMAIN attempts : attempts[a].capture \in Nat
    BY CaptureType DEF VInv, AttemptShape
  <2>4. VTypeOK' /\ VerifierShape'
    BY <2>1 DEF VInv, VTypeOK, StoreInv, VerifierShape, VerifierHolds, evidence, check
  <2>5. CheckShape'
    BY <2>1 DEF VInv, CheckShape, CheckIsFounded, IsPublished, LocalKeys, RowsOf, AttemptsOf,
       evidence, check
  <2>6. AttemptShape'
    BY <2>1, <2>2, <2>3 DEF VInv, AttemptShape, evidence
  <2>7. CoverageIsLatestVerdict'
    BY <2>1 DEF VInv, CoverageIsLatestVerdict, AttemptsOf, evidence
  <2>. QED  BY <2>1, <2>4, <2>5, <2>6, <2>7 DEF VInv
<1>. QED  BY <1>1, <1>2, <1>3, <1>4 DEF VNext

\* The verifier's inductive invariant holds in every reachable state of loads and
\* verifications that share the packages.
THEOREM VInvariance == VSpec => []VInv
BY VInitVInv, VNextVInv, PTL DEF VSpec

\* The tables and the steps of verify_capture keep their types.
THEOREM VTypeCorrect == VSpec => []VTypeOK
<1>1. VInv => VTypeOK
  BY DEF VInv
<1>. QED  BY <1>1, VInvariance, PTL

\* try_lock_package and unlock_package, used by the loader and by verify_capture:
\* loads and verifications of one package exclude each other and themselves.
THEOREM PackageWorkExcludes == VSpec => []PackageWorkIsExclusive
<1>1. VInv => PackageWorkIsExclusive
  <2>. SUFFICES ASSUME VInv, NEW p \in Package, NEW s \in Session, NEW t \in Session,
                       InsideFor(s, p), InsideFor(t, p)
                PROVE  s = t
    BY DEF PackageWorkIsExclusive
  <2>1. owner[p] = s
    BY DEF InsideFor, VInv, StoreInv, LockShape, VerifierShape, VerifierHolds
  <2>2. owner[p] = t
    BY DEF InsideFor, VInv, StoreInv, LockShape, VerifierShape, VerifierHolds
  <2>. QED  BY <2>1, <2>2
<1>. QED  BY <1>1, VInvariance, PTL

\* verify_capture's second look under the lock: from there to the verdict no load
\* supersedes the capture that is being verified.
THEOREM VerdictIsOnThePublished == VSpec => []VerdictOnThePublished
<1>1. VInv => VerdictOnThePublished
  BY DEF VInv, CheckShape, CheckIsFounded, VerdictOnThePublished
<1>. QED  BY <1>1, VInvariance, PTL

\* The writes of coverage_verified by open_attempt and close_attempt: the standing of
\* a capture is the verdict of its latest attempt, closed or not.
THEOREM StandingIsLatestVerdict == VSpec => []CoverageIsLatestVerdict
<1>1. VInv => CoverageIsLatestVerdict
  BY DEF VInv
<1>. QED  BY <1>1, VInvariance, PTL

\* The rows of tl_work.verification_attempt: what a verified attempt recorded stays
\* true of the capture it names, through every later load and verification.
THEOREM VerifiedStaysTrue == VSpec => []VerifiedEvidenceHolds
<1>1. VInv => VerifiedEvidenceHolds
  BY DEF VInv, AttemptShape, VerifiedEvidenceHolds
<1>. QED  BY <1>1, VInvariance, PTL

\* close_attempt's WHERE on the attempt's id and on in_progress: history is appended
\* to, and only the verification that opened an attempt ever closes it.
THEOREM HistoryStays == VSpec => HistoryIsKept
<1>. DEFINE Closes(a) == /\ attempts[a].state = "in_progress"
                         /\ \E s \in Session : attempt[s] = a /\ step[s] = "close"
<1>1. ASSUME VInv, [VNext]_vvars, NEW a \in DOMAIN attempts, attempts'[a] # attempts[a]
      PROVE  Closes(a)
  <2>1. attempts' # attempts
    BY <1>1
  <2>2. PICK s \in Session : VOpen(s) \/ VClose(s)
    BY <1>1, <2>1 DEF VNext, Load, Verify, VBegin, VAdvance, VStart, VAcquire, VRefuseBusy,
       VReread, VWalk, VLeave, VDbError, VCrash, vvars, evidence
  <2>3. attempts \in Seq(Attempt) /\ VTypeOK
    BY <1>1 DEF VInv, VTypeOK
  <2>4. CASE VOpen(s)
    <3>1. attempts' = attempts \/ attempts' = Append(attempts, NewAttempt(s))
      BY <2>4 DEF VOpen
    <3>. QED  BY <1>1, <2>1, <2>3, <3>1, LenProperties
  <2>5. CASE VClose(s)
    <3>1. /\ step[s] = "close" /\ attempts[attempt[s]].state = "in_progress"
          /\ attempts' = [attempts EXCEPT ![attempt[s]].state = verdict[s].state,
                                          ![attempt[s]].keys = verdict[s].keys]
      BY <2>1, <2>5 DEF VClose, evidence
    <3>2. a = attempt[s]
      BY <1>1, <3>1
    <3>. QED  BY <3>1, <3>2
  <2>. QED  BY <2>2, <2>4, <2>5
<1>2. VInv /\ [VNext]_vvars =>
          [\A a \in DOMAIN attempts : attempts'[a] # attempts[a] =>
              /\ attempts[a].state = "in_progress"
              /\ \E s \in Session : attempt[s] = a /\ step[s] = "close"]_vvars
  BY <1>1
<1>. QED  BY <1>2, VInvariance, PTL DEF VSpec, HistoryIsKept

-----------------------------------------------------------------------------
(* What a reader sees: CertifiedNotices *)

\* A step that writes to no table of the store, as all of verify_capture's, leaves
\* what the loads rely on about archive files and rows.
LEMMA BesideRead ==
    ASSUME NEW later, RInv(later), UNCHANGED <<tables, file, work>>,
           \A s \in Session : pc'[s] = pc[s] \/ (pc[s] = "idle" /\ pc'[s] = "dead")
    PROVE  RInv(later)'
<1>0. UNCHANGED <<captures, batches, rows, pointer, file, job, cap, done, stream, next>>
  BY DEF tables, work
<1>1. ASSUME NEW s \in Session PROVE FileMovesOn(later, s)' /\ ReadIsFounded(s)'
  <2>1. FileMovesOn(later, s) /\ ReadIsFounded(s)
    BY DEF RInv
  <2>2. FileMovesOn(later, s)'
    BY <1>0, <2>1 DEF FileMovesOn, Follows, Holding
  <2>3. ReadIsFounded(s)'
    BY <1>0, <2>1 DEF ReadIsFounded, RowsOf, CleanRun
  <2>. QED  BY <2>2, <2>3
<1>2. RowsOfLaterFiles(later)' /\ RowShape' /\ BatchShape' /\ LoadedShape'
  BY <1>0 DEF RInv, RowsOfLaterFiles, RowShape, BatchShape, BatchHolds, LoadedShape, RowsOf,
     CleanRun
<1>. QED  BY <1>1, <1>2 DEF RInv

\* The steps of verify_capture are beside the loads' reading, and those that do not
\* write evidence change nothing a reader sees.
LEMMA VerifyBeside ==
    ASSUME VInv, NEW s \in Session, Verify(s)
    PROVE  /\ UNCHANGED <<tables, file, work>>
           /\ \A t \in Session : pc'[t] = pc[t] \/ (pc[t] = "idle" /\ pc'[t] = "dead")
           /\ VOpen(s) \/ VClose(s) \/ coverage' = coverage
<1>1. CASE VCrash(s)
  <2>1. pc[s] = "idle" /\ pc \in [Session -> PC]
    BY <1>1 DEF VCrash, VInv, VerifierShape, VerifierHolds, StoreInv, TypeOK
  <2>. QED  BY <1>1, <2>1 DEF VCrash, Goto, evidence
<1>2. CASE VBegin(s) \/ VAdvance(s) \/ VDbError(s)
  <2>1. UNCHANGED <<tables, file, pc, work>>
    BY <1>2 DEF VBegin, VAdvance, VStart, VAcquire, VRefuseBusy, VReread, VOpen, VWalk, VClose,
                VLeave, VDbError, vars
  <2>2. VOpen(s) \/ VClose(s) \/ coverage' = coverage
    BY <1>2 DEF VBegin, VAdvance, VStart, VAcquire, VRefuseBusy, VReread, VWalk, VLeave,
                VDbError, evidence
  <2>. QED  BY <2>1, <2>2
<1>. QED  BY <1>1, <1>2 DEF Verify

\* What is shown and certified of the packages, as CertifiedNotices names them.
ShownNow == [p \in Package |-> Visible(p)]
CertifiedNow == [p \in Package |-> pointer[p] \in coverage]
Contented == \A p \in Package : pointer[p] # 0 =>
                 \E a \in Archive : Visible(p) = Readers!Content(a)

\* publish shows a capture that was only loaded until then, which nobody can have
\* asked to verify.
LEMMA NewlyShownIsUnverified ==
    ASSUME VInv, Next, NEW p \in Package, pointer'[p] # pointer[p]
    PROVE  pointer'[p] \notin coverage
<1>1. PICK s \in Session : Publish(s) /\ ReadyToPublish(cap[s])
  BY PointerWriters
<1>2. /\ cap[s] \in DOMAIN captures
      /\ pointer' = [pointer EXCEPT ![captures[cap[s]].pkg] = cap[s]]
  BY <1>1, PublishTable DEF VInv
<1>3. pointer'[p] = cap[s] /\ captures[cap[s]].status = "loaded"
  BY <1>1, <1>2 DEF VInv, StoreInv, TypeOK, ReadyToPublish
<1>4. AttemptsOf(cap[s]) = {}
  BY <1>3 DEF VInv, AttemptShape, AttemptsOf
<1>. QED  BY <1>2, <1>3, <1>4 DEF VInv, CoverageIsLatestVerdict

\* A step after which one package is certified or not, and the others as before.
LEMMA CertifiedAfter ==
    ASSUME NEW p \in Package, NEW b \in BOOLEAN, (pointer'[p] \in coverage') <=> b,
           \A q \in Package \ {p} : (pointer'[q] \in coverage') <=> (pointer[q] \in coverage)
    PROVE  CertifiedNow' = [CertifiedNow EXCEPT ![p] = b]
<1>1. \A q \in Package : (pointer'[q] \in coverage') =
                             (IF q = p THEN b ELSE pointer[q] \in coverage)
  OBVIOUS
<1>2. [CertifiedNow EXCEPT ![p] = b] =
          [q \in Package |-> IF q = p THEN b ELSE pointer[q] \in coverage]
  BY Zenon DEF CertifiedNow
<1>. QED  BY <1>1, <1>2, Zenon DEF CertifiedNow

\* Only the pointer's move to a capture nobody can have verified changes what is shown.
LEMMA LoadReissues ==
    ASSUME VInv, VInv', NEW later, RInv(later), RInv(later)', Contented', Next,
           UNCHANGED evidence
    PROVE  [Certified!CNext]_<<pointer, ShownNow, CertifiedNow>>
<1>. StoreInv /\ StoreInv' /\ coverage' = coverage
  BY DEF VInv, evidence
<1>1. CASE pointer' = pointer
  <2>1. \A p \in Package : Visible(p)' = Visible(p)
    BY <1>1, VisibleStays
  <2>. QED  BY <1>1, <2>1 DEF ShownNow, CertifiedNow
<1>2. CASE pointer' # pointer
  <2>1. PICK p \in Package, c \in Nat :
             /\ pointer' = [pointer EXCEPT ![p] = c] /\ pointer'[p] = c
             /\ pointer[p] \in Nat /\ c > pointer[p] /\ c # 0
    BY <1>2, PointerMoves
  <2>2. \A q \in Package \ {p} : pointer'[q] = pointer[q]
    BY <2>1 DEF StoreInv, TypeOK
  <2>3. \A q \in Package \ {p} : Visible(q)' = Visible(q)
    BY <2>2, VisibleStays
  <2>4. PICK a \in Archive : Visible(p)' = Readers!Content(a)
    BY <2>1 DEF Contented
  <2>5. ShownNow' = [ShownNow EXCEPT ![p] = Readers!Content(a)]
    BY <2>3, <2>4 DEF ShownNow
  <2>6. c \notin coverage
    <3>1. pointer'[p] # pointer[p]
      BY <2>1
    <3>. QED  BY <2>1, <3>1, NewlyShownIsUnverified
  <2>7. CertifiedNow' = [CertifiedNow EXCEPT ![p] = FALSE]
    <3>1. pointer'[p] \notin coverage'
      BY <2>1, <2>6
    <3>2. \A q \in Package \ {p} : (pointer'[q] \in coverage') <=> (pointer[q] \in coverage)
      BY <2>2
    <3>. QED  BY <3>1, <3>2, CertifiedAfter
  <2>8. Certified!Reissue(p)
    BY <2>1, <2>5, <2>7 DEF Certified!Reissue, Certified!Publish, Certified!Content,
                            Readers!Content, ShownNow, CertifiedNow
  <2>. QED  BY <2>8 DEF Certified!CNext
<1>. QED  BY <1>1, <1>2

\* verify_capture changes nothing of what is shown; it raises or lowers the standing
\* of what one package shows, and raises it only on the source's word.
LEMMA VerifyCertifies ==
    ASSUME VInv, NEW s \in Session, Verify(s)
    PROVE  [Certified!CNext]_<<pointer, ShownNow, CertifiedNow>>
<1>1. pointer' = pointer /\ ShownNow' = ShownNow
  <2>1. UNCHANGED <<rows, pointer>>
    BY VerifyBeside DEF tables
  <2>. QED  BY <2>1 DEF ShownNow, Visible, RowsOf
<1>2. CASE coverage' = coverage
  BY <1>1, <1>2 DEF CertifiedNow
<1>3. CASE coverage' # coverage
  <2>0. /\ VOpen(s) \/ VClose(s)
        /\ target[s] \in DOMAIN captures /\ target[s] # 0
        /\ captures[target[s]].pkg \in Package
        /\ IsPublished(target[s]) /\ local[s] = LocalKeys(target[s])
    BY <1>3, VerifyBeside, CaptureType DEF VOpen, VClose, VInv, VerifierShape, VerifierHolds,
       CheckShape, CheckIsFounded, Capture
  <2>1. PICK c \in DOMAIN captures, p \in Package :
             /\ c = target[s] /\ p = captures[c].pkg /\ c # 0
             /\ IsPublished(c) /\ local[s] = LocalKeys(c)
    BY <2>0
  <2>2. pointer[p] = c /\ \A q \in Package \ {p} : pointer[q] # c
    BY <2>1 DEF IsPublished, VInv, StoreInv, PointerShape, CapturesOf
  <2>5. VClose(s) /\ verdict[s].state = "verified" => local[s] # {} /\ local[s] \in Answers[p]
    BY <2>1 DEF VClose, VInv, CheckShape, CheckIsFounded
  <2>6. \/ coverage' \in {coverage, coverage \ {c}}
        \/ /\ VClose(s) /\ verdict[s].state = "verified"
           /\ coverage' = coverage \cup {c}
    BY <2>0, <2>1 DEF VOpen, VClose, evidence
  <2>3. CASE coverage' = coverage \ {c}
    <3>1. CertifiedNow' = [CertifiedNow EXCEPT ![p] = FALSE]
      BY <1>1, <2>1, <2>2, <2>3, CertifiedAfter
    <3>2. Certified!Doubt(p)
      BY <1>1, <3>1 DEF Certified!Doubt, ShownNow, CertifiedNow
    <3>. QED  BY <2>1, <3>2 DEF Certified!CNext
  <2>4. CASE coverage' # coverage \ {c}
    <3>1. /\ VClose(s) /\ verdict[s].state = "verified"
          /\ coverage' = coverage \cup {c}
      BY <1>3, <2>1, <2>4, <2>6
    <3>2. local[s] # {} /\ local[s] \in Answers[p]
      BY <2>5, <3>1
    <3>3. {n[1] : n \in ShownNow[p]} = LocalKeys(c)
      <4>1. ShownNow[p] = {<<r.notice, r.from>> : r \in RowsOf(c)}
        BY <2>2 DEF ShownNow, Visible
      <4>2. ASSUME NEW n \in ShownNow[p] PROVE n[1] \in LocalKeys(c)
        <5>1. PICK r \in RowsOf(c) : n = <<r.notice, r.from>>
          BY <4>1
        <5>. QED  BY <5>1 DEF LocalKeys
      <4>3. ASSUME NEW r \in RowsOf(c) PROVE r.notice \in {n[1] : n \in ShownNow[p]}
        <5>1. <<r.notice, r.from>> \in ShownNow[p] /\ <<r.notice, r.from>>[1] = r.notice
          BY <4>1
        <5>. QED  BY <5>1
      <4>. QED  BY <4>2, <4>3 DEF LocalKeys
    <3>4. CertifiedNow' = [CertifiedNow EXCEPT ![p] = TRUE]
      BY <1>1, <2>1, <2>2, <3>1, CertifiedAfter
    <3>5. Certified!Certify(p)
      BY <1>1, <2>1, <2>2, <3>2, <3>3, <3>4
         DEF Certified!Certify, Certified!Identifiers, ShownNow, CertifiedNow
    <3>. QED  BY <2>1, <3>5 DEF Certified!CNext
  <2>. QED  BY <2>3, <2>4
<1>. QED  BY <1>2, <1>3

\* Before the first load nothing is shown and nothing certified.
LEMMA ShownAtFirst == VInit => Certified!CInit
<1>. SUFFICES ASSUME VInit PROVE Certified!CInit
  OBVIOUS
<1>1. rows = {} /\ coverage = {} /\ pointer = [p \in Package |-> 0]
  BY DEF VInit, Init
<1>2. Certified!Init
  BY <1>1 DEF Certified!Init, Visible, RowsOf
<1>3. [p \in Package |-> pointer[p] \in coverage] = [p \in Package |-> FALSE]
  <2>1. \A p \in Package : (pointer[p] \in coverage) = FALSE
    BY <1>1
  <2>. QED  BY <2>1, Zenon
<1>. QED  BY <1>2, <1>3 DEF Certified!CInit

\* What loads, verifications, failures and deaths together mean to a reader: whole
\* editions one after the other, each certified only once the source was found to hold
\* a set of identifiers that is exactly the one shown, and never by inheritance.
THEOREM CertifiedEditions == NothingReturns => (VSpec => ReadersSeeCertifiedEditions)
<1>. SUFFICES ASSUME NothingReturns PROVE VSpec => ReadersSeeCertifiedEditions
  OBVIOUS
<1>. PICK later \in SUBSET (Contents \X Contents) : ForwardOnly(later)
  BY DEF NothingReturns
<1>1. VInit => VInv /\ RInv(later)
  BY VInitVInv, InitRead DEF VInit
<1>2. VInv /\ RInv(later) /\ [VNext]_vvars => VInv' /\ RInv(later)'
  <2>. SUFFICES ASSUME VInv, RInv(later), [VNext]_vvars PROVE RInv(later)'
    BY VNextVInv
  <2>1. ASSUME NEW s \in Session, Load(s) PROVE RInv(later)'
    BY <2>1, StepRead DEF Load, Next, VInv
  <2>2. ASSUME NEW s \in Session, Verify(s) PROVE RInv(later)'
    BY <2>2, VerifyBeside, BesideRead
  <2>3. ASSUME NEW p \in Package, SwapFile(p) PROVE RInv(later)'
    BY <2>3, StepRead DEF Next, VInv
  <2>4. CASE UNCHANGED vvars
    BY <2>4, BesideRead DEF vvars, vars
  <2>. QED  BY <2>1, <2>2, <2>3, <2>4 DEF VNext
<1>3. VInv /\ RInv(later) => Contented
  <2>1. VInv => StoreInv
    BY DEF VInv
  <2>. QED  BY <2>1, VisibleIsContent DEF Contented
<1>4. VInit => Certified!CInit
  BY ShownAtFirst
<1>5. VInv /\ RInv(later) /\ VInv' /\ RInv(later)' /\ Contented' /\ [VNext]_vvars
          => [Certified!CNext]_<<pointer, ShownNow, CertifiedNow>>
  <2>. SUFFICES ASSUME VInv, RInv(later), VInv', RInv(later)', Contented', [VNext]_vvars
                PROVE  [Certified!CNext]_<<pointer, ShownNow, CertifiedNow>>
    OBVIOUS
  <2>1. CASE Next /\ UNCHANGED evidence
    BY <2>1, LoadReissues
  <2>2. ASSUME NEW s \in Session, Verify(s)
        PROVE  [Certified!CNext]_<<pointer, ShownNow, CertifiedNow>>
    BY <2>2, VerifyCertifies
  <2>3. CASE UNCHANGED vvars
    BY <2>3 DEF vvars, vars, tables, evidence, ShownNow, CertifiedNow, Visible, RowsOf
  <2>4. \/ Next /\ UNCHANGED evidence
        \/ \E s \in Session : Verify(s)
        \/ UNCHANGED vvars
    BY DEF VNext, Load, Next
  <2>. QED  BY <2>1, <2>2, <2>3, <2>4
<1>6. Certified!CSpec <=> Certified!CInit /\ [][Certified!CNext]_<<pointer, ShownNow, CertifiedNow>>
  BY DEF Certified!CSpec, ShownNow, CertifiedNow
<1>. HIDE DEF Contented
<1>. QED  BY <1>1, <1>2, <1>3, <1>4, <1>5, <1>6, PTL DEF VSpec, ReadersSeeCertifiedEditions

=============================================================================
