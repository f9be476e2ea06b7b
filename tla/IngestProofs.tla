----------------------------- MODULE IngestProofs -----------------------------
(***************************************************************************)
(* Proofs about ingest_package: JInv is inductive for ISpec, whatever the  *)
(* constants are, and what follows from it.  The loader's and the          *)
(* verifier's own invariants come from VerificationProofs.                 *)
(***************************************************************************)
EXTENDS Ingest, VerificationProofs

-----------------------------------------------------------------------------
(* What a step leaves alone *)

\* A capture's identity is immutable, and once it was published so are its counts.
Lasts(c) ==
    /\ c \in DOMAIN captures'
    /\ captures'[c].pkg = captures[c].pkg /\ captures'[c].sha = captures[c].sha
    /\ captures'[c].contract = captures[c].contract
    /\ captures[c].status \in {"published", "superseded"} =>
        /\ captures'[c].status \in {"published", "superseded"}
        /\ captures'[c].counts = captures[c].counts

\* No statement of the repository writes a capture's package, digest or contract after
\* begin_capture, and none writes the counts of one that was published.
LEMMA CapturesLast ==
    ASSUME StoreInv, Next, NEW c \in DOMAIN captures
    PROVE  Lasts(c)
<1>0. captures[c] \in Capture /\ captures \in Seq(Capture)
  BY CaptureRow DEF StoreInv, TypeOK
<1>1. CASE captures[c].status \in {"published", "superseded"}
  <2>1. Kept(c)
    BY <1>1, StepKeepsSettled DEF Settled, OpenStatus
  <2>2. c \in DOMAIN captures'
    <3>1. CASE \E s \in Session : StoreStep(s)
      BY <3>1, StoreStepFrame
    <3>2. CASE \E p \in Package : SwapFile(p)
      BY <3>2 DEF SwapFile, tables
    <3>. QED  BY <3>1, <3>2 DEF Next, StoreStep
  <2>. QED  BY <1>0, <1>1, <2>1, <2>2 DEF Kept, Lasts, Capture
<1>2. CASE captures[c].status \notin {"published", "superseded"}
  <2>1. CASE captures' = captures
    BY <1>2, <2>1 DEF Lasts
  <2>2. ASSUME NEW s \in Session, DecideNew(s), Len(captures) < MaxCaptures
        PROVE  Lasts(c)
    BY <1>2, <2>2, NewCaptureTable DEF Lasts
  <2>3. ASSUME NEW s \in Session, LoadBatch(s) PROVE Lasts(c)
    <3>1. PICK st \in OpenStatus : captures' = [captures EXCEPT ![cap[s]].status = st]
      BY <2>3, LoadBatchTable
    <3>. QED  BY <1>0, <1>2, <3>1 DEF Lasts, Capture
  <2>4. ASSUME NEW s \in Session, Reconcile(s) PROVE Lasts(c)
    <3>1. \E n, st : captures' = [captures EXCEPT ![cap[s]].counts = n, ![cap[s]].status = st]
      BY <2>4 DEF Reconcile
    <3>. QED  BY <1>0, <1>2, <3>1 DEF Lasts, Capture
  <2>5. ASSUME NEW s \in Session, Publish(s), ReadyToPublish(cap[s]) PROVE Lasts(c)
    <3>1. captures' = [d \in DOMAIN captures |->
              IF d = cap[s] THEN [captures[d] EXCEPT !.status = "published"]
              ELSE IF d = pointer[captures[cap[s]].pkg]
                   THEN [captures[d] EXCEPT !.status = "superseded"]
              ELSE captures[d]]
      BY <2>5 DEF Publish
    <3>. QED  BY <1>0, <1>2, <3>1 DEF Lasts, Capture
  <2>6. ASSUME NEW s \in Session, Fail(s) PROVE Lasts(c)
    <3>1. captures' = [captures EXCEPT ![cap[s]].status = "failed"]
      BY <2>6, FailTypes
    <3>. QED  BY <1>0, <1>2, <3>1 DEF Lasts, Capture
  <2>7. \/ captures' = captures
        \/ \E s \in Session : \/ DecideNew(s) /\ Len(captures) < MaxCaptures
                              \/ LoadBatch(s) \/ Reconcile(s) \/ Fail(s)
                              \/ Publish(s) /\ ReadyToPublish(cap[s])
    <3>1. CASE \E s \in Session : WritesTables(s)
      <4>1. PICK s \in Session : WritesTables(s)
        BY <3>1
      <4>. QED  BY <4>1 DEF WritesTables, Prepare
    <3>2. CASE UNCHANGED tables
      BY <3>2 DEF tables
    <3>. QED  BY <3>1, <3>2, TableWriters
  <2>. QED  BY <2>1, <2>2, <2>3, <2>4, <2>5, <2>6, <2>7
<1>. QED  BY <1>1, <1>2

\* What a step of session s leaves alone of loads and verifications: the others' calls,
\* and whatever belongs to a package that another session owns.
VBeside(s) ==
    /\ \A t \in Session \ {s} :
        /\ pc'[t] = pc[t] /\ job'[t] = job[t] /\ cap'[t] = cap[t]
        /\ step'[t] = step[t] /\ target'[t] = target[t]
    /\ \A p \in Package : owner'[p] \in Session \ {s} => owner'[p] = owner[p]
    /\ \A p \in Package : owner[p] \in Session \ {s} =>
        /\ owner'[p] = owner[p] /\ depth'[p] = depth[p] /\ pointer'[p] = pointer[p]
        /\ \A c \in CapturesOf(p) : captures'[c] = captures[c] /\ (c \in coverage' <=> c \in coverage)

\* What a step never takes back.
VGrows ==
    /\ \A c \in DOMAIN captures : Lasts(c)
    /\ \A p \in Package : pointer'[p] >= pointer[p]
    /\ \A a \in DOMAIN attempts :
        /\ a \in DOMAIN attempts' /\ attempts'[a].capture = attempts[a].capture
        /\ attempts[a].state = "verified" => attempts'[a].state = "verified"

\* Taking or giving back a lock is nothing to a session that owns another one.
SparesLocks(s) ==
    \A p \in Package :
        /\ owner'[p] \in Session \ {s} => owner'[p] = owner[p]
        /\ owner[p] \in Session \ {s} => owner'[p] = owner[p] /\ depth'[p] = depth[p]

\* Taking or giving back one advisory lock changes the holdings of that session alone.
LEMMA LocksSpared ==
    ASSUME StoreInv, NEW s \in Session, NEW p \in Package, TakeLock(s, p) \/ GiveLock(s, p)
    PROVE  SparesLocks(s)
<1>1. CASE TakeLock(s, p)
  <2>1. LockFree(s, p)
    BY <1>1 DEF TakeLock
  <2>. QED  BY <1>1, <2>1, TakeLockTable, ConstantsAreDisjoint
            DEF StoreInv, LockFree, SparesLocks
<1>2. CASE GiveLock(s, p)
  BY <1>2, GiveLockTable, ConstantsAreDisjoint DEF StoreInv, SparesLocks
<1>. QED  BY <1>1, <1>2

\* The lock keeps every other session out of a package for all of a load's steps.
LEMMA StoreBeside ==
    ASSUME VInv, NEW s \in Session, StoreStep(s), UNCHANGED <<evidence, check>>
    PROVE  VBeside(s) /\ VGrows
<1>0. StoreInv /\ Next
  BY DEF VInv, StoreStep, Next
<1>1. \A t \in Session \ {s} : pc'[t] = pc[t] /\ job'[t] = job[t] /\ cap'[t] = cap[t]
  BY <1>0, OthersWork DEF StoreStep
<1>2. SparesLocks(s)
  <2>1. CASE UNCHANGED lock
    BY <2>1 DEF lock, SparesLocks
  <2>2. CASE Acquire(s)
    <3>1. job[s].pkg \in Package /\ TakeLock(s, job[s].pkg)
      BY <1>0, <2>2 DEF Acquire, StoreInv, SessionShape, Job
    <3>. QED  BY <1>0, <3>1, LocksSpared
  <2>3. CASE Finish(s)
    <3>1. job[s].pkg \in Package /\ GiveLock(s, job[s].pkg)
      BY <1>0, <2>3, HeldInside DEF Finish, Holding
    <3>. QED  BY <1>0, <3>1, LocksSpared
  <2>4. CASE Reap(s)
    BY <2>4, ConstantsAreDisjoint DEF Reap, SparesLocks
  <2>5. UNCHANGED lock \/ Acquire(s) \/ Finish(s) \/ Reap(s)
    BY DEF StoreStep, Start, StartLoad, Advance, RefuseBusy, DecideResume, DecideReplay,
       DecideNew, Prepare, ReadFails, SkipBatch, LoadBatch, LoadDuplicate, Recheck, Reconcile,
       Publish, Fail, DbError, Crash, tables
  <2>. QED  BY <2>1, <2>2, <2>3, <2>4, <2>5
<1>3. VBeside(s)
  BY <1>0, <1>1, <1>2, StoreStepFrame DEF VBeside, SparesLocks, CapturesOf, evidence, check
<1>4. \A p \in Package : pointer'[p] >= pointer[p]
  <2>1. pointer \in [Package -> Nat]
    BY <1>0 DEF StoreInv, TypeOK
  <2>. QED  BY <1>0, <2>1, PointerMoves
<1>5. VGrows
  BY <1>0, <1>4, CapturesLast DEF VGrows, evidence
<1>. QED  BY <1>3, <1>5

\* A step that writes neither the store's tables nor evidence leaves to show what it does
\* to the locks and to the calls of the others.
LEMMA QuietBeside ==
    ASSUME VInv, NEW s \in Session, UNCHANGED <<tables, evidence>>, SparesLocks(s),
           \A t \in Session \ {s} :
               /\ pc'[t] = pc[t] /\ job'[t] = job[t] /\ cap'[t] = cap[t]
               /\ step'[t] = step[t] /\ target'[t] = target[t]
    PROVE  VBeside(s) /\ VGrows
<1>1. VBeside(s)
  BY DEF VBeside, SparesLocks, tables, evidence
<1>2. \A p \in Package : pointer'[p] >= pointer[p]
  BY DEF tables, VInv, StoreInv, TypeOK
<1>3. VGrows
  BY <1>2 DEF VGrows, Lasts, tables, evidence
<1>. QED  BY <1>1, <1>3

\* verify_capture writes about one capture of a package whose lock it holds.
LEMMA CheckBeside ==
    ASSUME VInv, NEW s \in Session, Verify(s)
    PROVE  VBeside(s) /\ VGrows
<1>. USE DEF Do, Drop
<1>0. /\ VTypeOK /\ StoreInv
      /\ \A t \in Session \ {s} : /\ pc'[t] = pc[t] /\ job'[t] = job[t] /\ cap'[t] = cap[t]
                                  /\ step'[t] = step[t] /\ target'[t] = target[t]
  <2>1. VTypeOK /\ StoreInv /\ TypeOK /\ pc \in [Session -> PC]
    BY DEF VInv, VTypeOK, StoreInv, TypeOK
  <2>2. UNCHANGED <<job, cap>>
    BY VerifyBeside DEF work
  <2>3. \A t \in Session \ {s} : step'[t] = step[t] /\ target'[t] = target[t]
    BY <2>1 DEF VTypeOK, Verify, VBegin, VAdvance, VStart, VAcquire, VRefuseBusy, VReread,
       VOpen, VWalk, VClose, VLeave, VDbError, VCrash
  <2>4. \A t \in Session \ {s} : pc'[t] = pc[t]
    BY <2>1 DEF Goto, Verify, VBegin, VAdvance, VStart, VAcquire, VRefuseBusy, VReread,
       VOpen, VWalk, VClose, VLeave, VDbError, VCrash, vars
  <2>. QED  BY <2>1, <2>2, <2>3, <2>4
<1>1. CASE VAcquire(s) \/ VLeave(s)
  <2>1. captures[target[s]].pkg \in Package
    BY <1>0, <1>1, CaptureType DEF VAcquire, VLeave, VInv, VerifierShape, VerifierHolds, Capture
  <2>2. SparesLocks(s) /\ UNCHANGED <<tables, evidence>>
    BY <1>0, <1>1, <2>1, LocksSpared DEF VAcquire, VLeave
  <2>. QED  BY <1>0, <2>2, QuietBeside
<1>2. CASE UNCHANGED <<tables, lock, evidence>>
  BY <1>0, <1>2, QuietBeside DEF lock, SparesLocks
<1>3. CASE (VOpen(s) \/ VClose(s)) /\ UNCHANGED <<tables, lock>>
  <2>1. /\ target[s] \in DOMAIN captures
        /\ owner[captures[target[s]].pkg] = s
    BY <1>3 DEF VOpen, VClose, VInv, VerifierShape, VerifierHolds, Checking
  <2>2. \A c : c # target[s] => (c \in coverage' <=> c \in coverage)
    BY <1>3 DEF VOpen, VClose, evidence
  <2>3. VBeside(s)
    BY <1>0, <1>3, <2>1, <2>2 DEF VBeside, CapturesOf, tables, lock
  <2>4. \A a \in DOMAIN attempts :
            /\ a \in DOMAIN attempts' /\ attempts'[a].capture = attempts[a].capture
            /\ attempts[a].state = "verified" => attempts'[a].state = "verified"
    <3>1. attempts \in Seq(Attempt)
      BY <1>0 DEF VTypeOK
    <3>2. \A a \in DOMAIN attempts : attempts[a] \in Attempt
      BY <3>1, ElementOfSeq, LenProperties
    <3>3. CASE attempts' = attempts
      BY <3>3
    <3>4. CASE attempts' = Append(attempts, NewAttempt(s))
      BY <3>1, <3>4, LenProperties
    <3>5. CASE /\ attempts[attempt[s]].state = "in_progress"
               /\ attempts' = [attempts EXCEPT ![attempt[s]].state = verdict[s].state,
                                               ![attempt[s]].keys = verdict[s].keys]
      BY <3>2, <3>5 DEF Attempt
    <3>. QED  BY <1>3, <3>3, <3>4, <3>5 DEF VOpen, VClose, evidence
  <2>5. \A p \in Package : pointer'[p] >= pointer[p]
    BY <1>0, <1>3 DEF StoreInv, TypeOK, tables
  <2>. QED  BY <1>3, <2>3, <2>4, <2>5 DEF VGrows, Lasts, tables
<1>. QED  BY <1>1, <1>2, <1>3 DEF Verify, VBegin, VAdvance, VStart, VRefuseBusy, VReread,
          VOpen, VWalk, VClose, VDbError, VCrash, vars

-----------------------------------------------------------------------------
(* What is to be shown of a step *)

RecordTypes == runs \in Seq(Run) /\ checkpoint \in [Package -> Checkpoint \cup {None}]

FlowTypes ==
    /\ at \in [Session -> Steps \cup {"idle"}]
    /\ goal \in [Session -> Goal \cup {None}]
    /\ run \in [Session -> Nat]
    /\ copy \in [Session -> Run \cup {None}]
    /\ found \in [Session -> Archive \cup {None}]
    /\ result \in [Session -> Nat]
    /\ outcome \in [Session -> {None, "processed", "replayed", "incomplete"}]

\* What a step of session s leaves alone of the ingests of the others.
FlowBeside(s) ==
    \A t \in Session \ {s} :
        /\ at'[t] = at[t] /\ goal'[t] = goal[t] /\ run'[t] = run[t] /\ copy'[t] = copy[t]
        /\ found'[t] = found[t] /\ result'[t] = result[t] /\ outcome'[t] = outcome[t]

RecordsBeside(s) ==
    \A p \in Package : owner[p] \in Session \ {s} =>
        /\ checkpoint'[p] = checkpoint[p] /\ RunsOf(p)' = RunsOf(p)
        /\ \A i \in RunsOf(p) : runs'[i] = runs[i]

\* What a step never takes back of the runs on record.
RunsGrow ==
    \A i \in DOMAIN runs :
        /\ i \in DOMAIN runs' /\ runs'[i].pkg = runs[i].pkg
        /\ runs[i].phase \in Ended => runs'[i] = runs[i]

CountsOf(s) ==
    \A p \in Package : owner[p] = s /\ pc[s] # "dead" => depth[p] = Acquired(s, p)

\* What each step has to establish of the session that takes it.
OwnShape(s) ==
    CallIsFounded(s) /\ RunIsFounded(s) /\ SuccessIsFounded(s) /\ CountsOf(s)

\* A session that holds a package's lock through a step of another one is where it was,
\* and what it knows of the package is as true as it was.
LEMMA OthersHold ==
    ASSUME JInv, NEW s \in Session, VBeside(s), VGrows, FlowBeside(s), RecordsBeside(s),
           NEW t \in Session \ {s}
    PROVE  CallIsFounded(t)' /\ RunIsFounded(t)' /\ SuccessIsFounded(t)'
<1>. PICK p : p = Pkg(t)
  OBVIOUS
<1>0. /\ CallIsFounded(t) /\ RunIsFounded(t) /\ SuccessIsFounded(t)
      /\ at'[t] = at[t] /\ goal'[t] = goal[t] /\ run'[t] = run[t] /\ copy'[t] = copy[t]
      /\ found'[t] = found[t] /\ result'[t] = result[t] /\ outcome'[t] = outcome[t]
      /\ pc'[t] = pc[t] /\ job'[t] = job[t] /\ cap'[t] = cap[t]
      /\ step'[t] = step[t] /\ target'[t] = target[t]
      /\ Pkg(t)' = p /\ goal[t].pkg = p
  BY DEF JInv, CallShape, RunShape, SuccessShape, FlowBeside, VBeside, Pkg
<1>1. ASSUME at[t] \in Held
      PROVE  /\ p \in Package /\ owner[p] = t /\ owner'[p] = t /\ pointer'[p] = pointer[p]
             /\ checkpoint'[p] = checkpoint[p]
             /\ RunsOf(p)' = RunsOf(p) /\ \A i \in RunsOf(p) : runs'[i] = runs[i]
             /\ \A c \in CapturesOf(p) :
                    captures'[c] = captures[c] /\ (c \in coverage' <=> c \in coverage)
  <2>1. p \in Package /\ owner[p] = t
    BY <1>0, <1>1 DEF CallIsFounded, Held, Steps, Goal, Pkg
  <2>. QED  BY <2>1 DEF VBeside, RecordsBeside
<1>2. CallIsFounded(t)'
  BY <1>0, <1>1 DEF CallIsFounded, Pkg
<1>3. ASSUME at[t] \in Held, NEW c, Wanted(t, c) PROVE Wanted(t, c)'
  <2>1. c \in DOMAIN captures' /\ captures'[c] = captures[c]
    BY <1>1, <1>3 DEF Wanted, Pkg, CapturesOf, VGrows, Lasts
  <2>. QED  BY <1>0, <1>3, <2>1 DEF Wanted, Pkg, CapturesOf
<1>4. CASE at[t] \notin Held
  <2>1. at[t] \notin Steps \ {"lock"}
    BY <1>4 DEF Held
  <2>2. RunIsFounded(t)'
    BY <1>0, <2>1 DEF RunIsFounded, Held, Steps
  <2>3. outcome[t] = None
    BY <1>0, <2>1 DEF SuccessIsFounded, Steps
  <2>4. SuccessIsFounded(t)'
    BY <1>0, <2>3, IngestAssumption DEF SuccessIsFounded
  <2>. QED  BY <1>2, <2>2, <2>4
<1>5. CASE at[t] \in Held
  <2>1. ASSUME run[t] \in OpenRuns(p)
        PROVE  run'[t] \in OpenRuns(p)' /\ runs'[run[t]] = runs[run[t]]
    BY <1>0, <1>1, <1>5, <2>1 DEF OpenRuns
  <2>2. RunIsFounded(t)'
    <3>1. CASE at[t] \in {"replay", "open", "report", "leave"}
      BY <1>0, <1>1, <1>5, <3>1 DEF RunIsFounded, Pkg
    <3>2. CASE at[t] \notin {"replay", "open", "report", "leave"}
      <4>1. run'[t] \in OpenRuns(p)' /\ runs'[run[t]] = runs[run[t]]
        BY <1>0, <1>5, <2>1, <3>2 DEF RunIsFounded, Pkg
      <4>2. \A c : Wanted(t, c) => Wanted(t, c)'
        BY <1>3, <1>5
      <4>. QED  BY <1>0, <3>2, <4>1, <4>2 DEF RunIsFounded, Pkg
    <3>. QED  BY <3>1, <3>2
  <2>3. SuccessIsFounded(t)'
    <3>1. ASSUME checkpoint[p] # None PROVE checkpoint[p].capture \in CapturesOf(p)
      BY <1>1, <1>5, <3>1 DEF JInv, CheckpointShape, CheckpointIsFounded
    <3>. QED  BY <1>0, <1>1, <1>5, <3>1 DEF SuccessIsFounded, Pkg
  <2>. QED  BY <1>2, <2>2, <2>3
<1>. QED  BY <1>2, <1>4, <1>5

\* PostgreSQL's counts for the other sessions are what they were.
LEMMA OthersCounts ==
    ASSUME JInv, NEW s \in Session, VBeside(s), VGrows, FlowBeside(s), TypeOK', CountsOf(s)'
    PROVE  LockCounts'
<1>. SUFFICES ASSUME NEW p \in Package, owner'[p] # None, pc'[owner'[p]] # "dead"
              PROVE  depth'[p] = Acquired(owner[p], p)'
  BY DEF LockCounts
<1>1. PICK t \in Session : owner'[p] = t
  BY DEF TypeOK
<1>4. Acquired(owner[p], p)' = Acquired(t, p)'
  BY <1>1 DEF Acquired
<1>2. CASE t = s
  BY <1>1, <1>2, <1>4 DEF CountsOf
<1>3. CASE t # s
  <2>1. t \in Session \ {s} /\ owner[p] = t /\ depth'[p] = depth[p]
    BY <1>1, <1>3 DEF VBeside
  <2>2. /\ at'[t] = at[t] /\ goal'[t] = goal[t]
        /\ pc'[t] = pc[t] /\ job'[t] = job[t] /\ step'[t] = step[t] /\ target'[t] = target[t]
    BY <2>1 DEF FlowBeside, VBeside
  <2>3. depth[p] = Acquired(t, p)
    BY <1>1, <2>1, <2>2, ConstantsAreDisjoint DEF JInv, LockCounts
  <2>4. step[t] \in Checking => captures'[target[t]].pkg = captures[target[t]].pkg
    BY <2>1 DEF JInv, VInv, VerifierShape, VerifierHolds, Checking, VGrows, Lasts
  <2>5. \A u \in Session :
          /\ at'[u] = at[u] /\ goal'[u] = goal[u] /\ pc'[u] = pc[u] /\ job'[u] = job[u]
          /\ step'[u] = step[u] /\ target'[u] = target[u]
          /\ (step[u] \in Checking => captures'[target[u]].pkg = captures[target[u]].pkg)
          => Acquired(u, p)' = Acquired(u, p)
    BY DEF Acquired, Taken, Pkg
  <2>. QED  BY <1>4, <2>1, <2>2, <2>3, <2>4, <2>5
<1>. QED  BY <1>2, <1>3

\* A row that a step leaves alone stays what it was, when its package got no other row
\* while it is open and no earlier checkpoint once it is completed.
LEMMA RowLasts ==
    ASSUME JInv, VGrows, NEW i \in DOMAIN runs, i \in DOMAIN runs', runs'[i] = runs[i],
           runs[i].phase \in OpenPhases => RunsOf(runs[i].pkg)' \subseteq RunsOf(runs[i].pkg),
           runs[i].phase = "completed" =>
               /\ checkpoint'[runs[i].pkg] # None
               /\ checkpoint'[runs[i].pkg].run >= checkpoint[runs[i].pkg].run,
           \A p \in Package : checkpoint'[p] # None => checkpoint'[p].run \in Nat
    PROVE  RowIsFounded(i)'
<1>. DEFINE r == runs[i]
<1>0. RowIsFounded(i) /\ r \in Run /\ r.pkg \in Package /\ i \in Nat
  <2>1. runs \in Seq(Run)
    BY DEF JInv, ITypeOK
  <2>2. r \in Run /\ i \in Nat
    BY <2>1, ElementOfSeq, LenProperties
  <2>. QED  BY <2>2 DEF JInv, RowsShape, Run
<1>1. r.capture # 0 => r.capture \in CapturesOf(r.pkg)'
  BY <1>0 DEF RowIsFounded, CapturesOf, VGrows, Lasts
<1>2. r.attempt # 0 => r.attempt \in AttemptsOf(r.capture)'
  BY <1>0 DEF RowIsFounded, AttemptsOf, VGrows
<1>3. r.phase \in OpenPhases => \A j \in RunsOf(r.pkg)' : j <= i
  BY <1>0 DEF RowIsFounded
<1>4. r.phase = "completed" => checkpoint'[r.pkg] # None /\ checkpoint'[r.pkg].run >= i
  <2>1. r.phase = "completed" => /\ checkpoint[r.pkg] \in Checkpoint
                                 /\ checkpoint[r.pkg].run >= i
    BY <1>0 DEF RowIsFounded, JInv, ITypeOK
  <2>2. r.phase = "completed" => checkpoint[r.pkg].run \in Nat /\ checkpoint'[r.pkg].run \in Nat
    BY <1>0, <2>1 DEF Checkpoint
  <2>. QED  BY <1>0, <2>1, <2>2
<1>. QED  BY <1>0, <1>1, <1>2, <1>3, <1>4 DEF RowIsFounded, Evidenced

\* A checkpoint that a step leaves alone cites what is still as it was.
LEMMA CheckpointLasts ==
    ASSUME JInv, VGrows, RunsGrow, NEW p \in Package, checkpoint'[p] = checkpoint[p],
           pointer' \in [Package -> Nat]
    PROVE  CheckpointIsFounded(p)'
<1>. SUFFICES ASSUME checkpoint[p] # None PROVE CheckpointIsFounded(p)'
  BY DEF CheckpointIsFounded
<1>. DEFINE k == checkpoint[p]
<1>0. CheckpointIsFounded(p) /\ k \in Checkpoint
  BY DEF JInv, CheckpointShape, ITypeOK
<1>1. k.run \in DOMAIN runs' /\ runs'[k.run] = runs[k.run]
  BY <1>0 DEF CheckpointIsFounded, RunsGrow, Ended
<1>2. k.capture \in CapturesOf(p)' /\ k.capture <= pointer'[p]
  <2>1. k.capture \in Nat /\ pointer[p] \in Nat /\ pointer'[p] \in Nat
    BY <1>0 DEF Checkpoint, JInv, VInv, StoreInv, TypeOK
  <2>. QED  BY <1>0, <2>1 DEF CheckpointIsFounded, CapturesOf, VGrows, Lasts
<1>3. /\ captures'[k.capture].status \in {"published", "superseded"}
      /\ captures'[k.capture].sha = k.sha /\ captures'[k.capture].contract = k.contract
      /\ captures'[k.capture].counts = <<k.count, k.count, k.count>>
  BY <1>0 DEF CheckpointIsFounded, CapturesOf, VGrows, Lasts
<1>4. k.attempt \in AttemptsOf(k.capture)' /\ attempts'[k.attempt].state = "verified"
  BY <1>0 DEF CheckpointIsFounded, AttemptsOf, VGrows
<1>. QED  BY <1>0, <1>1, <1>2, <1>3, <1>4 DEF CheckpointIsFounded

\* The step of a session, put together.
LEMMA StepJInv ==
    ASSUME JInv, VInv', NEW s \in Session, RecordTypes', FlowTypes', VBeside(s), VGrows,
           FlowBeside(s), RecordsBeside(s), OwnShape(s)', RowsShape', CheckpointShape'
    PROVE  JInv'
<1>1. ITypeOK'
  BY DEF ITypeOK, VInv, RecordTypes, FlowTypes
<1>2. CallShape' /\ RunShape' /\ SuccessShape'
  BY OthersHold DEF CallShape, RunShape, SuccessShape, OwnShape
<1>3. LockCounts'
  BY OthersCounts DEF OwnShape, VInv, StoreInv
<1>. QED  BY <1>1, <1>2, <1>3 DEF JInv

\* Most steps write neither to ingest_run nor to package_checkpoint.
LEMMA RecordsStand ==
    ASSUME JInv, VInv', NEW s \in Session, VGrows, UNCHANGED records
    PROVE  RecordTypes' /\ RecordsBeside(s) /\ RunsGrow /\ RowsShape' /\ CheckpointShape'
<1>0. UNCHANGED <<runs, checkpoint>>
  BY DEF records
<1>1. RecordTypes' /\ RecordsBeside(s) /\ RunsGrow
  BY <1>0 DEF JInv, ITypeOK, RecordTypes, RecordsBeside, RunsGrow, RunsOf
<1>2. pointer' \in [Package -> Nat]
  BY DEF VInv, StoreInv, TypeOK
<1>3. CheckpointShape'
  BY <1>0, <1>1, <1>2, CheckpointLasts DEF CheckpointShape
<1>4. ASSUME NEW i \in DOMAIN runs PROVE RowIsFounded(i)'
  <2>1. runs[i] \in Run /\ runs[i].pkg \in Package
    <3>1. runs \in Seq(Run)
      BY DEF JInv, ITypeOK
    <3>2. runs[i] \in Run
      BY <3>1, ElementOfSeq, LenProperties
    <3>. QED  BY <3>2 DEF Run
  <2>2. RunsOf(runs[i].pkg)' = RunsOf(runs[i].pkg)
    BY <1>0 DEF RunsOf
  <2>3. runs[i].phase = "completed" =>
            /\ checkpoint'[runs[i].pkg] # None
            /\ checkpoint'[runs[i].pkg].run >= checkpoint[runs[i].pkg].run
    <3>1. ASSUME runs[i].phase = "completed"
          PROVE  /\ checkpoint[runs[i].pkg] # None /\ checkpoint[runs[i].pkg].run \in Nat
      BY <2>1, <3>1 DEF JInv, RowsShape, RowIsFounded, ITypeOK, Checkpoint
    <3>. QED  BY <1>0, <3>1
  <2>4. \A p \in Package : checkpoint'[p] # None => checkpoint'[p].run \in Nat
    BY <1>0 DEF JInv, ITypeOK, Checkpoint
  <2>. QED  BY <1>0, <2>2, <2>3, <2>4, RowLasts
<1>5. RowsShape'
  BY <1>0, <1>4 DEF RowsShape
<1>. QED  BY <1>1, <1>3, <1>5

-----------------------------------------------------------------------------
(* Steps of ingest_package itself, seen from the loads and verifications *)

\* What a verifier relies on is not disturbed by a session that verifies nothing.
LEMMA NotVerifying ==
    ASSUME VInv, NEW s \in Session, UNCHANGED <<tables, evidence>>, StoreInv', CheckTypes',
           step'[s] = "idle", SparesOthers(s), SparesLocks(s),
           \A t \in Session \ {s} : pc'[t] = pc[t] /\ job'[t] = job[t] /\ cap'[t] = cap[t]
    PROVE  VInv' /\ VBeside(s) /\ VGrows
<1>1. VerifierHolds(s)' /\ CheckIsFounded(s)'
  BY DEF VerifierHolds, CheckIsFounded, Checking
<1>2. VInv'
  BY <1>1, QuietStep DEF SparesLocks
<1>3. VBeside(s) /\ VGrows
  BY QuietBeside DEF SparesOthers
<1>. QED  BY <1>2, <1>3

\* Between the calls of the loader and the verifier a session is in neither.
LEMMA BetweenCalls ==
    ASSUME JInv, NEW s \in Session, at[s] \notin {"idle", "loading", "verifying"}
    PROVE  /\ VInv /\ StoreInv /\ TypeOK /\ CheckTypes
           /\ pc[s] = "idle" /\ step[s] = "idle" /\ cap[s] = 0
           /\ goal[s] \in Goal /\ Pkg(s) \in Package /\ goal[s].req \in Request
           /\ CallIsFounded(s) /\ RunIsFounded(s) /\ SuccessIsFounded(s) /\ CountsOf(s)
<1>1. VInv /\ StoreInv /\ TypeOK /\ CheckTypes
  BY DEF JInv, VInv, VTypeOK, StoreInv, CheckTypes
<1>2. CallIsFounded(s) /\ RunIsFounded(s) /\ SuccessIsFounded(s)
  BY DEF JInv, CallShape, RunShape, SuccessShape
<1>3. CountsOf(s)
  BY ConstantsAreDisjoint DEF JInv, LockCounts, CountsOf
<1>4. goal[s] \in Goal /\ pc[s] = "idle" /\ step[s] = "idle" /\ cap[s] = 0
  BY <1>2 DEF CallIsFounded
<1>. QED  BY <1>1, <1>2, <1>3, <1>4 DEF Goal, Pkg

\* A step of ingest_package that moves nothing of the store.
LEMMA StandStill ==
    ASSUME JInv, NEW s \in Session, UNCHANGED vvars
    PROVE  VInv' /\ VBeside(s) /\ VGrows
<1>1. VInv'
  BY VNextVInv DEF JInv
<1>2. UNCHANGED <<tables, evidence, owner, depth, pc, job, cap, step, target>>
  BY DEF vvars, vars, check, lock, work
<1>3. SparesLocks(s)
  BY <1>2 DEF SparesLocks
<1>. QED  BY <1>1, <1>2, <1>3, QuietBeside DEF JInv

\* ingest_package takes and gives back the lock, downloads, is cancelled in a statement
\* of its own, or dies.
LEMMA LockSteps ==
    ASSUME JInv, NEW s \in Session, IAcquire(s) \/ ILeave(s)
    PROVE  VInv' /\ VBeside(s) /\ VGrows
<1>0. at[s] \in {"lock", "leave"}
  BY DEF IAcquire, ILeave
<1>1. /\ TakeLock(s, Pkg(s)) \/ GiveLock(s, Pkg(s))
      /\ UNCHANGED <<tables, file, pc, work, budgets, evidence, check>>
  BY DEF IAcquire, ILeave
<1>2. StoreInv'
  BY <1>0, <1>1, BetweenCalls, StoreInvLocks DEF Holding
<1>3. SparesLocks(s)
  BY <1>0, <1>1, BetweenCalls, LocksSpared
<1>4. CheckTypes' /\ SparesOthers(s) /\ step'[s] = "idle"
  BY <1>0, <1>1, BetweenCalls DEF CheckTypes, SparesOthers, check
<1>. QED  BY <1>0, <1>1, <1>2, <1>3, <1>4, BetweenCalls, NotVerifying DEF work

\* A download, and a database error in the ingest's own statements, leave the capture
\* store and the verifier's tables as they are, apart from the session's own locks.
LEMMA DownloadSteps ==
    ASSUME JInv, NEW s \in Session, IDownload(s) \/ IDbError(s)
    PROVE  VInv' /\ VBeside(s) /\ VGrows
<1>0. at[s] \notin {"idle", "loading", "verifying"}
  BY DEF IDownload, IDbError
<1>1. UNCHANGED <<tables, lock, pc, work, evidence, check>>
  BY DEF IDownload, IDbError
<1>2. StoreInv'
  <2>1. CASE IDownload(s)
    <3>0. file \in [Package -> Archive \cup {None}] /\ Pkg(s) \in Package
      BY <1>0, BetweenCalls DEF TypeOK
    <3>1. file' \in [Package -> Archive \cup {None}] /\ UNCHANGED budgets
      BY <2>1, <3>0, IngestAssumption DEF IDownload
    <3>. QED  BY <1>0, <1>1, <3>1, BetweenCalls DEF StoreInv, TypeOK, SessionShape, LockShape,
              WorkShape, PointerShape, CapturesOf, IsLatest, tables, lock, work, budgets
  <2>2. CASE IDbError(s)
    <3>1. /\ crashes' \in Nat /\ faults' \in Nat /\ swaps' \in Nat
          /\ UNCHANGED file
      BY <1>0, <2>2, BetweenCalls DEF IDbError, TypeOK
    <3>. QED  BY <1>0, <1>1, <3>1, BetweenCalls, StoreInvBeside
  <2>. QED  BY <2>1, <2>2
<1>3. SparesLocks(s)
  BY <1>1 DEF SparesLocks, lock
<1>4. CheckTypes' /\ SparesOthers(s) /\ step'[s] = "idle"
  BY <1>0, <1>1, BetweenCalls DEF CheckTypes, SparesOthers, check
<1>. QED  BY <1>0, <1>1, <1>2, <1>3, <1>4, BetweenCalls, NotVerifying DEF work

\* A killed ingest leaves the capture store and the verifier's tables as they are.
LEMMA DeathSteps ==
    ASSUME JInv, NEW s \in Session, ICrash(s)
    PROVE  VInv' /\ VBeside(s) /\ VGrows
<1>0. VInv /\ StoreInv /\ TypeOK /\ CheckTypes
  BY DEF JInv, VInv, VTypeOK, StoreInv, CheckTypes
<1>1. /\ Goto(s, "dead") /\ Forget(s) /\ Do(s, "idle") /\ Drop(s)
      /\ UNCHANGED <<tables, lock, file, evidence>>
      /\ crashes' \in Nat /\ faults' \in Nat /\ swaps' \in Nat
  BY <1>0 DEF ICrash, TypeOK
<1>2. StoreInv'
  BY <1>0, <1>1, StoreInvDeath
<1>3. SparesLocks(s)
  BY <1>1 DEF SparesLocks, lock
<1>4. CheckTypes' /\ SparesOthers(s) /\ step'[s] = "idle"
  BY <1>0, <1>1 DEF CheckTypes, SparesOthers, Do, Drop
<1>5. \A t \in Session \ {s} : pc'[t] = pc[t] /\ job'[t] = job[t] /\ cap'[t] = cap[t]
  BY <1>0, <1>1 DEF Goto, Forget, TypeOK
<1>. QED  BY <1>0, <1>1, <1>2, <1>3, <1>4, <1>5, NotVerifying

-----------------------------------------------------------------------------
(* Steps of ingest_package that write no record *)

\* A session that stays under the lock, outside the loader and the verifier.
LEMMA InHand ==
    ASSUME JInv, NEW s \in Session, NEW l \in Held \ {"loading", "verifying"},
           at[s] \in Held \ {"loading", "verifying"}, at' = [at EXCEPT ![s] = l],
           UNCHANGED <<captures, owner, depth, pc, job, cap, step, target, goal>>
    PROVE  CallIsFounded(s)' /\ CountsOf(s)' /\ at'[s] = l
<1>0. at[s] \notin {"idle", "loading", "verifying"} /\ at \in [Session -> Steps \cup {"idle"}]
  BY DEF Held, Steps, JInv, ITypeOK
<1>1. at'[s] = l /\ l \notin {"idle", "loading", "verifying", "lock"} /\ l \in Held
  BY <1>0 DEF Held, Steps
<1>2. CallIsFounded(s)'
  BY <1>0, <1>1, BetweenCalls DEF CallIsFounded, Pkg
<1>3. CountsOf(s)'
  <2>1. at[s] \in Held /\ CountsOf(s)
    BY <1>0, BetweenCalls
  <2>. QED  BY <1>1, <2>1 DEF CountsOf, Acquired, Taken, Pkg
<1>. QED  BY <1>1, <1>2, <1>3

\* A session that has none of its package's locks is in no call of it.
LEMMA OutOfHand ==
    ASSUME JInv, NEW s \in Session, at[s] = "lock", NEW p \in Package
    PROVE  owner[p] # s
<1>1. at[s] \notin {"idle", "loading", "verifying"} /\ at[s] \notin Held
  BY DEF Held
<1>2. /\ CountsOf(s) /\ pc[s] = "idle" /\ step[s] = "idle" /\ TypeOK
      /\ \A q \in Package : depth[q] = 0 <=> owner[q] = None
  BY <1>1, BetweenCalls DEF StoreInv, LockShape
<1>3. Acquired(s, p) = 0
  BY <1>1, <1>2 DEF Acquired, Taken, Holding, Checking
<1>. QED  BY <1>2, <1>3, ConstantsAreDisjoint DEF CountsOf

\* ingest_package's first lines keep the invariant.
LEMMA BeginSteps ==
    ASSUME JInv, NEW s \in Session, NEW p \in Package, NEW r \in Requests, IStart(s, p, r)
    PROVE  JInv'
<1>. USE DEF At
<1>0. /\ pc[s] = "idle" /\ step[s] = "idle" /\ at[s] = "idle" /\ UNCHANGED vvars
      /\ UNCHANGED records /\ VInv /\ ITypeOK
  BY DEF IStart, Idle, JInv
<1>1. VInv' /\ VBeside(s) /\ VGrows
  BY <1>0, StandStill
<1>2. RecordTypes' /\ RecordsBeside(s) /\ RowsShape' /\ CheckpointShape'
  BY <1>0, <1>1, RecordsStand
<1>3. [pkg |-> p, req |-> r] \in Goal
  BY ConstantsAreTyped DEF Goal
<1>4. FlowTypes' /\ FlowBeside(s)
  BY <1>0, <1>3 DEF IStart, ITypeOK, FlowTypes, FlowBeside, Steps
<1>5. /\ at'[s] = "lock" /\ goal'[s] \in Goal /\ goal'[s].req \in Requests
      /\ UNCHANGED <<owner, depth, pc, job, cap, step, target, captures, outcome>>
  BY <1>0, <1>3 DEF IStart, ITypeOK, vvars, vars, tables, lock, work, check
<1>6. CallIsFounded(s)'
  BY <1>0, <1>5 DEF CallIsFounded, Held, JInv, CallShape
<1>7. CountsOf(s)'
  <2>1. CountsOf(s)
    BY ConstantsAreDisjoint DEF JInv, LockCounts, CountsOf
  <2>. QED  BY <1>0, <1>5, <2>1 DEF CountsOf, Acquired, Taken, Held, Steps
<1>8. RunIsFounded(s)'
  BY <1>5 DEF RunIsFounded, Held
<1>9. SuccessIsFounded(s)'
  <2>1. outcome'[s] = None
    BY <1>0, <1>5 DEF JInv, SuccessShape, SuccessIsFounded
  <2>. QED  BY <2>1, IngestAssumption DEF SuccessIsFounded
<1>. QED  BY <1>1, <1>2, <1>4, <1>6, <1>7, <1>8, <1>9, StepJInv DEF OwnShape

\* A session that returns to idle has forgotten its run, its row and its outcome.
LEMMA ResetFlow ==
    ASSUME JInv, NEW s \in Session, Reset(s)
    PROVE  /\ FlowTypes' /\ FlowBeside(s) /\ at'[s] = "idle" /\ outcome'[s] = None
           /\ RunIsFounded(s)' /\ SuccessIsFounded(s)'
<1>1. ITypeOK
  BY DEF JInv
<1>2. FlowTypes' /\ FlowBeside(s)
  BY <1>1 DEF ITypeOK, Reset, At, FlowTypes, FlowBeside, Steps
<1>3. at'[s] = "idle" /\ outcome'[s] = None
  BY <1>1 DEF ITypeOK, Reset, At
<1>4. RunIsFounded(s)' /\ SuccessIsFounded(s)'
  BY <1>3, IngestAssumption DEF RunIsFounded, SuccessIsFounded, Held, Steps
<1>. QED  BY <1>2, <1>3, <1>4

\* Being refused the lock, returning, and dying keep the invariant: the row of the run
\* stays behind as the session last wrote it.
LEMMA EndSteps ==
    ASSUME JInv, NEW s \in Session, IRefuseBusy(s) \/ ILeave(s) \/ ICrash(s)
    PROVE  JInv'
<1>. USE DEF At
<1>0. UNCHANGED records /\ Reset(s)
  BY DEF IRefuseBusy, ILeave, ICrash
<1>1. VInv' /\ VBeside(s) /\ VGrows
  BY LockSteps, DeathSteps, StandStill DEF IRefuseBusy
<1>2. RecordTypes' /\ RecordsBeside(s) /\ RowsShape' /\ CheckpointShape'
  BY <1>0, <1>1, RecordsStand
<1>3. /\ FlowTypes' /\ FlowBeside(s) /\ at'[s] = "idle"
      /\ RunIsFounded(s)' /\ SuccessIsFounded(s)'
  BY <1>0, ResetFlow
<1>4. CASE ICrash(s)
  <2>1. pc'[s] = "dead" /\ cap'[s] = 0
    BY <1>4 DEF ICrash, Goto, Forget, JInv, VInv, StoreInv, TypeOK
  <2>2. step'[s] = "idle"
    BY <1>4 DEF ICrash, Do, JInv, VInv, VTypeOK
  <2>3. CallIsFounded(s)' /\ CountsOf(s)'
    BY <1>3, <2>1, <2>2 DEF CallIsFounded, CountsOf, Held, Steps
  <2>. QED  BY <1>1, <1>2, <1>3, <2>3, StepJInv DEF OwnShape
<1>5. CASE IRefuseBusy(s) \/ ILeave(s)
  <2>1. /\ at[s] \notin {"idle", "loading", "verifying"}
        /\ UNCHANGED <<captures, pc, job, cap, step, target>>
    BY <1>5 DEF IRefuseBusy, ILeave, vvars, vars, tables, work, check
  <2>2. CallIsFounded(s)'
    BY <1>3, <2>1, BetweenCalls DEF CallIsFounded, Held, Steps
  <2>3. \A p \in Package : Acquired(s, p)' = 0
    BY <1>3, <2>1, BetweenCalls DEF Acquired, Taken, Held, Steps, Holding, Checking
  <2>4. \A p \in Package : owner'[p] # s
    <3>1. CASE IRefuseBusy(s)
      BY <3>1, OutOfHand DEF IRefuseBusy, vvars, vars, lock
    <3>2. CASE ILeave(s)
      <4>1. at[s] = "leave" /\ GiveLock(s, Pkg(s)) /\ at[s] \in Held
        BY <3>2 DEF ILeave, Held, Steps
      <4>2. Pkg(s) \in Package /\ owner[Pkg(s)] = s /\ LockShape /\ TypeOK /\ CountsOf(s)
        BY <2>1, <4>1, BetweenCalls DEF CallIsFounded, StoreInv
      <4>3. pc[s] = "idle" /\ step[s] = "idle"
        BY <2>1, BetweenCalls
      <4>4. \A p \in Package : owner[p] = s => depth[p] = Acquired(s, p)
        BY <4>2, <4>3 DEF CountsOf
      <4>5. depth[Pkg(s)] = 1
        BY <4>1, <4>2, <4>3, <4>4 DEF Acquired, Taken, Holding, Checking
      <4>6. ASSUME NEW p \in Package, p # Pkg(s) PROVE owner[p] # s
        <5>1. Acquired(s, p) = 0
          BY <4>3, <4>6 DEF Acquired, Taken, Holding, Checking
        <5>. QED  BY <4>2, <4>4, <5>1, ConstantsAreDisjoint DEF LockShape
      <4>. QED  BY <4>1, <4>2, <4>5, <4>6, GiveLockTable, ConstantsAreDisjoint
    <3>. QED  BY <1>5, <3>1, <3>2
  <2>5. CountsOf(s)'
    BY <2>4 DEF CountsOf
  <2>. QED  BY <1>1, <1>2, <1>3, <2>2, <2>5, StepJInv DEF OwnShape
<1>. QED  BY <1>4, <1>5

\* The newest of a package's open runs is the open one.
LEMMA NewestOpen ==
    ASSUME JInv, NEW p \in Package, OpenRuns(p) # {}
    PROVE  Newest(OpenRuns(p)) \in OpenRuns(p)
<1>1. PICK i \in OpenRuns(p) : TRUE
  OBVIOUS
<1>2. \A j \in OpenRuns(p) : j <= i
  BY DEF JInv, RowsShape, RowIsFounded, OpenRuns, RunsOf
<1>3. \E k \in OpenRuns(p) : \A j \in OpenRuns(p) : j <= k
  BY <1>2
<1>. QED  BY <1>3 DEF Newest

\* Nothing was reported before the last step.
LEMMA NothingReported ==
    ASSUME JInv, NEW s \in Session, at[s] # "leave", outcome'[s] = outcome[s]
    PROVE  SuccessIsFounded(s)'
<1>1. outcome'[s] = None
  BY DEF JInv, SuccessShape, SuccessIsFounded
<1>. QED  BY <1>1, IngestAssumption DEF SuccessIsFounded

\* pg_try_advisory_lock grants a package that nobody holds.
LEMMA GrantedStep ==
    ASSUME JInv, NEW s \in Session, IAcquire(s)
    PROVE  JInv'
<1>. USE DEF At
<1>0. at[s] = "lock" /\ at[s] \notin {"idle", "loading", "verifying"} /\ ITypeOK
  BY DEF IAcquire, JInv
<1>1. VInv' /\ VBeside(s) /\ VGrows
  BY LockSteps
<1>2. RecordTypes' /\ RecordsBeside(s) /\ RowsShape' /\ CheckpointShape'
  <2>1. UNCHANGED records
    BY DEF IAcquire
  <2>. QED  BY <1>1, <2>1, RecordsStand
<1>3. FlowTypes' /\ FlowBeside(s) /\ at'[s] = "replay"
  BY <1>0 DEF IAcquire, ITypeOK, FlowTypes, FlowBeside, Steps
<1>4. /\ UNCHANGED <<captures, pc, job, cap, step, target, goal, outcome>>
      /\ TakeLock(s, Pkg(s))
  BY DEF IAcquire, tables, work, check
<1>5. /\ owner'[Pkg(s)] = s /\ depth'[Pkg(s)] = depth[Pkg(s)] + 1
      /\ \A q \in Package \ {Pkg(s)} : owner'[q] = owner[q] /\ depth'[q] = depth[q]
      /\ Pkg(s) \in Package /\ LockFree(s, Pkg(s))
  BY <1>0, <1>4, BetweenCalls, TakeLockTable DEF StoreInv, TakeLock
<1>6. CallIsFounded(s)'
  BY <1>0, <1>3, <1>4, <1>5, BetweenCalls DEF CallIsFounded, Pkg
<1>7. CountsOf(s)'
  <2>1. \A p \in Package : owner[p] # s
    BY <1>0, OutOfHand
  <2>2. depth'[Pkg(s)] = 1
    <3>1. owner[Pkg(s)] = None
      BY <1>5, <2>1 DEF LockFree
    <3>. QED  BY <1>0, <1>5, <3>1, BetweenCalls DEF StoreInv, LockShape
  <2>3. Acquired(s, Pkg(s))' = 1
    BY <1>0, <1>3, <1>4, BetweenCalls DEF Acquired, Taken, Held, Steps, Holding, Checking, Pkg
  <2>4. \A p \in Package : owner'[p] = s => p = Pkg(s)
    BY <1>5, <2>1
  <2>5. Pkg(s)' = Pkg(s)
    BY <1>4 DEF Pkg
  <2>6. ASSUME NEW p \in Package, owner'[p] = s PROVE depth'[p] = Acquired(s, p)'
    <3>1. p = Pkg(s)
      BY <2>4, <2>6
    <3>2. Acquired(s, p)' = 1
      BY <1>0, <1>3, <1>4, <3>1, BetweenCalls DEF Acquired, Taken, Held, Steps, Holding, Checking, Pkg
    <3>. QED  BY <2>2, <3>1, <3>2
  <2>. QED  BY <2>6 DEF CountsOf
<1>8. RunIsFounded(s)'
  BY <1>3 DEF RunIsFounded, Held
<1>9. SuccessIsFounded(s)'
  BY <1>0, <1>4, NothingReported
<1>. QED  BY <1>1, <1>2, <1>3, <1>6, <1>7, <1>8, <1>9, StepJInv DEF OwnShape

\* Steps under the lock that write no record.
LEMMA ReadingSteps ==
    ASSUME JInv, NEW s \in Session,
           \/ IReplay(s) \/ IResumeRun(s) \/ IReuse(s) \/ IAdopt(s) \/ IDownload(s)
           \/ IReport(s) \/ IDbError(s)
    PROVE  JInv'
<1>. USE DEF At
<1>0. /\ at[s] \in Held \ {"loading", "verifying"} /\ ITypeOK /\ UNCHANGED <<records, goal>>
      /\ at[s] \notin {"idle", "loading", "verifying"} /\ at \in [Session -> Steps \cup {"idle"}]
      /\ UNCHANGED <<captures, owner, depth, pc, job, cap, step, target, pointer, coverage>>
  <2>1. /\ UNCHANGED <<records, goal>>
        /\ at[s] \in {"replay", "open", "artifact", "record", "loaded", "cover", "confirm", "seal",
                      "report", "error", "condemn"}
    BY DEF IReplay, IResumeRun, IReuse, IAdopt, IDownload, IReport, IDbError
  <2>2. UNCHANGED <<tables, lock, pc, work, evidence, check>>
    BY DEF IReplay, IResumeRun, IReuse, IAdopt, IDownload, IReport, IDbError, vvars, vars
  <2>. QED  BY <2>1, <2>2 DEF JInv, ITypeOK, Held, Steps, tables, lock, work, evidence, check
<1>1. VInv' /\ VBeside(s) /\ VGrows
  BY DownloadSteps, StandStill DEF IReplay, IResumeRun, IReuse, IAdopt, IReport
<1>2. RecordTypes' /\ RecordsBeside(s) /\ RowsShape' /\ CheckpointShape'
  BY <1>0, <1>1, RecordsStand
<1>3. ASSUME NEW l \in Held \ {"loading", "verifying"}, at' = [at EXCEPT ![s] = l]
      PROVE  CallIsFounded(s)' /\ CountsOf(s)' /\ at'[s] = l
  BY <1>0, <1>3, InHand
<1>4. ASSUME CallIsFounded(s)' /\ CountsOf(s)', FlowTypes' /\ FlowBeside(s),
             RunIsFounded(s)', SuccessIsFounded(s)'
      PROVE  JInv'
  BY <1>1, <1>2, <1>4, StepJInv DEF OwnShape
<1>5. UNCHANGED <<runs, checkpoint>> /\ Pkg(s)' = Pkg(s) /\ Pkg(s) \in Package
      /\ OpenRuns(Pkg(s))' = OpenRuns(Pkg(s))
  <2>1. UNCHANGED <<runs, checkpoint>> /\ Pkg(s)' = Pkg(s) /\ Pkg(s) \in Package
    BY <1>0, BetweenCalls DEF records, Pkg
  <2>2. RunsOf(Pkg(s))' = RunsOf(Pkg(s))
    BY <2>1 DEF RunsOf
  <2>. QED  BY <2>1, <2>2 DEF OpenRuns
<1>6. CASE IReplay(s)
  <2>1. \/ at' = [at EXCEPT ![s] = "leave"] /\ outcome' = [outcome EXCEPT ![s] = "replayed"] /\ Replays(s)
        \/ at' = [at EXCEPT ![s] = "open"] /\ outcome' = outcome
    BY <1>6 DEF IReplay
  <2>2. CallIsFounded(s)' /\ CountsOf(s)' /\ at'[s] \in {"leave", "open"}
    BY <1>3, <2>1 DEF Held, Steps
  <2>3. FlowTypes' /\ FlowBeside(s)
    BY <1>0, <1>6, <2>1 DEF IReplay, ITypeOK, FlowTypes, FlowBeside, Steps
  <2>4. RunIsFounded(s)'
    BY <2>2 DEF RunIsFounded, Held
  <2>5. CASE at' = [at EXCEPT ![s] = "open"] /\ outcome' = outcome
    <3>1. SuccessIsFounded(s)'
      BY <1>6, <2>5, NothingReported DEF IReplay
    <3>. QED  BY <1>4, <2>2, <2>3, <2>4, <3>1
  <2>6. CASE at' = [at EXCEPT ![s] = "leave"] /\ Replays(s)
    <3>1. /\ checkpoint[Pkg(s)] # None /\ checkpoint[Pkg(s)].capture = pointer[Pkg(s)]
          /\ pointer[Pkg(s)] \in coverage
          /\ captures[pointer[Pkg(s)]].contract = goal[s].req.contract
      BY <2>6 DEF Replays, Current, Confirmed
    <3>2. SuccessIsFounded(s)'
      BY <1>0, <1>5, <2>6, <3>1 DEF SuccessIsFounded
    <3>. QED  BY <1>4, <2>2, <2>3, <2>4, <3>2
  <2>. QED  BY <2>1, <2>5, <2>6
<1>7. CASE IResumeRun(s)
  <2>1. CallIsFounded(s)' /\ CountsOf(s)' /\ at'[s] = "artifact"
    BY <1>3, <1>7 DEF IResumeRun, Held, Steps
  <2>2. PICK i : i = Newest(OpenRuns(Pkg(s))) /\ i \in OpenRuns(Pkg(s))
    BY <1>5, <1>7, NewestOpen DEF IResumeRun
  <2>3. i \in Nat /\ runs[i] \in Run /\ i \in DOMAIN runs /\ runs[i].phase \in OpenPhases
        /\ runs[i].pkg = Pkg(s)
    <3>1. runs \in Seq(Run)
      BY <1>0 DEF ITypeOK
    <3>. QED  BY <2>2, <3>1, ElementOfSeq, LenProperties DEF OpenRuns, RunsOf
  <2>4. run' = [run EXCEPT ![s] = i] /\ copy' = [copy EXCEPT ![s] = runs[i]]
        /\ UNCHANGED <<goal, found, result, outcome>>
    BY <1>7, <2>2 DEF IResumeRun
  <2>5. FlowTypes' /\ FlowBeside(s) /\ run'[s] = i /\ copy'[s] = runs[i]
    BY <1>0, <1>7, <2>3, <2>4 DEF IResumeRun, ITypeOK, FlowTypes, FlowBeside, Steps
  <2>6. RunIsFounded(s)'
    BY <1>5, <2>1, <2>2, <2>3, <2>5 DEF RunIsFounded
  <2>7. SuccessIsFounded(s)'
    BY <1>7, <2>4, NothingReported DEF IResumeRun
  <2>. QED  BY <1>4, <2>1, <2>5, <2>6, <2>7
<1>8. CASE IReuse(s) \/ IAdopt(s) \/ IDownload(s)
  <2>0. /\ at[s] = "artifact" /\ UNCHANGED <<goal, run, copy, result, outcome>>
        /\ RunIsFounded(s)
    BY <1>0, <1>8, BetweenCalls DEF IReuse, IAdopt, IDownload
  <2>1. /\ found' \in [Session -> Archive \cup {None}]
        /\ \A t \in Session \ {s} : found'[t] = found[t]
        /\ \/ at' = [at EXCEPT ![s] = "load"] /\ copy[s].sha # None
           \/ at' = [at EXCEPT ![s] = "record"] /\ found'[s] \in Archive
           \/ at' = [at EXCEPT ![s] = "error"]
    <3>1. found \in [Session -> Archive \cup {None}] /\ Inspected \subseteq Archive
          /\ Served \subseteq Archive
      BY <1>0, IngestAssumption DEF ITypeOK
    <3>2. CASE IReuse(s)
      BY <3>1, <3>2 DEF IReuse, Reusable
    <3>3. CASE IAdopt(s)
      <4>1. file[Pkg(s)] \in Archive
        BY <3>1, <3>3 DEF IAdopt, Valid
      <4>. QED  BY <3>1, <3>3, <4>1 DEF IAdopt
    <3>4. CASE IDownload(s)
      BY <3>1, <3>4 DEF IDownload
    <3>. QED  BY <1>8, <3>2, <3>3, <3>4
  <2>2. CallIsFounded(s)' /\ CountsOf(s)' /\ at'[s] \in {"load", "record", "error"}
    BY <1>3, <2>1 DEF Held, Steps
  <2>3. FlowTypes' /\ FlowBeside(s)
    BY <1>0, <2>0, <2>1 DEF ITypeOK, FlowTypes, FlowBeside, Steps
  <2>4. RunIsFounded(s)'
    <3>1. /\ run[s] \in OpenRuns(Pkg(s)) /\ copy[s] \in Run /\ copy[s].pkg = Pkg(s)
          /\ copy[s].phase \in OpenPhases /\ copy[s] = runs[run[s]]
      BY <2>0 DEF RunIsFounded, Held, Steps
    <3>2. /\ at'[s] = "load" => copy[s].sha # None
          /\ at'[s] = "record" => found'[s] \in Archive
      BY <1>0, <2>1
    <3>. QED  BY <1>5, <2>0, <2>2, <3>1, <3>2 DEF RunIsFounded
  <2>5. SuccessIsFounded(s)'
    BY <2>0, NothingReported
  <2>. QED  BY <1>4, <2>2, <2>3, <2>4, <2>5
<1>9. CASE IReport(s)
  <2>1. /\ at' = [at EXCEPT ![s] = "leave"] /\ UNCHANGED <<run, copy, found, result>>
        /\ \/ outcome' = [outcome EXCEPT ![s] = "processed"] /\ Current(Pkg(s))
           \/ outcome' = outcome
        /\ at[s] = "report"
    BY <1>9 DEF IReport
  <2>2. CallIsFounded(s)' /\ CountsOf(s)' /\ at'[s] = "leave"
    BY <1>3, <2>1 DEF Held, Steps
  <2>3. FlowTypes' /\ FlowBeside(s)
    BY <1>0, <2>1 DEF ITypeOK, FlowTypes, FlowBeside, Steps
  <2>4. RunIsFounded(s)'
    BY <2>2 DEF RunIsFounded, Held
  <2>5. SuccessIsFounded(s)'
    <3>1. CASE outcome' = outcome
      BY <2>1, <3>1, NothingReported
    <3>2. CASE Current(Pkg(s))
      <4>1. /\ checkpoint[Pkg(s)] # None /\ checkpoint[Pkg(s)].capture = pointer[Pkg(s)]
            /\ pointer[Pkg(s)] \in coverage
            /\ captures[pointer[Pkg(s)]].contract = checkpoint[Pkg(s)].contract
        BY <3>2 DEF Current, Confirmed
      <4>2. checkpoint[Pkg(s)].contract = goal[s].req.contract
        BY <1>0, <2>1, BetweenCalls DEF RunIsFounded
      <4>. QED  BY <1>0, <1>5, <2>2, <4>1, <4>2 DEF SuccessIsFounded
    <3>. QED  BY <2>1, <3>1, <3>2
  <2>. QED  BY <1>4, <2>2, <2>3, <2>4, <2>5
<1>10. CASE IDbError(s)
  <2>1. /\ at' = [at EXCEPT ![s] = "leave"] /\ UNCHANGED <<run, copy, found, result, outcome>>
        /\ at[s] # "leave"
    BY <1>10 DEF IDbError
  <2>2. CallIsFounded(s)' /\ CountsOf(s)' /\ at'[s] = "leave"
    BY <1>3, <2>1 DEF Held, Steps
  <2>3. FlowTypes' /\ FlowBeside(s)
    BY <1>0, <2>1 DEF ITypeOK, FlowTypes, FlowBeside, Steps
  <2>4. RunIsFounded(s)'
    BY <2>2 DEF RunIsFounded, Held
  <2>5. SuccessIsFounded(s)'
    BY <2>1, NothingReported
  <2>. QED  BY <1>4, <2>2, <2>3, <2>4, <2>5
<1>. QED  BY <1>6, <1>7, <1>8, <1>9, <1>10

-----------------------------------------------------------------------------
(* Steps that write the run's row *)

RunFacts(s) ==
    /\ runs \in Seq(Run) /\ run[s] \in DOMAIN runs /\ run[s] \in Nat
    /\ runs[run[s]] \in Run /\ runs[run[s]].pkg = Pkg(s)
    /\ runs[run[s]].phase \in OpenPhases /\ RowIsFounded(run[s])
    /\ run[s] \in OpenRuns(Pkg(s)) /\ Pkg(s) \in Package /\ goal[s] \in Goal
    /\ owner[Pkg(s)] = s
    /\ copy[s] \in Run /\ copy[s].pkg = Pkg(s) /\ copy[s].phase \in OpenPhases
    /\ RunIsFounded(s) /\ CallIsFounded(s)

\* Where a session works on a run, it is its package's and open.
LEMMA RunAtHand ==
    ASSUME JInv, NEW s \in Session, at[s] \in Held \ {"replay", "open", "report", "leave"}
    PROVE  RunFacts(s)
<1>1. RunIsFounded(s) /\ CallIsFounded(s) /\ runs \in Seq(Run)
  BY DEF JInv, RunShape, CallShape, ITypeOK
<1>2. goal[s] \in Goal /\ owner[Pkg(s)] = s
  BY <1>1 DEF CallIsFounded, Held, Steps
<1>3. run[s] \in OpenRuns(Pkg(s)) /\ copy[s] \in Run /\ copy[s].pkg = Pkg(s)
      /\ copy[s].phase \in OpenPhases
  BY <1>1 DEF RunIsFounded
<1>4. run[s] \in DOMAIN runs /\ runs[run[s]].pkg = Pkg(s) /\ runs[run[s]].phase \in OpenPhases
  BY <1>3 DEF OpenRuns, RunsOf
<1>5. runs[run[s]] \in Run /\ run[s] \in Nat
  BY <1>1, <1>4, ElementOfSeq, LenProperties
<1>6. RowIsFounded(run[s])
  BY <1>4 DEF JInv, RowsShape
<1>. QED  BY <1>1, <1>2, <1>3, <1>4, <1>5, <1>6 DEF RunFacts, Goal, Pkg

\* An open run's row is written by the session that works on it, and completed together
\* with its checkpoint.
LEMMA RewriteRun ==
    ASSUME JInv, VInv', VGrows, NEW s \in Session, RunFacts(s), NEW r \in Run,
           NEW p \in Package, p = Pkg(s),
           r.pkg = p, runs' = [runs EXCEPT ![run[s]] = r], Evidenced(r),
           r.capture # 0 => r.capture \in CapturesOf(p)',
           r.attempt # 0 => r.attempt \in AttemptsOf(r.capture)',
           \/ r.phase # "completed" /\ checkpoint' = checkpoint
           \/ \E k \in Checkpoint : /\ k.run = run[s]
                                    /\ checkpoint' = [checkpoint EXCEPT ![p] = k]
                                    /\ CheckpointIsFounded(p)'
    PROVE  /\ RecordTypes' /\ RecordsBeside(s) /\ RunsGrow /\ RowsShape' /\ CheckpointShape'
           /\ DOMAIN runs' = DOMAIN runs /\ runs'[run[s]] = r
           /\ \A q \in Package : RunsOf(q)' = RunsOf(q)
<1>. PICK i \in DOMAIN runs : i = run[s]
  BY DEF RunFacts
<1>0. /\ runs \in Seq(Run) /\ i \in Nat /\ runs[i] \in Run /\ runs[i].pkg = p
      /\ runs[i].phase \in OpenPhases /\ RowIsFounded(i) /\ i \in OpenRuns(p) /\ owner[p] = s
      /\ \A j \in DOMAIN runs : j \in Nat /\ runs[j] \in Run /\ runs[j].pkg \in Package
      /\ checkpoint \in [Package -> Checkpoint \cup {None}]
  <2>1. runs \in Seq(Run)
    BY DEF RunFacts
  <2>2. \A j \in DOMAIN runs : j \in Nat /\ runs[j] \in Run
    BY <2>1, ElementOfSeq, LenProperties
  <2>. QED  BY <2>1, <2>2 DEF RunFacts, Run, JInv, ITypeOK
<1>1. /\ runs' \in Seq(Run) /\ DOMAIN runs' = DOMAIN runs /\ runs'[i] = r
      /\ \A j \in DOMAIN runs \ {i} : runs'[j] = runs[j]
  BY <1>0, ExceptSeq
<1>2. \A j \in DOMAIN runs : runs'[j].pkg = runs[j].pkg
  BY <1>0, <1>1
<1>3. \A q \in Package : RunsOf(q)' = RunsOf(q)
  BY <1>1, <1>2 DEF RunsOf
<1>4. RunsGrow
  <2>1. runs[i].phase \notin Ended
    BY <1>0 DEF OpenPhases, PhaseOrder, Ended
  <2>. QED  BY <1>1, <1>2, <2>1 DEF RunsGrow
<1>5. /\ \A q \in Package \ {p} : checkpoint'[q] = checkpoint[q]
      /\ checkpoint' \in [Package -> Checkpoint \cup {None}]
      /\ \/ r.phase # "completed" /\ checkpoint' = checkpoint
         \/ /\ checkpoint'[p] \in Checkpoint /\ checkpoint'[p].run = i
            /\ CheckpointIsFounded(p)'
  <2>1. CASE r.phase # "completed" /\ checkpoint' = checkpoint
    BY <1>0, <2>1
  <2>2. CASE \E k \in Checkpoint : /\ k.run = run[s]
                                   /\ checkpoint' = [checkpoint EXCEPT ![p] = k]
                                   /\ CheckpointIsFounded(p)'
    BY <1>0, <2>2
  <2>. QED  BY <2>1, <2>2
<1>6. RecordTypes' /\ RecordsBeside(s)
  <2>1. ASSUME NEW q \in Package, owner[q] \in Session \ {s}
        PROVE  q # p /\ i \notin RunsOf(q)
    BY <1>0, <2>1 DEF RunsOf
  <2>. QED  BY <1>1, <1>3, <1>5, <2>1 DEF RecordTypes, RecordsBeside, RunsOf
<1>7. CheckpointShape'
  <2>1. pointer' \in [Package -> Nat]
    BY DEF VInv, StoreInv, TypeOK
  <2>2. ASSUME NEW q \in Package, checkpoint'[q] = checkpoint[q] PROVE CheckpointIsFounded(q)'
    BY <1>4, <2>1, <2>2, CheckpointLasts
  <2>. QED  BY <1>5, <2>2 DEF CheckpointShape
<1>8. ASSUME NEW q \in Package, checkpoint[q] # None
      PROVE  /\ checkpoint'[q] # None /\ checkpoint'[q].run >= checkpoint[q].run
             /\ checkpoint[q].run \in Nat
  <2>1. checkpoint[q] \in Checkpoint /\ checkpoint[q].run \in Nat
    BY <1>0, <1>8 DEF Checkpoint
  <2>2. CASE checkpoint'[q] = checkpoint[q]
    BY <1>8, <2>1, <2>2
  <2>3. CASE checkpoint'[q] # checkpoint[q]
    <3>1. q = p /\ checkpoint'[p] \in Checkpoint /\ checkpoint'[p].run = i
      BY <1>5, <2>3
    <3>2. checkpoint[q].run \in RunsOf(p)
      <4>1. CheckpointIsFounded(q)
        BY DEF JInv, CheckpointShape
      <4>2. /\ checkpoint[q].run \in DOMAIN runs
            /\ runs[checkpoint[q].run] = [pkg |-> q, phase |-> "completed",
                   sha |-> checkpoint[q].sha, capture |-> checkpoint[q].capture,
                   attempt |-> checkpoint[q].attempt]
        BY <1>8, <4>1 DEF CheckpointIsFounded
      <4>3. runs[checkpoint[q].run].pkg = q
        BY <4>2
      <4>. QED  BY <3>1, <4>2, <4>3 DEF RunsOf
    <3>3. checkpoint[q].run <= i
      BY <1>0, <3>2 DEF RowIsFounded
    <3>. QED  BY <1>0, <2>1, <3>1, <3>3, IngestAssumption
  <2>. QED  BY <2>2, <2>3
<1>9. \A q \in Package : checkpoint'[q] # None => checkpoint'[q].run \in Nat
  BY <1>5 DEF Checkpoint
<1>10. ASSUME NEW j \in DOMAIN runs \ {i} PROVE RowIsFounded(j)'
  <2>1. runs'[j] = runs[j] /\ runs[j].pkg \in Package /\ RunsOf(runs[j].pkg)' = RunsOf(runs[j].pkg)
    <3>1. PICK q \in Package : q = runs[j].pkg
      BY <1>0
    <3>2. RunsOf(q)' = RunsOf(q) /\ runs'[j] = runs[j]
      BY <1>1, <1>3
    <3>. QED  BY <3>1, <3>2 DEF RunsOf
  <2>2. runs[j].phase = "completed" => checkpoint[runs[j].pkg] # None
    BY DEF JInv, RowsShape, RowIsFounded
  <2>. QED  BY <1>1, <1>8, <1>9, <2>1, <2>2, RowLasts
<1>11. RowIsFounded(i)'
  <2>1. r.phase = "completed" => checkpoint'[p] # None /\ checkpoint'[p].run >= i
    BY <1>0, <1>5, IngestAssumption
  <2>2. \A j \in RunsOf(p)' : j <= i
    BY <1>0, <1>3 DEF RowIsFounded
  <2>. QED  BY <1>1, <2>1, <2>2 DEF RowIsFounded, Evidenced
<1>12. RowsShape'
  BY <1>1, <1>10, <1>11 DEF RowsShape
<1>. QED  BY <1>1, <1>3, <1>4, <1>6, <1>7, <1>12

\* Rows as the steps of ingest_package rewrite them are rows.
LEMMA RowPhase ==
    ASSUME NEW r \in Run, NEW f \in OpenPhases \cup {"completed", "failed"}
    PROVE  [r EXCEPT !.phase = f] \in Run
BY DEF Run

\* The row that _record_artifact writes is a row of ingest_run.
LEMMA RowArtifact ==
    ASSUME NEW r \in Run, NEW f \in OpenPhases, NEW x \in Archive \cup {None}
    PROVE  [r EXCEPT !.phase = f, !.sha = x] \in Run
BY DEF Run

\* The row that records a published capture is a row of ingest_run.
LEMMA RowCapture ==
    ASSUME NEW r \in Run, NEW f \in OpenPhases, NEW c \in Nat
    PROVE  [r EXCEPT !.phase = f, !.capture = c] \in Run
BY DEF Run

\* The row that records a verified attempt is a row of ingest_run.
LEMMA RowAttempt ==
    ASSUME NEW r \in Run, NEW f \in OpenPhases, NEW a \in Nat
    PROVE  [r EXCEPT !.phase = f, !.attempt = a] \in Run
BY DEF Run

\* The row that links a capture and an attempt is a row of ingest_run.
LEMMA RowLink ==
    ASSUME NEW r \in Run, NEW f \in OpenPhases \cup {"completed", "failed"},
           NEW c \in Nat, NEW a \in Nat
    PROVE  [r EXCEPT !.capture = c, !.attempt = a, !.phase = f] \in Run
BY DEF Run

\* The phases of a run that is open, and those of one that has ended.
LEMMA PhaseNames ==
    /\ OpenPhases = {"starting", "artifact_ready", "capture_published", "source_verified"}
    /\ Ended = {"completed", "failed"}
BY DEF OpenPhases, PhaseOrder, Ended

\* The attempt that coverage_verified stands on is the capture's latest, and verified.
LEMMA ConfirmedLatest ==
    ASSUME VInv, NEW c, NEW a, Confirmed(c, a)
    PROVE  /\ a \in AttemptsOf(c) /\ \A b \in AttemptsOf(c) : b <= a
           /\ attempts[a].state = "verified" /\ c \in DOMAIN captures
<1>1. c \in coverage /\ c \in DOMAIN captures /\ a = LatestAttempt(c)
  BY DEF Confirmed, VInv, VTypeOK
<1>2. \E b \in AttemptsOf(c) : \A d \in AttemptsOf(c) : d <= b
  BY <1>1 DEF VInv, CoverageIsLatestVerdict
<1>3. a = Newest(AttemptsOf(c))
  BY <1>1, <1>2 DEF LatestAttempt
<1>. QED  BY <1>1, <1>2, <1>3 DEF Newest, Confirmed

\* What a step that moves nothing of the store leaves as it is.
LEMMA Unmoved ==
    ASSUME UNCHANGED vvars
    PROVE  /\ UNCHANGED <<captures, pointer, attempts, coverage, owner, depth, pc, job, cap, step, target>>
           /\ \A q : CapturesOf(q)' = CapturesOf(q) /\ AttemptsOf(q)' = AttemptsOf(q)
<1>1. UNCHANGED <<captures, pointer, attempts, coverage, owner, depth, pc, job, cap, step, target>>
  BY DEF vvars, vars, tables, lock, work, evidence, check
<1>. QED  BY <1>1 DEF CapturesOf, AttemptsOf

\* The bookkeeping of a run between the calls: its artifact, its capture, its attempt,
\* its end.
LEMMA BookSteps ==
    ASSUME JInv, NEW s \in Session, NEW r \in Run, NEW l \in Held \ {"loading", "verifying"},
           at[s] \in Held \ {"loading", "verifying", "replay", "open", "report", "leave"},
           UNCHANGED vvars, UNCHANGED goal, at' = [at EXCEPT ![s] = l],
           runs' = [runs EXCEPT ![run[s]] = r], FlowTypes', FlowBeside(s),
           r.pkg = Pkg(s), Evidenced(r),
           r.capture # 0 => r.capture \in CapturesOf(Pkg(s)),
           r.attempt # 0 => r.attempt \in AttemptsOf(r.capture),
           \/ r.phase # "completed" /\ checkpoint' = checkpoint
           \/ \E k \in Checkpoint : /\ k.run = run[s]
                                    /\ checkpoint' = [checkpoint EXCEPT ![Pkg(s)] = k]
                                    /\ \A p \in Package : p = Pkg(s) => CheckpointIsFounded(p)',
           runs'[run[s]] = r => RunIsFounded(s)', SuccessIsFounded(s)'
    PROVE  JInv'
<1>1. RunFacts(s)
  BY RunAtHand
<1>2. PICK p \in Package : p = Pkg(s)
  BY <1>1 DEF RunFacts
<1>3. VInv' /\ VBeside(s) /\ VGrows
  BY StandStill
<1>4. /\ UNCHANGED <<captures, owner, depth, pc, job, cap, step, target>>
      /\ CapturesOf(p)' = CapturesOf(p)
      /\ \A q : AttemptsOf(q)' = AttemptsOf(q)
  BY Unmoved
<1>5. AttemptsOf(r.capture)' = AttemptsOf(r.capture)
  <2>1. PICK c : c = r.capture
    OBVIOUS
  <2>. QED  BY <1>4, <2>1 DEF AttemptsOf
<1>6. /\ RecordTypes' /\ RecordsBeside(s) /\ RowsShape' /\ CheckpointShape'
      /\ runs'[run[s]] = r
  <2>1. /\ r.capture # 0 => r.capture \in CapturesOf(p)'
        /\ r.attempt # 0 => r.attempt \in AttemptsOf(r.capture)'
    BY <1>2, <1>4, <1>5
  <2>2. \/ r.phase # "completed" /\ checkpoint' = checkpoint
        \/ \E k \in Checkpoint : /\ k.run = run[s]
                                 /\ checkpoint' = [checkpoint EXCEPT ![p] = k]
                                 /\ CheckpointIsFounded(p)'
    BY <1>2
  <2>. QED  BY <1>1, <1>2, <1>3, <2>1, <2>2, RewriteRun
<1>7. CallIsFounded(s)' /\ CountsOf(s)'
  BY <1>4, InHand
<1>. QED  BY <1>3, <1>6, <1>7, StepJInv DEF OwnShape

\* A capture that a session wants is still wanted while neither table nor goal changes.
LEMMA StillWanted ==
    ASSUME UNCHANGED <<captures, goal>>, NEW s \in Session, NEW c, Wanted(s, c)
    PROVE  Wanted(s, c)'
BY DEF Wanted, CapturesOf, Pkg

\* _record_artifact.
LEMMA ArtifactStep ==
    ASSUME JInv, NEW s \in Session, IRecordArtifact(s)
    PROVE  JInv'
<1>. USE DEF At
<1>0. /\ at[s] = "record" /\ UNCHANGED <<vvars, checkpoint, goal, run, found, result, outcome>>
      /\ at' = [at EXCEPT ![s] = "load"] /\ ITypeOK
  BY DEF IRecordArtifact, JInv
<1>1. RunFacts(s) /\ copy[s] = runs[run[s]] /\ found[s] \in Archive
  <2>1. RunFacts(s)
    BY <1>0, RunAtHand DEF Held, Steps
  <2>. QED  BY <1>0, <2>1 DEF RunFacts, RunIsFounded
<1>2. PICK r \in Run : /\ r = [copy[s] EXCEPT !.phase = "artifact_ready", !.sha = found[s]]
                       /\ r.pkg = Pkg(s) /\ r.phase = "artifact_ready" /\ r.sha = found[s]
                       /\ r.capture = copy[s].capture /\ r.attempt = copy[s].attempt
  <2>1. copy[s] \in Run /\ copy[s].pkg = Pkg(s)
    BY <1>1 DEF RunFacts
  <2>2. [copy[s] EXCEPT !.phase = "artifact_ready", !.sha = found[s]] \in Run
    BY <1>1, <2>1, RowArtifact, PhaseNames
  <2>. QED  BY <2>1, <2>2 DEF Run
<1>3. runs' = [runs EXCEPT ![run[s]] = r] /\ copy' = [copy EXCEPT ![s] = r]
  BY <1>2 DEF IRecordArtifact, SetRun
<1>4. FlowTypes' /\ FlowBeside(s)
  BY <1>0, <1>3 DEF ITypeOK, FlowTypes, FlowBeside, Steps
<1>5. /\ Evidenced(r)
      /\ r.capture # 0 => r.capture \in CapturesOf(Pkg(s))
      /\ r.attempt # 0 => r.attempt \in AttemptsOf(r.capture)
  <2>1. r.sha # None
    BY <1>1, <1>2, ConstantsAreDisjoint
  <2>. QED  BY <1>1, <1>2, <2>1 DEF Evidenced, RunFacts, RowIsFounded
<1>6. ASSUME runs'[run[s]] = r PROVE RunIsFounded(s)'
  <2>1. at'[s] = "load" /\ copy'[s] = r /\ run'[s] = run[s]
    BY <1>0, <1>3 DEF ITypeOK
  <2>2. r.phase \in OpenPhases /\ r.sha # None
    BY <1>1, <1>2, ConstantsAreDisjoint DEF OpenPhases, PhaseOrder
  <2>3. run'[s] \in OpenRuns(Pkg(s))'
    BY <1>0, <1>1, <1>2, <1>3, <1>6, <2>1, <2>2 DEF OpenRuns, RunsOf, RunFacts, Pkg
  <2>. QED  BY <1>0, <1>2, <1>6, <2>1, <2>2, <2>3 DEF RunIsFounded, Pkg
<1>7. SuccessIsFounded(s)'
  BY <1>0, NothingReported
<1>8. "load" \in Held \ {"loading", "verifying"} /\ r.phase # "completed"
      /\ at[s] \in Held \ {"loading", "verifying", "replay", "open", "report", "leave"}
  BY <1>0, <1>2 DEF Held, Steps
<1>. QED  BY <1>0, <1>2, <1>3, <1>4, <1>5, <1>6, <1>7, <1>8, BookSteps

\* The run is read again after the load and raised to capture_published.
LEMMA LoadedStep ==
    ASSUME JInv, NEW s \in Session, ILoaded(s)
    PROVE  JInv'
<1>. USE DEF At
<1>0. /\ at[s] = "loaded" /\ UNCHANGED <<vvars, checkpoint, goal, run, found, result, outcome>>
      /\ at' = [at EXCEPT ![s] = "cover"] /\ ITypeOK
  BY DEF ILoaded, JInv
<1>1. /\ RunFacts(s) /\ runs[run[s]].capture = result[s] /\ runs[run[s]].sha # None
      /\ Wanted(s, result[s]) /\ result[s] \in Nat
  <2>1. RunFacts(s)
    BY <1>0, RunAtHand DEF Held, Steps
  <2>. QED  BY <1>0, <2>1 DEF RunFacts, RunIsFounded, ITypeOK
<1>2. PICK r \in Run : /\ r = (IF runs[run[s]].capture # result[s]
                                  \/ Rank(runs[run[s]].phase) < Rank("capture_published")
                               THEN [runs[run[s]] EXCEPT !.phase = "capture_published",
                                                         !.capture = result[s]]
                               ELSE runs[run[s]])
                       /\ r.pkg = Pkg(s) /\ r.phase \in OpenPhases /\ r.sha # None
                       /\ r.capture = result[s] /\ r.attempt = runs[run[s]].attempt
                       /\ r = runs[run[s]] \/ r.phase = "capture_published"
  <2>1. runs[run[s]] \in Run /\ runs[run[s]].pkg = Pkg(s) /\ runs[run[s]].phase \in OpenPhases
    BY <1>1 DEF RunFacts
  <2>2. [runs[run[s]] EXCEPT !.phase = "capture_published", !.capture = result[s]] \in Run
    BY <1>1, <2>1, RowCapture, PhaseNames
  <2>3. "capture_published" \in OpenPhases
    BY DEF OpenPhases, PhaseOrder
  <2>. QED  BY <1>1, <2>1, <2>2, <2>3 DEF Run
<1>3. runs' = [runs EXCEPT ![run[s]] = r] /\ copy' = [copy EXCEPT ![s] = r]
  BY <1>2 DEF ILoaded, SetRun
<1>4. FlowTypes' /\ FlowBeside(s)
  BY <1>0, <1>3 DEF ITypeOK, FlowTypes, FlowBeside, Steps
<1>5. /\ Evidenced(r)
      /\ r.capture # 0 => r.capture \in CapturesOf(Pkg(s))
      /\ r.attempt # 0 => r.attempt \in AttemptsOf(r.capture)
  <2>1. result[s] \in CapturesOf(Pkg(s)) /\ result[s] # 0
    BY <1>1, CaptureType DEF Wanted, CapturesOf, JInv, VInv
  <2>2. RowIsFounded(run[s])
    BY <1>1 DEF RunFacts
  <2>. QED  BY <1>1, <1>2, <2>1, <2>2 DEF Evidenced, RowIsFounded
<1>6. ASSUME runs'[run[s]] = r PROVE RunIsFounded(s)'
  <2>1. at'[s] = "cover" /\ copy'[s] = r /\ run'[s] = run[s]
    BY <1>0, <1>3 DEF ITypeOK
  <2>2. run'[s] \in OpenRuns(Pkg(s))'
    BY <1>0, <1>1, <1>2, <1>3, <1>6, <2>1 DEF OpenRuns, RunsOf, RunFacts, Pkg
  <2>3. Wanted(s, r.capture)'
    <3>1. Wanted(s, result[s])'
      BY <1>0, <1>1, StillWanted, Unmoved
    <3>. QED  BY <1>0, <1>2, <3>1
  <2>. QED  BY <1>0, <1>2, <1>6, <2>1, <2>2, <2>3 DEF RunIsFounded, Pkg
<1>7. SuccessIsFounded(s)'
  BY <1>0, NothingReported
<1>8. "cover" \in Held \ {"loading", "verifying"} /\ r.phase # "completed"
      /\ at[s] \in Held \ {"loading", "verifying", "replay", "open", "report", "leave"}
  BY <1>0, <1>2 DEF Held, Steps, OpenPhases, PhaseOrder
<1>. QED  BY <1>0, <1>2, <1>3, <1>4, <1>5, <1>6, <1>7, <1>8, BookSteps

\* The call goes to its error path or raises, with nothing written.
LEMMA GiveUpStep ==
    ASSUME JInv, NEW s \in Session, NEW l \in {"error", "leave"},
           at[s] \in Held \ {"loading", "verifying", "leave"},
           l = "error" => at[s] \notin {"replay", "open", "report"},
           UNCHANGED <<vvars, records, goal, run, copy, found, result, outcome>>,
           at' = [at EXCEPT ![s] = l]
    PROVE  JInv'
<1>0. ITypeOK /\ UNCHANGED <<runs, checkpoint>>
  BY DEF JInv, records
<1>1. VInv' /\ VBeside(s) /\ VGrows
  BY StandStill
<1>2. RecordTypes' /\ RecordsBeside(s) /\ RowsShape' /\ CheckpointShape'
  BY <1>1, RecordsStand
<1>3. FlowTypes' /\ FlowBeside(s) /\ at'[s] = l
  BY <1>0 DEF ITypeOK, FlowTypes, FlowBeside, Steps
<1>4. CallIsFounded(s)' /\ CountsOf(s)'
  <2>1. l \in Held \ {"loading", "verifying"} /\ at[s] \in Held \ {"loading", "verifying"}
    BY DEF Held, Steps
  <2>. QED  BY <2>1, Unmoved, InHand
<1>5. RunIsFounded(s)'
  <2>1. CASE l = "leave"
    BY <1>3, <2>1 DEF RunIsFounded, Held
  <2>2. CASE l = "error"
    <3>1. RunFacts(s)
      BY <2>2, RunAtHand
    <3>2. run'[s] \in OpenRuns(Pkg(s))'
      BY <1>0, <3>1 DEF RunFacts, OpenRuns, RunsOf, Pkg
    <3>. QED  BY <1>3, <2>2, <3>1, <3>2 DEF RunIsFounded, RunFacts, Pkg
  <2>. QED  BY <2>1, <2>2
<1>6. SuccessIsFounded(s)'
  BY NothingReported
<1>. QED  BY <1>1, <1>2, <1>3, <1>4, <1>5, <1>6, StepJInv DEF OwnShape

\* _set_verified: the attempt, reused or new, was confirmed of the run's capture.
LEMMA VerifiedStep ==
    ASSUME JInv, NEW s \in Session, at[s] \in {"cover", "confirm"}, NEW a,
           Confirmed(copy[s].capture, a), SetVerified(s, a), At(s, "seal"),
           UNCHANGED <<vvars, checkpoint, goal, run, found, result, outcome>>
    PROVE  JInv'
<1>. USE DEF At
<1>0. ITypeOK
  BY DEF JInv
<1>1. /\ RunFacts(s) /\ copy[s] = runs[run[s]] /\ runs[run[s]].sha # None
      /\ Wanted(s, copy[s].capture)
  <2>1. RunFacts(s)
    BY RunAtHand DEF Held, Steps
  <2>. QED  BY <2>1 DEF RunFacts, RunIsFounded
<1>2. a \in AttemptsOf(copy[s].capture) /\ a \in Nat /\ a # 0
  <2>1. a \in AttemptsOf(copy[s].capture) /\ attempts \in Seq(Attempt)
    BY ConfirmedLatest DEF JInv, VInv, VTypeOK
  <2>. QED  BY <2>1, LenProperties DEF AttemptsOf
<1>3. PICK r \in Run : /\ r = [copy[s] EXCEPT !.phase = "source_verified", !.attempt = a]
                       /\ r.pkg = Pkg(s) /\ r.phase = "source_verified" /\ r.attempt = a
                       /\ r.capture = copy[s].capture /\ r.sha = copy[s].sha
  <2>1. copy[s] \in Run /\ copy[s].pkg = Pkg(s)
    BY <1>1 DEF RunFacts
  <2>2. [copy[s] EXCEPT !.phase = "source_verified", !.attempt = a] \in Run
    BY <1>2, <2>1, RowAttempt, PhaseNames
  <2>. QED  BY <2>1, <2>2 DEF Run
<1>4. runs' = [runs EXCEPT ![run[s]] = r] /\ copy' = [copy EXCEPT ![s] = r]
  BY <1>3 DEF SetVerified, SetRun
<1>5. FlowTypes' /\ FlowBeside(s)
  BY <1>0, <1>4 DEF ITypeOK, FlowTypes, FlowBeside, Steps
<1>6. /\ Evidenced(r)
      /\ r.capture # 0 => r.capture \in CapturesOf(Pkg(s))
      /\ r.attempt # 0 => r.attempt \in AttemptsOf(r.capture)
  <2>1. r.capture \in CapturesOf(Pkg(s)) /\ r.capture # 0
    BY <1>1, <1>3, CaptureType DEF Wanted, CapturesOf, JInv, VInv
  <2>. QED  BY <1>1, <1>2, <1>3, <2>1 DEF Evidenced
<1>7. ASSUME runs'[run[s]] = r PROVE RunIsFounded(s)'
  <2>1. at'[s] = "seal" /\ copy'[s] = r /\ run'[s] = run[s]
    BY <1>0, <1>4 DEF ITypeOK
  <2>2. run'[s] \in OpenRuns(Pkg(s))'
    BY <1>1, <1>3, <1>4, <1>7, <2>1, PhaseNames DEF OpenRuns, RunsOf, RunFacts, Pkg
  <2>3. Wanted(s, copy[s].capture)'
    <3>1. PICK c : c = copy[s].capture
      OBVIOUS
    <3>2. Wanted(s, c)'
      BY <1>1, <3>1, StillWanted, Unmoved
    <3>. QED  BY <1>3, <2>1, <3>1, <3>2 DEF Wanted, CapturesOf, Pkg
  <2>4. Wanted(s, runs[run[s]].capture)'
    BY <1>3, <1>7, <2>1, <2>3
  <2>. QED  BY <1>1, <1>3, <1>7, <2>1, <2>2, <2>4, PhaseNames DEF RunIsFounded, Pkg
<1>8. SuccessIsFounded(s)'
  BY NothingReported
<1>9. "seal" \in Held \ {"loading", "verifying"} /\ r.phase # "completed"
      /\ at[s] \in Held \ {"loading", "verifying", "replay", "open", "report", "leave"}
  BY <1>3 DEF Held, Steps
<1>. QED  BY <1>3, <1>4, <1>5, <1>6, <1>7, <1>8, <1>9, BookSteps

\* A confirmed attempt is reused, or the one just made is confirmed.
LEMMA ConfirmSteps ==
    ASSUME JInv, NEW s \in Session, IReuseAttempt(s) \/ IConfirm(s)
    PROVE  JInv'
<1>1. CASE IReuseAttempt(s)
  <2>. PICK a : a = LatestAttempt(copy[s].capture)
    OBVIOUS
  <2>1. /\ at[s] = "cover" /\ Confirmed(copy[s].capture, a) /\ SetVerified(s, a) /\ At(s, "seal")
        /\ UNCHANGED <<vvars, checkpoint, goal, run, found, result, outcome>>
    BY <1>1 DEF IReuseAttempt
  <2>. QED  BY <2>1, VerifiedStep
<1>2. CASE IConfirm(s) /\ Confirmed(copy[s].capture, result[s])
  <2>. PICK a : a = result[s]
    OBVIOUS
  <2>1. /\ at[s] = "confirm" /\ Confirmed(copy[s].capture, a) /\ SetVerified(s, a)
        /\ At(s, "seal") /\ UNCHANGED <<vvars, checkpoint, goal, run, found, result, outcome>>
    BY <1>2 DEF IConfirm
  <2>. QED  BY <2>1, VerifiedStep
<1>3. CASE IConfirm(s) /\ ~Confirmed(copy[s].capture, result[s])
  <2>1. /\ at[s] = "confirm" /\ at' = [at EXCEPT ![s] = "error"]
        /\ UNCHANGED <<vvars, runs, checkpoint, goal, run, copy, found, result, outcome>>
    BY <1>3 DEF IConfirm, At
  <2>2. at[s] \in Held \ {"loading", "verifying", "leave"} /\ UNCHANGED records
    BY <2>1 DEF Held, Steps, records
  <2>. QED  BY <2>1, <2>2, GiveUpStep
<1>. QED  BY <1>1, <1>2, <1>3

\* The checkpoint that the seal inserts cites what its conditions read.
LEMMA NewCheckpointIsFounded ==
    ASSUME JInv, NEW s \in Session, at[s] = "seal", RunFacts(s), Sealable(copy[s]),
           runs[run[s]].phase = "source_verified", RunAgrees(NewCheckpoint(s)),
           NEW k, k = NewCheckpoint(s)
    PROVE  /\ k \in Checkpoint /\ k.run = run[s] /\ k.capture = copy[s].capture
           /\ k.attempt = copy[s].attempt /\ k.contract = goal[s].req.contract
           /\ k.capture \in CapturesOf(Pkg(s)) /\ k.capture = pointer[Pkg(s)]
           /\ captures[k.capture].status = "published" /\ captures[k.capture].sha = k.sha
           /\ captures[k.capture].contract = k.contract
           /\ captures[k.capture].counts = <<k.count, k.count, k.count>>
           /\ k.attempt \in AttemptsOf(k.capture) /\ attempts[k.attempt].state = "verified"
           /\ runs[run[s]] = [pkg |-> Pkg(s), phase |-> "source_verified", sha |-> k.sha,
                              capture |-> k.capture, attempt |-> k.attempt]
<1>1. /\ copy[s] = runs[run[s]] /\ Wanted(s, copy[s].capture) /\ copy[s] \in Run
      /\ copy[s].pkg = Pkg(s) /\ run[s] \in Nat /\ goal[s] \in Goal
  BY DEF RunFacts, RunIsFounded
<1>. PICK c \in Nat : c = copy[s].capture
  BY <1>1 DEF Run
<1>. PICK a \in Nat : a = copy[s].attempt
  BY <1>1 DEF Run
<1>2. /\ c \in DOMAIN captures /\ captures[c].pkg = Pkg(s)
      /\ captures[c].contract = goal[s].req.contract /\ captures[c] \in Capture
  BY <1>1, CaptureRow DEF Wanted, CapturesOf, JInv, VInv, StoreInv, TypeOK
<1>3. /\ pointer[Pkg(s)] = c /\ captures[c].status = "published" /\ Confirmed(c, a)
      /\ captures[c].counts
            = <<captures[c].counts[1], captures[c].counts[1], captures[c].counts[1]>>
  BY <1>2 DEF Sealable
<1>4. captures[c].counts[2] = captures[c].counts[1] /\ captures[c].counts[2] \in Nat
  <2>. PICK n : n = captures[c].counts[1]
    OBVIOUS
  <2>1. captures[c].counts = <<n, n, n>> /\ captures[c].counts \in Seq(Nat)
    BY <1>2, <1>3 DEF Capture
  <2>2. captures[c].counts[2] = n /\ 2 \in 1..Len(captures[c].counts)
    BY <2>1
  <2>. QED  BY <2>1, <2>2, ElementOfSeq
<1>5. /\ k = [run |-> run[s], capture |-> c, attempt |-> a, sha |-> captures[c].sha,
              contract |-> captures[c].contract, count |-> captures[c].counts[2]]
  BY DEF NewCheckpoint
<1>6. k \in Checkpoint
  <2>1. captures[c].sha \in Archive /\ captures[c].contract \in Contract
    BY <1>2 DEF Capture
  <2>2. run[s] \in Nat /\ c \in Nat /\ a \in Nat /\ captures[c].counts[2] \in Nat
    BY <1>1, <1>4
  <2>3. \A i, d, e, n \in Nat, h \in Archive, v \in Contract :
            [run |-> i, capture |-> d, attempt |-> e, sha |-> h, contract |-> v, count |-> n]
                \in Checkpoint
    BY DEF Checkpoint
  <2>4. [run |-> run[s], capture |-> c, attempt |-> a, sha |-> captures[c].sha,
         contract |-> captures[c].contract, count |-> captures[c].counts[2]] \in Checkpoint
    BY <2>1, <2>2, <2>3
  <2>. QED  BY <1>5, <2>4
<1>7. a \in AttemptsOf(c) /\ attempts[a].state = "verified"
  BY <1>3, ConfirmedLatest DEF JInv
<1>8. runs[run[s]] = [pkg |-> Pkg(s), phase |-> "source_verified", sha |-> captures[c].sha,
                      capture |-> c, attempt |-> a]
  <2>1. runs[run[s]].sha = captures[c].sha
    BY <1>5 DEF RunAgrees
  <2>. QED  BY <1>1, <2>1 DEF Run
<1>. QED  BY <1>2, <1>3, <1>4, <1>5, <1>6, <1>7, <1>8 DEF CapturesOf

\* _seal: the checkpoint and the run's completion commit together, or nothing does.
LEMMA SealStep ==
    ASSUME JInv, NEW s \in Session, ISeal(s)
    PROVE  JInv'
<1>. USE DEF At
<1>0. /\ at[s] = "seal" /\ UNCHANGED <<vvars, goal, run, copy, found, result, outcome>>
      /\ ITypeOK
  BY DEF ISeal, JInv
<1>. DEFINE seals == /\ Sealable(copy[s]) /\ runs[run[s]].phase = "source_verified"
                         /\ RunAgrees(NewCheckpoint(s))
<1>1. CASE ~seals
  <2>1. PICK l \in {"error", "leave"} : UNCHANGED records /\ at' = [at EXCEPT ![s] = l]
    BY <1>1 DEF ISeal
  <2>2. at[s] \in Held \ {"loading", "verifying", "leave"}
    BY <1>0 DEF Held, Steps
  <2>. QED  BY <1>0, <2>1, <2>2, GiveUpStep
<1>2. CASE seals
  <2>1. RunFacts(s)
    BY <1>0, RunAtHand DEF Held, Steps
  <2>2. PICK k : k = NewCheckpoint(s)
    OBVIOUS
  <2>3. PICK p \in Package : p = Pkg(s)
    BY <2>1 DEF RunFacts
  <2>4. /\ k \in Checkpoint /\ k.run = run[s] /\ k.contract = goal[s].req.contract
        /\ k.capture \in CapturesOf(p) /\ k.capture = pointer[p]
        /\ captures[k.capture].status = "published" /\ captures[k.capture].sha = k.sha
        /\ captures[k.capture].contract = k.contract
        /\ captures[k.capture].counts = <<k.count, k.count, k.count>>
        /\ k.attempt \in AttemptsOf(k.capture) /\ attempts[k.attempt].state = "verified"
        /\ runs[run[s]] = [pkg |-> p, phase |-> "source_verified", sha |-> k.sha,
                           capture |-> k.capture, attempt |-> k.attempt]
    <3>1. Sealable(copy[s]) /\ runs[run[s]].phase = "source_verified"
          /\ RunAgrees(NewCheckpoint(s))
      BY <1>2
    <3>2. /\ k \in Checkpoint /\ k.run = run[s] /\ k.contract = goal[s].req.contract
          /\ k.capture \in CapturesOf(Pkg(s)) /\ k.capture = pointer[Pkg(s)]
          /\ captures[k.capture].status = "published" /\ captures[k.capture].sha = k.sha
          /\ captures[k.capture].contract = k.contract
          /\ captures[k.capture].counts = <<k.count, k.count, k.count>>
          /\ k.attempt \in AttemptsOf(k.capture) /\ attempts[k.attempt].state = "verified"
          /\ runs[run[s]] = [pkg |-> Pkg(s), phase |-> "source_verified", sha |-> k.sha,
                             capture |-> k.capture, attempt |-> k.attempt]
      <4>1. JInv /\ at[s] = "seal" /\ RunFacts(s) /\ k = NewCheckpoint(s)
        BY <1>0, <2>1, <2>2
      <4>. QED  BY <3>1, <4>1, NewCheckpointIsFounded, ZenonT(120)
    <3>. QED  BY <2>3, <3>2
  <2>5. PICK r \in Run : /\ r = [runs[run[s]] EXCEPT !.phase = "completed"]
                         /\ r = [pkg |-> p, phase |-> "completed", sha |-> k.sha,
                                 capture |-> k.capture, attempt |-> k.attempt]
    <3>1. runs[run[s]] \in Run
      BY <2>1 DEF RunFacts
    <3>2. [runs[run[s]] EXCEPT !.phase = "completed"] \in Run
      BY <3>1, RowPhase
    <3>3. [runs[run[s]] EXCEPT !.phase = "completed"]
             = [pkg |-> p, phase |-> "completed", sha |-> k.sha, capture |-> k.capture,
                attempt |-> k.attempt]
      BY <2>4
    <3>. QED  BY <3>2, <3>3
  <2>6. /\ checkpoint' = [checkpoint EXCEPT ![p] = k] /\ at' = [at EXCEPT ![s] = "report"]
        /\ runs' = [runs EXCEPT ![run[s]] = r]
    <3>1. /\ checkpoint' = [checkpoint EXCEPT ![p] = k] /\ at' = [at EXCEPT ![s] = "report"]
          /\ runs' = [runs EXCEPT ![run[s]].phase = "completed"]
      BY <1>2, <2>2, <2>3 DEF ISeal, Completed
    <3>2. [runs EXCEPT ![run[s]].phase = "completed"] = [runs EXCEPT ![run[s]] = r]
      BY <2>5
    <3>. QED  BY <3>1, <3>2
  <2>7. FlowTypes' /\ FlowBeside(s)
    BY <1>0, <2>6 DEF ITypeOK, FlowTypes, FlowBeside, Steps
  <2>8. k.sha # None /\ k.capture # 0 /\ k.attempt # 0 /\ k.capture \in Nat
        /\ k.capture <= pointer[p]
    <3>1. runs[run[s]].sha # None /\ runs[run[s]].capture # 0 /\ runs[run[s]].attempt # 0
      BY <2>1, <2>4 DEF RunFacts, RowIsFounded, Evidenced
    <3>2. k.capture \in Nat
      BY <2>4 DEF Checkpoint
    <3>. QED  BY <2>4, <3>1, <3>2
  <2>9. CheckpointIsFounded(p)'
    <3>1. checkpoint'[p] = k
      BY <1>0, <2>6 DEF ITypeOK
    <3>2. UNCHANGED <<captures, pointer, attempts>> /\ CapturesOf(p)' = CapturesOf(p)
      BY <1>0, Unmoved
    <3>3. k.attempt \in AttemptsOf(k.capture)'
      BY <2>4, <3>2 DEF AttemptsOf
    <3>4. k.run \in DOMAIN runs' /\ runs'[k.run] = r
      BY <2>1, <2>4, <2>6 DEF RunFacts
    <3>. QED  BY <2>4, <2>5, <2>8, <3>1, <3>2, <3>3, <3>4 DEF CheckpointIsFounded
  <2>10. RunIsFounded(s)'
    <3>1. at'[s] = "report" /\ checkpoint'[p] = k /\ Pkg(s)' = p /\ k # None
          /\ goal'[s] = goal[s]
      BY <1>0, <2>3, <2>4, <2>6, IngestAssumption DEF ITypeOK, Pkg
    <3>. QED  BY <2>4, <3>1 DEF RunIsFounded
  <2>11. SuccessIsFounded(s)'
    BY <1>0, NothingReported
  <2>12. Evidenced(r) /\ r.pkg = Pkg(s)
         /\ (r.capture # 0 => r.capture \in CapturesOf(Pkg(s)))
         /\ (r.attempt # 0 => r.attempt \in AttemptsOf(r.capture))
    BY <2>3, <2>4, <2>5, <2>8 DEF Evidenced
  <2>13. \E x \in Checkpoint : /\ x.run = run[s]
                               /\ checkpoint' = [checkpoint EXCEPT ![Pkg(s)] = x]
                               /\ \A o \in Package : o = Pkg(s) => CheckpointIsFounded(o)'
    <3>1. \A o \in Package : o = Pkg(s) => CheckpointIsFounded(o)'
      BY <2>3, <2>9
    <3>. QED  BY <2>3, <2>4, <2>6, <3>1
  <2>14. "report" \in Held \ {"loading", "verifying"}
         /\ at[s] \in Held \ {"loading", "verifying", "replay", "open", "report", "leave"}
    BY <1>0 DEF Held, Steps
  <2>. QED  BY <1>0, <2>5, <2>6, <2>7, <2>10, <2>11, <2>12, <2>13, <2>14, BookSteps
<1>. QED  BY <1>1, <1>2

\* _record_error writes the run's phase, or that it failed, when the schema lets it.
LEMMA ErrorStep ==
    ASSUME JInv, NEW s \in Session, IRecordError(s)
    PROVE  JInv'
<1>. USE DEF At
<1>0. /\ at[s] \in {"error", "condemn"} /\ at' = [at EXCEPT ![s] = "leave"]
      /\ UNCHANGED <<vvars, checkpoint, goal, run, copy, found, result>> /\ ITypeOK
  BY DEF IRecordError, JInv
<1>1. RunFacts(s)
  BY <1>0, RunAtHand DEF Held, Steps
<1>2. PICK f \in OpenPhases \cup {"failed"} :
          f = IF at[s] = "condemn" THEN "failed" ELSE copy[s].phase
  BY <1>1 DEF RunFacts
<1>3. PICK r \in Run : /\ r = [runs[run[s]] EXCEPT !.phase = f] /\ r.phase = f
                       /\ r.pkg = Pkg(s) /\ r.capture = runs[run[s]].capture
                       /\ r.attempt = runs[run[s]].attempt
  <2>1. runs[run[s]] \in Run /\ runs[run[s]].pkg = Pkg(s)
    BY <1>1 DEF RunFacts
  <2>2. [runs[run[s]] EXCEPT !.phase = f] \in Run
    BY <2>1, RowPhase
  <2>. QED  BY <2>1, <2>2 DEF Run
<1>4. CASE ~Evidenced(r)
  <2>1. UNCHANGED <<runs, outcome>>
    BY <1>2, <1>3, <1>4 DEF IRecordError
  <2>2. at[s] \in Held \ {"loading", "verifying", "leave"} /\ UNCHANGED records
    BY <1>0, <2>1 DEF Held, Steps, records
  <2>. QED  BY <1>0, <2>1, <2>2, GiveUpStep
<1>5. CASE Evidenced(r)
  <2>1. /\ runs' = [runs EXCEPT ![run[s]] = r]
        /\ outcome' = [outcome EXCEPT ![s] = "incomplete"]
    BY <1>2, <1>3, <1>5 DEF IRecordError
  <2>2. FlowTypes' /\ FlowBeside(s)
    BY <1>0, <2>1 DEF ITypeOK, FlowTypes, FlowBeside, Steps
  <2>3. (r.capture # 0 => r.capture \in CapturesOf(Pkg(s)))
        /\ (r.attempt # 0 => r.attempt \in AttemptsOf(r.capture))
    BY <1>1, <1>3 DEF RunFacts, RowIsFounded
  <2>4. at'[s] = "leave" /\ outcome'[s] = "incomplete"
    BY <1>0, <2>1 DEF ITypeOK
  <2>5. RunIsFounded(s)' /\ SuccessIsFounded(s)'
    BY <2>4 DEF RunIsFounded, SuccessIsFounded, Held
  <2>6. "leave" \in Held \ {"loading", "verifying"} /\ r.phase # "completed"
        /\ at[s] \in Held \ {"loading", "verifying", "replay", "open", "report", "leave"}
    BY <1>0, <1>3, PhaseNames DEF Held, Steps
  <2>. QED  BY <1>0, <1>3, <1>5, <2>1, <2>2, <2>3, <2>5, <2>6, BookSteps
<1>. QED  BY <1>4, <1>5

\* create_ingest_run, when the package has no unfinished run.
LEMMA OpenStep ==
    ASSUME JInv, NEW s \in Session, IOpenRun(s)
    PROVE  JInv'
<1>. USE DEF At
<1>0. /\ at[s] = "open" /\ OpenRuns(Pkg(s)) = {} /\ ITypeOK
      /\ UNCHANGED <<vvars, checkpoint, goal, found, result, outcome>>
  BY DEF IOpenRun, JInv
<1>1. CASE Len(runs) >= MaxRuns
  <2>1. UNCHANGED <<runs, run, copy>> /\ at' = [at EXCEPT ![s] = "leave"]
    <3>1. ~(Len(runs) < MaxRuns)
      BY <1>0, <1>1, LenProperties, IngestAssumption DEF ITypeOK
    <3>. QED  BY <3>1 DEF IOpenRun
  <2>2. at[s] \in Held \ {"loading", "verifying", "leave"} /\ UNCHANGED records
    BY <1>0, <2>1 DEF Held, Steps, records
  <2>. QED  BY <1>0, <2>1, <2>2, GiveUpStep
<1>2. CASE Len(runs) < MaxRuns
  <2>1. at[s] \notin {"idle", "loading", "verifying"} /\ at[s] \in Held
    BY <1>0 DEF Held, Steps
  <2>2. PICK p \in Package : p = Pkg(s) /\ owner[p] = s
    BY <2>1, BetweenCalls DEF CallIsFounded
  <2>3. PICK r \in Run : /\ r = NewRun(p) /\ r.pkg = p /\ r.phase = "starting"
                         /\ r.capture = 0 /\ r.attempt = 0
    <3>1. NewRun(p) \in Run
      BY <2>2, PhaseNames DEF Run, NewRun
    <3>. QED  BY <3>1 DEF NewRun
  <2>4. PICK n \in Nat : n = Len(runs) /\ runs \in Seq(Run) /\ DOMAIN runs = 1..n
    BY <1>0, LenProperties DEF ITypeOK
  <2>5. /\ runs' = Append(runs, r) /\ run' = [run EXCEPT ![s] = n + 1]
        /\ copy' = [copy EXCEPT ![s] = r] /\ at' = [at EXCEPT ![s] = "artifact"]
    BY <1>2, <2>2, <2>3, <2>4 DEF IOpenRun
  <2>6. /\ runs' \in Seq(Run) /\ DOMAIN runs' = 1..(n + 1) /\ runs'[n + 1] = r
        /\ \A j \in 1..n : runs'[j] = runs[j]
    BY <2>4, <2>5, AppendProperties
  <2>7. VInv' /\ VBeside(s) /\ VGrows
    BY <1>0, StandStill
  <2>8. \A j \in 1..n : j \in Nat /\ runs[j] \in Run /\ runs[j].pkg \in Package
    <3>1. \A j \in 1..n : runs[j] \in Run
      BY <2>4, ElementOfSeq
    <3>. QED  BY <3>1 DEF Run
  <2>9. \A o \in Package \ {p} : RunsOf(o)' = RunsOf(o)
    BY <2>3, <2>4, <2>6 DEF RunsOf
  <2>10. RecordTypes' /\ RecordsBeside(s) /\ RunsGrow
    <3>1. RecordTypes'
      BY <1>0, <2>6 DEF RecordTypes, ITypeOK
    <3>2. RunsGrow
      BY <2>4, <2>6 DEF RunsGrow
    <3>3. RecordsBeside(s)
      BY <1>0, <2>2, <2>4, <2>6, <2>9 DEF RecordsBeside, RunsOf
    <3>. QED  BY <3>1, <3>2, <3>3
  <2>11. CheckpointShape'
    <3>1. pointer' \in [Package -> Nat]
      BY <2>7 DEF VInv, StoreInv, TypeOK
    <3>. QED  BY <1>0, <2>7, <2>10, <3>1, CheckpointLasts DEF CheckpointShape
  <2>12. RowsShape'
    <3>1. \A o \in Package : checkpoint[o] # None => checkpoint[o].run \in Nat
      BY <1>0 DEF ITypeOK, Checkpoint
    <3>2. ASSUME NEW j \in 1..n PROVE RowIsFounded(j)'
      <4>1. PICK o \in Package : o = runs[j].pkg
        BY <2>8
      <4>2. runs[j].phase \in OpenPhases => RunsOf(o)' \subseteq RunsOf(o)
        <5>1. runs[j].phase \in OpenPhases => o # p
          BY <1>0, <2>2, <2>4, <4>1 DEF OpenRuns, RunsOf
        <5>. QED  BY <2>9, <5>1
      <4>3. runs[j].phase \in OpenPhases => RunsOf(runs[j].pkg)' \subseteq RunsOf(runs[j].pkg)
        <5>1. runs'[j] = runs[j]
          BY <2>6
        <5>. QED  BY <4>1, <4>2, <5>1 DEF RunsOf
      <4>4. runs[j].phase = "completed" =>
                /\ checkpoint'[runs[j].pkg] # None
                /\ checkpoint'[runs[j].pkg].run >= checkpoint[runs[j].pkg].run
        <5>1. runs[j].phase = "completed" => checkpoint[o] # None
          BY <2>4, <4>1 DEF JInv, RowsShape, RowIsFounded
        <5>2. runs[j].phase = "completed" => checkpoint[o].run \in Nat
          BY <3>1, <5>1
        <5>. QED  BY <1>0, <4>1, <5>1, <5>2
      <4>5. \A x \in Package : checkpoint'[x] # None => checkpoint'[x].run \in Nat
        BY <1>0, <3>1
      <4>6. j \in DOMAIN runs /\ j \in DOMAIN runs' /\ runs'[j] = runs[j]
        BY <2>4, <2>6
      <4>. QED  BY <2>7, <4>3, <4>4, <4>5, <4>6, RowLasts
    <3>3. RowIsFounded(n + 1)'
      <4>1. \A j \in RunsOf(p)' : j <= n + 1
        BY <2>4, <2>6 DEF RunsOf
      <4>. QED  BY <2>3, <2>6, <4>1 DEF RowIsFounded, Evidenced
    <3>. QED  BY <2>4, <2>6, <3>2, <3>3 DEF RowsShape
  <2>13. FlowTypes' /\ FlowBeside(s) /\ at'[s] = "artifact" /\ run'[s] = n + 1 /\ copy'[s] = r
    BY <1>0, <2>4, <2>5 DEF ITypeOK, FlowTypes, FlowBeside, Steps
  <2>14. CallIsFounded(s)' /\ CountsOf(s)'
    <3>1. "artifact" \in Held \ {"loading", "verifying"} /\ at[s] \in Held \ {"loading", "verifying"}
      BY <1>0 DEF Held, Steps
    <3>2. UNCHANGED <<captures, owner, depth, pc, job, cap, step, target, goal>>
      BY <1>0, Unmoved
    <3>. QED  BY <2>5, <3>1, <3>2, InHand
  <2>15. RunIsFounded(s)'
    <3>1. Pkg(s)' = p /\ run'[s] \in OpenRuns(p)'
      BY <1>0, <2>2, <2>3, <2>6, <2>13, PhaseNames DEF OpenRuns, RunsOf, Pkg
    <3>. QED  BY <2>3, <2>6, <2>13, <3>1, PhaseNames DEF RunIsFounded, OpenRuns
  <2>16. SuccessIsFounded(s)'
    BY <1>0, NothingReported
  <2>. QED  BY <2>7, <2>10, <2>11, <2>12, <2>13, <2>14, <2>15, <2>16, StepJInv DEF OwnShape
<1>3. Len(runs) >= MaxRuns \/ Len(runs) < MaxRuns
  BY <1>0, LenProperties, IngestAssumption DEF ITypeOK
<1>. QED  BY <1>1, <1>2, <1>3

-----------------------------------------------------------------------------
(* The load that ingest_package calls *)

\* What holds while load_package runs for an ingest.
LoadFacts(s, p) ==
    /\ VInv /\ StoreInv /\ TypeOK /\ ITypeOK /\ RunFacts(s) /\ CountsOf(s)
    /\ pc[s] \in Holding \cup {"begin"} /\ step[s] = "idle" /\ job[s] \in Job
    /\ p = Pkg(s) /\ p \in Package /\ job[s].pkg = p /\ job[s].req = goal[s].req
    /\ owner[p] = s /\ runs[run[s]].sha # None

\* What is known when the ingest is inside load_package.
LEMMA LoadAtHand ==
    ASSUME JInv, NEW s \in Session, at[s] = "loading"
    PROVE  \E p \in Package : LoadFacts(s, p)
<1>1. RunFacts(s)
  BY RunAtHand DEF Held, Steps
<1>2. VInv /\ StoreInv /\ TypeOK /\ ITypeOK
  BY DEF JInv, VInv, StoreInv
<1>3. CountsOf(s)
  BY ConstantsAreDisjoint DEF JInv, LockCounts, CountsOf
<1>4. /\ pc[s] \in Holding \cup {"begin"} /\ step[s] = "idle"
      /\ job[s].pkg = Pkg(s) /\ job[s].req = goal[s].req
      /\ runs[run[s]].sha # None
  BY <1>1 DEF RunFacts, CallIsFounded, RunIsFounded
<1>5. job[s] \in Job
  BY <1>2, <1>4 DEF StoreInv, SessionShape
<1>. QED  BY <1>1, <1>2, <1>3, <1>4, <1>5 DEF LoadFacts, RunFacts

\* What every step of that load does to its caller, before the load returns.
LEMMA LoadCall ==
    ASSUME JInv, NEW s \in Session, NEW p \in Package, LoadFacts(s, p), at[s] = "loading",
           StoreStep(s), UNCHANGED <<evidence, check, flow>>,
           pc'[s] \in Holding, job'[s] = job[s],
           pc'[s] = "decide" => cap'[s] = 0,
           Acquire(s) \/ (pc[s] \in Holding /\ UNCHANGED lock)
    PROVE  /\ VInv' /\ VBeside(s) /\ VGrows /\ CallIsFounded(s)' /\ CountsOf(s)'
           /\ FlowTypes' /\ FlowBeside(s) /\ SuccessIsFounded(s)'
<1>0. /\ UNCHANGED <<at, goal, run, copy, found, result, outcome, step, target>>
  BY DEF flow, check
<1>1. VInv' /\ VBeside(s) /\ VGrows
  BY LoadVInv, StoreBeside DEF LoadFacts
<1>2. FlowTypes' /\ FlowBeside(s)
  BY <1>0 DEF LoadFacts, ITypeOK, FlowTypes, FlowBeside
<1>3. SuccessIsFounded(s)'
  BY <1>0, NothingReported
<1>4. owner'[p] = s /\ \A q \in Package \ {p} : owner'[q] = owner[q] /\ depth'[q] = depth[q]
  <2>1. CASE UNCHANGED lock
    BY <2>1 DEF LoadFacts, lock
  <2>2. CASE Acquire(s)
    <3>1. TakeLock(s, p)
      BY <2>2 DEF Acquire, LoadFacts
    <3>. QED  BY <3>1, TakeLockTable DEF LoadFacts, StoreInv
  <2>. QED  BY <2>1, <2>2
<1>5. Pkg(s)' = p /\ pc'[s] \notin {"begin", "idle", "dead"} /\ pc[s] \notin {"idle", "dead"}
  BY <1>0 DEF LoadFacts, Pkg, Holding
<1>6. CallIsFounded(s)'
  BY <1>0, <1>4, <1>5 DEF CallIsFounded, LoadFacts, RunFacts
<1>7. CountsOf(s)'
  <2>1. SUFFICES ASSUME NEW q \in Package, owner'[q] = s PROVE depth'[q] = Acquired(s, q)'
    BY DEF CountsOf
  <2>2. /\ Acquired(s, q)' = Taken(p = q) + Taken(FALSE) + Taken(p = q)
        /\ Acquired(s, q) = Taken(pc[s] \in Holding /\ p = q) + Taken(FALSE) + Taken(p = q)
    BY <1>0, <1>5 DEF Acquired, LoadFacts, Held, Steps, Checking, Pkg
  <2>3. CASE q # p
    <3>1. owner[q] = s /\ depth'[q] = depth[q]
      BY <1>4, <2>1, <2>3
    <3>2. depth[q] = Acquired(s, q)
      BY <1>5, <3>1 DEF LoadFacts, CountsOf
    <3>. QED  BY <2>2, <2>3, <3>1, <3>2 DEF Taken
  <2>4. CASE q = p
    <3>1. depth[q] = Acquired(s, q)
      BY <1>5, <2>4 DEF LoadFacts, CountsOf
    <3>2. CASE pc[s] \in Holding /\ UNCHANGED lock
      BY <2>2, <2>4, <3>1, <3>2 DEF lock
    <3>3. CASE Acquire(s)
      <4>1. pc[s] \notin Holding /\ TakeLock(s, p)
        BY <3>3 DEF Acquire, Holding, LoadFacts
      <4>2. depth'[p] = depth[p] + 1
        BY <4>1, TakeLockTable DEF LoadFacts, StoreInv
      <4>. QED  BY <2>2, <2>4, <3>1, <4>1, <4>2 DEF Taken
    <3>. QED  BY <3>2, <3>3
  <2>. QED  BY <2>3, <2>4
<1>. QED  BY <1>1, <1>2, <1>3, <1>6, <1>7

\* The steps of the load that choose no capture.
LEMMA LoadingStep ==
    ASSUME JInv, NEW s \in Session,
           ILoading(s) \/ (INestedDbError(s) /\ DbError(s) /\ at[s] = "loading")
    PROVE  JInv'
<1>1. PICK p \in Package : LoadFacts(s, p)
  BY LoadAtHand DEF ILoading
<1>2. /\ at[s] = "loading" /\ StoreStep(s) /\ UNCHANGED <<evidence, check, records, flow>>
  <2>1. CASE ILoading(s)
    BY <2>1 DEF ILoading, StoreStep, Advance
  <2>2. CASE INestedDbError(s) /\ DbError(s) /\ at[s] = "loading"
    <3>1. ~VDbError(s)
      BY <1>1 DEF VDbError, LoadFacts
    <3>. QED  BY <2>2, <3>1 DEF INestedDbError, StoreStep
  <2>. QED  BY <2>1, <2>2
<1>3. Acquire(s) \/ Prepare(s) \/ ReadFails(s) \/ SkipBatch(s) \/ LoadBatch(s)
      \/ LoadDuplicate(s) \/ Recheck(s) \/ Reconcile(s) \/ Publish(s) \/ Fail(s) \/ DbError(s)
  BY DEF ILoading
<1>4. /\ pc'[s] \in Holding /\ UNCHANGED <<job, cap>>
      /\ pc'[s] = "decide" => pc[s] = "begin"
      /\ pc'[s] \in Working \cup {"return"} => pc[s] \in Working
      /\ Acquire(s) \/ (pc[s] \in Holding /\ UNCHANGED lock)
  <2>. PICK w : w = pc[s]
    OBVIOUS
  <2>1. w \in Holding \cup {"begin"} /\ pc \in [Session -> PC]
    BY <1>1 DEF LoadFacts, TypeOK
  <2>2. CASE Acquire(s)
    BY <2>1, <2>2 DEF Acquire, Goto, work, Holding, Working
  <2>3. CASE Prepare(s)
    BY <2>1, <2>3 DEF Prepare, Goto, Holding, Working
  <2>4. CASE ReadFails(s) \/ LoadDuplicate(s)
    BY <2>1, <2>4 DEF ReadFails, LoadDuplicate, Streaming, Goto, work, Holding, Working
  <2>5. CASE SkipBatch(s) \/ LoadBatch(s)
    BY <2>1, <2>5 DEF SkipBatch, LoadBatch, Streaming, Holding, Working
  <2>6. CASE Recheck(s)
    BY <2>1, <2>6 DEF Recheck, Goto, work, Holding, Working
  <2>7. CASE Reconcile(s)
    BY <2>1, <2>7 DEF Reconcile, Goto, work, Holding, Working
  <2>8. CASE Publish(s)
    BY <2>1, <2>8 DEF Publish, Goto, work, Holding, Working
  <2>9. CASE Fail(s)
    BY <2>1, <2>9 DEF Fail, Goto, work, Holding, Working
  <2>10. CASE DbError(s)
    BY <2>1, <2>10 DEF DbError, Goto, work, Holding, Working
  <2>. QED  BY <1>3, <2>2, <2>3, <2>4, <2>5, <2>6, <2>7, <2>8, <2>9, <2>10
<1>5. pc[s] = "begin" => cap[s] = 0
  BY <1>1 DEF LoadFacts, RunFacts, CallIsFounded
<1>6. /\ VInv' /\ VBeside(s) /\ VGrows /\ CallIsFounded(s)' /\ CountsOf(s)'
      /\ FlowTypes' /\ FlowBeside(s) /\ SuccessIsFounded(s)'
  BY <1>1, <1>2, <1>4, <1>5, LoadCall
<1>7. RecordTypes' /\ RecordsBeside(s) /\ RowsShape' /\ CheckpointShape'
  BY <1>2, <1>6, RecordsStand
<1>8. RunIsFounded(s)'
  <2>1. UNCHANGED <<at, goal, run, copy, runs, checkpoint, cap>> /\ Pkg(s)' = Pkg(s)
    BY <1>2, <1>4 DEF flow, records, Pkg
  <2>2. run'[s] \in OpenRuns(Pkg(s))'
    BY <1>1, <2>1 DEF LoadFacts, RunFacts, OpenRuns, RunsOf
  <2>3. ASSUME Wanted(s, cap[s]) PROVE Wanted(s, cap[s])'
    BY <1>6, <2>1, <2>3 DEF Wanted, CapturesOf, VGrows, Lasts
  <2>. QED  BY <1>1, <1>2, <1>4, <2>1, <2>2, <2>3 DEF RunIsFounded, LoadFacts, RunFacts
<1>. QED  BY <1>6, <1>7, <1>8, StepJInv DEF OwnShape

\* The capture that on_capture links belongs to the run's package and contract.
LEMMA LinkedCapture ==
    ASSUME JInv, NEW s \in Session, NEW p \in Package, LoadFacts(s, p), at[s] = "loading",
           DecideResume(s) \/ DecideReplay(s) \/ DecideNew(s)
    PROVE  /\ pc[s] = "decide" /\ pc'[s] \in Holding \ {"decide"} /\ job' = job
           /\ UNCHANGED lock
           /\ \/ cap'[s] = 0 /\ pc'[s] = "raise"
              \/ /\ cap'[s] \in CapturesOf(p)' /\ cap'[s] \in Nat \ {0}
                 /\ captures'[cap'[s]].contract = goal[s].req.contract
<1>0. /\ pc \in [Session -> PC] /\ cap \in [Session -> Nat] /\ job[s].pkg = p
      /\ job[s].req = goal[s].req /\ job[s] \in Job /\ captures \in Seq(Capture)
      /\ pc[s] = "decide" /\ cap[s] = 0
  BY DEF LoadFacts, TypeOK, DecideResume, DecideReplay, DecideNew, RunFacts, CallIsFounded
<1>1. CASE DecideResume(s)
  <2>1. PICK c \in Resumable(job[s]) : /\ cap' = [cap EXCEPT ![s] = c]
                                       /\ Goto(s, EntryPoint(c))
    BY <1>1 DEF DecideResume
  <2>2. EntryPoint(c) \in Holding \ {"decide"}
    BY DEF EntryPoint, Holding
  <2>3. pc'[s] \in Holding \ {"decide"} /\ cap'[s] = c
    BY <1>0, <2>1, <2>2 DEF Goto
  <2>4. c \in CapturesOf(p) /\ captures[c].contract = goal[s].req.contract /\ c \in Nat \ {0}
    BY <1>0, <2>1, CaptureType DEF Resumable, Matches, LoadFacts, CapturesOf
  <2>. QED  BY <1>0, <1>1, <2>3, <2>4 DEF DecideResume, CapturesOf, tables
<1>2. CASE DecideReplay(s)
  <2>1. PICK c \in Replayable(job[s]) : cap' = [cap EXCEPT ![s] = c]
    BY <1>2 DEF DecideReplay
  <2>2. pc'[s] = "return" /\ cap'[s] = c
    BY <1>0, <1>2, <2>1 DEF DecideReplay, Goto
  <2>3. c \in CapturesOf(p) /\ captures[c].contract = goal[s].req.contract /\ c \in Nat \ {0}
    BY <1>0, <2>1, CaptureType DEF Replayable, Matches, LoadFacts, CapturesOf
  <2>. QED  BY <1>0, <1>2, <2>2, <2>3 DEF DecideReplay, CapturesOf, tables, Holding
<1>3. CASE DecideNew(s) /\ Len(captures) < MaxCaptures
  <2>. PICK n \in Nat : n = Len(captures) /\ DOMAIN captures = 1..n
    BY <1>0, LenProperties
  <2>1. /\ captures' = Append(captures, NewCapture(job[s])) /\ cap'[s] = n + 1
        /\ pc'[s] = "prepare" /\ job' = job /\ UNCHANGED lock
    BY <1>0, <1>3 DEF DecideNew, Goto
  <2>2. DOMAIN captures' = 1..(n + 1) /\ captures'[n + 1] = NewCapture(job[s])
    BY <1>0, <2>1, AppendProperties
  <2>3. captures'[n + 1].pkg = p /\ captures'[n + 1].contract = goal[s].req.contract
    BY <1>0, <2>2 DEF NewCapture
  <2>4. n + 1 \in CapturesOf(p)'
    BY <2>2, <2>3 DEF CapturesOf
  <2>. QED  BY <1>0, <2>1, <2>3, <2>4 DEF Holding
<1>4. CASE DecideNew(s) /\ ~(Len(captures) < MaxCaptures)
  BY <1>0, <1>4 DEF DecideNew, Goto, Holding
<1>. QED  BY <1>1, <1>2, <1>3, <1>4

\* The transaction that decides the capture links the run to it.
LEMMA LinkStep ==
    ASSUME JInv, NEW s \in Session, ILink(s)
    PROVE  JInv'
<1>0. at[s] = "loading" /\ UNCHANGED <<evidence, check, checkpoint, flow>>
  BY DEF ILink
<1>1. PICK p \in Package : LoadFacts(s, p)
  BY <1>0, LoadAtHand
<1>2. PICK d : d = cap'[s]
  OBVIOUS
<1>3. /\ pc[s] = "decide" /\ pc'[s] \in Holding \ {"decide"} /\ job' = job /\ UNCHANGED lock
      /\ \/ d = 0 /\ pc'[s] = "raise"
         \/ /\ d \in CapturesOf(p)' /\ d \in Nat \ {0}
            /\ captures'[d].contract = goal[s].req.contract
  BY <1>0, <1>1, <1>2, LinkedCapture DEF ILink
<1>4. StoreStep(s)
  BY DEF ILink, StoreStep, Advance
<1>5. /\ VInv' /\ VBeside(s) /\ VGrows /\ CallIsFounded(s)' /\ CountsOf(s)'
      /\ FlowTypes' /\ FlowBeside(s) /\ SuccessIsFounded(s)'
  <2>1. pc[s] \in Holding /\ pc'[s] \in Holding /\ pc'[s] # "decide"
    BY <1>3 DEF Holding
  <2>. QED  BY <1>0, <1>1, <1>3, <1>4, <2>1, LoadCall
<1>6. RunFacts(s) /\ runs[run[s]].sha # None /\ p = Pkg(s)
  BY <1>1 DEF LoadFacts
<1>7. UNCHANGED <<at, goal, run, copy, checkpoint>> /\ Pkg(s)' = p
  BY <1>0, <1>6 DEF flow, Pkg
<1>8. CASE d = 0
  <2>1. UNCHANGED records
    BY <1>0, <1>2, <1>8 DEF ILink, records
  <2>2. RecordTypes' /\ RecordsBeside(s) /\ RowsShape' /\ CheckpointShape'
    BY <1>5, <2>1, RecordsStand
  <2>3. RunIsFounded(s)'
    <3>1. run'[s] \in OpenRuns(Pkg(s))'
      BY <1>6, <1>7, <2>1 DEF RunFacts, OpenRuns, RunsOf, records
    <3>2. pc'[s] \notin Working \cup {"return"}
      BY <1>3, <1>8 DEF Working
    <3>. QED  BY <1>0, <1>6, <1>7, <2>1, <3>1, <3>2 DEF RunIsFounded, RunFacts, records
  <2>. QED  BY <1>5, <2>2, <2>3, StepJInv DEF OwnShape
<1>9. CASE d # 0
  <2>1. PICK r \in Run : /\ r = Linked(runs[run[s]], d) /\ r.pkg = p /\ r.capture = d
                         /\ r.phase \in OpenPhases /\ r.sha # None
                         /\ \/ r = runs[run[s]]
                            \/ r.attempt = 0 /\ r.phase # "source_verified"
    <3>1. runs[run[s]] \in Run /\ runs[run[s]].pkg = p /\ runs[run[s]].phase \in OpenPhases
      BY <1>6 DEF RunFacts
    <3>2. CASE runs[run[s]].capture = d
      BY <1>6, <3>1, <3>2 DEF Linked
    <3>3. CASE runs[run[s]].capture # d
      <4>1. PICK f \in OpenPhases :
                f = IF runs[run[s]].phase = "source_verified" THEN "capture_published"
                    ELSE runs[run[s]].phase
        BY <3>1, PhaseNames
      <4>2. /\ Linked(runs[run[s]], d)
                  = [runs[run[s]] EXCEPT !.capture = d, !.attempt = 0, !.phase = f]
            /\ f # "source_verified"
        BY <3>3, <4>1 DEF Linked
      <4>3. [runs[run[s]] EXCEPT !.capture = d, !.attempt = 0, !.phase = f] \in Run
        BY <1>3, <1>9, <3>1, RowLink
      <4>4. /\ [runs[run[s]] EXCEPT !.capture = d, !.attempt = 0, !.phase = f].pkg = p
            /\ [runs[run[s]] EXCEPT !.capture = d, !.attempt = 0, !.phase = f].capture = d
            /\ [runs[run[s]] EXCEPT !.capture = d, !.attempt = 0, !.phase = f].attempt = 0
            /\ [runs[run[s]] EXCEPT !.capture = d, !.attempt = 0, !.phase = f].phase = f
            /\ [runs[run[s]] EXCEPT !.capture = d, !.attempt = 0, !.phase = f].sha
                   = runs[run[s]].sha
        BY <3>1 DEF Run
      <4>5. PICK x \in Run : x = Linked(runs[run[s]], d) /\ x.pkg = p /\ x.capture = d
                             /\ x.attempt = 0 /\ x.phase = f /\ x.sha = runs[run[s]].sha
        BY <4>2, <4>3, <4>4
      <4>. QED  BY <1>6, <4>1, <4>2, <4>5
    <3>. QED  BY <3>2, <3>3
  <2>2. runs' = [runs EXCEPT ![run[s]] = r]
    BY <1>2, <1>9, <2>1 DEF ILink
  <2>3. Evidenced(r) /\ (r.attempt # 0 => r.attempt \in AttemptsOf(r.capture)')
    <3>1. RowIsFounded(run[s])
      BY <1>6 DEF RunFacts
    <3>2. CASE r = runs[run[s]]
      BY <1>5, <3>1, <3>2 DEF RowIsFounded, VGrows, AttemptsOf
    <3>3. CASE r.attempt = 0 /\ r.phase # "source_verified"
      BY <1>9, <2>1, <3>3, PhaseNames DEF Evidenced
    <3>. QED  BY <2>1, <3>2, <3>3
  <2>4. /\ RecordTypes' /\ RecordsBeside(s) /\ RowsShape' /\ CheckpointShape'
        /\ DOMAIN runs' = DOMAIN runs /\ runs'[run[s]] = r /\ RunsOf(p)' = RunsOf(p)
    <3>1. r.phase # "completed" /\ checkpoint' = checkpoint /\ d \in CapturesOf(p)'
      BY <1>3, <1>7, <1>9, <2>1, PhaseNames
    <3>. QED  BY <1>5, <1>6, <2>1, <2>2, <2>3, <3>1, RewriteRun, ZenonT(60)
  <2>5. RunIsFounded(s)'
    <3>1. run'[s] \in OpenRuns(p)'
      BY <1>6, <1>7, <2>1, <2>4 DEF RunFacts, OpenRuns, RunsOf
    <3>2. Wanted(s, d)'
      BY <1>3, <1>7, <1>9 DEF Wanted
    <3>3. Wanted(s, cap[s])'
      BY <1>2, <3>2 DEF Wanted
    <3>. QED  BY <1>0, <1>2, <1>6, <1>7, <2>1, <2>4, <3>1, <3>3 DEF RunIsFounded, RunFacts
  <2>. QED  BY <1>5, <2>4, <2>5, StepJInv DEF OwnShape
<1>. QED  BY <1>8, <1>9

\* load_package is called: nothing is locked or written yet.
LEMMA LoadStep ==
    ASSUME JInv, NEW s \in Session, ILoad(s)
    PROVE  JInv'
<1>. USE DEF At
<1>0. /\ at[s] = "load" /\ at[s] \notin {"idle", "loading", "verifying"}
      /\ UNCHANGED <<evidence, check, records, goal, run, copy, found, result, outcome>>
  BY DEF ILoad
<1>1. CASE file[Pkg(s)] = None
  <2>1. UNCHANGED vvars /\ at' = [at EXCEPT ![s] = "leave"]
    BY <1>1 DEF ILoad, vvars
  <2>2. at[s] \in Held \ {"loading", "verifying", "leave"}
    BY <1>0 DEF Held, Steps
  <2>. QED  BY <1>0, <2>1, <2>2, GiveUpStep
<1>2. CASE file[Pkg(s)] # None
  <2>1. StartLoad(s, Pkg(s), goal[s].req) /\ at' = [at EXCEPT ![s] = "loading"]
    BY <1>2 DEF ILoad
  <2>2. RunFacts(s) /\ ITypeOK /\ TypeOK /\ CountsOf(s) /\ step[s] = "idle" /\ cap[s] = 0
        /\ runs[run[s]].sha # None
    <3>1. RunFacts(s)
      BY <1>0, RunAtHand DEF Held, Steps
    <3>. QED  BY <1>0, <3>1, BetweenCalls DEF JInv, RunFacts, RunIsFounded
  <2>3. Pkg(s) \in Package /\ goal[s].req \in Requests /\ owner[Pkg(s)] = s /\ goal[s] \in Goal
    BY <1>0, <2>2 DEF RunFacts, CallIsFounded
  <2>4. StoreStep(s)
    BY <2>1, <2>3 DEF StoreStep, Start
  <2>5. VInv' /\ VBeside(s) /\ VGrows
    BY <1>0, <2>2, <2>4, LoadVInv, StoreBeside DEF JInv
  <2>6. RecordTypes' /\ RecordsBeside(s) /\ RowsShape' /\ CheckpointShape'
    BY <1>0, <2>5, RecordsStand
  <2>7. FlowTypes' /\ FlowBeside(s) /\ at'[s] = "loading"
    BY <1>0, <2>1, <2>2 DEF ITypeOK, FlowTypes, FlowBeside, Steps
  <2>8. /\ pc'[s] = "begin" /\ job'[s].pkg = Pkg(s) /\ job'[s].req = goal[s].req
        /\ pc[s] = "idle"
        /\ UNCHANGED <<captures, owner, depth, cap, step, target, goal, run, copy, runs>>
    BY <1>0, <2>1, <2>2 DEF StartLoad, Goto, TypeOK, tables, lock, check, records
  <2>9. CallIsFounded(s)'
    BY <1>0, <2>2, <2>3, <2>7, <2>8 DEF CallIsFounded, Pkg
  <2>10. CountsOf(s)'
    BY <1>0, <2>2, <2>7, <2>8 DEF CountsOf, Acquired, Taken, Holding, Held, Steps, Pkg, Checking
  <2>11. RunIsFounded(s)'
    <3>1. run'[s] \in OpenRuns(Pkg(s))'
      BY <2>2, <2>8 DEF RunFacts, OpenRuns, RunsOf, Pkg
    <3>2. pc'[s] \notin Working \cup {"return"}
      BY <2>8 DEF Working
    <3>. QED  BY <2>2, <2>7, <2>8, <3>1, <3>2 DEF RunIsFounded, RunFacts, Pkg
  <2>12. SuccessIsFounded(s)'
    BY <1>0, NothingReported
  <2>. QED  BY <2>5, <2>6, <2>7, <2>9, <2>10, <2>11, <2>12, StepJInv DEF OwnShape
<1>. QED  BY <1>1, <1>2

\* load_package returns with its capture, or raises; its caller keeps the lock.
LEMMA LoadReturnStep ==
    ASSUME JInv, NEW s \in Session, ILoadReturns(s)
    PROVE  JInv'
<1>. USE DEF At
<1>0. /\ at[s] = "loading" /\ Finish(s)
      /\ UNCHANGED <<evidence, check, records, goal, run, copy, found, outcome>>
      /\ result' = [result EXCEPT ![s] = cap[s]]
  BY DEF ILoadReturns
<1>1. PICK p \in Package : LoadFacts(s, p)
  BY <1>0, LoadAtHand
<1>2. PICK l \in {"leave", "loaded", "condemn", "error"} :
          /\ at' = [at EXCEPT ![s] = l]
          /\ l = "loaded" => pc[s] = "return"
  <2>1. pc[s] \in {"return", "raise"}
    BY <1>0 DEF Finish
  <2>. QED  BY <2>1 DEF ILoadReturns
<1>3. VInv' /\ VBeside(s) /\ VGrows
  <2>1. StoreStep(s)
    BY <1>0 DEF StoreStep, Advance
  <2>. QED  BY <1>0, <1>1, <2>1, LoadVInv, StoreBeside DEF LoadFacts
<1>4. RecordTypes' /\ RecordsBeside(s) /\ RowsShape' /\ CheckpointShape'
  BY <1>0, <1>3, RecordsStand
<1>5. FlowTypes' /\ FlowBeside(s) /\ at'[s] = l /\ result'[s] = cap[s]
  <2>1. cap[s] \in Nat
    BY <1>1 DEF LoadFacts, TypeOK
  <2>. QED  BY <1>0, <1>1, <1>2, <2>1 DEF LoadFacts, ITypeOK, FlowTypes, FlowBeside, Steps
<1>6. /\ pc'[s] = "idle" /\ cap'[s] = 0 /\ pc[s] \in Holding /\ GiveLock(s, p)
      /\ UNCHANGED <<captures, step, target>> /\ RunFacts(s) /\ runs[run[s]].sha # None
      /\ p = Pkg(s) /\ step[s] = "idle" /\ job[s].pkg = p
  BY <1>0, <1>1 DEF Finish, Goto, Forget, LoadFacts, TypeOK, tables, Holding, check
<1>7. /\ owner'[p] = s /\ depth[p] = 2 /\ depth'[p] = 1
      /\ \A q \in Package \ {p} : owner[q] # s /\ owner'[q] = owner[q]
  <2>1. \A q \in Package : owner[q] = s => depth[q] = Acquired(s, q)
    BY <1>1, <1>6 DEF LoadFacts, CountsOf, Holding
  <2>2. \A q \in Package : Acquired(s, q) = Taken(p = q) + Taken(FALSE) + Taken(p = q)
    BY <1>0, <1>6 DEF Acquired, Held, Steps, Checking
  <2>3. owner[p] = s /\ depth[p] = 2
    BY <1>1, <2>1, <2>2 DEF LoadFacts, Taken
  <2>4. \A q \in Package \ {p} : owner[q] # s
    <3>1. \A q \in Package \ {p} : Acquired(s, q) = 0
      BY <2>2 DEF Taken
    <3>. QED  BY <1>1, <2>1, <3>1, ConstantsAreDisjoint DEF LoadFacts, StoreInv, LockShape
  <2>. QED  BY <1>1, <1>6, <2>3, <2>4, GiveLockTable DEF LoadFacts, StoreInv
<1>8. Pkg(s)' = p /\ UNCHANGED <<runs, goal, run, copy, outcome>>
  BY <1>0, <1>6 DEF Pkg, records
<1>9. CallIsFounded(s)'
  BY <1>0, <1>2, <1>5, <1>6, <1>7, <1>8 DEF CallIsFounded, RunFacts
<1>10. CountsOf(s)'
  <2>1. SUFFICES ASSUME NEW q \in Package, owner'[q] = s PROVE depth'[q] = Acquired(s, q)'
    BY DEF CountsOf
  <2>2. q = p
    BY <1>7, <2>1
  <2>3. Acquired(s, q)' = 1
    BY <1>2, <1>5, <1>6, <1>8, <2>2 DEF Acquired, Taken, Holding, Checking, Held, Steps
  <2>. QED  BY <1>7, <2>2, <2>3
<1>11. RunIsFounded(s)'
  <2>1. run'[s] \in OpenRuns(Pkg(s))'
    BY <1>6, <1>8 DEF RunFacts, OpenRuns, RunsOf
  <2>2. ASSUME l = "loaded" PROVE runs[run[s]].capture = cap[s] /\ Wanted(s, cap[s])
    BY <1>0, <1>2, <1>6, <2>2 DEF RunFacts, RunIsFounded
  <2>3. ASSUME l = "loaded"
        PROVE  runs'[run'[s]].capture = result'[s] /\ Wanted(s, runs[run[s]].capture)'
    <3>1. PICK c : c = cap[s]
      OBVIOUS
    <3>2. Wanted(s, c) /\ runs[run[s]].capture = c /\ result'[s] = c
      BY <1>5, <2>2, <2>3, <3>1
    <3>3. Wanted(s, c)'
      BY <1>6, <1>8, <3>2, StillWanted
    <3>. QED  BY <1>8, <3>2, <3>3 DEF Wanted
  <2>. QED  BY <1>2, <1>5, <1>6, <1>8, <2>1, <2>3 DEF RunIsFounded, RunFacts
<1>12. SuccessIsFounded(s)'
  BY <1>0, NothingReported
<1>. QED  BY <1>3, <1>4, <1>5, <1>9, <1>10, <1>11, <1>12, StepJInv DEF OwnShape

-----------------------------------------------------------------------------
(* The verification that ingest_package calls *)

\* What holds while verify_capture runs for an ingest.
VerifyFacts(s, p) ==
    /\ VInv /\ StoreInv /\ TypeOK /\ VTypeOK /\ ITypeOK /\ RunFacts(s) /\ CountsOf(s)
    /\ pc[s] = "idle" /\ step[s] # "idle" /\ cap[s] = 0
    /\ target[s] = copy[s].capture /\ target[s] \in DOMAIN captures
    /\ captures[target[s]].pkg = p /\ captures[target[s]].contract = goal[s].req.contract
    /\ p = Pkg(s) /\ p \in Package /\ owner[p] = s
    /\ copy[s] = runs[run[s]] /\ runs[run[s]].sha # None

\* What is known when the ingest is inside verify_capture.
LEMMA VerifyAtHand ==
    ASSUME JInv, NEW s \in Session, at[s] = "verifying"
    PROVE  \E p \in Package : VerifyFacts(s, p)
<1>1. RunFacts(s)
  BY RunAtHand DEF Held, Steps
<1>2. VInv /\ StoreInv /\ TypeOK /\ VTypeOK /\ ITypeOK
  BY DEF JInv, VInv, StoreInv
<1>3. CountsOf(s)
  BY ConstantsAreDisjoint DEF JInv, LockCounts, CountsOf
<1>4. /\ pc[s] = "idle" /\ step[s] # "idle" /\ cap[s] = 0 /\ target[s] = copy[s].capture
      /\ copy[s] = runs[run[s]] /\ runs[run[s]].sha # None
      /\ Wanted(s, runs[run[s]].capture)
  BY <1>1 DEF RunFacts, CallIsFounded, RunIsFounded
<1>5. target[s] \in DOMAIN captures /\ captures[target[s]].pkg = Pkg(s)
      /\ captures[target[s]].contract = goal[s].req.contract
  BY <1>4 DEF Wanted, CapturesOf
<1>. QED  BY <1>1, <1>2, <1>3, <1>4, <1>5 DEF VerifyFacts, RunFacts

\* The steps of that verification before it returns.
LEMMA VerifyingStep ==
    ASSUME JInv, NEW s \in Session,
           IVerifying(s) \/ (INestedDbError(s) /\ VDbError(s) /\ at[s] = "verifying")
    PROVE  JInv'
<1>0. at[s] = "verifying" /\ UNCHANGED <<records, flow>>
  BY DEF IVerifying, INestedDbError
<1>1. PICK p \in Package : VerifyFacts(s, p)
  BY <1>0, VerifyAtHand
<1>2. VAcquire(s) \/ VReread(s) \/ VOpen(s) \/ VWalk(s) \/ VClose(s) \/ VDbError(s)
  BY DEF IVerifying
<1>3. Verify(s)
  BY <1>2 DEF Verify, VAdvance
<1>4. VInv' /\ VBeside(s) /\ VGrows
  <2>1. VInv'
    BY <1>1, <1>3, VNextVInv DEF VNext, VerifyFacts
  <2>. QED  BY <1>1, <1>3, <2>1, CheckBeside DEF VerifyFacts
<1>5. /\ step'[s] \in Checking /\ UNCHANGED <<captures, pc, job, cap, target>>
      /\ \/ step[s] \in Checking /\ UNCHANGED lock
         \/ step[s] \notin Checking /\ TakeLock(s, p)
  <2>1. step \in [Session -> Checking \cup {"idle", "lock"}]
    BY <1>1 DEF VerifyFacts, VTypeOK
  <2>2. CASE VAcquire(s)
    BY <1>1, <2>1, <2>2 DEF VAcquire, VerifyFacts, Do, Checking, tables, work
  <2>3. CASE VReread(s)
    BY <2>1, <2>3 DEF VReread, Do, Checking, tables, work, lock, vars
  <2>4. CASE VOpen(s)
    BY <2>1, <2>4 DEF VOpen, Do, Checking, tables, work, lock, vars
  <2>5. CASE VWalk(s) \/ VClose(s)
    BY <2>1, <2>5 DEF VWalk, VClose, Do, Checking, tables, work, lock, vars
  <2>6. CASE VDbError(s)
    BY <2>1, <2>6 DEF VDbError, Do, Checking, tables, work, lock
  <2>. QED  BY <1>2, <2>2, <2>3, <2>4, <2>5, <2>6
<1>6. RecordTypes' /\ RecordsBeside(s) /\ RowsShape' /\ CheckpointShape'
  BY <1>0, <1>4, RecordsStand
<1>7. UNCHANGED <<at, goal, run, copy, found, result, outcome, runs, checkpoint>> /\ Pkg(s)' = p
  BY <1>0, <1>1 DEF flow, records, Pkg, VerifyFacts
<1>8. FlowTypes' /\ FlowBeside(s)
  BY <1>1, <1>7 DEF VerifyFacts, ITypeOK, FlowTypes, FlowBeside
<1>9. owner'[p] = s /\ \A q \in Package \ {p} : owner'[q] = owner[q] /\ depth'[q] = depth[q]
  <2>1. CASE UNCHANGED lock
    BY <1>1, <2>1 DEF VerifyFacts, lock
  <2>2. CASE TakeLock(s, p)
    BY <1>1, <2>2, TakeLockTable DEF VerifyFacts, StoreInv
  <2>. QED  BY <1>5, <2>1, <2>2
<1>10. CallIsFounded(s)'
  BY <1>0, <1>1, <1>5, <1>7, <1>9 DEF CallIsFounded, VerifyFacts, RunFacts, Checking
<1>11. CountsOf(s)'
  <2>1. SUFFICES ASSUME NEW q \in Package, owner'[q] = s PROVE depth'[q] = Acquired(s, q)'
    BY DEF CountsOf
  <2>2. /\ Acquired(s, q)' = Taken(FALSE) + Taken(p = q) + Taken(p = q)
        /\ Acquired(s, q) = Taken(FALSE) + Taken(step[s] \in Checking /\ p = q) + Taken(p = q)
    BY <1>0, <1>1, <1>5, <1>7 DEF Acquired, VerifyFacts, Held, Steps, Holding
  <2>3. CASE q # p
    <3>1. owner[q] = s /\ depth'[q] = depth[q]
      BY <1>9, <2>1, <2>3
    <3>2. depth[q] = Acquired(s, q)
      BY <1>1, <3>1 DEF VerifyFacts, CountsOf
    <3>. QED  BY <2>2, <2>3, <3>1, <3>2 DEF Taken
  <2>4. CASE q = p
    <3>1. depth[q] = Acquired(s, q)
      BY <1>1, <2>4 DEF VerifyFacts, CountsOf
    <3>2. CASE step[s] \in Checking /\ UNCHANGED lock
      BY <2>2, <2>4, <3>1, <3>2 DEF lock
    <3>3. CASE step[s] \notin Checking /\ TakeLock(s, p)
      <4>1. depth'[p] = depth[p] + 1
        BY <1>1, <3>3, TakeLockTable DEF VerifyFacts, StoreInv
      <4>. QED  BY <2>2, <2>4, <3>1, <3>3, <4>1 DEF Taken
    <3>. QED  BY <1>5, <3>2, <3>3
  <2>. QED  BY <2>3, <2>4
<1>12. RunIsFounded(s)'
  <2>1. run'[s] \in OpenRuns(Pkg(s))'
    BY <1>1, <1>7 DEF VerifyFacts, RunFacts, OpenRuns, RunsOf
  <2>2. Wanted(s, runs[run[s]].capture)'
    BY <1>1, <1>5, <1>7 DEF VerifyFacts, Wanted, CapturesOf
  <2>. QED  BY <1>0, <1>1, <1>7, <2>1, <2>2 DEF RunIsFounded, VerifyFacts, RunFacts
<1>13. SuccessIsFounded(s)'
  BY <1>0, <1>7, NothingReported
<1>. QED  BY <1>4, <1>6, <1>8, <1>10, <1>11, <1>12, <1>13, StepJInv DEF OwnShape

\* verify_capture is called for the run's capture, when that can be verified.
LEMMA CoverStep ==
    ASSUME JInv, NEW s \in Session, ICover(s)
    PROVE  JInv'
<1>. USE DEF At
<1>0. /\ at[s] = "cover" /\ at[s] \notin {"idle", "loading", "verifying"}
      /\ UNCHANGED <<records, goal, run, copy, found, result, outcome>>
  BY DEF ICover
<1>1. PICK c : c = copy[s].capture
  OBVIOUS
<1>2. CASE ~Verifiable(c)
  <2>1. UNCHANGED vvars /\ at' = [at EXCEPT ![s] = "leave"]
    BY <1>1, <1>2 DEF ICover
  <2>2. at[s] \in Held \ {"loading", "verifying", "leave"}
    BY <1>0 DEF Held, Steps
  <2>. QED  BY <1>0, <2>1, <2>2, GiveUpStep
<1>3. CASE Verifiable(c)
  <2>1. VStart(s, c) /\ at' = [at EXCEPT ![s] = "verifying"]
    BY <1>1, <1>3 DEF ICover
  <2>2. RunFacts(s) /\ ITypeOK /\ VTypeOK /\ VInv /\ CountsOf(s) /\ pc[s] = "idle"
        /\ step[s] = "idle" /\ cap[s] = 0
        /\ copy[s] = runs[run[s]] /\ runs[run[s]].sha # None /\ Wanted(s, c)
    <3>1. RunFacts(s)
      BY <1>0, RunAtHand DEF Held, Steps
    <3>2. VTypeOK /\ VInv /\ ITypeOK
      BY DEF JInv, VInv
    <3>3. copy[s] = runs[run[s]] /\ runs[run[s]].sha # None /\ Wanted(s, runs[run[s]].capture)
      BY <1>0, <3>1 DEF RunFacts, RunIsFounded
    <3>. QED  BY <1>0, <1>1, <3>1, <3>2, <3>3, BetweenCalls
  <2>3. c \in DOMAIN captures
    BY <2>2 DEF Wanted, CapturesOf
  <2>4. VInv' /\ VBeside(s) /\ VGrows
    <3>1. Verify(s)
      BY <2>1, <2>3 DEF Verify, VBegin
    <3>. QED  BY <2>1, <2>2, <2>3, <3>1, VStartVInv, CheckBeside
  <2>5. RecordTypes' /\ RecordsBeside(s) /\ RowsShape' /\ CheckpointShape'
    BY <1>0, <2>4, RecordsStand
  <2>6. FlowTypes' /\ FlowBeside(s) /\ at'[s] = "verifying"
    BY <1>0, <2>1, <2>2 DEF ITypeOK, FlowTypes, FlowBeside, Steps
  <2>7. /\ step'[s] = "lock" /\ target'[s] = c
        /\ UNCHANGED <<captures, owner, depth, pc, job, cap, goal, run, copy, runs>>
    BY <1>0, <2>1, <2>2 DEF VStart, Do, VTypeOK, vars, tables, lock, work, records
  <2>8. CallIsFounded(s)'
    BY <1>0, <1>1, <2>2, <2>6, <2>7 DEF CallIsFounded, RunFacts, Pkg
  <2>9. CountsOf(s)'
    BY <1>0, <2>2, <2>6, <2>7 DEF CountsOf, Acquired, Taken, Holding, Checking, Held, Steps, Pkg
  <2>10. RunIsFounded(s)'
    <3>1. run'[s] \in OpenRuns(Pkg(s))'
      BY <2>2, <2>7 DEF RunFacts, OpenRuns, RunsOf, Pkg
    <3>2. Wanted(s, c)'
      BY <2>2, <2>7, StillWanted
    <3>3. Wanted(s, runs[run[s]].capture)'
      <4>1. runs'[run'[s]].capture = c
        BY <1>1, <2>2, <2>7
      <4>. QED  BY <3>2, <4>1 DEF Wanted
    <3>. QED  BY <2>2, <2>6, <2>7, <3>1, <3>3 DEF RunIsFounded, RunFacts, Pkg
  <2>11. SuccessIsFounded(s)'
    BY <1>0, NothingReported
  <2>. QED  BY <2>4, <2>5, <2>6, <2>8, <2>9, <2>10, <2>11, StepJInv DEF OwnShape
<1>. QED  BY <1>2, <1>3

\* verify_capture returns its attempt, or raises; its caller keeps the lock.
LEMMA VerifyReturnStep ==
    ASSUME JInv, NEW s \in Session, IVerified(s)
    PROVE  JInv'
<1>. USE DEF At
<1>0. /\ at[s] = "verifying" /\ VLeave(s) /\ step[s] = "leave"
      /\ UNCHANGED <<records, goal, run, copy, found, outcome>>
      /\ result' = [result EXCEPT ![s] = attempt[s]]
  BY DEF IVerified, VLeave
<1>1. PICK p \in Package : VerifyFacts(s, p)
  BY <1>0, VerifyAtHand
<1>2. PICK l \in {"leave", "confirm", "error"} : at' = [at EXCEPT ![s] = l]
  BY DEF IVerified
<1>3. VInv' /\ VBeside(s) /\ VGrows
  <2>1. Verify(s)
    BY <1>0 DEF Verify, VAdvance
  <2>. QED  BY <1>0, <1>1, <2>1, VOutVInv, CheckBeside DEF VerifyFacts
<1>4. RecordTypes' /\ RecordsBeside(s) /\ RowsShape' /\ CheckpointShape'
  BY <1>0, <1>3, RecordsStand
<1>5. FlowTypes' /\ FlowBeside(s) /\ at'[s] = l
  <2>1. attempt[s] \in Nat
    BY <1>1 DEF VerifyFacts, VTypeOK
  <2>. QED  BY <1>0, <1>1, <1>2, <2>1 DEF VerifyFacts, ITypeOK, FlowTypes, FlowBeside, Steps
<1>6. /\ step'[s] = "idle" /\ GiveLock(s, p) /\ UNCHANGED <<captures, pc, job, cap>>
  BY <1>0, <1>1 DEF VLeave, Do, VerifyFacts, VTypeOK, tables, work
<1>7. /\ owner'[p] = s /\ depth[p] = 2 /\ depth'[p] = 1
      /\ \A q \in Package \ {p} : owner[q] # s /\ owner'[q] = owner[q]
  <2>1. \A q \in Package : owner[q] = s => depth[q] = Acquired(s, q)
    BY <1>1 DEF VerifyFacts, CountsOf
  <2>2. \A q \in Package : Acquired(s, q) = Taken(FALSE) + Taken(p = q) + Taken(p = q)
    BY <1>0, <1>1 DEF VerifyFacts, Acquired, Held, Steps, Checking, Holding
  <2>3. owner[p] = s /\ depth[p] = 2
    BY <1>1, <2>1, <2>2 DEF VerifyFacts, Taken
  <2>4. \A q \in Package \ {p} : owner[q] # s
    <3>1. \A q \in Package \ {p} : Acquired(s, q) = 0
      BY <2>2 DEF Taken
    <3>. QED  BY <1>1, <2>1, <3>1, ConstantsAreDisjoint DEF VerifyFacts, StoreInv, LockShape
  <2>. QED  BY <1>1, <1>6, <2>3, <2>4, GiveLockTable DEF VerifyFacts, StoreInv
<1>8. Pkg(s)' = p /\ UNCHANGED <<runs, goal, run, copy, outcome>>
  BY <1>0, <1>1 DEF VerifyFacts, Pkg, records
<1>9. CallIsFounded(s)'
  BY <1>0, <1>1, <1>2, <1>5, <1>6, <1>7, <1>8 DEF CallIsFounded, VerifyFacts, RunFacts
<1>10. CountsOf(s)'
  <2>1. SUFFICES ASSUME NEW q \in Package, owner'[q] = s PROVE depth'[q] = Acquired(s, q)'
    BY DEF CountsOf
  <2>2. q = p
    BY <1>7, <2>1
  <2>3. Acquired(s, q)' = 1
    BY <1>1, <1>2, <1>5, <1>6, <1>8, <2>2
       DEF VerifyFacts, Acquired, Taken, Holding, Checking, Held, Steps
  <2>. QED  BY <1>7, <2>2, <2>3
<1>11. RunIsFounded(s)'
  <2>1. run'[s] \in OpenRuns(Pkg(s))'
    BY <1>1, <1>8 DEF VerifyFacts, RunFacts, OpenRuns, RunsOf
  <2>2. Wanted(s, runs[run[s]].capture)'
    BY <1>1, <1>6, <1>8 DEF VerifyFacts, Wanted, CapturesOf
  <2>. QED  BY <1>1, <1>2, <1>5, <1>8, <2>1, <2>2 DEF RunIsFounded, VerifyFacts, RunFacts
<1>12. SuccessIsFounded(s)'
  BY <1>0, NothingReported
<1>. QED  BY <1>3, <1>4, <1>5, <1>9, <1>10, <1>11, <1>12, StepJInv DEF OwnShape

\* A cancelled statement of the loader or of the verifier.
LEMMA NestedErrorStep ==
    ASSUME JInv, NEW s \in Session, INestedDbError(s)
    PROVE  JInv'
<1>1. CASE at[s] = "loading"
  <2>1. PICK p \in Package : LoadFacts(s, p)
    BY <1>1, LoadAtHand
  <2>2. ~VDbError(s)
    BY <2>1 DEF VDbError, LoadFacts
  <2>3. DbError(s)
    BY <2>2 DEF INestedDbError
  <2>. QED  BY <1>1, <2>3, LoadingStep
<1>2. CASE at[s] = "verifying"
  <2>1. PICK p \in Package : VerifyFacts(s, p)
    BY <1>2, VerifyAtHand
  <2>2. ~DbError(s)
    BY <2>1 DEF DbError, VerifyFacts
  <2>3. VDbError(s)
    BY <2>2 DEF INestedDbError
  <2>. QED  BY <1>2, <2>3, VerifyingStep
<1>. QED  BY <1>1, <1>2 DEF INestedDbError

-----------------------------------------------------------------------------
(* Loads and verifications that no ingest called, and the environment *)

\* A session in no call takes a lock: it counts once.
LEMMA TakesOne ==
    ASSUME JInv, NEW s \in Session, pc[s] # "dead", NEW p \in Package, TakeLock(s, p),
           \A q \in Package : Acquired(s, q) = 0
    PROVE  \A q \in Package : owner'[q] = s => q = p /\ depth'[q] = 1
<1>0. StoreInv /\ LockShape /\ LockFree(s, p)
  BY DEF JInv, VInv, StoreInv, TakeLock
<1>1. \A q \in Package : owner[q] # s
  BY <1>0, ConstantsAreDisjoint DEF JInv, LockCounts, LockShape
<1>2. owner[p] = None /\ depth[p] = 0
  BY <1>0, <1>1 DEF LockFree, LockShape
<1>3. /\ depth'[p] = depth[p] + 1
      /\ \A q \in Package \ {p} : owner'[q] = owner[q]
  BY <1>0, TakeLockTable DEF StoreInv
<1>. QED  BY <1>1, <1>2, <1>3

\* A session in one call gives back its one acquisition: it owns nothing.
LEMMA GivesOne ==
    ASSUME JInv, NEW s \in Session, pc[s] # "dead", NEW p \in Package, GiveLock(s, p),
           owner[p] = s, \A q \in Package : Acquired(s, q) = Taken(p = q)
    PROVE  \A q \in Package : owner'[q] # s
<1>0. StoreInv /\ LockShape
  BY DEF JInv, VInv, StoreInv
<1>1. \A q \in Package : owner[q] = s => depth[q] = Taken(p = q)
  BY ConstantsAreDisjoint DEF JInv, LockCounts
<1>2. \A q \in Package \ {p} : owner[q] # s
  BY <1>0, <1>1, ConstantsAreDisjoint DEF LockShape, Taken
<1>3. depth[p] = 1
  BY <1>1 DEF Taken
<1>. QED  BY <1>0, <1>2, <1>3, GiveLockTable, ConstantsAreDisjoint DEF StoreInv

\* What a session that ingests nothing has to show of its step.
LEMMA AloneStep ==
    ASSUME JInv, NEW s \in Session, at[s] = "idle", UNCHANGED <<records, flow>>,
           VInv', VBeside(s), VGrows,
           pc'[s] \in {"idle", "dead", "begin", "decide"} => cap'[s] = 0, CountsOf(s)'
    PROVE  JInv'
<1>1. UNCHANGED <<at, goal, run, copy, found, result, outcome>>
  BY DEF flow
<1>2. FlowTypes' /\ FlowBeside(s)
  BY <1>1 DEF JInv, ITypeOK, FlowTypes, FlowBeside
<1>3. RecordTypes' /\ RecordsBeside(s) /\ RowsShape' /\ CheckpointShape'
  BY RecordsStand
<1>4. CallIsFounded(s)' /\ RunIsFounded(s)'
  BY <1>1 DEF CallIsFounded, RunIsFounded, Held, Steps
<1>5. SuccessIsFounded(s)'
  BY <1>1, NothingReported
<1>. QED  BY <1>2, <1>3, <1>4, <1>5, StepJInv DEF OwnShape

\* A load that somebody runs from the command line, beside the ingests, keeps the
\* invariant.
LEMMA LoadAlone ==
    ASSUME JInv, NEW s \in Session, at[s] = "idle", Load(s), UNCHANGED <<records, flow>>
    PROVE  JInv'
<1>0. /\ step[s] = "idle" /\ step'[s] = "idle" /\ StoreStep(s) /\ UNCHANGED <<evidence, check>>
      /\ VInv /\ StoreInv /\ LockShape /\ TypeOK /\ CountsOf(s)
      /\ pc[s] \in {"idle", "dead", "begin", "decide"} => cap[s] = 0
      /\ at'[s] = "idle"
  <2>1. CountsOf(s)
    BY ConstantsAreDisjoint DEF JInv, LockCounts, CountsOf
  <2>. QED  BY <2>1 DEF Load, StoreStep, JInv, VInv, StoreInv, CallShape, CallIsFounded, flow, check
<1>1. VInv' /\ VBeside(s) /\ VGrows
  BY <1>0, LoadVInv, StoreBeside
<1>2. /\ \A q \in Package : Acquired(s, q) = Taken(pc[s] \in Holding /\ job[s].pkg = q)
      /\ \A q \in Package : Acquired(s, q)' = Taken(pc'[s] \in Holding /\ job'[s].pkg = q)
  BY <1>0 DEF Acquired, Taken, Checking, Held, Steps
<1>3. SUFFICES /\ pc'[s] \in {"idle", "dead", "begin", "decide"} => cap'[s] = 0
               /\ CountsOf(s)'
  BY <1>0, <1>1, AloneStep
<1>4. CASE Start(s) \/ RefuseBusy(s)
  <2>1. /\ pc[s] \notin Holding /\ pc[s] # "dead" /\ pc'[s] \notin Holding /\ UNCHANGED lock
        /\ cap'[s] = 0
    BY <1>0, <1>4 DEF Start, StartLoad, RefuseBusy, Goto, Forget, Holding, TypeOK
  <2>2. CountsOf(s)'
    BY <1>0, <1>2, <2>1 DEF CountsOf, lock
  <2>. QED  BY <2>1, <2>2
<1>5. CASE Acquire(s)
  <2>1. /\ pc[s] = "begin" /\ pc'[s] = "decide" /\ UNCHANGED <<job, cap>>
        /\ TakeLock(s, job[s].pkg) /\ job[s].pkg \in Package
    BY <1>0, <1>5 DEF Acquire, Goto, work, TypeOK, StoreInv, SessionShape, Job
  <2>2. \A q \in Package : Acquired(s, q) = 0
    BY <1>2, <2>1 DEF Holding, Taken
  <2>3. \A q \in Package : owner'[q] = s => q = job[s].pkg /\ depth'[q] = 1
    BY <2>1, <2>2, TakesOne
  <2>4. Acquired(s, job[s].pkg)' = 1
    BY <1>2, <2>1 DEF Holding, Taken
  <2>5. ASSUME NEW q \in Package, owner'[q] = s PROVE depth'[q] = Acquired(s, q)'
    <3>1. Acquired(s, q)' = 1
      BY <1>2, <2>1, <2>3, <2>5 DEF Holding, Taken
    <3>. QED  BY <2>3, <2>5, <3>1
  <2>. QED  BY <1>0, <2>1, <2>5 DEF CountsOf
<1>6. CASE Finish(s)
  <2>1. /\ pc[s] \in Holding /\ pc[s] # "dead" /\ cap'[s] = 0 /\ GiveLock(s, job[s].pkg)
        /\ job[s].pkg \in Package /\ owner[job[s].pkg] = s
    BY <1>0, <1>6, HeldInside DEF Finish, Forget, Holding, TypeOK
  <2>2. \A q \in Package : Acquired(s, q) = Taken(job[s].pkg = q)
    BY <1>2, <2>1
  <2>3. \A q \in Package : owner'[q] # s
    BY <2>1, <2>2, GivesOne
  <2>. QED  BY <2>1, <2>3 DEF CountsOf
<1>7. CASE Crash(s)
  BY <1>0, <1>7 DEF Crash, Goto, Forget, TypeOK, CountsOf
<1>8. CASE Reap(s)
  <2>1. cap'[s] = 0 /\ \A q \in Package : owner'[q] # s
    BY <1>0, <1>8, ConstantsAreDisjoint DEF Reap, work
  <2>. QED  BY <2>1 DEF CountsOf
<1>9. CASE Inside(s)
  <2>1. StaysInside(s)
    BY <1>0, <1>9, InsideStays
  <2>2. pc'[s] \notin {"idle", "dead", "begin", "decide"}
    <3>1. pc \in [Session -> PC]
      BY <1>0 DEF TypeOK
    <3>. QED  BY <1>9, <3>1 DEF Inside, DecideResume, EntryPoint, DecideReplay, DecideNew, Prepare,
         ReadFails, SkipBatch, LoadBatch, LoadDuplicate, Recheck, Reconcile, Publish, Fail, DbError,
         Goto, Streaming
  <2>3. CountsOf(s)'
    BY <1>0, <1>2, <2>1 DEF CountsOf, StaysInside, Holding, lock
  <2>. QED  BY <2>2, <2>3
<1>. QED  BY <1>0, <1>4, <1>5, <1>6, <1>7, <1>8, <1>9 DEF StoreStep, Advance, Inside

\* A verification that somebody runs from the command line, beside the ingests, keeps the
\* invariant.
LEMMA VerifyAlone ==
    ASSUME JInv, NEW s \in Session, at[s] = "idle", Verify(s), UNCHANGED <<records, flow>>
    PROVE  JInv'
<1>0. /\ VInv /\ VTypeOK /\ StoreInv /\ LockShape /\ TypeOK /\ CountsOf(s)
      /\ pc[s] = "idle" /\ cap[s] = 0 /\ at'[s] = "idle"
  <2>1. CountsOf(s)
    BY ConstantsAreDisjoint DEF JInv, LockCounts, CountsOf
  <2>2. pc[s] = "idle"
    BY DEF Verify, VBegin, VAdvance, VStart, VAcquire, VRefuseBusy, VReread, VOpen, VWalk,
       VClose, VLeave, VDbError, VCrash, JInv, VInv, VerifierShape, VerifierHolds
  <2>. QED  BY <2>1, <2>2 DEF JInv, VInv, StoreInv, CallShape, CallIsFounded, flow
<1>1. VInv' /\ VBeside(s) /\ VGrows
  <2>1. VInv'
    BY <1>0, VNextVInv DEF VNext
  <2>. QED  BY <1>0, <2>1, CheckBeside
<1>2. cap'[s] = 0 /\ captures' = captures /\ job' = job /\ pc'[s] \in {"idle", "dead"}
  BY <1>0, VerifyBeside DEF work, tables
<1>3. /\ \A q \in Package :
             Acquired(s, q) = Taken(step[s] \in Checking /\ captures[target[s]].pkg = q)
      /\ \A q \in Package :
             Acquired(s, q)' = Taken(step'[s] \in Checking /\ captures[target'[s]].pkg = q)
  BY <1>0, <1>2 DEF Acquired, Taken, Holding, Held, Steps
<1>4. SUFFICES CountsOf(s)'
  BY <1>0, <1>1, <1>2, AloneStep
<1>5. CASE VBegin(s) \/ VRefuseBusy(s)
  <2>1. step[s] \notin Checking /\ step'[s] \notin Checking /\ UNCHANGED lock
    BY <1>0, <1>5 DEF VBegin, VStart, VRefuseBusy, Do, VTypeOK, Checking, vars
  <2>. QED  BY <1>0, <1>3, <2>1 DEF CountsOf, lock
<1>6. CASE VAcquire(s)
  <2>1. PICK p \in Package : p = captures[target[s]].pkg
    BY <1>0, <1>6, CaptureType DEF VAcquire, VInv, VerifierShape, VerifierHolds, Capture
  <2>2. step[s] = "lock" /\ step'[s] = "reread" /\ target' = target /\ TakeLock(s, p)
    BY <1>0, <1>6, <2>1 DEF VAcquire, Do, VTypeOK
  <2>3. \A q \in Package : Acquired(s, q) = 0
    BY <1>3, <2>2 DEF Checking, Taken
  <2>4. \A q \in Package : owner'[q] = s => q = p /\ depth'[q] = 1
    BY <1>0, <2>2, <2>3, TakesOne
  <2>5. ASSUME NEW q \in Package, owner'[q] = s PROVE depth'[q] = Acquired(s, q)'
    <3>1. Acquired(s, q)' = 1
      BY <1>3, <2>1, <2>2, <2>4, <2>5 DEF Checking, Taken
    <3>. QED  BY <2>4, <2>5, <3>1
  <2>. QED  BY <2>5 DEF CountsOf
<1>7. CASE VLeave(s)
  <2>1. PICK p \in Package : p = captures[target[s]].pkg /\ owner[p] = s
    BY <1>0, <1>7, CaptureType DEF VLeave, VInv, VerifierShape, VerifierHolds, Capture, Checking
  <2>2. step[s] \in Checking /\ GiveLock(s, p)
    BY <1>7, <2>1 DEF VLeave, Checking
  <2>3. \A q \in Package : Acquired(s, q) = Taken(p = q)
    BY <1>3, <2>1, <2>2
  <2>4. \A q \in Package : owner'[q] # s
    BY <1>0, <2>1, <2>2, <2>3, GivesOne
  <2>. QED  BY <2>4 DEF CountsOf
<1>8. CASE VCrash(s)
  BY <1>0, <1>8 DEF VCrash, Goto, TypeOK, CountsOf
<1>9. CASE VReread(s) \/ VOpen(s) \/ VWalk(s) \/ VClose(s) \/ VDbError(s)
  <2>1. step[s] \in Checking /\ step'[s] \in Checking /\ target' = target /\ UNCHANGED lock
    <3>1. step \in [Session -> Checking \cup {"idle", "lock"}]
      BY <1>0 DEF VTypeOK
    <3>2. CASE VReread(s)
      BY <3>1, <3>2 DEF VReread, Do, Checking, vars
    <3>3. CASE VOpen(s)
      BY <3>1, <3>3 DEF VOpen, Do, Checking, vars
    <3>4. CASE VWalk(s) \/ VClose(s)
      BY <3>1, <3>4 DEF VWalk, VClose, Do, Checking, vars
    <3>5. CASE VDbError(s)
      BY <3>1, <3>5 DEF VDbError, Do, Checking
    <3>. QED  BY <1>9, <3>2, <3>3, <3>4, <3>5
  <2>. QED  BY <1>0, <1>3, <2>1 DEF CountsOf, lock
<1>. QED  BY <1>5, <1>6, <1>7, <1>8, <1>9 DEF Verify, VAdvance

\* Another program moves a file, or nothing happens at all.
LEMMA NothingMoves ==
    ASSUME JInv, VInv',
           UNCHANGED <<captures, pointer, attempts, coverage, owner, depth, pc, job, cap, step,
                       target, records, flow>>
    PROVE  JInv'
<1>0. UNCHANGED <<runs, checkpoint, at, goal, run, copy, found, result, outcome>>
  BY DEF records, flow
<1>1. ITypeOK'
  BY <1>0 DEF JInv, ITypeOK, VInv
<1>2. CallShape' /\ SuccessShape'
  BY <1>0 DEF JInv, CallShape, CallIsFounded, SuccessShape, SuccessIsFounded, Pkg
<1>3. LockCounts'
  <2>1. \A s, p : Acquired(s, p)' = Acquired(s, p)
    BY <1>0 DEF Acquired, Pkg
  <2>2. ASSUME NEW p \in Package, owner[p] # None, pc[owner[p]] # "dead"
        PROVE  depth'[p] = Acquired(owner[p], p)'
    <3>1. depth[p] = Acquired(owner[p], p)
      BY <2>2 DEF JInv, LockCounts
    <3>. QED  BY <1>0, <3>1 DEF Acquired, Pkg
  <2>. QED  BY <2>2 DEF LockCounts
<1>4. RunShape'
  <2>1. \A p : OpenRuns(p)' = OpenRuns(p)
    BY <1>0 DEF OpenRuns, RunsOf
  <2>2. ASSUME NEW s \in Session PROVE RunIsFounded(s)'
    <3>1. RunIsFounded(s)
      BY DEF JInv, RunShape
    <3>. QED  BY <1>0, <3>1 DEF RunIsFounded, Wanted, CapturesOf, Pkg, OpenRuns, RunsOf
  <2>. QED  BY <2>2 DEF RunShape
<1>5. RowsShape'
  <2>1. ASSUME NEW i \in DOMAIN runs PROVE RowIsFounded(i)'
    <3>1. RowIsFounded(i)
      BY DEF JInv, RowsShape
    <3>. QED  BY <1>0, <3>1 DEF RowIsFounded, Evidenced, CapturesOf, AttemptsOf, RunsOf
  <2>. QED  BY <1>0, <2>1 DEF RowsShape
<1>6. CheckpointShape'
  <2>1. ASSUME NEW p \in Package PROVE CheckpointIsFounded(p)'
    <3>1. CheckpointIsFounded(p)
      BY DEF JInv, CheckpointShape
    <3>. QED  BY <1>0, <3>1 DEF CheckpointIsFounded, CapturesOf, AttemptsOf
  <2>. QED  BY <2>1 DEF CheckpointShape
<1>. QED  BY <1>1, <1>2, <1>3, <1>4, <1>5, <1>6 DEF JInv

-----------------------------------------------------------------------------
(* Every behaviour *)

\* Before the first call nothing is on record and nobody holds a lock: JInv holds of
\* the initial states of ingest_package.
THEOREM InitJInv == IInit => JInv
<1>. SUFFICES ASSUME IInit PROVE JInv
  OBVIOUS
<1>1. VInv /\ VTypeOK
  BY VInitVInv DEF IInit, VInv
<1>2. /\ runs = <<>> /\ DOMAIN runs = {} /\ checkpoint = [p \in Package |-> None]
      /\ at = [s \in Session |-> "idle"] /\ goal = [s \in Session |-> None]
      /\ run = [s \in Session |-> 0] /\ copy = [s \in Session |-> None]
      /\ found = [s \in Session |-> None] /\ result = [s \in Session |-> 0]
      /\ outcome = [s \in Session |-> None]
      /\ \A s \in Session : pc[s] = "idle" /\ cap[s] = 0 /\ step[s] = "idle"
      /\ \A p \in Package : owner[p] = None
  BY DEF IInit, VInit, Init
<1>3. ITypeOK
  <2>1. runs \in Seq(Run)
    BY <1>2
  <2>. QED  BY <1>1, <1>2, <2>1 DEF ITypeOK
<1>4. CallShape /\ LockCounts
  BY <1>2 DEF CallShape, CallIsFounded, LockCounts, Held, Steps
<1>5. RunShape
  BY <1>2 DEF RunShape, RunIsFounded, Held, Steps
<1>6. RowsShape /\ CheckpointShape
  BY <1>2 DEF RowsShape, CheckpointShape, CheckpointIsFounded
<1>7. SuccessShape
  BY <1>2, IngestAssumption DEF SuccessShape, SuccessIsFounded
<1>. QED  BY <1>1, <1>3, <1>4, <1>5, <1>6, <1>7 DEF JInv

\* Every step of ingest_package, of the loads and verifications in it and beside it,
\* and of the environment keeps JInv.
THEOREM NextJInv == JInv /\ [INext]_ivars => JInv'
<1>. SUFFICES ASSUME JInv, [INext]_ivars PROVE JInv'
  OBVIOUS
<1>1. ASSUME NEW s \in Session, IBegin(s) PROVE JInv'
  BY <1>1, BeginSteps DEF IBegin
<1>2. ASSUME NEW s \in Session, IAdvance(s) PROVE JInv'
  <2>1. CASE IAcquire(s)
    BY <2>1, GrantedStep
  <2>2. CASE IRefuseBusy(s) \/ ILeave(s)
    BY <2>2, EndSteps
  <2>3. CASE \/ IReplay(s) \/ IResumeRun(s) \/ IReuse(s) \/ IAdopt(s) \/ IDownload(s)
             \/ IReport(s)
    BY <2>3, ReadingSteps
  <2>4. CASE IOpenRun(s) \/ IRecordArtifact(s) \/ IRecordError(s) \/ ISeal(s)
    BY <2>4, OpenStep, ArtifactStep, ErrorStep, SealStep
  <2>5. CASE ILoad(s) \/ ILink(s) \/ ILoading(s) \/ ILoadReturns(s) \/ ILoaded(s)
    BY <2>5, LoadStep, LinkStep, LoadingStep, LoadReturnStep, LoadedStep
  <2>6. CASE IReuseAttempt(s) \/ IConfirm(s) \/ ICover(s) \/ IVerifying(s) \/ IVerified(s)
    BY <2>6, ConfirmSteps, CoverStep, VerifyingStep, VerifyReturnStep
  <2>. QED  BY <1>2, <2>1, <2>2, <2>3, <2>4, <2>5, <2>6 DEF IAdvance
<1>3. ASSUME NEW s \in Session, IDbError(s) \/ INestedDbError(s) \/ ICrash(s) PROVE JInv'
  BY <1>3, ReadingSteps, NestedErrorStep, EndSteps
<1>4. ASSUME NEW s \in Session, LoadOrVerify(s) PROVE JInv'
  BY <1>4, LoadAlone, VerifyAlone DEF LoadOrVerify
<1>5. ASSUME NEW p \in Package, SwapFile(p), UNCHANGED <<evidence, check, records, flow>>
      PROVE  JInv'
  <2>1. UNCHANGED <<evidence, check>> /\ VInv /\ UNCHANGED <<records, flow>>
    BY <1>5 DEF JInv
  <2>2. VInv'
    BY <1>5, <2>1, VSwapVInv
  <2>3. UNCHANGED <<captures, pointer, attempts, coverage, owner, depth, pc, job, cap, step, target>>
    BY <1>5, <2>1 DEF SwapFile, tables, lock, work, evidence, check
  <2>. QED  BY <2>1, <2>2, <2>3, NothingMoves
<1>6. CASE UNCHANGED ivars
  <2>1. UNCHANGED vvars /\ UNCHANGED <<records, flow>>
    BY <1>6 DEF ivars
  <2>2. VInv'
    BY <2>1, VNextVInv DEF JInv
  <2>. QED  BY <2>1, <2>2, Unmoved, NothingMoves
<1>. QED  BY <1>1, <1>2, <1>3, <1>4, <1>5, <1>6 DEF INext, Ingesting

\* In every state ingest_package can reach, whatever the number of packages, sessions
\* and archives, and whatever crashes, is cancelled or is moved under it, JInv holds.
THEOREM JInvariance == ISpec => []JInv
BY InitJInv, NextJInv, PTL DEF ISpec

\* What the schema and the code keep of types: the rows they write, and what a call
\* holds in memory at each of its steps, are always of the shapes the code reads them as.
THEOREM ITypeCorrect == ISpec => []ITypeOK
<1>1. JInv => ITypeOK
  BY DEF JInv
<1>. QED  BY <1>1, JInvariance, PTL

\* A row of ingest_run carries the evidence its phase claims and names a capture of its
\* package and an attempt on that capture, however often the run is resumed, relinked,
\* set back or failed.
THEOREM EvidenceIsCarried == ISpec => []RunsCarryEvidence
<1>1. JInv => RunsCarryEvidence
  BY DEF JInv, RowsShape, RowIsFounded, RunsCarryEvidence, CapturesOf, AttemptsOf
<1>. QED  BY <1>1, JInvariance, PTL

\* The schema lets a package have two unfinished runs; ingest_package never makes one
\* while there is another, because it looks and inserts under the package's lock.
THEOREM OneRunIsOpen == ISpec => []OneOpenRun
<1>1. ASSUME JInv, NEW i \in DOMAIN runs, NEW j \in DOMAIN runs, runs[i].pkg = runs[j].pkg,
             runs[i].phase \notin Ended, runs[j].phase \notin Ended
      PROVE  i = j
  <2>1. runs \in Seq(Run)
    BY <1>1 DEF JInv, ITypeOK
  <2>2. runs[i] \in Run /\ runs[j] \in Run /\ i \in Nat /\ j \in Nat
    BY <2>1, ElementOfSeq, LenProperties
  <2>3. runs[i].phase \in OpenPhases /\ runs[j].phase \in OpenPhases
    BY <1>1, <2>2 DEF Run, Ended
  <2>4. i \in RunsOf(runs[j].pkg) /\ j \in RunsOf(runs[i].pkg)
    BY <1>1 DEF RunsOf
  <2>5. RowIsFounded(i) /\ RowIsFounded(j)
    BY <1>1 DEF JInv, RowsShape
  <2>6. j <= i /\ i <= j
    BY <2>3, <2>4, <2>5 DEF RowIsFounded
  <2>. QED  BY <2>2, <2>6
<1>2. JInv => OneOpenRun
  BY <1>1 DEF OneOpenRun
<1>. QED  BY <1>2, JInvariance, PTL

\* A run that says it completed has its package's checkpoint, or an earlier one than the
\* run that replaced it there: _seal commits both or neither.
THEOREM CompletionIsSealed == ISpec => []CompletedIsSealed
<1>1. JInv => CompletedIsSealed
  BY DEF JInv, RowsShape, RowIsFounded, CompletedIsSealed
<1>. QED  BY <1>1, JInvariance, PTL

\* package_ingest_status.checkpoint_is_current, read without a lock, is what the source
\* was found to hold of what the package shows, by the latest attempt there is.
THEOREM CurrentMeansCertified == ISpec => []CurrentIsCertified
<1>1. ASSUME JInv, NEW p \in Package, Current(p)
      PROVE  /\ LocalKeys(pointer[p]) = attempts[checkpoint[p].attempt].keys
             /\ pointer[p] \in coverage
             /\ \A a \in AttemptsOf(pointer[p]) : a <= checkpoint[p].attempt
  <2>1. PICK c, a : c = checkpoint[p].capture /\ a = checkpoint[p].attempt
    OBVIOUS
  <2>2. c = pointer[p] /\ Confirmed(c, a)
    BY <1>1, <2>1 DEF Current
  <2>3. /\ a \in AttemptsOf(c) /\ \A b \in AttemptsOf(c) : b <= a
        /\ attempts[a].state = "verified"
    BY <1>1, <2>2, ConfirmedLatest DEF JInv
  <2>4. attempts[a].keys = LocalKeys(c)
    BY <1>1, <2>3 DEF JInv, VInv, AttemptShape, AttemptsOf
  <2>. QED  BY <2>1, <2>2, <2>3, <2>4 DEF Confirmed
<1>2. JInv => CurrentIsCertified
  BY <1>1 DEF CurrentIsCertified
<1>. QED  BY <1>2, JInvariance, PTL

\* Retried ingests are ingests: with nobody in a dead session, the server's reaping of it
\* is a step that the composition has anyway.
LEMMA RetryIsIngest == JInv /\ [IRetryNext]_ivars => [INext]_ivars
<1>. SUFFICES ASSUME JInv, [IRetryNext]_ivars PROVE [INext]_ivars
  OBVIOUS
<1>1. ASSUME NEW s \in Session, IReap(s) PROVE LoadOrVerify(s)
  <2>1. pc[s] = "dead"
    BY <1>1 DEF IReap, Reap
  <2>2. at[s] = "idle" /\ step[s] = "idle"
    BY <2>1 DEF JInv, CallShape, CallIsFounded, VInv, VerifierShape, VerifierHolds
  <2>. QED  BY <1>1, <2>2 DEF IReap, LoadOrVerify, Load
<1>. QED  BY <1>1 DEF IRetryNext, INext, Ingesting

\* ingest_package reports success only of the capture readers see, verified, under the
\* contract of the caller and sealed by the checkpoint; so do ingests that are retried.
THEOREM SuccessesAreTrue == (ISpec => []SuccessIsTrue) /\ (IRetrySpec => []SuccessIsTrue)
<1>1. JInv => SuccessIsTrue
  BY DEF JInv, SuccessShape, SuccessIsFounded, SuccessIsTrue
<1>2. ISpec => []SuccessIsTrue
  BY <1>1, JInvariance, PTL
<1>3. IRetrySpec => []SuccessIsTrue
  BY <1>1, InitJInv, NextJInv, RetryIsIngest, PTL DEF IRetrySpec
<1>. QED  BY <1>2, <1>3

-----------------------------------------------------------------------------
(* What a step may never do to the records *)

\* Rows of ingest_run are added, or written by the session whose open run they are.
LEMMA RunsWritten ==
    ASSUME JInv, INext
    PROVE  \/ runs' = runs
           \/ \E r : runs' = Append(runs, r)
           \/ \E s \in Session : RunFacts(s) /\ \E r : runs' = [runs EXCEPT ![run[s]] = r]
<1>1. ASSUME NEW s \in Session, IAdvance(s) PROVE
           \/ runs' = runs
           \/ \E r : runs' = Append(runs, r)
           \/ \E r : RunFacts(s) /\ runs' = [runs EXCEPT ![run[s]] = r]
  <2>1. CASE \/ IAcquire(s) \/ IRefuseBusy(s) \/ IReplay(s) \/ IResumeRun(s) \/ IReuse(s)
             \/ IAdopt(s) \/ IDownload(s) \/ ILoad(s) \/ ILoading(s) \/ ILoadReturns(s)
             \/ ICover(s) \/ IVerifying(s) \/ IVerified(s) \/ IReport(s) \/ ILeave(s)
    <3>1. UNCHANGED records
      BY <2>1 DEF IAcquire, IRefuseBusy, IReplay, IResumeRun, IReuse, IAdopt, IDownload, ILoad,
         ILoading, ILoadReturns, ICover, IVerifying, IVerified, IReport, ILeave
    <3>. QED  BY <3>1 DEF records
  <2>2. CASE IOpenRun(s)
    BY <2>2 DEF IOpenRun
  <2>3. CASE \/ IRecordArtifact(s) \/ ILoaded(s) \/ IReuseAttempt(s) \/ IConfirm(s)
             \/ ILink(s) \/ ISeal(s) \/ IRecordError(s)
    <3>1. at[s] \in {"record", "loaded", "cover", "confirm", "loading", "seal", "error", "condemn"}
      BY <2>3 DEF IRecordArtifact, ILoaded, IReuseAttempt, IConfirm, ILink, ISeal, IRecordError
    <3>2. RunFacts(s)
      BY <3>1, RunAtHand DEF Held, Steps
    <3>3. runs' = runs \/ \E r : runs' = [runs EXCEPT ![run[s]] = r]
      BY <2>3 DEF IRecordArtifact, ILoaded, IReuseAttempt, IConfirm, ILink, ISeal,
         IRecordError, SetRun, SetVerified, Completed, records
    <3>. QED  BY <3>2, <3>3
  <2>. QED  BY <1>1, <2>1, <2>2, <2>3 DEF IAdvance
<1>2. ASSUME NEW s \in Session,
             IBegin(s) \/ IDbError(s) \/ INestedDbError(s) \/ ICrash(s) \/ LoadOrVerify(s)
      PROVE  runs' = runs
  BY <1>2 DEF IBegin, IStart, IDbError, INestedDbError, ICrash, LoadOrVerify, records
<1>3. ASSUME NEW p \in Package, UNCHANGED records PROVE runs' = runs
  BY <1>3 DEF records
<1>. QED  BY <1>1, <1>2, <1>3 DEF INext, Ingesting

\* A run that completed or failed keeps its row for good: only an open run's row is ever
\* written, and only by the one session that holds its package's lock.
THEOREM RunsStayEnded == ISpec => RunsEndOnce
<1>1. ASSUME JInv, [INext]_ivars, NEW i \in DOMAIN runs, runs[i].phase \in Ended
      PROVE  runs'[i] = runs[i]
  <2>1. CASE UNCHANGED ivars
    BY <2>1 DEF ivars, records
  <2>2. CASE INext
    <3>1. runs \in Seq(Run)
      BY <1>1 DEF JInv, ITypeOK
    <3>2. ASSUME NEW r, runs' = Append(runs, r) PROVE runs'[i] = runs[i]
      BY <3>1, <3>2, LenProperties
    <3>3. ASSUME NEW s \in Session, NEW r, RunFacts(s), runs' = [runs EXCEPT ![run[s]] = r]
          PROVE  runs'[i] = runs[i]
      <4>1. runs[run[s]].phase \in OpenPhases
        BY <3>3 DEF RunFacts
      <4>2. run[s] # i
        BY <1>1, <4>1, PhaseNames
      <4>. QED  BY <3>3, <4>2
    <3>. QED  BY <1>1, <2>2, <3>2, <3>3, RunsWritten
  <2>. QED  BY <1>1, <2>1, <2>2
<1>2. JInv /\ [INext]_ivars =>
          [\A i \in DOMAIN runs : runs[i].phase \in Ended => runs'[i] = runs[i]]_ivars
  BY <1>1
<1>. QED  BY <1>2, JInvariance, PTL DEF ISpec, RunsEndOnce

\* A checkpoint is only ever replaced by one of a later run, and of a capture that is no
\* earlier: _seal writes the run that is open and the capture that is published.
THEOREM CheckpointAdvances == ISpec => CheckpointMovesForward
<1>. DEFINE Advances == \A p \in Package : checkpoint'[p] # checkpoint[p] =>
                /\ checkpoint'[p] # None
                /\ checkpoint[p] # None =>
                    /\ checkpoint'[p].run > checkpoint[p].run
                    /\ checkpoint'[p].capture >= checkpoint[p].capture
<1>1. ASSUME JInv, NEW s \in Session, ISeal(s), checkpoint' # checkpoint PROVE Advances
  <2>1. /\ at[s] = "seal" /\ Sealable(copy[s]) /\ runs[run[s]].phase = "source_verified"
        /\ RunAgrees(NewCheckpoint(s))
        /\ checkpoint' = [checkpoint EXCEPT ![Pkg(s)] = NewCheckpoint(s)]
    BY <1>1 DEF ISeal, records
  <2>2. RunFacts(s)
    BY <1>1, <2>1, RunAtHand DEF Held, Steps
  <2>3. PICK k : k = NewCheckpoint(s)
    OBVIOUS
  <2>4. /\ k \in Checkpoint /\ k.run = run[s] /\ k.capture = pointer[Pkg(s)]
    <3>1. /\ JInv /\ at[s] = "seal" /\ RunFacts(s) /\ Sealable(copy[s])
          /\ runs[run[s]].phase = "source_verified" /\ RunAgrees(NewCheckpoint(s))
          /\ k = NewCheckpoint(s)
      BY <1>1, <2>1, <2>2, <2>3
    <3>. HIDE DEF Advances
    <3>. QED  BY <3>1, NewCheckpointIsFounded, ZenonT(60)
  <2>5. PICK p \in Package : p = Pkg(s)
    BY <2>2 DEF RunFacts
  <2>6. /\ \A q \in Package \ {p} : checkpoint'[q] = checkpoint[q]
        /\ checkpoint'[p] = k /\ k # None
    BY <1>1, <2>1, <2>3, <2>4, <2>5, IngestAssumption DEF JInv, ITypeOK
  <2>7. ASSUME checkpoint[p] # None
        PROVE  k.run > checkpoint[p].run /\ k.capture >= checkpoint[p].capture
    <3>1. PICK o \in Checkpoint : o = checkpoint[p]
      BY <1>1, <2>7 DEF JInv, ITypeOK
    <3>2. CheckpointIsFounded(p)
      BY <1>1 DEF JInv, CheckpointShape
    <3>3. /\ o.run \in DOMAIN runs
          /\ runs[o.run] = [pkg |-> p, phase |-> "completed", sha |-> o.sha,
                            capture |-> o.capture, attempt |-> o.attempt]
          /\ o.capture <= pointer[p]
      BY <2>7, <3>1, <3>2 DEF CheckpointIsFounded
    <3>4. runs[o.run].pkg = p /\ runs[o.run].phase = "completed"
      BY <3>3
    <3>5. o.run <= run[s]
      <4>1. o.run \in RunsOf(p)
        BY <3>3, <3>4 DEF RunsOf
      <4>. QED  BY <2>2, <2>5, <4>1 DEF RunFacts, RowIsFounded
    <3>6. o.run # run[s]
      BY <2>1, <3>4
    <3>7. /\ o.run \in Nat /\ o.capture \in Nat /\ run[s] \in Nat /\ pointer[p] \in Nat
      BY <1>1, <2>2, <3>1 DEF Checkpoint, RunFacts, JInv, VInv, StoreInv, TypeOK
    <3>. QED  BY <2>4, <2>5, <3>1, <3>3, <3>5, <3>6, <3>7
  <2>. QED  BY <2>6, <2>7
<1>2. ASSUME JInv, INext PROVE checkpoint' = checkpoint \/ \E s \in Session : ISeal(s)
  <2>1. ASSUME NEW s \in Session, IAdvance(s), ~ISeal(s) PROVE checkpoint' = checkpoint
    <3>1. CASE \/ IAcquire(s) \/ IRefuseBusy(s) \/ IReplay(s) \/ IResumeRun(s) \/ IReuse(s)
               \/ IAdopt(s) \/ IDownload(s) \/ ILoad(s) \/ ILoading(s) \/ ILoadReturns(s)
               \/ ICover(s) \/ IVerifying(s) \/ IVerified(s) \/ IReport(s) \/ ILeave(s)
      <4>1. UNCHANGED records
        BY <3>1 DEF IAcquire, IRefuseBusy, IReplay, IResumeRun, IReuse, IAdopt, IDownload, ILoad,
           ILoading, ILoadReturns, ICover, IVerifying, IVerified, IReport, ILeave
      <4>. QED  BY <4>1 DEF records
    <3>2. CASE \/ IOpenRun(s) \/ IRecordArtifact(s) \/ ILoaded(s) \/ IReuseAttempt(s)
               \/ IConfirm(s) \/ ILink(s) \/ IRecordError(s)
      BY <3>2 DEF IOpenRun, IRecordArtifact, ILoaded, IReuseAttempt, IConfirm, ILink, IRecordError
    <3>. QED  BY <2>1, <3>1, <3>2 DEF IAdvance
  <2>2. ASSUME NEW s \in Session,
               IBegin(s) \/ IDbError(s) \/ INestedDbError(s) \/ ICrash(s) \/ LoadOrVerify(s)
        PROVE  checkpoint' = checkpoint
    BY <2>2 DEF IBegin, IStart, IDbError, INestedDbError, ICrash, LoadOrVerify, records
  <2>3. ASSUME UNCHANGED records PROVE checkpoint' = checkpoint
    BY <2>3 DEF records
  <2>. QED  BY <1>2, <2>1, <2>2, <2>3 DEF INext, Ingesting
<1>3. ASSUME JInv, [INext]_ivars PROVE Advances
  <2>1. CASE checkpoint' = checkpoint
    BY <2>1
  <2>2. CASE UNCHANGED ivars
    BY <2>2 DEF ivars, records
  <2>. QED  BY <1>1, <1>2, <1>3, <2>1, <2>2
<1>4. JInv /\ [INext]_ivars => [Advances]_ivars
  BY <1>3
<1>. QED  BY <1>4, JInvariance, PTL DEF ISpec, CheckpointMovesForward

-----------------------------------------------------------------------------
(* What an ingest means to the loads and to a reader *)

\* To the capture store and to the verifier, a step of ingest_package is one of the
\* loader's, one of the verifier's, a download, a death, or nothing but a change of the
\* lock.
LEMMA StepKinds ==
    ASSUME JInv, NEW s \in Session, Ingesting(s) \/ LoadOrVerify(s)
    PROVE  \/ Next /\ UNCHANGED evidence
           \/ Verify(s)
           \/ UNCHANGED <<tables, file, pc, work, evidence>>
           \/ IDownload(s) \/ ICrash(s)
<1>1. ASSUME LoadOrVerify(s) PROVE (Next /\ UNCHANGED evidence) \/ Verify(s)
  BY <1>1 DEF LoadOrVerify, Load, Next
<1>2. CASE ILink(s) \/ ILoading(s) \/ ILoadReturns(s)
  <2>1. Advance(s) /\ UNCHANGED evidence
    BY <1>2 DEF ILink, ILoading, ILoadReturns, Advance
  <2>. QED  BY <2>1 DEF Next
<1>3. CASE ILoad(s)
  <2>1. CASE UNCHANGED vars
    BY <1>3, <2>1 DEF ILoad, vars
  <2>2. CASE StartLoad(s, Pkg(s), goal[s].req)
    <3>1. at[s] \notin {"idle", "loading", "verifying"}
      BY <1>3 DEF ILoad
    <3>2. CallIsFounded(s) /\ Pkg(s) \in Package
      BY <3>1, BetweenCalls
    <3>3. goal[s].req \in Requests
      BY <3>1, <3>2 DEF CallIsFounded
    <3>4. Start(s)
      BY <2>2, <3>2, <3>3 DEF Start
    <3>. QED  BY <1>3, <3>4 DEF ILoad, Next
  <2>. QED  BY <1>3, <2>1, <2>2 DEF ILoad
<1>4. CASE ICover(s)
  <2>1. CASE UNCHANGED vvars
    BY <2>1 DEF vvars, vars
  <2>2. CASE VStart(s, copy[s].capture)
    <3>1. RunFacts(s) /\ copy[s] = runs[run[s]] /\ Wanted(s, runs[run[s]].capture)
      BY <1>4, RunAtHand DEF ICover, RunFacts, RunIsFounded, Held, Steps
    <3>2. copy[s].capture \in DOMAIN captures
      BY <3>1 DEF Wanted, CapturesOf
    <3>. QED  BY <2>2, <3>2 DEF Verify, VBegin
  <2>3. CASE UNCHANGED vars /\ UNCHANGED <<evidence, check>>
    BY <2>3 DEF vars
  <2>. QED  BY <1>4, <2>1, <2>2, <2>3 DEF ICover
<1>5. CASE IVerifying(s) \/ IVerified(s)
  BY <1>5 DEF IVerifying, IVerified, Verify, VAdvance
<1>6. CASE INestedDbError(s)
  BY <1>6 DEF INestedDbError, Next, Verify
<1>7. CASE IBegin(s) \/ IRefuseBusy(s) \/ IReplay(s) \/ IResumeRun(s) \/ IOpenRun(s) \/ IReuse(s)
           \/ IAdopt(s) \/ IRecordArtifact(s) \/ ILoaded(s) \/ IReuseAttempt(s)
           \/ IConfirm(s) \/ ISeal(s) \/ IReport(s) \/ IRecordError(s)
  <2>1. UNCHANGED vvars
    BY <1>7 DEF IBegin, IStart, IRefuseBusy, IReplay, IResumeRun, IOpenRun, IReuse, IAdopt,
       IRecordArtifact, ILoaded, IReuseAttempt, IConfirm, ISeal, IReport, IRecordError
  <2>. QED  BY <2>1 DEF vvars, vars
<1>8. CASE IAcquire(s) \/ ILeave(s) \/ IDbError(s)
  BY <1>8 DEF IAcquire, ILeave, IDbError
<1>. QED  BY <1>1, <1>2, <1>3, <1>4, <1>5, <1>6, <1>7, <1>8 DEF Ingesting, IAdvance

\* A session that dies leaves what the others read, and has nothing in hand.
LEMMA DeathRead ==
    ASSUME JInv, NEW later, RInv(later), NEW s \in Session, ICrash(s)
    PROVE  RInv(later)'
<1>1. StoreInv /\ TypeOK
  BY DEF JInv, VInv, StoreInv
<1>2. UNCHANGED <<tables, file>> /\ Goto(s, "dead") /\ Forget(s)
  BY DEF ICrash
<1>3. /\ pc'[s] = "dead" /\ done'[s] = {} /\ next'[s] = 0
      /\ \A t \in Session \ {s} :
             /\ pc'[t] = pc[t] /\ job'[t] = job[t] /\ cap'[t] = cap[t] /\ done'[t] = done[t]
             /\ stream'[t] = stream[t] /\ next'[t] = next[t]
  BY <1>1, <1>2 DEF Goto, Forget, TypeOK
<1>4. FileMovesOn(later, s)' /\ ReadIsFounded(s)'
  BY <1>3 DEF FileMovesOn, ReadIsFounded, Holding
<1>. QED  BY <1>1, <1>2, <1>3, <1>4, QuietRead

\* A download moves the file on.
LEMMA DownloadRead ==
    ASSUME JInv, NEW later, IForwardOnly(later), RInv(later), NEW s \in Session, IDownload(s)
    PROVE  RInv(later)'
<1>1. StoreInv /\ TypeOK /\ Pkg(s) \in Package
  BY BetweenCalls DEF IDownload
<1>2. UNCHANGED <<tables, pc, work>> /\ ~Valid(Pkg(s))
  BY DEF IDownload
<1>3. CASE UNCHANGED file
  <2>1. UNCHANGED <<tables, file, work>> /\ pc' = pc
    BY <1>2, <1>3
  <2>. QED  BY <2>1, BesideRead
<1>4. ASSUME NEW a \in Served, file' = [file EXCEPT ![Pkg(s)] = a] PROVE RInv(later)'
  <2>1. a \in Contents /\ file[Pkg(s)] \in Contents \ Inspected
    BY <1>1, <1>2, IngestAssumption DEF Contents, Valid, TypeOK
  <2>2. <<file[Pkg(s)], a>> \in later /\ ForwardOnly(later)
    BY <2>1 DEF IForwardOnly
  <2>3. UNCHANGED <<captures, batches, rows, pc, job, cap, done, stream, next>>
    BY <1>2 DEF tables, work
  <2>. QED  BY <1>1, <1>4, <2>1, <2>2, <2>3, FileRead DEF ForwardOnly
<1>. QED  BY <1>3, <1>4 DEF IDownload

\* Whatever is loaded, verified, ingested, downloaded, killed or replaced, what the loads
\* have read and counted stays so.
LEMMA IngestRead ==
    ASSUME JInv, NEW later, IForwardOnly(later), RInv(later), CountsShape, [INext]_ivars
    PROVE  RInv(later)' /\ CountsShape'
<1>0. VInv /\ StoreInv /\ ForwardOnly(later)
  BY DEF JInv, VInv, IForwardOnly
<1>1. ASSUME UNCHANGED captures PROVE CountsShape'
  BY <1>1 DEF CountsShape
<1>2. CASE Next
  BY <1>0, <1>2, StepRead, StepCounts
<1>3. ASSUME NEW s \in Session, Verify(s) PROVE RInv(later)' /\ CountsShape'
  BY <1>0, <1>1, <1>3, VerifyBeside, BesideRead DEF tables
<1>4. CASE UNCHANGED <<tables, file, pc, work>>
  BY <1>1, <1>4, BesideRead DEF tables
<1>5. ASSUME NEW s \in Session, IDownload(s) \/ ICrash(s) PROVE RInv(later)' /\ CountsShape'
  <2>1. UNCHANGED captures
    BY <1>5 DEF IDownload, ICrash, tables
  <2>. QED  BY <1>1, <1>5, <2>1, DownloadRead, DeathRead
<1>6. ASSUME NEW p \in Package, SwapFile(p) PROVE Next
  BY <1>6 DEF Next
<1>7. CASE UNCHANGED ivars
  BY <1>4, <1>7 DEF ivars, vvars, vars
<1>. QED  BY <1>2, <1>3, <1>4, <1>5, <1>6, <1>7, StepKinds DEF INext

\* An empty store has counted nothing.
LEMMA InitCounts == Init => CountsShape
<1>. SUFFICES ASSUME Init PROVE CountsShape
  OBVIOUS
<1>1. \A c \in DOMAIN captures : captures[c].status = "acquiring"
  <2>1. CASE captures = <<>>
    BY <2>1
  <2>2. CASE captures \in {<<c>> : c \in LegacyCaptures}
    BY <2>2, LegacyCapturesAreOpen
  <2>. QED  BY <2>1, <2>2 DEF Init
<1>. QED  BY <1>1 DEF CountsShape

\* What a checkpoint cites of the store is, row by row and identifier by identifier, what
\* is there.
LEMMA CheckpointHolds ==
    ASSUME JInv, NEW later, RInv(later), CountsShape, NEW p \in Package, checkpoint[p] # None
    PROVE  LET k == checkpoint[p]
               c == captures[k.capture]
               a == attempts[k.attempt]
           IN
           /\ runs[k.run] = [pkg |-> p, phase |-> "completed", sha |-> k.sha,
                             capture |-> k.capture, attempt |-> k.attempt]
           /\ c.pkg = p /\ c.sha = k.sha /\ c.contract = k.contract
           /\ c.status \in {"published", "superseded"}
           /\ RowsOf(k.capture) = CleanRun(k.capture, k.sha)
           /\ a.capture = k.capture /\ a.state = "verified"
           /\ a.keys = LocalKeys(k.capture) /\ k.count = Cardinality(a.keys)
<1>. PICK k : k = checkpoint[p]
  OBVIOUS
<1>. DEFINE d == k.capture
<1>1. /\ runs[k.run] = [pkg |-> p, phase |-> "completed", sha |-> k.sha,
                        capture |-> k.capture, attempt |-> k.attempt]
      /\ d \in CapturesOf(p) /\ captures[d].status \in {"published", "superseded"}
      /\ captures[d].sha = k.sha /\ captures[d].contract = k.contract
      /\ captures[d].counts = <<k.count, k.count, k.count>>
      /\ k.attempt \in AttemptsOf(d) /\ attempts[k.attempt].state = "verified"
  BY DEF JInv, CheckpointShape, CheckpointIsFounded
<1>2. d \in DOMAIN captures /\ captures[d].pkg = p
  BY <1>1 DEF CapturesOf
<1>3. k.attempt \in DOMAIN attempts /\ attempts[k.attempt].capture = d
  BY <1>1 DEF AttemptsOf
<1>4. attempts[k.attempt].keys = LocalKeys(d)
  BY <1>1, <1>3 DEF JInv, VInv, AttemptShape
<1>5. RowsOf(d) = CleanRun(d, k.sha)
  BY <1>1, <1>2 DEF RInv, LoadedShape
<1>6. k.count = Cardinality(NoticesIn(Members[k.sha]))
  BY <1>1, <1>2 DEF CountsShape
<1>7. LocalKeys(d) = NoticesIn(Members[k.sha])
  <2>. DEFINE Row0(i) == [capture |-> d, notice |-> Members[k.sha][i], from |-> k.sha,
                          batch |-> (i - 1) \div captures[d].batch]
  <2>1. CleanRun(d, k.sha) = {Row0(i) : i \in DOMAIN Members[k.sha]}
    BY DEF CleanRun
  <2>2. \A i \in DOMAIN Members[k.sha] : Row0(i).notice = Members[k.sha][i]
    OBVIOUS
  <2>. HIDE DEF Row0
  <2>. QED  BY <1>5, <2>1, <2>2 DEF LocalKeys, NoticesIn
<1>. QED  BY <1>1, <1>2, <1>3, <1>4, <1>5, <1>6, <1>7

\* What a checkpoint cites stays true of it after it was retired: the run, the bytes, the
\* capture with exactly the rows of those bytes, the attempt, and the count that the seal
\* copied from what reconcile counted.
THEOREM CheckpointsAreEvidence == INothingReturns => (ISpec => []CheckpointIsEvidence)
<1>. SUFFICES ASSUME INothingReturns PROVE ISpec => []CheckpointIsEvidence
  OBVIOUS
<1>. PICK later \in SUBSET (Contents \X Contents) : IForwardOnly(later)
  BY DEF INothingReturns
<1>1. IInit => RInv(later) /\ CountsShape
  BY InitRead, InitCounts DEF IInit, VInit
<1>2. JInv /\ RInv(later) /\ CountsShape /\ [INext]_ivars => RInv(later)' /\ CountsShape'
  BY IngestRead
<1>3. JInv /\ RInv(later) /\ CountsShape => CheckpointIsEvidence
  BY CheckpointHolds DEF CheckpointIsEvidence
<1>. QED  BY <1>1, <1>2, <1>3, JInvariance, PTL DEF ISpec

\* Runs, checkpoints and downloads add nothing to what a reader of the package sees: an
\* ingest too shows whole editions, and certifies one only on the source's word.
THEOREM IngestsCertify == INothingReturns => (ISpec => ReadersSeeCertifiedEditions)
<1>. SUFFICES ASSUME INothingReturns PROVE ISpec => ReadersSeeCertifiedEditions
  OBVIOUS
<1>. PICK later \in SUBSET (Contents \X Contents) : IForwardOnly(later)
  BY DEF INothingReturns
<1>1. IInit => RInv(later) /\ CountsShape
  BY InitRead, InitCounts DEF IInit, VInit
<1>2. JInv /\ RInv(later) /\ CountsShape /\ [INext]_ivars => RInv(later)' /\ CountsShape'
  BY IngestRead
<1>3. JInv /\ RInv(later) => VInv /\ Contented
  BY VisibleIsContent DEF JInv, VInv, Contented
<1>4. IInit => Certified!CInit
  BY ShownAtFirst DEF IInit
<1>5. VInv /\ RInv(later) /\ VInv' /\ RInv(later)' /\ Contented' /\ JInv /\ [INext]_ivars
          => [Certified!CNext]_<<pointer, ShownNow, CertifiedNow>>
  <2>. SUFFICES ASSUME VInv, RInv(later), VInv', RInv(later)', Contented', JInv, [INext]_ivars
                PROVE  [Certified!CNext]_<<pointer, ShownNow, CertifiedNow>>
    OBVIOUS
  <2>1. CASE Next /\ UNCHANGED evidence
    BY <2>1, LoadReissues
  <2>2. ASSUME NEW s \in Session, Verify(s)
        PROVE  [Certified!CNext]_<<pointer, ShownNow, CertifiedNow>>
    BY <2>2, VerifyCertifies
  <2>3. CASE UNCHANGED <<tables, evidence>>
    BY <2>3 DEF tables, evidence, ShownNow, CertifiedNow, Visible, RowsOf
  <2>4. ASSUME NEW s \in Session, IDownload(s) \/ ICrash(s) PROVE UNCHANGED <<tables, evidence>>
    BY <2>4 DEF IDownload, ICrash
  <2>5. ASSUME NEW p \in Package, SwapFile(p), UNCHANGED evidence
        PROVE  Next /\ UNCHANGED evidence
    BY <2>5 DEF Next
  <2>6. UNCHANGED ivars => UNCHANGED <<tables, evidence>>
    BY DEF ivars, vvars, vars
  <2>. QED  BY <2>1, <2>2, <2>3, <2>4, <2>5, <2>6, StepKinds DEF INext
<1>6. Certified!CSpec <=> Certified!CInit /\ [][Certified!CNext]_<<pointer, ShownNow, CertifiedNow>>
  BY DEF Certified!CSpec, ShownNow, CertifiedNow
<1>. HIDE DEF Contented
<1>. QED  BY <1>1, <1>2, <1>3, <1>4, <1>5, <1>6, JInvariance, PTL
          DEF ISpec, ReadersSeeCertifiedEditions

=============================================================================
