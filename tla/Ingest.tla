-------------------------------- MODULE Ingest --------------------------------
(***************************************************************************)
(* ingest_package: acquire one package's archive, load it, verify it and   *)
(* seal a checkpoint (ingest.py, migrations 0004 and 0005), composed with  *)
(* the loads and verifications of Verification.  A run records after each  *)
(* step what it durably reached; the package lock is held throughout, and  *)
(* the loader and the verifier nest their own acquisitions inside it.      *)
(*                                                                         *)
(* The download is one action here: it leaves a file that passed           *)
(* inspection at the destination, or it fails and leaves the file alone.   *)
(***************************************************************************)
EXTENDS Verification

CONSTANTS
    Inspected,      \* archives inspect_package accepts; a load may still refuse them
    Served,         \* archives the package endpoint may serve
    MaxRuns

VARIABLES
    runs,       \* tl_work.ingest_run; a row's index is its id and its ordinal
    checkpoint, \* tl_work.package_checkpoint, one row per package or None
    at,         \* where in ingest_package a session is
    goal,       \* the package, and the load it will ask for
    run,        \* the run it opened or resumed
    copy,       \* the _Run it holds in memory
    found,      \* the digest of the archive it validated
    result,     \* the capture loaded, then the attempt verified
    outcome     \* what it is about to report

records == <<runs, checkpoint>>
flow == <<at, goal, run, copy, found, result, outcome>>
ivars == <<vvars, records, flow>>

-----------------------------------------------------------------------------

PhaseOrder == <<"starting", "artifact_ready", "capture_published", "source_verified",
                "completed">>
Rank(phase) == CHOOSE i \in DOMAIN PhaseOrder : PhaseOrder[i] = phase
OpenPhases == {PhaseOrder[i] : i \in 1..4}

Run == [pkg: Package, phase: OpenPhases \cup {"completed", "failed"},
        sha: Archive \cup {None}, capture: Nat, attempt: Nat]
Checkpoint == [run: Nat, capture: Nat, attempt: Nat, sha: Archive, contract: Contract,
               count: Nat]
Goal == [pkg: Package, req: Request]

ASSUME IngestAssumption ==
    /\ Inspected \subseteq Archive /\ Served \subseteq Inspected
    /\ MaxRuns \in Nat
    /\ None \notin Run \cup Checkpoint \cup Goal
    /\ None \notin {"processed", "replayed", "incomplete"}

\* Steps before and between the calls of the loader and the verifier.
Steps == {"lock", "replay", "open", "artifact", "record", "load", "loading", "loaded",
          "cover", "verifying", "confirm", "seal", "report", "error", "condemn", "leave"}

ITypeOK ==
    /\ VTypeOK
    /\ runs \in Seq(Run)
    /\ checkpoint \in [Package -> Checkpoint \cup {None}]
    /\ at \in [Session -> Steps \cup {"idle"}]
    /\ goal \in [Session -> Goal \cup {None}]
    /\ run \in [Session -> Nat]
    /\ copy \in [Session -> Run \cup {None}]
    /\ found \in [Session -> Archive \cup {None}]
    /\ result \in [Session -> Nat]
    /\ outcome \in [Session -> {None, "processed", "replayed", "incomplete"}]

IInit ==
    /\ VInit
    /\ runs = <<>>
    /\ checkpoint = [p \in Package |-> None]
    /\ at = [s \in Session |-> "idle"]
    /\ goal = [s \in Session |-> None]
    /\ run = [s \in Session |-> 0]
    /\ copy = [s \in Session |-> None]
    /\ found = [s \in Session |-> None]
    /\ result = [s \in Session |-> 0]
    /\ outcome = [s \in Session |-> None]

-----------------------------------------------------------------------------
(* What the database says *)

\* The CHECK constraints of ingest_run: a phase carries the evidence for it.
Evidenced(r) ==
    /\ r.phase \in {"starting", "failed"} \/ r.sha # None
    /\ r.phase \in {"starting", "artifact_ready", "failed"} \/ r.capture # 0
    /\ r.phase \in {"starting", "artifact_ready", "capture_published", "failed"}
       \/ r.attempt # 0

RunsOf(p) == {i \in DOMAIN runs : runs[i].pkg = p}

\* Variants: a run that only lacks its seal is not resumed; a failed one is; a
\* completed one is.
OpenRunsUnverified(p) == {i \in RunsOf(p) : runs[i].phase \in OpenPhases \ {"source_verified"}}
OpenRunsOrFailed(p) == {i \in RunsOf(p) : runs[i].phase \in OpenPhases \cup {"failed"}}
OpenRunsOrCompleted(p) == {i \in RunsOf(p) : runs[i].phase # "failed"}

OpenRuns(p) == {i \in RunsOf(p) : runs[i].phase \in OpenPhases}
Newest(ids) == CHOOSE i \in ids : \A j \in ids : j <= i

LatestAttempt(c) == IF AttemptsOf(c) = {} THEN 0 ELSE Newest(AttemptsOf(c))

\* Variant: any attempt on record will do.
ConfirmedOnRecord(c, a) == a # 0 /\ a = LatestAttempt(c)

\* The attempt is the capture's latest, verified, and the capture stands on it.
Confirmed(c, a) ==
    /\ a # 0 /\ a = LatestAttempt(c)
    /\ attempts[a].state = "verified"
    /\ c \in coverage

\* Variant: a checkpoint is current while its capture is the published one.
CurrentByPointer(p) == checkpoint[p] # None /\ checkpoint[p].capture = pointer[p]

\* package_ingest_status.checkpoint_is_current.
Current(p) ==
    LET k == checkpoint[p] IN
    /\ k # None
    /\ k.capture = pointer[p]
    /\ LET c == captures[k.capture] IN
        /\ c.status = "published"
        /\ c.sha = k.sha /\ c.contract = k.contract
        /\ c.counts = <<k.count, k.count, k.count>>
    /\ runs[k.run] = [pkg |-> p, phase |-> "completed", sha |-> k.sha,
                      capture |-> k.capture, attempt |-> k.attempt]
    /\ Confirmed(k.capture, k.attempt)
    /\ attempts[k.attempt].sha = k.sha

-----------------------------------------------------------------------------
(* ingest_package *)

At(s, l) == at' = [at EXCEPT ![s] = l]
Pkg(s) == goal[s].pkg

\* Commit a change of the run's row, and keep the same in memory.
SetRun(s, r) ==
    /\ runs' = [runs EXCEPT ![run[s]] = r]
    /\ copy' = [copy EXCEPT ![s] = r]

Reset(s) ==
    /\ At(s, "idle")
    /\ goal' = [goal EXCEPT ![s] = None]
    /\ run' = [run EXCEPT ![s] = 0]
    /\ copy' = [copy EXCEPT ![s] = None]
    /\ found' = [found EXCEPT ![s] = None]
    /\ result' = [result EXCEPT ![s] = 0]
    /\ outcome' = [outcome EXCEPT ![s] = None]

Idle(s) == pc[s] = "idle" /\ step[s] = "idle" /\ at[s] = "idle"

\* There is no forced recapture on ingest.
IStart(s, p, r) ==
    /\ Idle(s)
    /\ ~r.force
    /\ goal' = [goal EXCEPT ![s] = [pkg |-> p, req |-> r]]
    /\ At(s, "lock")
    /\ UNCHANGED <<vvars, records, run, copy, found, result, outcome>>

IAcquire(s) ==
    /\ at[s] = "lock"
    /\ TakeLock(s, Pkg(s))
    /\ At(s, "replay")
    /\ UNCHANGED <<tables, file, pc, work, budgets, evidence, check, records, goal, run,
                   copy, found, result, outcome>>

IRefuseBusy(s) ==
    /\ at[s] = "lock"
    /\ ~LockFree(s, Pkg(s))
    /\ Reset(s)
    /\ UNCHANGED <<vvars, records>>

\* The file at the destination is a package, hashed and walked again.
Valid(p) == file[p] \in Inspected

\* Variant: the contract the code runs under is not compared.
ReplaysAnyContract(s) ==
    Current(Pkg(s)) /\ Valid(Pkg(s)) /\ file[Pkg(s)] = checkpoint[Pkg(s)].sha

\* The checkpoint is current, under the contract the code runs under, and its bytes
\* are still at the destination.
Replays(s) ==
    LET p == Pkg(s) IN
    /\ Current(p)
    /\ checkpoint[p].contract = goal[s].req.contract
    /\ captures[pointer[p]].contract = goal[s].req.contract
    /\ Valid(p) /\ file[p] = checkpoint[p].sha

IReplay(s) ==
    /\ at[s] = "replay"
    /\ IF Replays(s)
       THEN outcome' = [outcome EXCEPT ![s] = "replayed"] /\ At(s, "leave")
       ELSE UNCHANGED outcome /\ At(s, "open")
    /\ UNCHANGED <<vvars, records, goal, run, copy, found, result>>

IResumeRun(s) ==
    LET i == Newest(OpenRuns(Pkg(s))) IN
    /\ at[s] = "open"
    /\ OpenRuns(Pkg(s)) # {}
    /\ run' = [run EXCEPT ![s] = i]
    /\ copy' = [copy EXCEPT ![s] = runs[i]]
    /\ At(s, "artifact")
    /\ UNCHANGED <<vvars, records, goal, found, result, outcome>>

NewRun(p) == [pkg |-> p, phase |-> "starting", sha |-> None, capture |-> 0, attempt |-> 0]

\* At the bound on runs the insert fails.
IOpenRun(s) ==
    /\ at[s] = "open"
    /\ OpenRuns(Pkg(s)) = {}
    /\ IF Len(runs) < MaxRuns
       THEN /\ runs' = Append(runs, NewRun(Pkg(s)))
            /\ run' = [run EXCEPT ![s] = Len(runs) + 1]
            /\ copy' = [copy EXCEPT ![s] = NewRun(Pkg(s))]
            /\ At(s, "artifact")
       ELSE UNCHANGED <<runs, run, copy>> /\ At(s, "leave")
    /\ UNCHANGED <<vvars, checkpoint, goal, found, result, outcome>>

-----------------------------------------------------------------------------
(* The artifact *)

Reusable(s) == copy[s].sha # None /\ Valid(Pkg(s)) /\ file[Pkg(s)] = copy[s].sha

IReuse(s) ==
    /\ at[s] = "artifact"
    /\ Reusable(s)
    /\ At(s, "load")
    /\ UNCHANGED <<vvars, records, goal, run, copy, found, result, outcome>>

\* Whatever package is at the destination is adopted, also one with another digest.
IAdopt(s) ==
    /\ at[s] = "artifact"
    /\ ~Reusable(s) /\ Valid(Pkg(s))
    /\ found' = [found EXCEPT ![s] = file[Pkg(s)]]
    /\ At(s, "record")
    /\ UNCHANGED <<vvars, records, goal, run, copy, result, outcome>>

\* download_package: the rename to the destination, or DownloadError.
IDownload(s) ==
    /\ at[s] = "artifact"
    /\ ~Valid(Pkg(s))
    /\ \/ \E a \in Served :
            /\ file' = [file EXCEPT ![Pkg(s)] = a]
            /\ found' = [found EXCEPT ![s] = a]
            /\ At(s, "record")
       \/ UNCHANGED <<file, found>> /\ At(s, "error")
    /\ UNCHANGED <<tables, lock, pc, work, budgets, evidence, check, records, goal, run, copy,
                   result, outcome>>

\* The phase is set, not raised: a run that had gone further steps back.
IRecordArtifact(s) ==
    /\ at[s] = "record"
    /\ SetRun(s, [copy[s] EXCEPT !.phase = "artifact_ready", !.sha = found[s]])
    /\ At(s, "load")
    /\ UNCHANGED <<vvars, checkpoint, goal, run, found, result, outcome>>

-----------------------------------------------------------------------------
(* The load *)

\* load_package digests the file once more; one that has vanished is an OSError.
ILoad(s) ==
    /\ at[s] = "load"
    /\ IF file[Pkg(s)] = None
       THEN UNCHANGED vars /\ At(s, "leave")
       ELSE StartLoad(s, Pkg(s), goal[s].req) /\ At(s, "loading")
    /\ UNCHANGED <<evidence, check, records, goal, run, copy, found, result, outcome>>

\* Variant: the link leaves the verification attempt of the capture it left.
LinkedKeepingAttempt(r, c) == [r EXCEPT !.capture = c]

\* on_capture, inside the transaction that decides the capture.
Linked(r, c) ==
    IF r.capture = c THEN r
    ELSE [r EXCEPT !.capture = c, !.attempt = 0,
                   !.phase = IF @ = "source_verified" THEN "capture_published" ELSE @]

ILink(s) ==
    /\ at[s] = "loading"
    /\ DecideResume(s) \/ DecideReplay(s) \/ DecideNew(s)
    /\ runs' = IF cap'[s] = 0 THEN runs
               ELSE [runs EXCEPT ![run[s]] = Linked(@, cap'[s])]
    /\ UNCHANGED <<evidence, check, checkpoint, flow>>

\* The rest of load_package; its own acquisition of the lock is always granted.
ILoading(s) ==
    /\ at[s] = "loading"
    /\ \/ Acquire(s) \/ Prepare(s)
       \/ ReadFails(s) \/ SkipBatch(s) \/ LoadBatch(s) \/ LoadDuplicate(s)
       \/ Recheck(s) \/ Reconcile(s) \/ Publish(s) \/ Fail(s)
    /\ UNCHANGED <<evidence, check, records, flow>>

\* The loader gives back its acquisition and returns the capture with its status,
\* or it raises through ingest_package.
ILoadReturns(s) ==
    /\ at[s] = "loading"
    /\ Finish(s)
    /\ result' = [result EXCEPT ![s] = cap[s]]
    /\ At(s, IF pc[s] = "raise" THEN "leave"
             ELSE IF captures[cap[s]].status = "published" THEN "loaded"
             ELSE IF captures[cap[s]].status = "failed" THEN "condemn" ELSE "error")
    /\ UNCHANGED <<evidence, check, records, goal, run, copy, found, outcome>>

\* The run is read again, because the link may have changed it.
ILoaded(s) ==
    LET r == runs[run[s]] IN
    /\ at[s] = "loaded"
    /\ SetRun(s, IF r.capture # result[s] \/ Rank(r.phase) < Rank("capture_published")
                 THEN [r EXCEPT !.phase = "capture_published", !.capture = result[s]]
                 ELSE r)
    /\ At(s, "cover")
    /\ UNCHANGED <<vvars, checkpoint, goal, run, found, result, outcome>>

-----------------------------------------------------------------------------
(* The coverage *)

SetVerified(s, a) ==
    SetRun(s, [copy[s] EXCEPT !.phase = "source_verified", !.attempt = a])

\* A confirmed attempt already in the database is reused.
IReuseAttempt(s) ==
    LET a == LatestAttempt(copy[s].capture) IN
    /\ at[s] = "cover"
    /\ Confirmed(copy[s].capture, a)
    /\ SetVerified(s, a)
    /\ At(s, "seal")
    /\ UNCHANGED <<vvars, checkpoint, goal, run, found, result, outcome>>

ICover(s) ==
    LET c == copy[s].capture IN
    /\ at[s] = "cover"
    /\ ~Confirmed(c, LatestAttempt(c))
    /\ IF Verifiable(c)
       THEN VStart(s, c) /\ At(s, "verifying")
       ELSE UNCHANGED vvars /\ At(s, "leave")
    /\ UNCHANGED <<records, goal, run, copy, found, result, outcome>>

IVerifying(s) ==
    /\ at[s] = "verifying"
    /\ VAcquire(s) \/ VReread(s) \/ VOpen(s) \/ VWalk(s) \/ VClose(s)
    /\ UNCHANGED <<records, flow>>

\* The verifier gives back its acquisition and returns the attempt it closed, or it
\* raises through ingest_package.
IVerified(s) ==
    LET a == attempt[s] IN
    /\ at[s] = "verifying"
    /\ VLeave(s)
    /\ result' = [result EXCEPT ![s] = a]
    /\ At(s, IF a = 0 THEN "leave"
             ELSE IF attempts[a].state = "in_progress" THEN "leave"
             ELSE IF attempts[a].state = "verified" /\ target[s] \in coverage THEN "confirm"
             ELSE "error")
    /\ UNCHANGED <<records, goal, run, copy, found, outcome>>

IConfirm(s) ==
    /\ at[s] = "confirm"
    /\ IF Confirmed(copy[s].capture, result[s])
       THEN SetVerified(s, result[s]) /\ At(s, "seal")
       ELSE UNCHANGED <<runs, copy>> /\ At(s, "error")
    /\ UNCHANGED <<vvars, checkpoint, goal, run, found, result, outcome>>

-----------------------------------------------------------------------------
(* The seal *)

\* Every condition of the insert, as it is when the transaction runs.
Sealable(r) ==
    LET c == captures[r.capture] IN
    /\ pointer[c.pkg] = r.capture /\ c.status = "published"
    /\ Confirmed(r.capture, r.attempt)
    /\ attempts[r.attempt].capture = r.capture /\ attempts[r.attempt].sha = c.sha
    /\ c.counts = <<c.counts[1], c.counts[1], c.counts[1]>>

NewCheckpoint(s) ==
    LET r == copy[s]
        c == captures[r.capture]
    IN  [run |-> run[s], capture |-> r.capture, attempt |-> r.attempt,
         sha |-> c.sha, contract |-> c.contract, count |-> c.counts[2]]

\* The foreign keys of package_checkpoint that the insert does not imply: the run's
\* row has to name the same capture, attempt and artifact.
RunAgrees(k) ==
    /\ runs[k.run].capture = k.capture /\ runs[k.run].attempt = k.attempt
    /\ runs[k.run].sha = k.sha

Completed(s) == [runs EXCEPT ![run[s]].phase = "completed"]

\* Variant: the run is closed in a transaction of its own, before the checkpoint.
ISealSeparately(s) ==
    LET k == NewCheckpoint(s) IN
    /\ at[s] = "seal"
    /\ runs' = Completed(s)
    /\ IF Sealable(copy[s]) /\ RunAgrees(k)
       THEN checkpoint' = [checkpoint EXCEPT ![Pkg(s)] = k] /\ At(s, "report")
       ELSE UNCHANGED checkpoint /\ At(s, "leave")
    /\ UNCHANGED <<vvars, goal, run, copy, found, result, outcome>>

\* One transaction: the checkpoint replaces the one before it and the run completes.
\* When a condition does not hold nothing is sealed; when the load took other bytes
\* than the run recorded, the foreign key refuses the row and the call raises.
ISeal(s) ==
    LET k == NewCheckpoint(s) IN
    /\ at[s] = "seal"
    /\ IF ~Sealable(copy[s]) \/ runs[run[s]].phase # "source_verified"
       THEN UNCHANGED records /\ At(s, "error")
       ELSE IF ~RunAgrees(k)
       THEN UNCHANGED records /\ At(s, "leave")
       ELSE /\ checkpoint' = [checkpoint EXCEPT ![Pkg(s)] = k]
            /\ runs' = Completed(s)
            /\ At(s, "report")
    /\ UNCHANGED <<vvars, goal, run, copy, found, result, outcome>>

\* The committed row is read back; anything but a current checkpoint of this run is
\* an IngestError.
IReport(s) ==
    /\ at[s] = "report"
    /\ IF Current(Pkg(s)) /\ checkpoint[Pkg(s)].run = run[s]
       THEN outcome' = [outcome EXCEPT ![s] = "processed"]
       ELSE UNCHANGED outcome
    /\ At(s, "leave")
    /\ UNCHANGED <<vvars, records, goal, run, copy, found, result>>

\* _record_error writes the phase the call holds in memory, or 'failed' when the
\* capture was condemned; a row that violates a CHECK raises.
IRecordError(s) ==
    LET phase == IF at[s] = "condemn" THEN "failed" ELSE copy[s].phase
        r == [runs[run[s]] EXCEPT !.phase = phase]
    IN
    /\ at[s] \in {"error", "condemn"}
    /\ IF Evidenced(r)
       THEN /\ runs' = [runs EXCEPT ![run[s]] = r]
            /\ outcome' = [outcome EXCEPT ![s] = "incomplete"]
       ELSE UNCHANGED <<runs, outcome>>
    /\ At(s, "leave")
    /\ UNCHANGED <<vvars, checkpoint, goal, run, copy, found, result>>

ILeave(s) ==
    /\ at[s] = "leave"
    /\ GiveLock(s, Pkg(s))
    /\ Reset(s)
    /\ UNCHANGED <<tables, file, pc, work, budgets, evidence, check, records>>

\* A statement of ingest_package itself is cancelled, or the file system fails under its
\* artifact: the call raises.
IDbError(s) ==
    /\ at[s] \in {"replay", "open", "artifact", "record", "loaded", "cover", "confirm", "seal",
                  "report", "error", "condemn"}
    /\ faults < MaxFaults
    /\ faults' = faults + 1
    /\ At(s, "leave")
    /\ UNCHANGED <<tables, lock, file, pc, work, crashes, swaps, evidence, check, records,
                   goal, run, copy, found, result, outcome>>

\* A statement of the loader or of the verifier is cancelled.
INestedDbError(s) ==
    /\ at[s] \in {"loading", "verifying"}
    /\ \/ DbError(s) /\ UNCHANGED <<evidence, check>>
       \/ VDbError(s)
    /\ UNCHANGED <<records, flow>>

ICrash(s) ==
    /\ at[s] # "idle"
    /\ crashes < MaxCrashes
    /\ crashes' = crashes + 1
    /\ Goto(s, "dead") /\ Forget(s)
    /\ Do(s, "idle") /\ Drop(s)
    /\ Reset(s)
    /\ UNCHANGED <<tables, lock, file, faults, swaps, evidence, records>>

-----------------------------------------------------------------------------

IAdvance(s) ==
    \/ IAcquire(s) \/ IRefuseBusy(s) \/ IReplay(s) \/ IResumeRun(s) \/ IOpenRun(s)
    \/ IReuse(s) \/ IAdopt(s) \/ IDownload(s) \/ IRecordArtifact(s)
    \/ ILoad(s) \/ ILink(s) \/ ILoading(s) \/ ILoadReturns(s) \/ ILoaded(s)
    \/ IReuseAttempt(s) \/ ICover(s) \/ IVerifying(s) \/ IVerified(s) \/ IConfirm(s)
    \/ ISeal(s) \/ IReport(s) \/ IRecordError(s) \/ ILeave(s)

IBegin(s) == \E p \in Package, r \in Requests : IStart(s, p, r)

Ingesting(s) == IBegin(s) \/ IAdvance(s) \/ IDbError(s) \/ INestedDbError(s) \/ ICrash(s)

\* A session that is not ingesting loads or verifies on its own account.
LoadOrVerify(s) ==
    /\ at[s] = "idle"
    /\ Load(s) \/ Verify(s)
    /\ UNCHANGED <<records, flow>>

INext ==
    \/ \E s \in Session : Ingesting(s) \/ LoadOrVerify(s)
    \/ \E p \in Package : SwapFile(p) /\ UNCHANGED <<evidence, check, records, flow>>

ISpec == IInit /\ [][INext]_ivars

-----------------------------------------------------------------------------
(* Properties *)

\* What a run records hangs together at every moment, across everything that moves
\* it back and forth: each phase with its evidence, the capture with its package,
\* and the attempt with the capture it was an attempt on.
RunsCarryEvidence ==
    \A i \in DOMAIN runs :
        LET r == runs[i] IN
        /\ Evidenced(r)
        /\ r.capture # 0 => captures[r.capture].pkg = r.pkg
        /\ r.attempt # 0 => attempts[r.attempt].capture = r.capture

Ended == {"completed", "failed"}

\* A package has one unfinished run at most: nothing in the schema says so, and two
\* would each believe they know how far the package got.
OneOpenRun ==
    \A i, j \in DOMAIN runs :
        (runs[i].pkg = runs[j].pkg /\ runs[i].phase \notin Ended /\ runs[j].phase \notin Ended)
            => i = j

\* A checkpoint cites one completed run, and with it bytes, a capture of those bytes
\* that was published, and an attempt that found exactly its identifiers at the
\* source.  This stays true of it after it was retired.
CheckpointIsEvidence ==
    \A p \in Package : checkpoint[p] # None =>
        LET k == checkpoint[p]
            c == captures[k.capture]
            a == attempts[k.attempt]
        IN
        /\ runs[k.run] = [pkg |-> p, phase |-> "completed", sha |-> k.sha,
                          capture |-> k.capture, attempt |-> k.attempt]
        /\ c.pkg = p /\ c.sha = k.sha /\ c.contract = k.contract
        /\ c.status \in {"published", "superseded"}
        /\ RowsOf(k.capture) = CleanRun(k.capture, k.sha)
        /\ a.capture = k.capture /\ a.state = "verified"
        /\ a.keys = LocalKeys(k.capture) /\ k.count = Cardinality(a.keys)

\* A run is completed together with its checkpoint or not at all.
CompletedIsSealed ==
    \A i \in DOMAIN runs : runs[i].phase = "completed" =>
        /\ checkpoint[runs[i].pkg] # None
        /\ checkpoint[runs[i].pkg].run >= i

\* Whoever reads that a checkpoint is current, at any moment and without a lock, may
\* take what the package shows now for what the source was found to hold.
CurrentIsCertified ==
    \A p \in Package : Current(p) =>
        /\ LocalKeys(pointer[p]) = attempts[checkpoint[p].attempt].keys
        /\ pointer[p] \in coverage
        /\ \A a \in AttemptsOf(pointer[p]) : a <= checkpoint[p].attempt

\* An ingest that reports the package as processed or replayed says so of what
\* readers see at that moment, under the contract of the code that reports it.
SuccessIsTrue ==
    \A s \in Session : outcome[s] \in {"processed", "replayed"} =>
        LET c == pointer[Pkg(s)] IN
        /\ c \in coverage
        /\ captures[c].contract = goal[s].req.contract
        /\ checkpoint[Pkg(s)].capture = c

\* A later checkpoint of a package is of a later run and never of an earlier capture.
CheckpointMovesForward ==
    [][\A p \in Package : checkpoint'[p] # checkpoint[p] =>
        /\ checkpoint'[p] # None
        /\ checkpoint[p] # None =>
            /\ checkpoint'[p].run > checkpoint[p].run
            /\ checkpoint'[p].capture >= checkpoint[p].capture]_ivars

\* A run that completed or failed is never opened again.
RunsEndOnce ==
    [][\A i \in DOMAIN runs : runs[i].phase \in Ended => runs'[i] = runs[i]]_ivars

\* What migration 0004 and docs/ingestion.md say of a phase: it is durably true.  A
\* run that says its capture was published names a capture that was.
PhaseIsDurablyTrue ==
    \A i \in DOMAIN runs :
        runs[i].phase \in {"capture_published", "source_verified", "completed"} =>
            captures[runs[i].capture].status \in {"published", "superseded"}

\* What they say of an interruption: it keeps its phase and also records the error.
InterruptionIsRecorded ==
    \A s \in Session : at[s] = "error" =>
        Evidenced([runs[run[s]] EXCEPT !.phase = copy[s].phase])

-----------------------------------------------------------------------------
(* Liveness *)

\* The source and the endpoint answer, and the package is left to ingest.
Answered ==
    \A s \in Session :
        /\ step[s] = "walk" /\ step'[s] = "close" => verdict'[s].keys # None
        /\ at[s] = "artifact" => at'[s] # "error"

IReap(s) == Reap(s) /\ UNCHANGED <<evidence, check, records, flow>>

IRetryNext ==
    \E s \in Session :
        \/ IBegin(s) \/ IDbError(s) \/ INestedDbError(s) \/ ICrash(s) \/ IReap(s)
        \/ IAdvance(s) /\ Answered

\* Live processes keep executing, the server notices dead ones, and somebody keeps
\* calling ingest.
IRetryFairness ==
    \A s \in Session :
        WF_ivars(IAdvance(s) /\ Answered) /\ WF_ivars(IReap(s)) /\ WF_ivars(IBegin(s))

IRetrySpec == IInit /\ [][IRetryNext]_ivars /\ IRetryFairness

\* When the endpoint and the source do their part, an ingest that is tried again ends,
\* after whatever interruptions, in a checkpoint that is current.
RetriesSeal == \A p \in Package : <>Current(p)

\* However an ingest ends, the acquisitions nested in it are all given back.
PackageComesFree == \A p \in Package : owner[p] # None ~> owner[p] = None

-----------------------------------------------------------------------------
(* The inductive invariant behind the properties above *)

\* The steps at which ingest_package holds the lock.
Held == Steps \ {"lock"}

\* A session that ingests is alive and owns its package's lock; the loader and the
\* verifier run on its behalf where it called them, for that package, and nowhere else.
CallIsFounded(s) ==
    /\ at[s] # "idle" => goal[s] \in Goal /\ goal[s].req \in Requests /\ pc[s] # "dead"
    /\ at[s] \in Held => owner[Pkg(s)] = s
    /\ at[s] = "loading" =>
        /\ pc[s] \in Holding \cup {"begin"}
        /\ job[s].pkg = Pkg(s) /\ job[s].req = goal[s].req
    /\ at[s] = "verifying" => step[s] # "idle" /\ target[s] = copy[s].capture
    /\ at[s] \notin {"idle", "loading"} => pc[s] = "idle"
    /\ at[s] \notin {"idle", "verifying"} => step[s] = "idle"
    /\ pc[s] \in {"idle", "dead", "begin", "decide"} => cap[s] = 0

CallShape == \A s \in Session : CallIsFounded(s)

\* What PostgreSQL counts for a live session is what the calls it is in acquired.
Taken(b) == IF b THEN 1 ELSE 0
Acquired(s, p) ==
    Taken(pc[s] \in Holding /\ job[s].pkg = p)
    + Taken(step[s] \in Checking /\ captures[target[s]].pkg = p)
    + Taken(at[s] \in Held /\ Pkg(s) = p)

LockCounts ==
    \A p \in Package : owner[p] # None /\ pc[owner[p]] # "dead" =>
        depth[p] = Acquired(owner[p], p)

\* A capture the goal asks for: of its package, under its contract.
Wanted(s, c) == c \in CapturesOf(Pkg(s)) /\ captures[c].contract = goal[s].req.contract

\* The session works on its package's open run, knows its row as it is except across
\* the calls of the loader and the verifier, and got as far as the run says.
RunIsFounded(s) ==
    LET r == runs[run[s]] IN
    /\ at[s] \in Held \ {"replay", "open", "report", "leave"} =>
        /\ run[s] \in OpenRuns(Pkg(s))
        /\ copy[s] \in Run /\ copy[s].pkg = Pkg(s) /\ copy[s].phase \in OpenPhases
    /\ at[s] \in {"artifact", "record", "load", "cover", "verifying", "confirm", "seal"} =>
        copy[s] = r
    /\ at[s] = "record" => found[s] \in Archive
    /\ at[s] \in {"load", "loading", "loaded", "cover", "verifying", "confirm", "seal"} =>
        r.sha # None
    /\ at[s] = "loading" /\ pc[s] \in Working \cup {"return"} =>
        r.capture = cap[s] /\ Wanted(s, cap[s])
    /\ at[s] = "loaded" => r.capture = result[s]
    /\ at[s] \in {"loaded", "cover", "verifying", "confirm", "seal"} => Wanted(s, r.capture)
    /\ at[s] = "report" =>
        /\ checkpoint[Pkg(s)] # None
        /\ checkpoint[Pkg(s)].contract = goal[s].req.contract

RunShape == \A s \in Session : RunIsFounded(s)

\* A row of ingest_run: what it names exists and belongs together, it is its package's
\* latest while it is open, and no later than the checkpoint once it is completed.
RowIsFounded(i) ==
    LET r == runs[i] IN
    /\ Evidenced(r)
    /\ r.capture # 0 => r.capture \in CapturesOf(r.pkg)
    /\ r.attempt # 0 => r.attempt \in AttemptsOf(r.capture)
    /\ r.phase \in OpenPhases => \A j \in RunsOf(r.pkg) : j <= i
    /\ r.phase = "completed" =>
        checkpoint[r.pkg] # None /\ checkpoint[r.pkg].run >= i

RowsShape == \A i \in DOMAIN runs : RowIsFounded(i)

\* A row of package_checkpoint: everything it cites was final when it was written.
CheckpointIsFounded(p) ==
    LET k == checkpoint[p]
        c == captures[k.capture]
    IN
    checkpoint[p] # None =>
        /\ k.run \in DOMAIN runs
        /\ runs[k.run] = [pkg |-> p, phase |-> "completed", sha |-> k.sha,
                          capture |-> k.capture, attempt |-> k.attempt]
        /\ k.capture \in CapturesOf(p) /\ k.capture <= pointer[p]
        /\ c.status \in {"published", "superseded"}
        /\ c.sha = k.sha /\ c.contract = k.contract
        /\ c.counts = <<k.count, k.count, k.count>>
        /\ k.attempt \in AttemptsOf(k.capture) /\ attempts[k.attempt].state = "verified"

CheckpointShape == \A p \in Package : CheckpointIsFounded(p)

\* A success is about to be reported with the lock still held, so that nothing can
\* have changed since it was read.
SuccessIsFounded(s) ==
    /\ outcome[s] # None => at[s] = "leave"
    /\ outcome[s] \in {"processed", "replayed"} =>
        LET c == pointer[Pkg(s)] IN
        /\ checkpoint[Pkg(s)] # None /\ checkpoint[Pkg(s)].capture = c
        /\ c \in coverage /\ captures[c].contract = goal[s].req.contract

SuccessShape == \A s \in Session : SuccessIsFounded(s)

JInv ==
    /\ VInv /\ ITypeOK /\ CallShape /\ LockCounts /\ RunShape
    /\ RowsShape /\ CheckpointShape /\ SuccessShape

\* As in the loader, some order that files only move along: downloads, which put a
\* package that may be served in the place of what inspect_package does not accept, go
\* along it too.
IForwardOnly(later) ==
    /\ ForwardOnly(later)
    /\ \A a \in Contents \ Inspected, b \in Served : <<a, b>> \in later

INothingReturns == \E later \in SUBSET (Contents \X Contents) : IForwardOnly(later)

=============================================================================
