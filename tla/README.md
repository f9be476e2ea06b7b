# tender-ledger: TLA+ specifications

tender-ledger downloads the daily package archives of a public-procurement
journal, loads each one into PostgreSQL as a *capture*, checks against the
journal's search API that the capture is the whole package, and seals a
*checkpoint* that says so. Everything it promises is about what survives: a
process that is killed, a statement that is cancelled, an archive that is
replaced while it is read, a second process at work on the same package, a
source that publishes while it is asked. These modules state those promises,
check them on small instances with TLC, and prove with TLAPS, for every
instance, all of them but those that say that something eventually happens.

Paths below are relative to `src/`; the Python package is
`src/src/tender_ledger/`.

## 1. The system

| Component | State | Operations |
|---|---|---|
| Capture repository (`db/repository.py`, migrations 0001, 0002) | `tl_work.capture`, `capture_batch`, `notice_capture` with its children, `published_capture` | session advisory lock per package, `begin_capture`, `committed_batches`, `clear_uncommitted_rows`, `load_batch`, `reconcile`, `publish`, `fail_capture` |
| Loader (`loader.py`) | one call's memory | `load_package`: digest, lock, decide, stream in batches, digest again, reconcile, publish or fail, unlock |
| Read views (0001-0004) | none | `tl_read.notice`, `distinct_notice`, `package_verification`, `package_ingest_status` |
| Verification (`verification.py`, 0003) | `verification_attempt`, `capture.coverage_verified` | `verify_capture`: look, lock, look again, open an attempt, walk, close it with the standing |
| Source walk (`source_api.py`) | one walk's memory | `enumerate_publication_keys`: pages by iteration token, retries, backoff, `Retry-After`, budgets |
| Package ingest (`ingest.py`, 0004, 0005) | `ingest_run`, `package_checkpoint` | `ingest_package`: replay, open or resume a run, artifact, load, coverage, seal, record an error |
| Download (`download.py`) | the file at the destination, temporary files | `download_package`: attempts, byte and time budgets, stream, validate, sync, rename, sync the directory |
| Archive reader (`packages.py`) | one walk's budget, counts and layout | `inspect_package`, `stream_notices`, `survey_package` |
| Package identity and policy (`package_contract.py`) | none | which identities are supported, the days of a month, URL, and the resource policy of a kind |
| Projection (`projection.py`) | none | one XML member to one row |
| Manifest (`manifest.py`) and its runner (`manifest_runner.py`) | the report file | `load_manifest`, `run_manifest`, `write_report_file` |
| Orchestration (`orchestration.py`, `dags/`) | nothing of its own | three Airflow tasks: validate, ingest with one retry and a killed command, summarize |
| Migrations (`db/__init__.py`) | `schema_migrations` | `migrate` |
| Command line, `queries/`, `scripts/` | none | wrappers, read-only SQL, measurements |

How they interact:

* **One package lock.** `load_package`, `verify_capture` and `ingest_package`
  take the same advisory lock of the package. `ingest_package` holds it for its
  whole length and calls the other two, which take it *again* on the same
  connection; PostgreSQL counts, so every acquisition has to be given back once.
  A process that dies keeps its locks until the server notices.
* **A hook.** `ingest_package` passes `load_package` an `on_capture` callback
  that links the run to the capture inside the transaction that decides the
  capture.
* **Shared rows.** `publish` moves the pointer that the verifier and the
  checkpoint view read; a verification moves `coverage_verified`, which decides
  whether a checkpoint is current. A checkpoint's currency is never stored.
* **A child process.** The Dag's second task runs `ingest-manifest` as a child
  and hears nothing of it but its exit code; everything else goes through the
  report file, whose name both derive from the run, and through the database.
* **The file.** The archive at the destination belongs to nobody: another
  program may replace or remove it between any two times the code opens it.

What is hard here is listed line by line as `hazards` in `PROJECT.json`:
two sessions at one package; deaths between the commits of a batch, of the
reconciliation, of the pointer, of an attempt and of a checkpoint; a capture
looked at before the lock and used after it; a run held in memory while a
callback changes its row; a file digested, read and digested again; a walk over
a source that publishes on the way; retries under budgets of bytes and time; a
command that outlives the task that started it; a manifest edited between two
tasks; two upgrades of the schema that both found a version missing; archives
one step past a limit.

## 2. The modules

| Module | Models | Composes |
|---|---|---|
| `PublishedNotices` | abstract: what a reader of `tl_read.notice` is promised | |
| `CaptureStore` | tables, lock and loader, with crashes, cancelled statements and replaced files | |
| `CertifiedNotices` | abstract: the same, and whether the source agreed | `PublishedNotices` |
| `Verification` | `verify_capture` | `CaptureStore` |
| `Ingest` | `ingest_package` | `Verification`, so all three kinds of work on one set of sessions |
| `SourceWalk` | the walk over pages, tokens, retries and time | |
| `Download` | one acquisition at a time, deaths and losses of power | |
| `PackageContract` | supported identities, the two policies, the days of a month | |
| `Archive` | the one walk over an archive's members, and what it decides, without walking | |
| `Acquisition` | downloads whose bodies are archives, with what each reader says of them | `Download`, `Archive` |
| `Migrations` | `migrate`, by several processes | |
| `ManifestRun` | the Dag's tasks, the commands they start, the manifest and the report | `Migrations`, `PackageContract` |
| `CaptureStoreProofs`, `VerificationProofs`, `IngestProofs`, `SourceWalkProofs`, `DownloadProofs`, `MigrationsProofs`, `ManifestRunProofs`, `PackageProofs` | theorems | the modules they are named for (`PackageProofs`: `Archive` and `PackageContract`), and the proofs of the modules those build on |
| `MC...` | instances for TLC | |

**CaptureStore.** A session is one process with one autocommit connection;
`pc[s]` is where it is in `load_package`, `job`, `cap`, `resumed`, `done`,
`stream` and `next` are its local variables. Each transaction or file access is
one action: `StartLoad` (the first digest, before the lock), `Acquire` or
`RefuseBusy`, `DecideResume`/`DecideReplay`/`DecideNew` (`begin_capture`),
`Prepare` (committed batches, clearing, opening the archive), `ReadFails`,
`SkipBatch`, `LoadBatch` and `LoadDuplicate` per batch, `Recheck` (the second
digest), `Reconcile`, `Publish`, `Fail`, `Finish`. `DbError` cancels a
statement, `Crash` kills the process, `Reap` is the server noticing, `SwapFile`
another program. A member is its canonical identity; a row records, beside what
the table has, the archive its content came from (`from`), which no code reads
and the properties compare. Variants named "Variant: ..." in the modules are
deliberately wrong forms of the definition below them; each property is shown
to fail under one.

**Verification.** `VStart` is the look without the lock, `VReread` the second
one under it, `VOpen`, `VWalk`, `VClose` and `VLeave` the rest. `VWalk` is the
walk as a single read; `SourceWalk` is what justifies that.

**Ingest.** `at[s]` is where a session is in `ingest_package`; while it is
`"loading"` or `"verifying"` the steps of the nested call are the actions of
the other two modules, with `ILink` the decision of the capture together with
the hook's update of the run. `copy[s]` is the `_Run` held in memory beside the
row `runs[run[s]]`; that these may differ is the subject of a finding. A session
that is not ingesting loads or verifies on its own account. The schema's CHECK
constraints (`Evidenced`) and foreign keys (`RunAgrees`) refuse rows as the
database would. The download is the single action `IDownload`; `Download` is
what justifies that.

**SourceWalk.** Pages carry any of the notices held, any token or none, any
number of repetitions; a reply may be late, transient with or without
`Retry-After`, or refused. Time is a counter that advances between any two
steps.

**Download.** Bytes are chunks. The server sends any body, ends it early with
or without an error, and declares any length; `Die` and `LosePower` differ in
what is left on disk (what was synced, and of the directory what was synced or
happened to be written). `Discard` is `_discard`, whose `unlink` may fail without
anybody hearing of it; `Break` is whatever else ends a call, such as an error of
the local file system, also after the rename.

**Archive.** A pure function: `Walk` folds over the members of an archive under
the limits of a policy, `Member` and `Nested` are one member outside and inside
a container, `Notice` is `_notice`, `Drain` the end of a gzip stream, `Receive`
what the caller does with a member that parsed. The three callers are a
parameter: `inspect_package`, the loader and `survey_package` differ only in
whether they project and in whether a member's fault stops them. Sizes are in
units, a header is one; of the XML there is its form and the one thing that may
be wrong with it, one for each refusal of `parse_notice` and of the projection.
`IsPackage` and `IsLoadable` say without a walk what a package is: over the set
of its places, `<<i, 0>>` for the i-th member and `<<i, j>>` for the j-th inside
that one, what should be a notice (`Candidates`), which containers are opened
and what it all expands to (`Expansion`).

**Acquisition.** The bodies of `Download` are the positions of a sequence of
archives; the ones its validation lets pass are those that `inspect_package`
accepts. `VerdictsAreExact` compares, for each, what the three readers say with
that definition.

**Migrations.** `known` is what a call found recorded; `ApplyNext` is one
transaction, refused if the version is there; `UpgradeFails` is a death or a
cancelled statement at any point. `UpTo` makes processes of older code.

**ManifestRun.** `task`, `try` and `at` are where the Dag run is, `plan` what
`validate_manifest` handed on; `command[n]` is the child that try `n` of
`ingest_manifest` started, from reading the manifest (`LoadManifest`) through
the entries to its report and its exit. One entry is one call of
`ingest_package`, which `Ingest` models: it seals (`Seal`), returns without
(`StopShort`: an older checkpoint may be current all the same) or raises
(`RaiseError`), and holds the package's lock meanwhile. A task that fails is
tried again as the decorators say (`Retries`); `TimeOut` kills the command, and
its session keeps the lock until the server notices (`Reap`). `LoseTask` is a
task whose process is gone: its command dies with it, or goes on beside the
next try, with the same report name. `Edit`, `Retire`, `SealElsewhere` and
`UpgradeSchema` are the surroundings.

Two refinements are checked as properties, and proved: `CaptureStore` implements
`PublishedNotices!Spec` with the pointer as the edition and the rows of the
pointed capture as what is shown; `Verification` implements
`CertifiedNotices!CSpec` with, in addition, membership of the pointed capture in
`coverage` as `certified`. Any step of any session must map to one package
moving to a later edition that is a whole archive, to a certification whose
identifiers the source may have held, to a withdrawal of one, or to nothing.

## 3. The runs

| Run | Instance | Shows |
|---|---|---|
| `capture_store` | 2 sessions, 1 package, 4 archives (2 notices; another content; an identity twice; an unreadable member), 2 contracts, batch sizes 1 and 2, a forced recapture, a capture from before 0002; 3 captures, 1 crash, 1 cancelled statement, 1 replacement | exclusion, whole publications, no earlier edition again, settled captures untouched, refinement of `PublishedNotices` |
| `capture_store_swap` | 1 session, file replaced and put back | **violation**: finding 1 |
| `capture_store_retry` | 2 sessions with different batch sizes, 3 notices, 2 crashes, 2 cancelled statements | under fairness the archive is published for good; a sound archive is never condemned |
| `verification` | 2 sessions that load, recapture and verify; 4 archives (2 notices, a part, empty, one with a misdated notice), 3 answers of the source; 2 captures, 2 attempts, 1 crash, 1 cancelled statement, 1 replacement | the standing is the latest attempt's verdict on the published capture; evidence stays true; refinement of `CertifiedNotices` |
| `ingest` | 2 sessions that ingest, load and verify; an archive that passes inspection and not the load; 2 runs, 2 captures, 2 attempts, 1 crash, 1 replacement or removal | what runs and checkpoints cite is true and stays so; a checkpoint reads as current only for what readers see |
| `ingest_retry` | 2 sessions ingesting under two contracts, 3 runs, 3 captures, 3 attempts, 1 crash, 1 cancelled statement | under fairness a current checkpoint is reached and every nested acquisition is given back; what is reported is true |
| `ingest_error`, `ingest_phase` | 1 session, 1 run, 2 captures | **violations**: findings 2 and 3 |
| `source_walk` | 4 notices with a budget of 3, pages of 2, 3 pages, 3 attempts, 2 tokens, 4 seconds | a complete walk is one read of the source; its counts add up; the clock is respected |
| `manifest` | a manifest of two packages, one that names the first of them only, one that is refused; 2 tries of the command, of which both may be alive; 2 upgrades over 2 versions, one by older code; 1 edit, 1 retirement, 1 lost task | reports say no more than the database did, work and reports are of the validated document, success is confirmed by the database at that moment, the run ends though a command may hang; the schema is a prefix of the versions |
| `download` | 28 archives of at most 2 chunks and 3 members, at and one step past every limit, layout and fault; 3 attempts, limits 2 and 4, 2 deaths, 1 removal that fails | the destination names a whole package or nothing; the transfer is bounded over all attempts; a partial file that stays is of a death or of a removal that failed; inspector, loader and survey judge exactly |
| `download_litter` | the same with 1 death and no such removal | **violation**: finding 4 |

**Why the bounds are enough.** Lock, pointer and rows of different packages are
disjoint, so one package shows every interference; a second session is what it
takes to overtake, and nothing in the code depends on a third. Two captures let
one supersede another; three let a third overtake an open second. Two members
and batch sizes 1 and 2 give a boundary inside and at the end of an archive,
three members in the retry run give a short last batch, and a resume under a
different batch size. One crash and one cancelled statement together reach every
pair of adjacent commits; the retry run, which is smaller, has two of each. One
replacement is what a digest before and after must detect; two is what it
cannot (finding 1). Symmetry is used on sessions only in runs without liveness
properties; in `source_walk` on notices and tokens, which no definition tells
apart. `CHECK_DEADLOCK FALSE` is set only in the two runs of `CaptureStore` in
which the archive may be gone for good once the bound on replacements is spent:
no load can start any more, which is how the real system stops; and in
`manifest`, where a run that has ended is over.

In `manifest`, two packages are what it takes for a report to stop half way, two
commands are all that one retry can start, and one lost task, one edit and one
retirement each fall between any two steps of the tasks and commands. A second
retirement or edit would only undo the first. Two versions give a migration
after a migration, and two calls the overlap of two processes. The two
policies' own numbers are in `PackageContract`, where their constructor's
conditions are an ASSUME; `download` scales them down. There the total budget
is smaller than all attempts together, which no policy allows (`SoundPolicy`)
and the tests inject: only so does it ever bite. The second limits are those of
a label that is no identity.

**Fairness.** `WF(Advance)` and `WF(Reap)`: a live process keeps executing and
the server eventually ends the session of a dead one (its TCP keepalive or the
closed socket). `WF(Start)`, `WF(IBegin)`: somebody keeps calling, as an
operator or the Dag's retry does. Faults and crashes get no fairness and are
bounded. `WF(Tasks)` in `manifest`: Airflow goes on with a run, and the clock
with it, so a command that does not return is timed out. The command itself gets
no fairness: it may hang anywhere. `Answered`, in `ingest_retry` only, assumes
that the endpoint and the source answer; without it `RetriesSeal` could not hold
and the code does not claim it. No strong fairness is assumed: a session that
finds the lock taken returns and is called again.

## 4. Findings

1. **A replaced file that is put back is not noticed** (`capture_store_swap`,
   `loader.py:187`). The second digest compares the file at the end of the
   stream with the digest taken before; content that was exchanged while the
   stream was opened and exchanged again before the second digest is published
   under the digest of the other. `capture_store` therefore restricts
   replacements to content the file has not held before (`ForwardSwaps`), under
   which the property holds.
2. **An interruption can fail to be recorded** (`ingest_error`,
   `ingest.py:568`). `_record_error` writes back the phase held in memory from
   before the load, although the hook has moved the row since; a CHECK
   constraint refuses the row and the call raises.
3. **A phase is not always durably true** (`ingest_phase`, `ingest.py:368`). A
   run that says `capture_published` keeps saying so from the moment it is
   linked to a newer capture that has no rows yet.
4. **A partial file can stay** (`download_litter`, `download.py:468`).
   `docs/ingestion.md:71` says it is deleted; a process that is killed while it
   streams leaves it, and no later acquisition looks for it.

No other property that was checked disagrees with what the code or its documents
say. Two sentences of the documents are stronger than what the models show, if
read literally. `docs/orchestration.md:73-75` says that no ingest outlives the
task that started it; that is so of a task that reaches its timeout, while
`LoseTask` may leave the command of a lost task running. `docs/ingestion.md:212-213`
says that no command accepts an archive another would refuse; of the policies,
which it is about, that is so, while a loader refuses what cannot be projected
and the inspector does not look at that (`IsPackage`, `IsLoadable`).

Two remarks on `ManifestRun`, whose properties are stated so as to hold: the
report that a run leaves is not always that of the command it succeeded by. A
command orphaned by a lost task may write its own report, as far as it got,
after the retry's was read; `run_command` kills the child only at its timeout.
And a command killed at its timeout writes no report, so the file that the
failure message points at may be missing or the first try's.

## 5. The proofs

Everything below is proved for any sets of packages, sessions, archives,
notices, documents and versions, finite or not, and any bounds, from the named
ASSUMEs of the modules: types, that NULL and the unreadable member are not
values of anything else, in `SourceWalk` and `Download` that the limits are
numbers, and in `Acquisition` that bodies are archives. `PROJECT.json` lists
each theorem with the property it states. Every property of the runs that is not
about liveness has one.

### The loader (`CaptureStoreProofs`)

`TypeCorrect`, `LoadsExclude`, `PointerForward`, `SettledStays` rest on
`Invariance`, `Spec => []IInv`, with `IInv == StoreInv /\ OwnersWork` and
`StoreInv == TypeOK /\ SessionShape /\ LockShape /\ WorkShape /\ PointerShape`.
None of the properties is inductive by itself:

* exclusion needs that whoever is inside owns the lock (`LockShape`), and that a
  job is set at every step inside (`SessionShape`);
* the pointer moves forward because what a session is about to publish is its
  package's *latest* capture and still open (`WorkShape`), which no other
  session can change, because it is outside;
* a settled capture stays because the only capture a step writes is the one the
  session works on, or the published one it supersedes, and pointer and status
  agree (`PointerShape`).

`OwnersWork` says that the lock is held exactly once, by a session that works
under it or died there. It is kept apart from `StoreInv` because it is false as
soon as another component takes the same lock: `StoreInv` is what a load keeps
whoever else takes and gives back locks beside it, and is therefore the part
that the proofs of `Verification` and `Ingest` build on. The proof treats types
per action first, then the steps inside the lock as a family (`InsideLock`,
`InsideTouches`, `OthersKeepWorking`, `InsideOwnWork`, `InsidePointer`: each
touches the session's own capture or appends one), and the others one by one.

`PublishedIsWhole` and `WholeEditions` are about the rows, and they are the
ones that finding 1 limits: with a file that is put back they are false. Their
hypothesis is `NothingReturns`: there is *some* order that every replacement
goes along, in which no two archives come after each other. It excludes exactly
the archive that comes back after another was in its place; a file that
vanishes may come back as it was, and `ForwardSwaps` of the instances satisfies
it. The invariant `RInv(later)`, for any such order, is what TLC checked before
it was proved:

* the digest of a call, the file it has open, the rows of its capture and the
  file now are in this order of the replacements (`FileMovesOn`,
  `RowsOfLaterFiles`). So a capture with a row of other bytes than its own has
  a file that has moved on for good, and the second digest fails: this is why
  `reconcile` is only reached with rows of one archive;
* a batch on record has all its rows, for the batch size on record
  (`BatchShape`), and the batches that were committed or skipped before the end
  of the stream tile the archive (`CleanOfBatches` and the lemmas on `Slice`), so
  at `reconcile` the rows are those of a clean run (`ReadIsFounded`);
* once loaded they stay so, because settled captures are left alone
  (`LoadedShape`).

`WholeEditions` is the refinement of `PublishedNotices`: every step either
leaves pointer and visible rows alone or moves one package's pointer to a later
capture whose visible rows are a whole archive.

`DefectsCondemn` needs no hypothesis: `OnlyDefectsCondemn` itself speaks of
executions in which no file was replaced yet. Until then `RInv` holds for the
empty order (`UndisturbedInv`, checked by TLC before it was proved): digest,
open file and rows are all of the capture's own bytes. Beside it `KnownInv` says

* that rows are committed with their batch (`RowsAreOfBatches`), and that a
  session which streams knows every batch of its capture that is still ahead of
  it (`KnowsItsBatches`): those a resume read from `capture_batch` before it
  opened the file, and none where the capture is its own. A key that repeats is
  then a repeated identity of the archive (`FirstInsert`);
* that whoever is about to condemn a capture has a reason in the archive
  (`FailIsADefect`): a member that cannot be read, such an identity, or counts
  that differ at `reconcile`, which they only do for such an archive
  (`CleanRunCounts`; a total over batches is stated as the size of the set of
  what is counted, `Total`, and `SameTotal` renames it).

### Verification (`VerificationProofs`)

`VInv` is `StoreInv` with what a verifier knows: it holds its lock
(`VerifierShape`), what it verifies is published and its rows are those it read
(`CheckShape`), an attempt is about a capture that was published
(`AttemptShape`), and the standing is the latest verdict. The heart of it is
that no load can touch a capture between the second look and the verdict
because it would need the lock, and that no load ever again writes to a capture
an attempt is about, because it is settled: `VerifiedStaysTrue` needs
`SettledIsLeftAlone` of the loader for every later moment. `CertifiedEditions`
is the refinement of `CertifiedNotices`, under `NothingReturns` for its part
about whole editions.

### Ingest (`IngestProofs`)

`JInv` extends `VInv` over the nested calls:

* `CallShape`: a loader or verifier that runs on behalf of an ingest runs for
  its package and request, and nowhere else is one running;
* `LockCounts`: what PostgreSQL counts for a live session is the number of calls
  it is in, so a nested release never frees the package;
* `RunShape`: the run a session works on is its package's open one, and the copy
  in memory is the row except across the two nested calls and a failed one;
* `RowsShape`, `CheckpointShape`: what rows cite exists and belongs together,
  an open run is its package's latest, and what a checkpoint cites was final;
* `SuccessShape`: a success is decided with the lock still held.

`StepKinds` then says that every step of an ingest is, for the tables below, a
step of a load, of a verification, a download, a death or nothing. With it the
rows' invariant `RInv(later)` carries over, and with it the count of a
checkpoint (`CheckpointsAreEvidence`; `CountsShape` ties the count that
`reconcile` stored to the archive) and the refinement (`IngestsCertify`).
`INothingReturns` asks in addition that a download goes along the order, when
it puts what the endpoint serves in the place of a file that `inspect_package`
does not accept. The instances of `MCIngest` satisfy it. `SuccessesAreTrue` is
proved of both specifications, with and without fairness.

### The others

`SourceWalkProofs`: `WalkIsSnapshot` rests on `WalkShape`, which keeps the
identifiers counted inside what the source held when it last answered, which is
inside what it holds now; equal cardinality then makes them equal. It assumes
that the source does not withdraw what it published and that totals and records
are of the same moment; it needs no bound. `EvidenceIsConsistent` and
`PausesAreKept` rest on `Accounts`, whose part `RequestShape` charges every
request to the page and the attempt it was made for, and whose `PauseShape` is
that the clock passes the end of a pause before anything else goes on.

`DownloadProofs`: `DInv` says that only a synced file ever takes a name, in the
directory or on what the power leaves of it (`NamesAreSynced`), which is why no
loss of power can leave a part of a package under its name; that while a call
goes on every chunk received was charged (`BudgetShape`); and that each partial
file which stays was paid for by a death or a failed removal (`DiscardLeaves`,
`DeathLitters`).

`ManifestRunProofs`: `WorkFollowsPlan` rests on `PlanInv`: while a run
validates, no command of it exists and nothing is reported, so the plan only
changes when nothing could disagree with it. `ReportsAreTrue` and
`SuccessesAreConfirmed` rest on `RunInv`: the entries a command has recorded are
about packages that are current or were retired since (which stays so, since
only a retirement makes a package not current and it is remembered), in the
order of its document; and what the last task knows when it asks the database is
the document that was validated and a report of it.

`MigrationsProofs`: `UpgradesInOrder` rests on `CallsKnowPrefix`: a call knows
the versions up to some one, not beyond what is applied, so its next one is
either the next of the schema or already there, and then the transaction is
refused. `SchemaInOrder` carries it over to an orchestrated run, every step of
which is, for the schema, a step of an upgrade or none.

### Archives (`PackageProofs`)

For *every* archive, of any length and with containers of any length, and all
limits, the walk of `Archive` is shown to decide what its reader needs:
`InspectorIsExact`, `LoaderIsExact`, `SurveyIsExact`. They assume of an archive
only that sizes are numbers and members are a sequence (`IsArchive`), and of
limits that they are numbers (`IsLimits`). The walk stops at the first fault,
charges one budget in the order it reads, decides the layout by what comes first
and opens containers in the middle of it; `IsPackage` knows no order. What
connects them is an invariant of the walk, kept by each member:

* `Tracks(a, l, caller, w, P, E, sum)`: with the places `P` read, which expand to
  `sum`, and the containers `E` read to their end, the walk `w` is clean exactly
  if nothing is wrong with `P` (`Good`) and `E` ended in padding (`Padded`); and
  a clean walk is a picture of `P`: its counts are cardinalities, its keys those
  of the candidates, its layout says whether a container was opened
  (`Pictures`). Clean, for a survey, includes that nothing was rejected or
  repeated, which is why the one that reads on gives the same verdict.
* One lemma for each operator of the walk says what it needs of a clean walk and
  what it makes of it (`SpendStep` to `PlainStep`, `OpenStep`, `DrainStep`), and
  that a walk that is not clean stays so. Beside them, `GoodShrinks`: what is
  wrong with some places is wrong with more.
* `InnerTracks` takes the invariant over one member of a container,
  `ContainerTracks` over a whole one, `OuterTracks` over one member of the
  archive with all that is inside, `WalkTracks` over all of it; `WalkIsExact`
  reads the verdict off.

The two inductions, over members and over members of a container, are stated
with sets in the place of operators, which the library's theorems of induction
take as parameters and the provers cannot instantiate: `Climb` is induction for
the members of a set, from the well-foundedness of `<`. `FoldExists` shows that
the function which `FoldLeft` chooses exists, so that it can be unfolded
(`TotalSteps`, `NestedSteps`, `MemberSteps`).

From the same steps follow two results about walks that are *not* clean:
`WalksAreBounded`, that no walk over any archive reads more than one unit past
its budget, nor more notices or containers than its policy allows; and
`SurveysAddUp`, that the notices a survey counts are the distinct identities,
the repetitions and the incompatible ones (`Kept`, which every operator keeps).
From the verdicts follow `WiderLimitsLoadMore`, which is not obvious since a
policy with containers reads members that another does not open, and
`LabelsGainNothing` for the two policies of the code, at any number of units to
the MiB. `VerdictsHold`, in `DownloadProofs`, applies all of it to what a
download has in its hands.

Of the contract itself: a package within the notice limit of any accepted policy
can be walked to its terminal page within the page limit
(`LoadableIsVerifiable`), and no date belongs to two months
(`MonthsAreDisjoint`). The theorems of this module are about operators and
numbers, not about a behaviour; of the runs, only `download` states one of them,
as `VerdictsAreExact`.

## 6. What is only model-checked

Liveness: `RetriesPublish`, `RetriesSeal`, `PackageComesFree`, `RunEnds`. What
rests on fairness or ENABLED is beyond the prover. All other properties are
both: TLC finds each of them violated by a wrong form of the code, and the
theorem says that the right one keeps it at any size. For `VerdictsAreExact`,
whose theorem compares two definitions, the run evaluates both on archives at
and past every limit, so that neither is merely as strict as the other.

Assumptions of the models that the properties depend on:

* a file is replaced by a rename: an open handle keeps the content it was opened
  on. An edit in place during a read is not modelled;
* `inspect_package` rejects an archive that was cut off;
* a transaction is atomic and its statements see one state, as the code's short
  transactions under the package lock do;
* in `Download`, one acquisition of a package runs at a time, under the lock its
  caller holds;
* in `ManifestRun`, two manifests that differ have different digests, and the
  ingest of one package is one step between taking its lock and returning;
* in `Archive`, a member has at most one thing wrong with it, so that which
  refusal comes first is not told apart;
* an insert beyond a bound fails as an insert can, so the code's own error path
  is taken.

## 7. Not modelled, and the plan

Out of scope: the fields that `projection.py` extracts (a pure function of one
member: here a row is its member, and only which members are refused is
modelled), the samples of a survey's report, HTTP and TLS detail, argument
parsing, workspace and path checks, URLs and query texts of an identity, the
measurement scripts and analysis queries, which change no state.

All components that keep state are modelled, and every safety property of the
runs has a theorem. What could be carried further is
`OnlyDefectsCondemn` inside an ingest, which holds the package's lock while it
downloads and while it loads: no download of another ingest can come between the
digests of its load.
