----------------------------- MODULE CaptureStore -----------------------------
(***************************************************************************)
(* The capture tables of tl_work, the per-package session advisory lock    *)
(* and the loader that turns one archive file into a published capture     *)
(* (db/repository.py, loader.py, migrations 0001 and 0002).                *)
(*                                                                         *)
(* A session is one process with one autocommit connection.  Each          *)
(* transaction is one action; between two actions of a session any other   *)
(* session may run, the session may die, and the file it is reading from   *)
(* may be replaced.                                                        *)
(***************************************************************************)
EXTENDS Naturals, Sequences, FiniteSets

CONSTANTS
    Package,        \* source_package_id values
    Session,        \* database sessions, each owned by one process
    Archive,        \* contents an archive file can have; the sha256 names it
    Notice,         \* canonical identities (publication year, number)
    Contract,       \* CONTRACT_VERSION values of the code that may be running
    Unreadable,     \* a member that raises PackageError when it is reached
    None,           \* SQL NULL, Python None, an absent file
    Members,        \* [Archive -> Seq(Notice \cup {Unreadable})]
    References,     \* [Archive -> [Notice -> Nat]], change references per notice
    Requests,       \* the arguments load_package may be called with
    LegacyCaptures, \* captures left by the schema before 0002
    Swaps,          \* pairs <<a, b>>: a file holding a may be replaced by b
    MaxCaptures, MaxCrashes, MaxFaults, MaxSwaps    \* bounds on the exploration

VARIABLES
    captures,   \* tl_work.capture; a row's index is its id and its ordinal
    batches,    \* tl_work.capture_batch: <<capture, ordinal>>
    rows,       \* tl_work.notice_capture
    pointer,    \* tl_work.published_capture; 0 is no row
    owner,      \* the session that holds a package's advisory lock, or None
    depth,      \* how many times it holds it: PostgreSQL counts acquisitions
    file,       \* the content now at the path a package is loaded from
    pc,         \* where in load_package a session is
    job,        \* the call's arguments and the digest it took of the file
    cap,        \* the capture begin_capture chose
    resumed,    \* whether that capture existed already
    done,       \* committed_batches as read before the stream was opened
    stream,     \* the content behind the open file handle
    next,       \* the ordinal of the batch being assembled
    crashes, faults, swaps

tables == <<captures, batches, rows, pointer>>
lock == <<owner, depth>>
work == <<job, cap, resumed, done, stream, next>>
budgets == <<crashes, faults, swaps>>
vars == <<tables, lock, file, pc, work, budgets>>

-----------------------------------------------------------------------------
(* Types *)

OpenStatus == {"acquiring", "loading", "loaded"}
Status == OpenStatus \cup {"published", "superseded", "failed"}

\* batch = 0 is the NULL batch_size of a capture written before 0002; counts is
\* <<member_count, distinct_notice_count, loaded_row_count>>, or <<>> for NULLs.
Capture == [pkg: Package, sha: Archive, contract: Contract, batch: Nat,
            status: Status, counts: Seq(Nat)]

\* A projected notice, with the archive it was projected from.
Row == [capture: Nat, notice: Notice, batch: Nat, from: Archive]

\* lock_wait is left out: it only delays the refusal of RefuseBusy.
Request == [batch: Nat \ {0}, contract: Contract, force: BOOLEAN]
Job == [pkg: Package, sha: Archive, req: Request]

\* The steps at which load_package holds the lock.
Holding == {"decide", "prepare", "stream", "reconcile", "publish", "fail",
            "return", "raise"}
PC == Holding \cup {"idle", "begin", "dead"}

ASSUME ConstantsAreDisjoint ==
    /\ None \notin Package \cup Session \cup Archive \cup Notice
    /\ Unreadable \notin Notice
    /\ None \notin Job

ASSUME ConstantsAreTyped ==
    /\ Members \in [Archive -> Seq(Notice \cup {Unreadable})]
    /\ References \in [Archive -> [Notice -> Nat]]
    /\ Requests \subseteq Request
    /\ Swaps \subseteq (Archive \cup {None}) \X (Archive \cup {None})
    /\ MaxCaptures \in Nat /\ MaxCrashes \in Nat
    /\ MaxFaults \in Nat /\ MaxSwaps \in Nat

\* What 0002 found: open captures whose partition was never recorded.
ASSUME LegacyCapturesAreOpen ==
    \A c \in LegacyCaptures :
        c \in Capture /\ c.batch = 0 /\ c.status = "acquiring" /\ c.counts = <<>>

TypeOK ==
    /\ captures \in Seq(Capture)
    /\ batches \subseteq Nat \X Nat
    /\ rows \subseteq Row /\ IsFiniteSet(rows)
    /\ pointer \in [Package -> Nat]
    /\ owner \in [Package -> Session \cup {None}]
    /\ depth \in [Package -> Nat]
    /\ file \in [Package -> Archive \cup {None}]
    /\ pc \in [Session -> PC]
    /\ job \in [Session -> Job \cup {None}]
    /\ cap \in [Session -> Nat]
    /\ resumed \in [Session -> BOOLEAN]
    /\ done \in [Session -> SUBSET Nat]
    /\ stream \in [Session -> Archive \cup {None}]
    /\ next \in [Session -> Nat]
    /\ crashes \in Nat /\ faults \in Nat /\ swaps \in Nat

Init ==
    /\ captures \in {<<>>} \cup {<<c>> : c \in LegacyCaptures}
    /\ batches = {} /\ rows = {}
    /\ pointer = [p \in Package |-> 0]
    /\ owner = [p \in Package |-> None]
    /\ depth = [p \in Package |-> 0]
    /\ file \in [Package -> Archive]
    /\ pc = [s \in Session |-> "idle"]
    /\ job = [s \in Session |-> None]
    /\ cap = [s \in Session |-> 0]
    /\ resumed = [s \in Session |-> FALSE]
    /\ done = [s \in Session |-> {}]
    /\ stream = [s \in Session |-> None]
    /\ next = [s \in Session |-> 0]
    /\ crashes = 0 /\ faults = 0 /\ swaps = 0

-----------------------------------------------------------------------------
(* The advisory lock, as PostgreSQL keeps it for a session *)

\* Variant: the answer of pg_try_advisory_lock is not looked at.
LockUnheeded(s, p) == TRUE

LockFree(s, p) == owner[p] \in {None, s}

TakeLock(s, p) ==
    /\ LockFree(s, p)
    /\ owner' = [owner EXCEPT ![p] = s]
    /\ depth' = [depth EXCEPT ![p] = @ + 1]

\* Variant: a nested function gives back the acquisition of its caller as well.
GiveLockTwice(s, p) ==
    /\ owner' = [owner EXCEPT ![p] = None]
    /\ depth' = [depth EXCEPT ![p] = @ - 2]

\* pg_advisory_unlock gives back one acquisition; it warns and changes nothing
\* when the session does not hold the lock.
GiveLock(s, p) ==
    IF owner[p] # s
    THEN UNCHANGED lock
    ELSE /\ owner' = [owner EXCEPT ![p] = IF depth[p] = 1 THEN None ELSE s]
         /\ depth' = [depth EXCEPT ![p] = @ - 1]

-----------------------------------------------------------------------------
(* Queries *)

CapturesOf(p) == {c \in DOMAIN captures : captures[c].pkg = p}
IsLatest(c) == \A d \in CapturesOf(captures[c].pkg) : d <= c
RowsOf(c) == {r \in rows : r.capture = c}

\* The capture is of the bytes and the contract a load was asked for.
Matches(c, j) ==
    captures[c].sha = j.sha /\ captures[c].contract = j.req.contract

\* Variants: an open capture that a later one overtook is resumed; a failed one is.
ResumableOfAnyAge(j) ==
    {c \in CapturesOf(j.pkg) : captures[c].status \in OpenStatus /\ Matches(c, j)}

ResumableAfterFailure(j) ==
    {c \in CapturesOf(j.pkg) :
        IsLatest(c) /\ captures[c].status \in OpenStatus \cup {"failed"} /\ Matches(c, j)}

Resumable(j) ==
    {c \in CapturesOf(j.pkg) :
        IsLatest(c) /\ captures[c].status \in OpenStatus /\ Matches(c, j)}

Replayable(j) ==
    {c \in CapturesOf(j.pkg) :
        c = pointer[j.pkg] /\ captures[c].status = "published" /\ Matches(c, j)}

-----------------------------------------------------------------------------
(* Reading an archive in batches *)

NoticesIn(members) == {members[i] : i \in DOMAIN members}

\* Batch o of an archive read b members at a time.
Slice(members, b, o) ==
    LET left == Len(members) - o * b
    IN  [i \in 1..(IF left < b THEN left ELSE b) |-> members[o * b + i]]

BatchRows(c, o, a, members) ==
    {[capture |-> c, notice |-> n, batch |-> o, from |-> a] : n \in NoticesIn(members)}

\* The change references of rows, or of members, that have f[x] of them each.
Total(f) == Cardinality(UNION {{x} \X (1..f[x]) : x \in DOMAIN f})

ReferencesOfRows(rs) == Total([r \in rs |-> References[r.from][r.notice]])
ReferencesOfArchive(a) ==
    Total([i \in DOMAIN Members[a] |-> References[a][Members[a][i]]])

-----------------------------------------------------------------------------
(* load_package, one action per transaction or file access *)

Goto(s, l) == pc' = [pc EXCEPT ![s] = l]

Forget(s) ==
    /\ job' = [job EXCEPT ![s] = None]
    /\ cap' = [cap EXCEPT ![s] = 0]
    /\ resumed' = [resumed EXCEPT ![s] = FALSE]
    /\ done' = [done EXCEPT ![s] = {}]
    /\ stream' = [stream EXCEPT ![s] = None]
    /\ next' = [next EXCEPT ![s] = 0]

\* load_package up to the digest of the file.  A missing file raises here,
\* before anything is locked or written.
StartLoad(s, p, r) ==
    /\ pc[s] = "idle"
    /\ file[p] # None
    /\ job' = [job EXCEPT ![s] = [pkg |-> p, sha |-> file[p], req |-> r]]
    /\ Goto(s, "begin")
    /\ UNCHANGED <<tables, lock, file, cap, resumed, done, stream, next, budgets>>

Acquire(s) ==
    /\ pc[s] = "begin"
    /\ TakeLock(s, job[s].pkg)
    /\ Goto(s, "decide")
    /\ UNCHANGED <<tables, file, work, budgets>>

\* pg_try_advisory_lock answers false and the call raises
\* ConcurrentCaptureError; under lock_wait, lock_timeout expires.
RefuseBusy(s) ==
    /\ pc[s] = "begin"
    /\ ~LockFree(s, job[s].pkg)
    /\ Goto(s, "idle")
    /\ Forget(s)
    /\ UNCHANGED <<tables, lock, file, budgets>>

\* Variant: a capture that reconciled is taken to be published.
EntryPointSkippingPublish(c) ==
    IF captures[c].status = "loaded" THEN "return"
    ELSE IF captures[c].batch = 0 THEN "raise" ELSE "prepare"

\* Where _load_capture goes with an open capture: straight to the publish step
\* when it reconciled already, nowhere when its partition was never recorded.
EntryPoint(c) ==
    IF captures[c].status = "loaded" THEN "publish"
    ELSE IF captures[c].batch = 0 THEN "raise" ELSE "prepare"

DecideResume(s) ==
    /\ pc[s] = "decide"
    /\ ~job[s].req.force
    /\ \E c \in Resumable(job[s]) :
        /\ cap' = [cap EXCEPT ![s] = c]
        /\ Goto(s, EntryPoint(c))
    /\ resumed' = [resumed EXCEPT ![s] = TRUE]
    /\ UNCHANGED <<tables, lock, file, job, done, stream, next, budgets>>

DecideReplay(s) ==
    /\ pc[s] = "decide"
    /\ ~job[s].req.force
    /\ Resumable(job[s]) = {}
    /\ \E c \in Replayable(job[s]) : cap' = [cap EXCEPT ![s] = c]
    /\ resumed' = [resumed EXCEPT ![s] = TRUE]
    /\ Goto(s, "return")
    /\ UNCHANGED <<tables, lock, file, job, done, stream, next, budgets>>

NewCapture(j) ==
    [pkg |-> j.pkg, sha |-> j.sha, contract |-> j.req.contract,
     batch |-> j.req.batch, status |-> "acquiring", counts |-> <<>>]

\* At the bound on captures the insert fails, as it would on a full disk.
DecideNew(s) ==
    /\ pc[s] = "decide"
    /\ job[s].req.force \/ Resumable(job[s]) \cup Replayable(job[s]) = {}
    /\ IF Len(captures) < MaxCaptures
       THEN /\ captures' = Append(captures, NewCapture(job[s]))
            /\ cap' = [cap EXCEPT ![s] = Len(captures) + 1]
            /\ Goto(s, "prepare")
       ELSE /\ UNCHANGED <<captures, cap>>
            /\ Goto(s, "raise")
    /\ UNCHANGED <<batches, rows, pointer, lock, file, job, resumed, done,
                   stream, next, budgets>>

\* committed_batches and clear_uncommitted_rows for a resumed capture, then the
\* archive is opened.  A file that has vanished by then is a PackageError.
Prepare(s) ==
    LET c == cap[s] IN
    /\ pc[s] = "prepare"
    /\ IF resumed[s]
       THEN /\ done' = [done EXCEPT ![s] = {b[2] : b \in {x \in batches : x[1] = c}}]
            /\ rows' = {r \in rows : r.capture = c => <<c, r.batch>> \in batches}
       ELSE UNCHANGED <<done, rows>>
    /\ stream' = [stream EXCEPT ![s] = file[job[s].pkg]]
    /\ Goto(s, IF file[job[s].pkg] = None THEN "fail" ELSE "stream")
    /\ UNCHANGED <<captures, batches, pointer, lock, file, job, cap, resumed, next,
                   budgets>>

\* Variant: a resume slices by the batch size it was called with.
BatchSizeOfTheCall(s) == job[s].req.batch

BatchSize(s) == captures[cap[s]].batch
MoreToRead(s) == next[s] * BatchSize(s) < Len(Members[stream[s]])
CurrentSlice(s) == Slice(Members[stream[s]], BatchSize(s), next[s])

\* The COPY would repeat a primary key of notice_capture or of capture_batch.
ViolatesKey(s) ==
    LET slice == CurrentSlice(s) IN
    \/ Cardinality(NoticesIn(slice)) < Len(slice)
    \/ \E r \in RowsOf(cap[s]) : r.notice \in NoticesIn(slice)
    \/ <<cap[s], next[s]>> \in batches

Streaming(s) == pc[s] = "stream" /\ MoreToRead(s)
Readable(s) == Unreadable \notin NoticesIn(CurrentSlice(s))

\* PackageError while the members of a batch are read and projected.
ReadFails(s) ==
    /\ Streaming(s)
    /\ ~Readable(s)
    /\ Goto(s, "fail")
    /\ UNCHANGED <<tables, lock, file, work, budgets>>

SkipBatch(s) ==
    /\ Streaming(s)
    /\ Readable(s)
    /\ next[s] \in done[s]
    /\ next' = [next EXCEPT ![s] = @ + 1]
    /\ UNCHANGED <<tables, lock, file, pc, job, cap, resumed, done, stream, budgets>>

\* load_batch: the rows with their change references, the batch record and the
\* status commit together, or a violated key rolls all of it back.
LoadBatch(s) ==
    LET c == cap[s] IN
    /\ Streaming(s)
    /\ Readable(s)
    /\ next[s] \notin done[s]
    /\ ~ViolatesKey(s)
    /\ rows' = rows \cup BatchRows(c, next[s], stream[s], CurrentSlice(s))
    /\ batches' = batches \cup {<<c, next[s]>>}
    /\ captures' = [captures EXCEPT ![c].status = IF @ = "acquiring" THEN "loading" ELSE @]
    /\ next' = [next EXCEPT ![s] = @ + 1]
    /\ UNCHANGED <<pointer, lock, file, pc, job, cap, resumed, done, stream, budgets>>

LoadDuplicate(s) ==
    /\ Streaming(s)
    /\ Readable(s)
    /\ next[s] \notin done[s]
    /\ ViolatesKey(s)
    /\ Goto(s, "fail")
    /\ UNCHANGED <<tables, lock, file, work, budgets>>

\* Variant: the file is not digested a second time.
RecheckOmitted(s) ==
    /\ pc[s] = "stream"
    /\ ~MoreToRead(s)
    /\ Goto(s, "reconcile")
    /\ UNCHANGED <<tables, lock, file, work, budgets>>

\* The stream is exhausted and the file is digested again.  Other bytes are a
\* PackageError; a file that is gone is an OSError, which condemns nothing.
Recheck(s) ==
    LET now == file[job[s].pkg] IN
    /\ pc[s] = "stream"
    /\ ~MoreToRead(s)
    /\ Goto(s, IF now = job[s].sha THEN "reconcile" ELSE IF now = None THEN "raise" ELSE "fail")
    /\ UNCHANGED <<tables, lock, file, work, budgets>>

\* reconcile compares what was streamed with what is stored, by counts.
Reconcile(s) ==
    LET c == cap[s]
        members == Members[stream[s]]
        counts == <<Len(members), Cardinality(NoticesIn(members)), Cardinality(RowsOf(c))>>
        ok == /\ counts[3] = counts[2] /\ counts[2] = counts[1]
              /\ ReferencesOfRows(RowsOf(c)) = ReferencesOfArchive(stream[s])
    IN
    /\ pc[s] = "reconcile"
    /\ captures' = [captures EXCEPT
            ![c].counts = counts,
            ![c].status = IF ok /\ @ \in {"acquiring", "loading"} THEN "loaded" ELSE @]
    /\ Goto(s, IF ok THEN "publish" ELSE "fail")
    /\ UNCHANGED <<batches, rows, pointer, lock, file, work, budgets>>

ReadyToPublish(c) ==
    LET n == captures[c].counts
    IN  captures[c].status = "loaded" /\ n[3] = n[2] /\ n[2] = n[1]

\* publish: supersede the prior capture, swap the pointer and mark this one, in
\* one transaction.  A capture that is not ready is an error the load reports.
Publish(s) ==
    LET c == cap[s]
        p == captures[c].pkg
    IN
    /\ pc[s] = "publish"
    /\ IF ReadyToPublish(c)
       THEN /\ captures' = [d \in DOMAIN captures |->
                    IF d = c THEN [captures[d] EXCEPT !.status = "published"]
                    ELSE IF d = pointer[p] THEN [captures[d] EXCEPT !.status = "superseded"]
                    ELSE captures[d]]
            /\ pointer' = [pointer EXCEPT ![p] = c]
       ELSE UNCHANGED <<captures, pointer>>
    /\ Goto(s, "return")
    /\ UNCHANGED <<batches, rows, lock, file, work, budgets>>

\* fail_capture: terminal for everything that was not published.
Fail(s) ==
    /\ pc[s] = "fail"
    /\ captures' = [captures EXCEPT ![cap[s]].status = IF @ = "published" THEN @ ELSE "failed"]
    /\ Goto(s, "return")
    /\ UNCHANGED <<batches, rows, pointer, lock, file, work, budgets>>

\* load_package gives back its one acquisition, with a result or an exception.
Finish(s) ==
    /\ pc[s] \in {"return", "raise"}
    /\ GiveLock(s, job[s].pkg)
    /\ Goto(s, "idle")
    /\ Forget(s)
    /\ UNCHANGED <<tables, file, budgets>>

\* The server cancels a statement and rolls its transaction back.  Around the
\* stream and the publish that is reported in a LoadResult, or raised when the
\* result cannot be read; elsewhere it is raised.
DbError(s) ==
    /\ faults < MaxFaults
    /\ faults' = faults + 1
    /\ \/ /\ pc[s] \in {"stream", "reconcile", "publish"}
          /\ Goto(s, "return")
       \/ /\ pc[s] \in {"decide", "prepare", "stream", "reconcile", "publish", "fail"}
          /\ Goto(s, "raise")
    /\ UNCHANGED <<tables, lock, file, work, crashes, swaps>>

-----------------------------------------------------------------------------
(* The environment *)

\* The process dies or its connection breaks: its memory and its transaction
\* are gone, its locks are not until the server notices.
Crash(s) ==
    /\ pc[s] \notin {"idle", "dead"}
    /\ crashes < MaxCrashes
    /\ crashes' = crashes + 1
    /\ Goto(s, "dead")
    /\ Forget(s)
    /\ UNCHANGED <<tables, lock, file, faults, swaps>>

\* Variant: what a session locked outlives it, as a row of a lock table would.
ReapKeepingLocks(s) ==
    /\ pc[s] = "dead"
    /\ Goto(s, "idle")
    /\ UNCHANGED <<tables, lock, file, work, budgets>>

\* The server ends the session, which releases every lock it held.
Reap(s) ==
    /\ pc[s] = "dead"
    /\ owner' = [p \in Package |-> IF owner[p] = s THEN None ELSE owner[p]]
    /\ depth' = [p \in Package |-> IF owner[p] = s THEN 0 ELSE depth[p]]
    /\ Goto(s, "idle")
    /\ UNCHANGED <<tables, file, work, budgets>>

\* Another program replaces or removes the archive file.
SwapFile(p) ==
    /\ swaps < MaxSwaps
    /\ swaps' = swaps + 1
    /\ \E a \in Archive \cup {None} :
        /\ <<file[p], a>> \in Swaps
        /\ file' = [file EXCEPT ![p] = a]
    /\ UNCHANGED <<tables, lock, pc, work, crashes, faults>>

-----------------------------------------------------------------------------

\* What the process does on its own once it has been started.
Advance(s) ==
    \/ Acquire(s) \/ RefuseBusy(s)
    \/ DecideResume(s) \/ DecideReplay(s) \/ DecideNew(s)
    \/ Prepare(s)
    \/ ReadFails(s) \/ SkipBatch(s) \/ LoadBatch(s) \/ LoadDuplicate(s)
    \/ Recheck(s) \/ Reconcile(s) \/ Publish(s) \/ Fail(s) \/ Finish(s)

Start(s) == \E p \in Package, r \in Requests : StartLoad(s, p, r)

Next ==
    \/ \E s \in Session : Start(s) \/ Advance(s) \/ DbError(s) \/ Crash(s) \/ Reap(s)
    \/ \E p \in Package : SwapFile(p)

Spec == Init /\ [][Next]_vars

\* A live process keeps executing and the server eventually notices a dead one.
Fairness == \A s \in Session : WF_vars(Advance(s)) /\ WF_vars(Reap(s))

\* Somebody keeps asking for the load, as the scheduler's retries do.
RetryFairness == \A s \in Session : WF_vars(Start(s))

FairSpec == Spec /\ Fairness
RetrySpec == FairSpec /\ RetryFairness

-----------------------------------------------------------------------------
(* Properties *)

\* No two sessions are ever inside the locked part of load_package for the same
\* package: everything from the decision to the publish is one session's.
WorkIsExclusive ==
    \A s, t \in Session :
        (s # t /\ pc[s] \in Holding /\ pc[t] \in Holding) => job[s].pkg # job[t].pkg

\* The rows a load of archive a into capture c leaves when nothing interrupts it.
CleanRun(c, a) ==
    {[capture |-> c, notice |-> Members[a][i], from |-> a,
      batch |-> (i - 1) \div captures[c].batch] : i \in DOMAIN Members[a]}

\* Whatever the pointer shows is a published capture that holds exactly what an
\* uninterrupted load of its recorded artifact would have stored: no row missing
\* or left over from a resumed load, none projected from other bytes.
PublishedIsWholeArtifact ==
    \A p \in Package : pointer[p] # 0 =>
        LET c == pointer[p] IN
        /\ captures[c].pkg = p
        /\ captures[c].status = "published"
        /\ RowsOf(c) = CleanRun(c, captures[c].sha)

\* The published capture of a package is only ever replaced by one acquired
\* later, whichever sessions finish in whatever order.
PointerMovesForward ==
    [][\A p \in Package : pointer'[p] # pointer[p] => pointer'[p] > pointer[p]]_vars

\* What tl_read.notice shows of a package.
Visible(p) == {<<r.notice, r.from>> : r \in RowsOf(pointer[p])}

Readers == INSTANCE PublishedNotices WITH
    edition <- pointer, shown <- [p \in Package |-> Visible(p)]

\* Through resumes, failures, deaths and concurrent loads, a reader of a package
\* sees whole archives only, one after the other and never an earlier one again.
ReadersSeeWholeEditions == Readers!Spec

Settled(c) == captures[c].status \notin OpenStatus \/ ~IsLatest(c)

\* A capture that ended, or that a later acquisition overtook, keeps its rows,
\* its counts and its status for good, except that a published one may become
\* superseded: it is never resumed, reopened or condemned after the fact.
SettledIsLeftAlone ==
    [][\A c \in DOMAIN captures : Settled(c) =>
        /\ RowsOf(c)' = RowsOf(c)
        /\ \/ captures'[c] = captures[c]
           \/ /\ captures[c].status = "published"
              /\ captures'[c] = [captures[c] EXCEPT !.status = "superseded"]]_vars

\* Every member can be read and no identity comes twice.
WellFormed(a) ==
    /\ Unreadable \notin NoticesIn(Members[a])
    /\ Cardinality(NoticesIn(Members[a])) = Len(Members[a])

\* A capture is condemned for its artifact, or because the file was replaced under
\* a load: no crash, cancelled statement, concurrent load or resume with another
\* batch size than the capture was begun with ever costs a good archive its capture.
OnlyDefectsCondemn ==
    [][\A c \in DOMAIN captures :
        (captures[c].status # "failed" /\ captures'[c].status = "failed")
            => ~WellFormed(captures[c].sha) \/ swaps > 0]_vars

-----------------------------------------------------------------------------
(* The inductive invariant behind the properties above *)

\* The steps at which a session works on an open capture it has chosen.
Working == {"prepare", "stream", "reconcile", "publish", "fail"}

SessionShape ==
    \A s \in Session :
        /\ pc[s] \in Holding \cup {"begin"} => job[s] \in Job
        /\ pc[s] \in {"stream", "reconcile"} => stream[s] \in Archive

\* A session inside the locked part owns its package's lock, and the count of
\* acquisitions says whether there is an owner.
LockShape ==
    /\ \A s \in Session : pc[s] \in Holding => owner[job[s].pkg] = s
    /\ \A p \in Package : depth[p] = 0 <=> owner[p] = None

\* What a session works on is its package's latest acquisition, still open.
WorkShape ==
    \A s \in Session : pc[s] \in Working =>
        /\ cap[s] \in CapturesOf(job[s].pkg)
        /\ IsLatest(cap[s])
        /\ captures[cap[s]].status \in OpenStatus

\* The pointer and the published status say the same thing.
PointerShape ==
    /\ \A p \in Package : pointer[p] # 0 =>
        pointer[p] \in CapturesOf(p) /\ captures[pointer[p]].status = "published"
    /\ \A c \in DOMAIN captures :
        captures[c].status = "published" => pointer[captures[c].pkg] = c

\* Loads keep these, whoever else takes and gives back the same locks beside them.
StoreInv == TypeOK /\ SessionShape /\ LockShape /\ WorkShape /\ PointerShape

\* Where only loads take it, a lock is held once, by the session that is at work
\* under it or that died there and has not been reaped: nobody leaks one.
OwnersWork ==
    \A p \in Package : owner[p] # None =>
        /\ depth[p] = 1
        /\ \/ pc[owner[p]] = "dead"
           \/ pc[owner[p]] \in Holding /\ job[owner[p]].pkg = p

IInv == StoreInv /\ OwnersWork

\* What a reader of the file relies on: some order that every replacement goes along and
\* in which no two archives come after each other, so that an archive that another one
\* replaced never comes back.  A file that vanishes may come back as it was.
Contents == Archive \cup {None}
Ordered(later) ==
    /\ \A a, b \in Archive : <<a, b>> \in later /\ <<b, a>> \in later => a = b
    /\ \A a, b, c \in Contents : <<a, b>> \in later /\ <<b, c>> \in later => <<a, c>> \in later

ForwardOnly(later) == Swaps \subseteq later /\ Ordered(later)

NothingReturns == \E later \in SUBSET (Contents \X Contents) : ForwardOnly(later)

Follows(later, a, b) == a = b \/ <<a, b>> \in later

\* The digest a call took, the file it has open and the file now, in that order.
FileMovesOn(later, s) ==
    /\ pc[s] \in Holding \cup {"begin"} => Follows(later, job[s].sha, file[job[s].pkg])
    /\ pc[s] = "stream" =>
        /\ Follows(later, job[s].sha, stream[s])
        /\ Follows(later, stream[s], file[job[s].pkg])

\* So are the bytes a capture is of, those a row of it came from and the file: with
\* rows of other bytes than its own, the file has moved on for good.
RowsOfLaterFiles(later) ==
    \A r \in rows :
        /\ r.capture \in DOMAIN captures
        /\ Follows(later, captures[r.capture].sha, r.from)
        /\ Follows(later, r.from, file[captures[r.capture].pkg])

\* Where the members of an archive go, and what a batch on record stands for.
RowShape ==
    \A r \in rows : \E i \in DOMAIN Members[r.from] :
        /\ r.notice = Members[r.from][i]
        /\ r.batch = (i - 1) \div captures[r.capture].batch

BatchHolds(c, o) ==
    LET b == captures[c].batch IN
    /\ c \in DOMAIN captures
    /\ \E a \in Archive :
        /\ o * b < Len(Members[a])
        /\ BatchRows(c, o, a, Slice(Members[a], b, o)) \subseteq rows

BatchShape == \A x \in batches : BatchHolds(x[1], x[2])

\* How far a session is with its capture.
ReadIsFounded(s) ==
    LET c == cap[s] IN
    /\ pc[s] \in {"idle", "dead", "begin", "decide", "prepare"} =>
        done[s] = {} /\ next[s] = 0
    /\ pc[s] \in {"prepare", "stream", "reconcile"} =>
        /\ captures[c].sha = job[s].sha
        /\ captures[c].batch # 0
        /\ captures[c].status \in {"acquiring", "loading"}
    /\ pc[s] = "stream" =>
        \A o \in done[s] \cup 0..(next[s] - 1) : <<c, o>> \in batches
    /\ pc[s] = "reconcile" => stream[s] = job[s].sha /\ RowsOf(c) = CleanRun(c, job[s].sha)

LoadedShape ==
    \A c \in DOMAIN captures : captures[c].status \in {"loaded", "published", "superseded"} =>
        RowsOf(c) = CleanRun(c, captures[c].sha)

RInv(later) ==
    /\ \A s \in Session : FileMovesOn(later, s) /\ ReadIsFounded(s)
    /\ RowsOfLaterFiles(later) /\ RowShape /\ BatchShape /\ LoadedShape

\* What reconcile counted is what the artifact on record holds.
CountsShape ==
    \A c \in DOMAIN captures : captures[c].status \in {"loaded", "published", "superseded"} =>
        captures[c].counts[2] = Cardinality(NoticesIn(Members[captures[c].sha]))

\* A session knows the batches of its capture that are still ahead of it: whatever it
\* inserts, it inserts for the first time.
KnowsItsBatches(s) ==
    \A x \in batches : x[1] = cap[s] =>
        /\ ~(pc[s] = "prepare" /\ ~resumed[s])
        /\ pc[s] = "stream" /\ x[2] >= next[s] => x[2] \in done[s]

\* And it gives up on its capture because of the archive.
FailIsADefect(s) == pc[s] = "fail" => ~WellFormed(captures[cap[s]].sha)

\* Rows are committed with their batch.
RowsAreOfBatches == \A r \in rows : <<r.capture, r.batch>> \in batches

KnownInv ==
    /\ RowsAreOfBatches
    /\ \A s \in Session : KnowsItsBatches(s) /\ FailIsADefect(s)

\* While no file was replaced, what was read is what is there: RInv without any order.
UndisturbedInv == swaps = 0 => RInv({}) /\ KnownInv

-----------------------------------------------------------------------------
(* Liveness *)

\* When a readable archive stays in place and somebody keeps retrying, crashes
\* and cancelled statements only delay the day it is published.
RetriesPublish == \A p \in Package : <>[](pointer[p] # 0)
=============================================================================
