------------------------------- MODULE ManifestRun -------------------------------
(***************************************************************************)
(* One orchestrated run of a manifest: the tasks of the Dag                *)
(* (dags/tender_ledger_manifest.py, orchestration.py), the command they    *)
(* run as a child process (__main__.py, manifest_runner.py) and the        *)
(* document it works through (manifest.py).  Packages are ingested as the  *)
(* module Ingest describes; here one call either seals or finds a current  *)
(* checkpoint, or does not.                                                *)
(*                                                                         *)
(* Meanwhile the manifest file may be edited, the schema upgraded, and     *)
(* other sessions may seal or retire checkpoints.  The task's process may  *)
(* be lost, and with it or without it the command it waits for.            *)
(***************************************************************************)
EXTENDS Migrations, PackageContract

CONSTANTS
    Documents,      \* what the manifest file may hold
    None,
    MaxEdits, MaxRetired, MaxLosses     \* bounds: edits, retirements, lost processes

MANIFEST_VERSION == 1

-----------------------------------------------------------------------------
(* The manifest (manifest.py).  Two documents that are not equal have      *)
(* different digests.                                                      *)

ValidEntry(e, position) ==
    /\ e.order = position
    /\ Supported(e.source_package_id)
    /\ e.notice_count_observed >= 0

Valid(d) ==
    /\ d.manifest_version = MANIFEST_VERSION
    /\ d.packages \in Seq(Range(d.packages)) \ {<<>>}       \* an array, and not empty
    /\ \A i \in DOMAIN d.packages : ValidEntry(d.packages[i], i)
    /\ \A i, j \in DOMAIN d.packages :
        d.packages[i].source_package_id = d.packages[j].source_package_id => i = j

Identities(d) == [i \in DOMAIN d.packages |-> d.packages[i].source_package_id]

\* What the documents that pass name between them.
Packages == UNION {Range(Identities(d)) : d \in {d \in Documents : Valid(d)}}

ASSUME ManifestAssumption ==
    /\ None \notin Documents
    /\ \A d \in Documents : DOMAIN d = {"manifest_version", "packages"}
    /\ MaxEdits \in Nat /\ MaxRetired \in Nat /\ MaxLosses \in Nat

VARIABLES
    manifest,       \* the file, at the path the run was given
    current,        \* package_ingest_status.checkpoint_is_current
    retired,        \* packages whose checkpoint another session has retired
    report,         \* the file under the run's report name
    command,        \* [1..2 -> the command that a try of ingest_manifest started]
    plan,           \* what validate_manifest returned
    wanted,         \* the manifest that summarize_run has read again
    task, try, at,  \* the run's unfinished task, its try, and how far it is
    edits, losses

files == <<manifest, edits, report>>
airflow == <<plan, wanted, task, try, at, losses>>
vars == <<schema, files, airflow, current, retired, command>>

Commands == 1..2

Outcome == {"processed", "incomplete", "error"}     \* replayed counts as processed
EntryReport == [source_package_id : Packages, outcome : Outcome, checkpoint_is_current : BOOLEAN]

\* All that a finished report says, and what a command has of it so far.
NoReport == [sha256 |-> None, status |-> "completed", entries |-> <<>>]
NoCommand == [at |-> "none", doc |-> None, status |-> "completed", entries |-> <<>>, exit |-> 0]

ReportOf(c) == [sha256 |-> command[c].doc, status |-> command[c].status,
                entries |-> command[c].entries]

\* The entry a command is at; and whether a session of it, alive or not, holds the lock
\* of a package.
EntryAt(c) == command[c].doc.packages[Len(command[c].entries) + 1].source_package_id
Holds(c, p) == command[c].at \in {"inside", "dead"} /\ EntryAt(c) = p
Free(p) == \A c \in Commands : ~Holds(c, p)

IsReport(r) ==
    /\ r.sha256 \in Documents \cup {None}
    /\ r.status \in {"completed", "failed"}
    /\ r.entries \in Seq(EntryReport)

TypeOK ==
    /\ MTypeOK
    /\ manifest \in Documents /\ edits \in 0..MaxEdits
    /\ current \in [Packages -> BOOLEAN] /\ retired \subseteq Packages
    /\ IsReport(report)
    /\ \A c \in Commands :
        /\ command[c].at \in {"none", "started", "entry", "inside", "report", "exited", "dead"}
        /\ IsReport(ReportOf(c))
        /\ command[c].exit \in 0..1
    /\ plan \in Documents \cup {None} /\ wanted \in Documents \cup {None}
    /\ task \in {"validate", "ingest", "summarize", "success", "failed"}
    /\ try \in 1..2
    /\ at \in {"ready", "command", "manifest", "status"}
    /\ losses \in 0..MaxLosses

Init ==
    /\ MInit
    /\ manifest \in Documents /\ edits = 0
    /\ current \in [Packages -> BOOLEAN] /\ retired = {}
    /\ report = NoReport
    /\ command = [c \in Commands |-> NoCommand]
    /\ plan = None /\ wanted = None /\ task = "validate" /\ try = 1 /\ at = "ready"
    /\ losses = 0

-----------------------------------------------------------------------------
(* ingest-manifest *)

SetCommand(c, r) == command' = [command EXCEPT ![c] = r]

\* Variant: the document is not compared with the one that was validated.
AcceptedUnseen(d) == Valid(d)

\* load_manifest, and --expected-manifest-sha256.
Accepted(d) == Valid(d) /\ d = plan

LoadManifest(c) ==
    /\ command[c].at = "started"
    /\ SetCommand(c, IF Accepted(manifest)
                     THEN [command[c] EXCEPT !.at = "entry", !.doc = manifest]
                     ELSE [command[c] EXCEPT !.at = "exited", !.exit = 1])
    /\ UNCHANGED <<schema, files, airflow, current, retired>>

\* Variant: a current checkpoint is enough.
ProcessedIfCurrent(e) == e.checkpoint_is_current

\* The outcome and the checkpoint both have to say so.
Processed(e) == e.checkpoint_is_current /\ e.outcome = "processed"

\* What run_manifest does with an entry: the last one, or one that is not a completed
\* package, is the end of it.
Entered(c, outcome, is_current) ==
    LET e == [source_package_id |-> EntryAt(c), outcome |-> outcome,
              checkpoint_is_current |-> is_current]
        entries == Append(command[c].entries, e)
    IN SetCommand(c, [command[c] EXCEPT
            !.entries = entries,
            !.status = IF Processed(e) THEN @ ELSE "failed",
            !.at = IF Processed(e) /\ Len(entries) < Len(command[c].doc.packages)
                   THEN "entry" ELSE "report"])

\* Connecting, the schema, or the package's lock.
CannotEnter(c) ==
    /\ command[c].at = "entry"
    /\ Entered(c, "error", FALSE)
    /\ UNCHANGED <<schema, files, airflow, current, retired>>

Enter(c) ==
    /\ command[c].at = "entry"
    /\ SchemaReady /\ Free(EntryAt(c))
    /\ SetCommand(c, [command[c] EXCEPT !.at = "inside"])
    /\ UNCHANGED <<schema, files, airflow, current, retired>>

\* ingest_package seals, or replays what is sealed.
Seal(c) ==
    /\ command[c].at = "inside"
    /\ current' = [current EXCEPT ![EntryAt(c)] = TRUE]
    /\ Entered(c, "processed", TRUE)
    /\ UNCHANGED <<schema, files, airflow, retired>>

\* It returns without: an older checkpoint may be current all the same.
StopShort(c) ==
    /\ command[c].at = "inside"
    /\ Entered(c, "incomplete", current[EntryAt(c)])
    /\ UNCHANGED <<schema, files, airflow, current, retired>>

\* It raises, before the seal or, with the connection lost, after it.
RaiseError(c) ==
    /\ command[c].at = "inside"
    /\ current' \in {current, [current EXCEPT ![EntryAt(c)] = TRUE]}
    /\ Entered(c, "error", FALSE)
    /\ UNCHANGED <<schema, files, airflow, retired>>

\* What an ended command leaves behind: its exit code.
Exited(c, code) == SetCommand(c, [NoCommand EXCEPT !.at = "exited", !.exit = code])

\* write_report_file replaces the report in one step.
WriteReport(c) ==
    /\ command[c].at = "report"
    /\ report' = ReportOf(c)
    /\ Exited(c, IF command[c].status = "completed" THEN 0 ELSE 1)
    /\ UNCHANGED <<schema, manifest, edits, airflow, current, retired>>

CannotWrite(c) ==
    /\ command[c].at = "report"
    /\ Exited(c, 1)
    /\ UNCHANGED <<schema, files, airflow, current, retired>>

\* The server notices that the session of a killed command is gone; its seal may have
\* been on the way.
Reap(c) ==
    /\ command[c].at = "dead"
    /\ current' \in {current, [current EXCEPT ![EntryAt(c)] = TRUE]}
    /\ SetCommand(c, NoCommand)
    /\ UNCHANGED <<schema, files, airflow, retired>>

Running(c) == command[c].at \in {"started", "entry", "inside", "report"}

\* SIGKILL: nothing of the command remains but, inside a package, its session.
Killed(c) ==
    SetCommand(c, IF command[c].at = "inside" THEN [command[c] EXCEPT !.at = "dead"]
                  ELSE NoCommand)

-----------------------------------------------------------------------------
(* The tasks *)

\* Variant: one retry too many.
RetriesPlusOne == [validate |-> 0, ingest |-> 2, summarize |-> 2]

\* validate_manifest is not retried, the others are, once.
Retries == [validate |-> 0, ingest |-> 1, summarize |-> 1]

TryAgain ==
    /\ IF try <= Retries[task]
       THEN try' = try + 1 /\ UNCHANGED task
       ELSE task' = "failed" /\ UNCHANGED try
    /\ at' = "ready" /\ wanted' = None
    /\ UNCHANGED plan

FailTask == TryAgain /\ UNCHANGED losses

SucceedTask(next) ==
    /\ task' = next /\ try' = 1 /\ at' = "ready" /\ wanted' = None
    /\ UNCHANGED losses

ValidateManifest ==
    /\ task = "validate"
    /\ IF Valid(manifest) THEN SucceedTask("ingest") /\ plan' = manifest ELSE FailTask
    /\ UNCHANGED <<schema, files, current, retired, command>>

StartCommand ==
    /\ task = "ingest" /\ at = "ready"
    /\ SetCommand(try, [NoCommand EXCEPT !.at = "started"])
    /\ at' = "command"
    /\ UNCHANGED <<schema, files, plan, wanted, task, try, losses, current, retired>>

CommandReturns ==
    /\ task = "ingest" /\ at = "command"
    /\ command[try].at = "exited"
    /\ IF command[try].exit = 0 THEN SucceedTask("summarize") /\ UNCHANGED plan ELSE FailTask
    /\ SetCommand(try, NoCommand)
    /\ UNCHANGED <<schema, files, current, retired>>

\* Variant: the command is run without a timeout.
NoTimeOut == FALSE

\* run_command kills what it started, and fails.
TimeOut ==
    /\ task = "ingest" /\ at = "command"
    /\ Running(try)
    /\ Killed(try)
    /\ FailTask
    /\ UNCHANGED <<schema, files, current, retired>>

\* summarize_report.
Summarizes(r) ==
    /\ r.sha256 = plan
    /\ r.status = "completed"
    /\ Len(r.entries) = Len(plan.packages)
    /\ \A e \in Range(r.entries) : e.outcome = "processed" /\ e.checkpoint_is_current

ReadReport ==
    /\ task = "summarize" /\ at = "ready"
    /\ IF Summarizes(report)
       THEN at' = "manifest" /\ UNCHANGED <<plan, wanted, task, try, losses>>
       ELSE FailTask
    /\ UNCHANGED <<schema, files, current, retired, command>>

\* Variant: the file is read again, but not compared.
UnchangedUnseen(d) == Valid(d)

Unchanged(d) == Valid(d) /\ d = plan

\* The packages to ask for are read from the file again.
ReadManifest ==
    /\ task = "summarize" /\ at = "manifest"
    /\ IF Unchanged(manifest)
       THEN wanted' = manifest /\ at' = "status" /\ UNCHANGED <<plan, task, try, losses>>
       ELSE FailTask
    /\ UNCHANGED <<schema, files, current, retired, command>>

\* checkpoint_summary.
Confirmed(d) == SchemaReady /\ \A p \in Range(Identities(d)) : current[p]

ReadStatus ==
    /\ task = "summarize" /\ at = "status"
    /\ IF Confirmed(wanted) THEN SucceedTask("success") /\ UNCHANGED plan ELSE FailTask
    /\ UNCHANGED <<schema, files, current, retired, command>>

\* A task that cannot connect, or whose process is lost and found missing.  A command
\* that it started dies too, or goes on beside the next try.
LoseTask ==
    /\ task \in {"validate", "ingest", "summarize"}
    /\ losses < MaxLosses
    /\ losses' = losses + 1
    /\ TryAgain
    /\ \/ UNCHANGED command
       \/ at = "command" /\ Running(try) /\ Killed(try)
    /\ UNCHANGED <<schema, files, current, retired>>

-----------------------------------------------------------------------------
(* The surroundings *)

Edit ==
    /\ edits < MaxEdits
    /\ edits' = edits + 1
    /\ manifest' \in Documents \ {manifest}
    /\ UNCHANGED <<schema, report, airflow, current, retired, command>>

\* A recapture, or a coverage check that no longer agrees; both take the package's lock.
Retire(p) ==
    /\ current[p] /\ Free(p)
    /\ Cardinality(retired) < MaxRetired
    /\ current' = [current EXCEPT ![p] = FALSE]
    /\ retired' = retired \cup {p}
    /\ UNCHANGED <<schema, files, airflow, command>>

\* Another session ingests the package.
SealElsewhere(p) ==
    /\ ~current[p] /\ Free(p)
    /\ current' = [current EXCEPT ![p] = TRUE]
    /\ UNCHANGED <<schema, files, airflow, retired, command>>

UpgradeSchema == Migrate /\ UNCHANGED <<files, airflow, current, retired, command>>

-----------------------------------------------------------------------------

Command(c) ==
    \/ LoadManifest(c) \/ CannotEnter(c) \/ Enter(c) \/ Seal(c) \/ StopShort(c) \/ RaiseError(c)
    \/ WriteReport(c) \/ CannotWrite(c) \/ Reap(c)

Tasks ==
    \/ ValidateManifest \/ StartCommand \/ CommandReturns \/ TimeOut
    \/ ReadReport \/ ReadManifest \/ ReadStatus

Next ==
    \/ \E c \in Commands : Command(c)
    \/ Tasks \/ LoseTask \/ Edit \/ UpgradeSchema
    \/ \E p \in Packages : Retire(p) \/ SealElsewhere(p)

\* Airflow goes on with a run, and the clock with it; a command may hang anywhere, and an
\* orphan for good.
Spec == Init /\ [][Next]_vars /\ WF_vars(Tasks)

-----------------------------------------------------------------------------
(* Properties *)

Good(e) == e.checkpoint_is_current /\ e.outcome \notin {"incomplete", "error"}

\* A report, finished or in the making, goes through the manifest in order and past no
\* package but a completed one; a finished one is "completed" only if it got to the end.
\* And it says no more than the database did: a package it calls processed has a current
\* checkpoint, or had one until somebody else retired it.
ReportIsTrue ==
    \A r \in {report} \cup {ReportOf(c) : c \in Commands} :
        r.sha256 # None =>
            LET ids == Identities(r.sha256)  n == Len(r.entries) IN
            /\ n <= Len(ids)
            /\ \A i \in 1..n :
                LET e == r.entries[i] IN
                /\ e.source_package_id = ids[i]
                /\ i < n => Good(e)
                /\ r.status = "completed" => Good(e)
                /\ Good(e) => current[ids[i]] \/ ids[i] \in retired
            /\ r = report /\ r.status = "completed" => n = Len(ids)
            /\ r.status = "failed" => n > 0 /\ ~Good(r.entries[n])

\* Whatever the file is edited into while the tasks go on, and however many commands of
\* the run are alive, they only ever work through the document that was validated.
WorkIsPlanned ==
    /\ \A c \in Commands : command[c].doc \in {None, plan}
    /\ report.sha256 \in {None, plan}

\* What makes it inductive: while a run validates, no command of it exists.
CommandsHaveShape ==
    /\ DOMAIN command = Commands
    /\ \A c \in Commands : DOMAIN command[c] = DOMAIN NoCommand

NothingYet ==
    task = "validate" =>
        /\ \A c \in Commands : command[c].at = "none" /\ command[c].doc = None
        /\ report.sha256 = None

PlanInv == CommandsHaveShape /\ NothingYet /\ WorkIsPlanned

\* A run succeeds only while every package of the document that was validated first has a
\* current checkpoint, after its own command went through all of them: not by the word of
\* a report, an older document, or packages that somebody retired meanwhile.
SuccessIsConfirmed ==
    [][task # "success" /\ task' = "success" =>
        /\ \A p \in Range(Identities(plan)) : current[p]
        /\ report.sha256 = plan]_vars

\* A run ends, and frees the one slot for runs, though its command may hang.
RunEnds == <>(task \in {"success", "failed"})
=============================================================================
