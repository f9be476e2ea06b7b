---------------------------- MODULE ManifestRunProofs ----------------------------
(***************************************************************************)
(* What holds of a run because it holds of its parts.                      *)
(***************************************************************************)
EXTENDS ManifestRun, MigrationsProofs

\* No command and no task touches the schema.
LEMMA CommandsKeepSchema == ASSUME NEW c \in Commands, Command(c) PROVE UNCHANGED schema
<1> USE DEF schema
<1>1. CASE LoadManifest(c)
  BY <1>1 DEF LoadManifest
<1>2. CASE CannotEnter(c) \/ Enter(c)
  BY <1>2 DEF CannotEnter, Enter
<1>3. CASE Seal(c) \/ StopShort(c) \/ RaiseError(c)
  BY <1>3 DEF Seal, StopShort, RaiseError
<1>4. CASE WriteReport(c) \/ CannotWrite(c) \/ Reap(c)
  BY <1>4 DEF WriteReport, CannotWrite, Reap
<1> QED
  BY <1>1, <1>2, <1>3, <1>4 DEF Command

\* The tasks of the graph run no migration.
LEMMA TasksKeepSchema == ASSUME Tasks \/ LoseTask PROVE UNCHANGED schema
<1> USE DEF schema
<1>1. CASE ValidateManifest \/ StartCommand
  BY <1>1 DEF ValidateManifest, StartCommand
<1>2. CASE CommandReturns \/ TimeOut
  BY <1>2 DEF CommandReturns, TimeOut
<1>3. CASE ReadReport \/ ReadManifest \/ ReadStatus
  BY <1>3 DEF ReadReport, ReadManifest, ReadStatus
<1>4. CASE LoseTask
  BY <1>4 DEF LoseTask
<1> QED
  BY <1>1, <1>2, <1>3, <1>4 DEF Tasks

\* A run beside upgrades is, for the schema, those upgrades.
LEMMA RunIsUpgrades == [Next]_vars => [Migrate]_schema
<1> SUFFICES ASSUME [Next]_vars PROVE [Migrate]_schema
  OBVIOUS
<1>1. ASSUME NEW c \in Commands, Command(c) PROVE UNCHANGED schema
  BY <1>1, CommandsKeepSchema
<1>2. CASE Tasks \/ LoseTask
  BY <1>2, TasksKeepSchema
<1>3. CASE Edit
  BY <1>3 DEF Edit
<1>4. CASE UpgradeSchema
  BY <1>4 DEF UpgradeSchema
<1>5. ASSUME NEW p \in Packages, Retire(p) \/ SealElsewhere(p) PROVE UNCHANGED schema
  BY <1>5 DEF Retire, SealElsewhere
<1>6. CASE UNCHANGED vars
  BY <1>6 DEF vars
<1> QED
  BY <1>1, <1>2, <1>3, <1>4, <1>5, <1>6 DEF Next

\* The schema that the commands and tasks of a run meet is at every moment what an
\* uninterrupted upgrade leaves (db/__init__.py, migrate).
THEOREM SchemaInOrder == Spec => []SchemaIsPrefix
<1>1. Init => MInit
  BY DEF Init
<1> QED
  BY <1>1, RunIsUpgrades, UpgradesInOrder, PTL DEF Spec, MSpec

-----------------------------------------------------------------------------

\* Before the first task there is no plan.
LEMMA PlanInit == Init => PlanInv
  BY DEF Init, NoCommand, NoReport, PlanInv, CommandsHaveShape, NothingYet, WorkIsPlanned

\* A command only changes its own record, and its document only to the one planned.
LEMMA CommandEffect ==
    ASSUME CommandsHaveShape, NEW c \in Commands, Command(c)
    PROVE  /\ command[c].at # "none"
           /\ UNCHANGED <<task, plan>>
           /\ DOMAIN command' = Commands
           /\ \A o \in Commands \ {c} : command'[o] = command[o]
           /\ DOMAIN command'[c] = DOMAIN NoCommand
           /\ command'[c].doc \in {None, plan, command[c].doc}
           /\ report'.sha256 \in {report.sha256, command[c].doc}
<1> USE DEF CommandsHaveShape, NoCommand, SetCommand, airflow, files
<1>1. CASE LoadManifest(c)
  BY <1>1 DEF LoadManifest, Accepted
<1>2. CASE CannotEnter(c)
  BY <1>2 DEF CannotEnter, Entered
<1>3. CASE Enter(c)
  BY <1>3 DEF Enter
<1>4. CASE Seal(c)
  BY <1>4 DEF Seal, Entered
<1>5. CASE StopShort(c)
  BY <1>5 DEF StopShort, Entered
<1>6. CASE RaiseError(c)
  BY <1>6 DEF RaiseError, Entered
<1>7. CASE WriteReport(c)
  BY <1>7 DEF WriteReport, Exited, ReportOf
<1>8. CASE CannotWrite(c)
  BY <1>8 DEF CannotWrite, Exited
<1>9. CASE Reap(c)
  BY <1>9 DEF Reap
<1> QED
  BY <1>1, <1>2, <1>3, <1>4, <1>5, <1>6, <1>7, <1>8, <1>9 DEF Command

\* No command of the command line rewrites what the first task validated.
LEMMA CommandKeepsPlan == ASSUME PlanInv, NEW c \in Commands, Command(c) PROVE PlanInv'
<1> USE DEF PlanInv
<1>1. task # "validate" /\ task' = task
  BY CommandEffect DEF NothingYet
<1>2. CommandsHaveShape'
  BY CommandEffect DEF CommandsHaveShape
<1>3. WorkIsPlanned'
  BY CommandEffect DEF WorkIsPlanned
<1> QED
  BY <1>1, <1>2, <1>3 DEF NothingYet

\* A task that starts, leaves or kills commands gives none of them a document.
LEMMA TaskKeepsPlan ==
    ASSUME PlanInv, UNCHANGED <<plan, report>>,
           task' = "validate" =>
               task = "validate" /\ \A c \in Commands : command'[c] = command[c],
           \/ UNCHANGED command
           \/ SetCommand(try, NoCommand)
           \/ SetCommand(try, [NoCommand EXCEPT !.at = "started"])
           \/ Killed(try)
    PROVE  PlanInv'
<1> USE DEF PlanInv
<1>1. CommandsHaveShape'
  BY DEF CommandsHaveShape, SetCommand, Killed, NoCommand
<1>2. NothingYet'
  BY DEF NothingYet
<1>3. \A c \in Commands : command'[c].doc \in {None, command[c].doc}
  BY DEF CommandsHaveShape, SetCommand, Killed, NoCommand
<1>4. WorkIsPlanned'
  BY <1>3 DEF WorkIsPlanned
<1> QED
  BY <1>1, <1>2, <1>4

\* How a task ends: validation is only the first.
LEMMA EndedTask ==
    ASSUME FailTask \/ (\E next \in {"summarize", "success"} : SucceedTask(next) /\ UNCHANGED plan)
    PROVE  UNCHANGED plan /\ (task' = "validate" => task = "validate")
  BY DEF FailTask, TryAgain, SucceedTask

\* Nor does a task of the graph, retried or lost, once the first has succeeded.
LEMMA TasksKeepPlan == ASSUME PlanInv, Tasks \/ LoseTask PROVE PlanInv'
<1>1. CASE ValidateManifest
  <2> USE <1>1 DEF ValidateManifest, files
  <2>1. CASE Valid(manifest)
    BY <2>1 DEF SucceedTask, PlanInv, CommandsHaveShape, NothingYet, WorkIsPlanned
  <2>2. CASE ~Valid(manifest)
    BY <2>2, EndedTask, TaskKeepsPlan
  <2> QED
    BY <2>1, <2>2
<1>2. CASE StartCommand
  BY <1>2, TaskKeepsPlan DEF StartCommand, files
<1>3. CASE CommandReturns
  <2>1. UNCHANGED plan /\ task' # "validate"
    BY <1>3, EndedTask DEF CommandReturns
  <2> QED
    BY <1>3, <2>1, TaskKeepsPlan DEF CommandReturns, files
<1>4. CASE TimeOut
  <2>1. UNCHANGED plan /\ task' # "validate"
    BY <1>4, EndedTask DEF TimeOut
  <2> QED
    BY <1>4, <2>1, TaskKeepsPlan DEF TimeOut, files
<1>5. CASE ReadReport
  <2>1. UNCHANGED plan /\ task' # "validate"
    BY <1>5, EndedTask DEF ReadReport
  <2> QED
    BY <1>5, <2>1, TaskKeepsPlan DEF ReadReport, files
<1>6. CASE ReadManifest
  <2>1. UNCHANGED plan /\ task' # "validate"
    BY <1>6, EndedTask DEF ReadManifest
  <2> QED
    BY <1>6, <2>1, TaskKeepsPlan DEF ReadManifest, files
<1>7. CASE ReadStatus
  <2>1. UNCHANGED plan /\ task' # "validate"
    BY <1>7, EndedTask DEF ReadStatus
  <2> QED
    BY <1>7, <2>1, TaskKeepsPlan DEF ReadStatus, files
<1>8. CASE LoseTask
  <2>1. UNCHANGED <<plan, report>> /\ (task' = "validate" => task = "validate")
    BY <1>8 DEF LoseTask, TryAgain, files
  <2>2. CASE UNCHANGED command
    BY <2>1, <2>2, TaskKeepsPlan
  <2>3. CASE Running(try) /\ Killed(try)
    <3>1. ASSUME task = "validate", NEW c \in Commands PROVE command'[c] = command[c]
      <4>1. c # try
        BY <2>3, <3>1 DEF PlanInv, NothingYet, Running
      <4> QED
        BY <2>3, <4>1 DEF PlanInv, CommandsHaveShape, Killed, SetCommand
    <3> QED
      BY <2>1, <2>3, <3>1, TaskKeepsPlan
  <2> QED
    BY <1>8, <2>2, <2>3 DEF LoseTask
<1> QED
  BY <1>1, <1>2, <1>3, <1>4, <1>5, <1>6, <1>7, <1>8 DEF Tasks

\* Every step keeps what is known of the plan.
LEMMA PlanStep == PlanInv /\ [Next]_vars => PlanInv'
<1> SUFFICES ASSUME PlanInv, [Next]_vars PROVE PlanInv'
  OBVIOUS
<1>1. ASSUME NEW c \in Commands, Command(c) PROVE PlanInv'
  BY <1>1, CommandKeepsPlan
<1>2. CASE Tasks \/ LoseTask
  BY <1>2, TasksKeepPlan
<1>3. ASSUME UNCHANGED <<command, report, plan, task>> PROVE PlanInv'
  BY <1>3 DEF PlanInv, CommandsHaveShape, NothingYet, WorkIsPlanned
<1>4. CASE Edit \/ UpgradeSchema \/ UNCHANGED vars
  BY <1>3, <1>4 DEF Edit, UpgradeSchema, vars, airflow, files
<1>5. ASSUME NEW p \in Packages, Retire(p) \/ SealElsewhere(p) PROVE PlanInv'
  BY <1>3, <1>5 DEF Retire, SealElsewhere, airflow, files
<1> QED
  BY <1>1, <1>2, <1>4, <1>5 DEF Next

\* Whatever the manifest file is edited into, and however many commands of a run are alive,
\* they work through the document that its first task validated, and the report is of no
\* other (__main__.py, the check of --expected-manifest-sha256).
THEOREM WorkFollowsPlan == Spec => []WorkIsPlanned
<1>1. PlanInv => WorkIsPlanned
  BY DEF PlanInv
<1> QED
  BY PlanInit, PlanStep, <1>1, PTL DEF Spec
-----------------------------------------------------------------------------
(* What the commands and the report of a run say.  A package is settled    *)
(* once it has had a current checkpoint: nothing takes that back.          *)

Settled == {p \in Packages : current[p] \/ p \in retired}

\* What the entries recorded so far may say of the document they go through.
Truthful(d, status, entries) ==
    LET ids == Identities(d)  n == Len(entries) IN
    /\ n <= Len(ids)
    /\ \A i \in 1..n :
        /\ entries[i].source_package_id = ids[i]
        /\ i < n => Good(entries[i])
        /\ status = "completed" => Good(entries[i])
        /\ Good(entries[i]) => ids[i] \in Settled
    /\ status = "failed" => n > 0 /\ ~Good(entries[n])

CommandRecord ==
    [at : {"none", "started", "entry", "inside", "report", "exited", "dead"},
     doc : Documents \cup {None}, status : {"completed", "failed"},
     entries : Seq(EntryReport), exit : 0..1]

ReportRecord ==
    [sha256 : Documents \cup {None}, status : {"completed", "failed"},
     entries : Seq(EntryReport)]

\* A command has a document from the moment it has read it until it ends, an entry left
\* to do while it is at one, and none when it reports "completed".
Consistent(k) ==
    /\ k.at \in {"none", "started", "exited"} =>
        k.doc = None /\ k.entries = <<>> /\ k.status = "completed"
    /\ k.at \in {"entry", "inside", "dead"} =>
        k.doc # None /\ Len(k.entries) < Len(k.doc.packages) /\ k.status = "completed"
    /\ k.at = "report" =>
        k.doc # None /\ (k.status = "completed" => Len(k.entries) = Len(k.doc.packages))
    /\ k.doc # None => Valid(k.doc) /\ Truthful(k.doc, k.status, k.entries)

ReportHolds ==
    report.sha256 # None =>
        /\ Valid(report.sha256)
        /\ Truthful(report.sha256, report.status, report.entries)
        /\ report.status = "completed" =>
            Len(report.entries) = Len(report.sha256.packages)

RunTypes ==
    /\ manifest \in Documents /\ edits \in 0..MaxEdits
    /\ current \in [Packages -> BOOLEAN] /\ retired \subseteq Packages
    /\ report \in ReportRecord
    /\ command \in [Commands -> CommandRecord]
    /\ plan \in Documents \cup {None} /\ wanted \in Documents \cup {None}
    /\ task \in {"validate", "ingest", "summarize", "success", "failed"}
    /\ try \in 1..2
    /\ at \in {"ready", "command", "manifest", "status"}
    /\ losses \in 0..MaxLosses

\* What the last task knows when it goes to the database.
SummaryShape ==
    /\ task \in {"ingest", "summarize"} => plan \in Documents
    /\ task = "summarize" /\ at \in {"manifest", "status"} => report.sha256 = plan
    /\ task = "summarize" /\ at = "status" => wanted = plan

RunInv ==
    /\ RunTypes
    /\ \A c \in Commands : Consistent(command[c])
    /\ ReportHolds
    /\ SummaryShape
    /\ PlanInv
\* A document that passes is a sequence of entries, and its packages are among those that
\* the documents name.
LEMMA Named ==
    ASSUME NEW d \in Documents, Valid(d)
    PROVE  /\ Len(d.packages) \in Nat /\ DOMAIN d.packages = 1..Len(d.packages)
           /\ Len(d.packages) > 0
           /\ Identities(d) \in Seq(Packages) /\ Len(Identities(d)) = Len(d.packages)
           /\ \A i \in 1..Len(d.packages) :
                /\ Identities(d)[i] = d.packages[i].source_package_id
                /\ Identities(d)[i] \in Packages
<1>1. d.packages \in Seq(Range(d.packages)) /\ d.packages # <<>>
  BY DEF Valid
<1>2. Len(d.packages) \in Nat /\ DOMAIN d.packages = 1..Len(d.packages) /\ Len(d.packages) > 0
  BY <1>1
<1>3. \A i \in 1..Len(d.packages) : Identities(d)[i] = d.packages[i].source_package_id
  BY <1>2 DEF Identities
<1>4. DOMAIN Identities(d) = 1..Len(d.packages)
  BY <1>2 DEF Identities
<1>5. \A i \in 1..Len(d.packages) : Identities(d)[i] \in Packages
  BY <1>4 DEF Packages, Range
<1>6. Identities(d) = [i \in 1..Len(d.packages) |-> Identities(d)[i]]
  BY <1>2 DEF Identities
<1>7. Identities(d) \in [1..Len(d.packages) -> Packages]
  BY <1>5, <1>6
<1>8. Identities(d) \in Seq(Packages) /\ Len(Identities(d)) = Len(d.packages)
  BY <1>2, <1>4, <1>7, SeqDef
<1> QED
  BY <1>2, <1>3, <1>5, <1>8

\* A seal and a retirement both leave a settled package settled: what was true of the
\* database when an entry was recorded stays true of it in this sense.
LEMMA TruthStays ==
    ASSUME Settled \subseteq Settled', NEW k, Consistent(k)
    PROVE  Consistent(k)'
<1>1. ASSUME NEW d, NEW status, NEW entries, Truthful(d, status, entries)
      PROVE  Truthful(d, status, entries)'
  BY <1>1 DEF Truthful
<1> QED
  BY <1>1 DEF Consistent

\* A report that is true stays true while packages only become settled.
LEMMA ReportStays ==
    ASSUME Settled \subseteq Settled', UNCHANGED report, ReportHolds
    PROVE  ReportHolds'
<1>1. ASSUME NEW d, NEW status, NEW entries, Truthful(d, status, entries)
      PROVE  Truthful(d, status, entries)'
  BY <1>1 DEF Truthful
<1> QED
  BY <1>1 DEF ReportHolds

\* run_manifest records the outcome of the entry it is at: it goes on to the next one, or
\* is done (manifest_runner.py).
LEMMA EnteredHolds ==
    ASSUME RunTypes, NEW c \in Commands, Consistent(command[c]),
           command[c].at \in {"entry", "inside"},
           Settled \subseteq Settled',
           NEW outcome \in Outcome, NEW is_current \in BOOLEAN,
           is_current /\ outcome = "processed" => EntryAt(c) \in Settled',
           Entered(c, outcome, is_current)
    PROVE  \E k \in CommandRecord :
                command' = [command EXCEPT ![c] = k] /\ Consistent(k)'
<1> DEFINE d == command[c].doc
           n == Len(command[c].entries)
           e == [source_package_id |-> EntryAt(c), outcome |-> outcome,
                 checkpoint_is_current |-> is_current]
           entries == Append(command[c].entries, e)
           k == [command[c] EXCEPT
                    !.entries = entries,
                    !.status = IF Processed(e) THEN command[c].status ELSE "failed",
                    !.at = IF Processed(e) /\ Len(entries) < Len(d.packages)
                           THEN "entry" ELSE "report"]
<1>1. /\ command[c] \in CommandRecord
      /\ d \in Documents /\ Valid(d) /\ n < Len(d.packages)
      /\ command[c].status = "completed"
      /\ Truthful(d, "completed", command[c].entries)
  BY ManifestAssumption DEF RunTypes, Consistent, CommandRecord
<1>2. n \in Nat /\ command[c].entries \in Seq(EntryReport)
  BY <1>1 DEF CommandRecord
<1>3. n + 1 \in 1..Len(d.packages)
  BY <1>1, <1>2, Named
<1>4. EntryAt(c) = Identities(d)[n + 1] /\ EntryAt(c) \in Packages
  BY <1>1, <1>3, Named DEF EntryAt
<1>5. e \in EntryReport /\ (Good(e) <=> Processed(e)) /\ e.source_package_id = EntryAt(c)
  BY <1>4 DEF EntryReport, Good, Processed, Outcome
<1>6. Good(e) => EntryAt(c) \in Settled'
  BY DEF Good, Outcome
<1> HIDE DEF e
<1>7. /\ entries \in Seq(EntryReport) /\ Len(entries) = n + 1
      /\ \A i \in 1..n : entries[i] = command[c].entries[i]
      /\ entries[n + 1] = e
  BY <1>2, <1>5
<1> HIDE DEF entries, n
<1>8. k \in CommandRecord /\ k.doc = d /\ k.entries = entries
  BY <1>1, <1>7 DEF CommandRecord
<1>9. k.status = (IF Processed(e) THEN "completed" ELSE "failed")
  BY <1>1 DEF CommandRecord
<1>10. k.at = (IF Processed(e) /\ n + 1 < Len(d.packages) THEN "entry" ELSE "report")
  BY <1>1, <1>7 DEF CommandRecord
<1>11. command' = [command EXCEPT ![c] = k]
  BY DEF Entered, SetCommand, entries, e, n
<1> HIDE DEF k
<1>a. PICK D, K, E : D = d /\ K = k /\ E = entries
  OBVIOUS
<1>12. Truthful(D, K.status, E)'
  <2>1. n + 1 <= Len(Identities(d))
    BY <1>1, <1>3, Named
  <2>2. \A i \in 1..n :
            /\ entries[i].source_package_id = Identities(d)[i]
            /\ Good(entries[i])
            /\ Identities(d)[i] \in Settled'
    BY <1>1, <1>7 DEF Truthful, n
  <2>3. /\ entries[n + 1].source_package_id = Identities(d)[n + 1]
        /\ Good(entries[n + 1]) <=> Processed(e)
        /\ Good(entries[n + 1]) => Identities(d)[n + 1] \in Settled'
    BY <1>4, <1>5, <1>6, <1>7
  <2> DEFINE ids == Identities(d)
             m == n + 1
  <2>4. m \in Nat /\ m > 0 /\ Len(entries) = m /\ m <= Len(ids)
    BY <1>2, <1>7, <2>1 DEF n
  <2>5. \A i \in 1..m : i \in 1..n \/ i = m
    BY <1>2 DEF n
  <2>6. \A i \in 1..m : i < m => i \in 1..n
    BY <1>2 DEF n
  <2>7. \A i \in 1..m :
            /\ entries[i].source_package_id = ids[i]
            /\ i < m => Good(entries[i])
            /\ k.status = "completed" => Good(entries[i])
            /\ Good(entries[i]) => ids[i] \in Settled'
    BY <1>9, <2>2, <2>3, <2>5, <2>6
  <2>8. k.status = "failed" => ~Good(entries[m])
    BY <1>9, <2>3
  <2> HIDE DEF m, ids
  <2>9. ids = Identities(D)
    BY <1>a DEF ids
  <2>10. /\ Len(E) = m /\ m > 0 /\ m <= Len(Identities(D))
         /\ \A i \in 1..Len(E) :
            /\ E[i].source_package_id = Identities(D)[i]
            /\ i < Len(E) => Good(E[i])
            /\ K.status = "completed" => Good(E[i])
            /\ Good(E[i]) => Identities(D)[i] \in Settled'
         /\ K.status = "failed" => Len(E) > 0 /\ ~Good(E[Len(E)])
    BY <1>a, <2>4, <2>7, <2>8, <2>9
  <2> QED
    BY <2>10 DEF Truthful
<1>13. Len(d.packages) \in Nat /\ (~(n + 1 < Len(d.packages)) => n + 1 = Len(d.packages))
  BY <1>1, <1>2, <1>3, Named DEF n
<1> QED
  <2>1. /\ D \in Documents /\ Valid(D) /\ K.doc = D /\ K.entries = E /\ Len(E) = n + 1
        /\ K.at = (IF Processed(e) /\ n + 1 < Len(D.packages) THEN "entry" ELSE "report")
        /\ K.status = (IF Processed(e) THEN "completed" ELSE "failed")
        /\ ~(n + 1 < Len(D.packages)) => n + 1 = Len(D.packages)
    BY <1>1, <1>7, <1>8, <1>9, <1>10, <1>13, <1>a
  <2>2. D # None
    BY <2>1, ManifestAssumption
  <2>3. Consistent(K)'
    BY <1>12, <2>1, <2>2 DEF Consistent
  <2> QED
    BY <1>8, <1>11, <1>a, <2>3
\* Nothing of a command: none was started, or the one that was has exited or is gone.
LEMMA IdleHolds ==
    ASSUME NEW step \in {"none", "started", "exited"}, NEW code \in 0..1
    PROVE  /\ [at |-> step, doc |-> None, status |-> "completed", entries |-> <<>>,
               exit |-> code] \in CommandRecord
           /\ Consistent([at |-> step, doc |-> None, status |-> "completed",
                          entries |-> <<>>, exit |-> code])
  BY DEF CommandRecord, Consistent

\* A command that has ended keeps its record's shape.
LEMMA ExitedRecord ==
    ASSUME NEW k \in CommandRecord, NEW code \in 0..1
    PROVE  [k EXCEPT !.at = "exited", !.exit = code] \in CommandRecord
  BY DEF CommandRecord

\* A seal, by whichever session, only ever adds to what is settled.
LEMMA SealSettles ==
    ASSUME RunTypes, NEW p \in Packages, UNCHANGED retired,
           current' \in {current, [current EXCEPT ![p] = TRUE]}
    PROVE  current' \in [Packages -> BOOLEAN] /\ Settled \subseteq Settled'
  BY DEF RunTypes, Settled

\* What one step of a command does to its own record, to the database and to the report.
LEMMA CommandHolds ==
    ASSUME RunTypes, NEW c \in Commands, Consistent(command[c]), Command(c)
    PROVE  /\ \E k \in CommandRecord :
                command' = [command EXCEPT ![c] = k] /\ Consistent(k)'
           /\ current' \in [Packages -> BOOLEAN] /\ Settled \subseteq Settled'
           /\ UNCHANGED <<manifest, edits, airflow, retired>>
           /\ UNCHANGED report \/ (command[c].at = "report" /\ report' = ReportOf(c))
<1> DEFINE Same == UNCHANGED <<manifest, edits, airflow, current, retired>>
<1>1. /\ command[c] \in CommandRecord
      /\ current \in [Packages -> BOOLEAN]
      /\ plan \in Documents \cup {None} /\ manifest \in Documents
  BY DEF RunTypes
<1>2. ASSUME Same
      PROVE  current' \in [Packages -> BOOLEAN] /\ Settled \subseteq Settled'
  BY <1>1, <1>2 DEF Settled
<1>3. command[c].at \in {"entry", "inside", "dead"} => EntryAt(c) \in Packages
  <2> SUFFICES ASSUME command[c].at \in {"entry", "inside", "dead"}
               PROVE  EntryAt(c) \in Packages
    OBVIOUS
  <2>1. /\ command[c].doc \in Documents /\ Valid(command[c].doc)
        /\ Len(command[c].entries) < Len(command[c].doc.packages)
        /\ Len(command[c].entries) \in Nat
    BY <1>1 DEF Consistent, CommandRecord
  <2>2. Len(command[c].entries) + 1 \in 1..Len(command[c].doc.packages)
    BY <2>1, Named
  <2> QED
    BY <2>1, <2>2, Named DEF EntryAt
<1>4. CASE LoadManifest(c)
  <2> USE <1>4 DEF LoadManifest, SetCommand, files, Accepted
  <2>1. command[c].doc = None /\ command[c].entries = <<>> /\ command[c].status = "completed"
    BY DEF Consistent
  <2>2. CASE Valid(manifest) /\ manifest = plan
    <3> DEFINE k == [command[c] EXCEPT !.at = "entry", !.doc = manifest]
    <3>1. k \in CommandRecord /\ command' = [command EXCEPT ![c] = k]
      BY <1>1, <2>2 DEF CommandRecord
    <3>2. k.at = "entry" /\ k.doc = manifest /\ k.status = "completed" /\ k.entries = <<>>
      BY <1>1, <2>1 DEF CommandRecord
    <3> HIDE DEF k
    <3>3. Len(k.entries) = 0
      BY <3>2
    <3>4. Truthful(manifest, "completed", <<>>)
      BY <1>1, <2>2, Named DEF Truthful
    <3>5. Consistent(k)
      BY <1>1, <2>2, <3>2, <3>3, <3>4, Named, ManifestAssumption DEF Consistent
    <3>6. PICK K \in CommandRecord : K = k
      BY <3>1
    <3>7. Consistent(K)'
      BY <1>2, <3>5, <3>6, TruthStays
    <3> QED
      BY <1>2, <3>1, <3>6, <3>7
  <2>3. CASE ~(Valid(manifest) /\ manifest = plan)
    <3> DEFINE k == [command[c] EXCEPT !.at = "exited", !.exit = 1]
    <3>0. k \in CommandRecord
      <4>1. 1 \in 0..1
        OBVIOUS
      <4> QED
        BY <1>1, <4>1, ExitedRecord
    <3>5. command' = [command EXCEPT ![c] = k]
      BY <2>3
    <3>4. k.at = "exited" /\ k.doc = None /\ k.entries = <<>> /\ k.status = "completed"
      BY <1>1, <2>1 DEF CommandRecord
    <3> HIDE DEF k
    <3>1. Consistent(k)
      BY <3>4 DEF Consistent
    <3>2. PICK K \in CommandRecord : K = k
      BY <3>0
    <3>3. Consistent(K)'
      BY <1>2, <3>1, <3>2, TruthStays
    <3> QED
      BY <1>2, <3>0, <3>2, <3>3, <3>5
  <2> QED
    BY <2>2, <2>3
<1>5. CASE CannotEnter(c)
  <2>1. Same /\ UNCHANGED report /\ command[c].at = "entry" /\ Entered(c, "error", FALSE)
    BY <1>5 DEF CannotEnter, files
  <2> QED
    BY <1>2, <2>1, EnteredHolds DEF Outcome
<1>6. CASE Enter(c)
  <2> DEFINE k == [command[c] EXCEPT !.at = "inside"]
  <2>1. k \in CommandRecord /\ command' = [command EXCEPT ![c] = k] /\ Consistent(k)
    BY <1>1, <1>6 DEF Enter, SetCommand, CommandRecord, Consistent
  <2>2. Same /\ UNCHANGED report
    BY <1>6 DEF Enter, files
  <2> HIDE DEF k
  <2>3. PICK K \in CommandRecord : K = k
    BY <2>1
  <2>4. Consistent(K)'
    BY <1>2, <2>1, <2>2, <2>3, TruthStays
  <2> QED
    BY <1>2, <2>1, <2>2, <2>3, <2>4
<1>7. CASE Seal(c)
  <2>1. /\ UNCHANGED <<manifest, edits, airflow, retired, report>>
        /\ current' = [current EXCEPT ![EntryAt(c)] = TRUE]
        /\ command[c].at = "inside" /\ Entered(c, "processed", TRUE)
    BY <1>7 DEF Seal, files
  <2>2. current' \in [Packages -> BOOLEAN] /\ Settled \subseteq Settled'
    BY <1>3, <2>1, SealSettles
  <2>3. EntryAt(c) \in Settled'
    <3>1. PICK p \in Packages : p = EntryAt(c)
      BY <1>3, <2>1
    <3>2. current'[p]
      BY <1>1, <2>1, <3>1
    <3>3. p \in Settled'
      BY <3>2 DEF Settled
    <3> QED
      BY <3>1, <3>3
  <2> QED
    BY <2>1, <2>2, <2>3, EnteredHolds DEF Outcome
<1>8. CASE StopShort(c)
  <2>1. /\ Same /\ UNCHANGED report
        /\ command[c].at = "inside" /\ Entered(c, "incomplete", current[EntryAt(c)])
    BY <1>8 DEF StopShort, files
  <2>2. current[EntryAt(c)] \in BOOLEAN
    BY <1>1, <1>3, <2>1
  <2> QED
    BY <1>2, <2>1, <2>2, EnteredHolds DEF Outcome
<1>9. CASE RaiseError(c)
  <2>1. /\ UNCHANGED <<manifest, edits, airflow, retired, report>>
        /\ current' \in {current, [current EXCEPT ![EntryAt(c)] = TRUE]}
        /\ command[c].at = "inside" /\ Entered(c, "error", FALSE)
    BY <1>9 DEF RaiseError, files
  <2>2. current' \in [Packages -> BOOLEAN] /\ Settled \subseteq Settled'
    BY <1>3, <2>1, SealSettles
  <2> QED
    BY <2>1, <2>2, EnteredHolds DEF Outcome
<1>10. ASSUME NEW code \in 0..1, Exited(c, code), Same
       PROVE  \E k \in CommandRecord :
                command' = [command EXCEPT ![c] = k] /\ Consistent(k)'
  <2> DEFINE k == [NoCommand EXCEPT !.at = "exited", !.exit = code]
  <2>0. /\ k \in CommandRecord
        /\ k.at = "exited" /\ k.doc = None /\ k.entries = <<>> /\ k.status = "completed"
    <3>1. NoCommand \in CommandRecord
      BY IdleHolds DEF NoCommand
    <3>2. k \in CommandRecord
      BY <1>10, <3>1, ExitedRecord
    <3>3. k.at = "exited" /\ k.doc = None /\ k.entries = <<>> /\ k.status = "completed"
      BY DEF NoCommand
    <3> QED
      BY <3>2, <3>3
  <2>1. k \in CommandRecord /\ Consistent(k) /\ command' = [command EXCEPT ![c] = k]
    BY <1>10, <2>0 DEF Exited, SetCommand, Consistent
  <2> HIDE DEF k
  <2>2. PICK K \in CommandRecord : K = k
    BY <2>1
  <2>3. Consistent(K)'
    BY <1>2, <1>10, <2>1, <2>2, TruthStays
  <2> QED
    BY <2>1, <2>2, <2>3
<1>11. CASE WriteReport(c)
  <2>1. /\ Same /\ command[c].at = "report" /\ report' = ReportOf(c)
        /\ \E code \in 0..1 : Exited(c, code)
    BY <1>11 DEF WriteReport
  <2> QED
    BY <1>2, <1>10, <2>1
<1>12. CASE CannotWrite(c)
  <2>1. Same /\ UNCHANGED report /\ Exited(c, 1)
    BY <1>12 DEF CannotWrite, files
  <2> QED
    BY <1>2, <1>10, <2>1
<1>13. CASE Reap(c)
  <2>1. /\ UNCHANGED <<manifest, edits, airflow, retired, report>>
        /\ current' \in {current, [current EXCEPT ![EntryAt(c)] = TRUE]}
        /\ command[c].at = "dead"
        /\ command' = [command EXCEPT ![c] = NoCommand]
    BY <1>13 DEF Reap, files, SetCommand
  <2>2. current' \in [Packages -> BOOLEAN] /\ Settled \subseteq Settled'
    BY <1>3, <2>1, SealSettles
  <2>3. NoCommand \in CommandRecord /\ Consistent(NoCommand)
    BY IdleHolds DEF NoCommand
  <2>4. PICK K \in CommandRecord : K = NoCommand
    BY <2>3
  <2>5. Consistent(K)'
    BY <2>2, <2>3, <2>4, TruthStays
  <2> QED
    BY <2>1, <2>2, <2>4, <2>5
<1> QED
  BY <1>4, <1>5, <1>6, <1>7, <1>8, <1>9, <1>11, <1>12, <1>13 DEF Command
\* One command's record is replaced by a consistent one, and the packages that were settled
\* stay so: then all of them are consistent.
LEMMA OneCommandHolds ==
    ASSUME RunTypes, \A o \in Commands : Consistent(command[o]), Settled \subseteq Settled',
           NEW c \in Commands, NEW k \in CommandRecord, Consistent(k)',
           command' = [command EXCEPT ![c] = k]
    PROVE  /\ command' \in [Commands -> CommandRecord]
           /\ \A o \in Commands : Consistent(command[o])'
<1>1. command' \in [Commands -> CommandRecord]
  BY DEF RunTypes
<1>2. \A o \in Commands : command'[o] = IF o = c THEN k ELSE command[o]
  BY DEF RunTypes
<1>3. ASSUME NEW o \in Commands PROVE Consistent(command[o])'
  <2>1. PICK j : j = command'[o]
    OBVIOUS
  <2>2. Consistent(j)'
    BY <1>2, <2>1, TruthStays
  <2> QED
    BY <2>1, <2>2 DEF Consistent, Truthful
<1> QED
  BY <1>1, <1>3

\* Every step of a command keeps the invariant of the run.
LEMMA CommandKeepsRun == ASSUME RunInv, NEW c \in Commands, Command(c) PROVE RunInv'
<1>1. /\ RunTypes /\ ReportHolds /\ SummaryShape /\ PlanInv
      /\ \A o \in Commands : Consistent(command[o])
  BY DEF RunInv
<1>2. PICK k \in CommandRecord : command' = [command EXCEPT ![c] = k] /\ Consistent(k)'
  BY <1>1, CommandHolds
<1>3. /\ current' \in [Packages -> BOOLEAN] /\ Settled \subseteq Settled'
      /\ UNCHANGED <<manifest, edits, airflow, retired>>
      /\ UNCHANGED report \/ (command[c].at = "report" /\ report' = ReportOf(c))
  BY <1>1, CommandHolds
<1>4. /\ command' \in [Commands -> CommandRecord]
      /\ \A o \in Commands : Consistent(command[o])'
  BY <1>1, <1>2, <1>3, OneCommandHolds
<1>5. PlanInv'
  BY <1>1, CommandKeepsPlan
<1>6. command[c].at = "report" =>
        /\ ReportOf(c) \in ReportRecord
        /\ command[c].doc # None /\ command[c].doc = plan
  <2>1. command[c] \in CommandRecord
    BY <1>1 DEF RunTypes
  <2>2. ReportOf(c) \in ReportRecord
    BY <2>1 DEF ReportOf, CommandRecord, ReportRecord
  <2> QED
    BY <1>1, <2>2 DEF Consistent, PlanInv, WorkIsPlanned
<1>7. RunTypes'
  BY <1>1, <1>3, <1>4, <1>6 DEF RunTypes, airflow
<1>8. ReportHolds'
  <2>1. CASE UNCHANGED report
    BY <1>1, <1>3, <2>1, ReportStays
  <2>2. CASE command[c].at = "report" /\ report' = ReportOf(c)
    <3>1. PICK r : r = command[c]
      OBVIOUS
    <3>2. Consistent(r)'
      BY <1>1, <1>3, <3>1, TruthStays
    <3>3. /\ r.at = "report"
          /\ report'.sha256 = r.doc /\ report'.status = r.status /\ report'.entries = r.entries
      BY <2>2, <3>1 DEF ReportOf
    <3> QED
      BY <3>2, <3>3 DEF Consistent, ReportHolds, Truthful
  <2> QED
    BY <1>3, <2>1, <2>2
<1>9. SummaryShape'
  <2>1. UNCHANGED <<plan, wanted, task, at>>
    BY <1>3 DEF airflow
  <2>2. report.sha256 = plan => report'.sha256 = plan
    BY <1>3, <1>6 DEF ReportOf
  <2> QED
    BY <1>1, <2>1, <2>2 DEF SummaryShape
<1> QED
  BY <1>4, <1>5, <1>7, <1>8, <1>9 DEF RunInv

\* SIGKILL leaves of a command its session, if it was inside a package, or nothing.
LEMMA KilledHolds ==
    ASSUME RunTypes, \A o \in Commands : Consistent(command[o]), UNCHANGED <<current, retired>>,
           \/ UNCHANGED command
           \/ SetCommand(try, NoCommand)
           \/ SetCommand(try, [NoCommand EXCEPT !.at = "started"])
           \/ Killed(try)
    PROVE  /\ command' \in [Commands -> CommandRecord]
           /\ \A o \in Commands : Consistent(command[o])'
<1> DEFINE started == [NoCommand EXCEPT !.at = "started"]
           dead == [command[try] EXCEPT !.at = "dead"]
<1>1. try \in Commands /\ command[try] \in CommandRecord
  BY DEF RunTypes, Commands
<1>2. Settled \subseteq Settled'
  BY DEF Settled
<1>3. NoCommand \in CommandRecord /\ Consistent(NoCommand)
  BY IdleHolds DEF NoCommand
<1>4. started \in CommandRecord /\ Consistent(started)
  BY IdleHolds DEF NoCommand
<1>5. command[try].at = "inside" => dead \in CommandRecord /\ Consistent(dead)
  BY <1>1 DEF CommandRecord, Consistent
<1>6. UNCHANGED command \/
      \E k \in CommandRecord : Consistent(k) /\ command' = [command EXCEPT ![try] = k]
  BY <1>3, <1>4, <1>5 DEF SetCommand, Killed
<1>7. CASE UNCHANGED command
  <2>1. ASSUME NEW o \in Commands PROVE Consistent(command[o])'
    BY <1>2, <1>7 DEF Consistent, Truthful
  <2> QED
    BY <1>7, <2>1 DEF RunTypes
<1>8. CASE \E k \in CommandRecord : Consistent(k) /\ command' = [command EXCEPT ![try] = k]
  <2>1. PICK k \in CommandRecord : Consistent(k) /\ command' = [command EXCEPT ![try] = k]
    BY <1>8
  <2>2. Consistent(k)'
    BY <1>2, <2>1, TruthStays
  <2> QED
    BY <1>1, <1>2, <2>1, <2>2, OneCommandHolds
<1> QED
  BY <1>6, <1>7, <1>8
\* A task that fails is tried again or is the end of the run; one that succeeds makes way
\* for the next.
LEMMA TaskEnds ==
    ASSUME RunTypes, task \in {"validate", "ingest", "summarize"},
           \/ TryAgain
           \/ \E next \in {"ingest", "summarize", "success"} :
                SucceedTask(next) /\ (next = "success" \/ plan' \in Documents)
    PROVE  /\ task' \in {"validate", "ingest", "summarize", "success", "failed"}
           /\ try' \in 1..2 /\ at' = "ready" /\ wanted' = None
           /\ TryAgain => plan' = plan /\ task' \in {task, "failed"}
<1>1. CASE TryAgain
  <2>1. Retries[task] \in {0, 1} /\ try \in 1..2
    BY DEF Retries, RunTypes
  <2>2. (try <= Retries[task]) => try + 1 \in 1..2
    BY <2>1
  <2> QED
    BY <1>1, <2>1, <2>2 DEF TryAgain
<1>2. CASE \E next \in {"ingest", "summarize", "success"} :
                SucceedTask(next) /\ (next = "success" \/ plan' \in Documents)
  <2>1. 1 \in 1..2
    OBVIOUS
  <2>2. ASSUME TryAgain PROVE plan' = plan /\ task' \in {task, "failed"}
    BY <2>2 DEF TryAgain
  <2> QED
    BY <1>2, <2>1, <2>2 DEF SucceedTask
<1> QED
  BY <1>1, <1>2

\* What a task leaves of the run's own state.
TaskStep ==
    /\ plan' \in Documents \cup {None} /\ wanted' \in Documents \cup {None}
    /\ task' \in {"validate", "ingest", "summarize", "success", "failed"}
    /\ try' \in 1..2
    /\ at' \in {"ready", "command", "manifest", "status"}
    /\ losses' \in 0..MaxLosses
    /\ SummaryShape'

\* A task that fails tells the next try nothing.
LEMMA FailedStep ==
    ASSUME RunInv, task \in {"validate", "ingest", "summarize"}, TryAgain,
           losses' \in 0..MaxLosses
    PROVE  TaskStep
<1>1. RunTypes /\ SummaryShape
  BY DEF RunInv
<1>2. /\ task' \in {"validate", "ingest", "summarize", "success", "failed"}
      /\ try' \in 1..2 /\ at' = "ready" /\ wanted' = None
      /\ plan' = plan /\ task' \in {task, "failed"}
  BY <1>1, TaskEnds
<1>3. SummaryShape'
  BY <1>1, <1>2 DEF SummaryShape
<1>4. plan \in Documents \cup {None}
  BY <1>1 DEF RunTypes
<1> QED
  BY <1>2, <1>3, <1>4 DEF TaskStep

\* A task that succeeds hands over to the next one with what it has established.
LEMMA SucceededStep ==
    ASSUME RunInv, task \in {"validate", "ingest", "summarize"},
           NEW next \in {"ingest", "summarize", "success"}, SucceedTask(next),
           plan' \in Documents
    PROVE  TaskStep
<1>1. RunTypes /\ SummaryShape
  BY DEF RunInv
<1>2. /\ task' = next /\ try' = 1 /\ at' = "ready" /\ wanted' = None /\ UNCHANGED losses
  BY DEF SucceedTask
<1>3. SummaryShape'
  BY <1>2 DEF SummaryShape
<1>4. losses \in 0..MaxLosses /\ 1 \in 1..2
  BY <1>1 DEF RunTypes
<1> QED
  BY <1>2, <1>3, <1>4 DEF TaskStep

\* What one step of the tasks does: to the run's own state, and to at most one command.
LEMMA TasksHold ==
    ASSUME RunInv, Tasks \/ LoseTask
    PROVE  /\ TaskStep
           /\ UNCHANGED <<manifest, edits, current, retired, report>>
           /\ \/ UNCHANGED command
              \/ SetCommand(try, NoCommand)
              \/ SetCommand(try, [NoCommand EXCEPT !.at = "started"])
              \/ Killed(try)
<1>1. RunTypes /\ SummaryShape /\ ManifestAssumption
  BY ManifestAssumption DEF RunInv
<1>2. losses \in 0..MaxLosses /\ plan \in Documents \cup {None} /\ manifest \in Documents
  BY <1>1 DEF RunTypes
<1>3. ASSUME FailTask, task \in {"validate", "ingest", "summarize"} PROVE TaskStep
  BY <1>2, <1>3, FailedStep DEF FailTask
<1>4. task \in {"ingest", "summarize"} => plan \in Documents
  BY <1>1 DEF SummaryShape
<1>5. ASSUME task \in {"ingest", "summarize"},
             NEW next \in {"summarize", "success"}, SucceedTask(next), UNCHANGED plan
      PROVE  TaskStep
  BY <1>4, <1>5, SucceededStep
<1>6. CASE ValidateManifest
  <2> USE <1>6 DEF ValidateManifest, files
  <2>1. CASE Valid(manifest)
    BY <1>2, <2>1, SucceededStep
  <2>2. CASE ~Valid(manifest)
    BY <1>3, <2>2
  <2> QED
    BY <2>1, <2>2
<1>7. CASE StartCommand
  <2>1. /\ at' = "command" /\ task = "ingest" /\ UNCHANGED <<plan, wanted, task, try, losses>>
        /\ SetCommand(try, [NoCommand EXCEPT !.at = "started"])
        /\ UNCHANGED <<manifest, edits, current, retired, report>>
    BY <1>7 DEF StartCommand, files
  <2>2. SummaryShape'
    BY <1>1, <2>1 DEF SummaryShape
  <2> QED
    BY <1>1, <2>1, <2>2 DEF TaskStep, RunTypes
<1>8. CASE CommandReturns
  <2>1. /\ task = "ingest"
        /\ (SucceedTask("summarize") /\ UNCHANGED plan) \/ FailTask
        /\ SetCommand(try, NoCommand)
        /\ UNCHANGED <<manifest, edits, current, retired, report>>
    BY <1>8 DEF CommandReturns, files
  <2> QED
    BY <1>3, <1>5, <2>1
<1>9. CASE TimeOut
  <2>1. /\ task = "ingest" /\ FailTask /\ Killed(try)
        /\ UNCHANGED <<manifest, edits, current, retired, report>>
    BY <1>9 DEF TimeOut, files
  <2> QED
    BY <1>3, <2>1
<1>10. CASE ReadReport
  <2> USE <1>10 DEF ReadReport, files
  <2>1. CASE Summarizes(report)
    <3>1. /\ at' = "manifest" /\ task = "summarize" /\ report.sha256 = plan
          /\ UNCHANGED <<plan, wanted, task, try, losses, report>>
      BY <2>1 DEF Summarizes
    <3>2. SummaryShape'
      BY <1>1, <3>1 DEF SummaryShape
    <3>3. TaskStep
      BY <1>1, <3>1, <3>2 DEF TaskStep, RunTypes
    <3> QED
      BY <3>3
  <2>2. CASE ~Summarizes(report)
    BY <1>3, <2>2
  <2> QED
    BY <2>1, <2>2
<1>11. CASE ReadManifest
  <2> USE <1>11 DEF ReadManifest, files
  <2>1. CASE Unchanged(manifest)
    <3>1. /\ at' = "status" /\ wanted' = manifest /\ manifest = plan
          /\ at = "manifest" /\ task = "summarize"
          /\ UNCHANGED <<plan, task, try, losses, report>>
      BY <2>1 DEF Unchanged
    <3>2. SummaryShape'
      BY <1>1, <3>1 DEF SummaryShape
    <3>3. TaskStep
      BY <1>1, <3>1, <3>2 DEF TaskStep, RunTypes
    <3> QED
      BY <3>3
  <2>2. CASE ~Unchanged(manifest)
    BY <1>3, <2>2
  <2> QED
    BY <2>1, <2>2
<1>12. CASE ReadStatus
  <2>1. /\ task = "summarize"
        /\ (SucceedTask("success") /\ UNCHANGED plan) \/ FailTask
        /\ UNCHANGED <<manifest, edits, current, retired, report, command>>
    BY <1>12 DEF ReadStatus, files
  <2> QED
    BY <1>3, <1>5, <2>1
<1>13. CASE LoseTask
  <2>1. /\ task \in {"validate", "ingest", "summarize"} /\ TryAgain
        /\ losses < MaxLosses /\ losses' = losses + 1
        /\ UNCHANGED <<manifest, edits, current, retired, report>>
        /\ UNCHANGED command \/ Killed(try)
    BY <1>13 DEF LoseTask, files
  <2>2. losses' \in 0..MaxLosses
    BY <1>2, <2>1, ManifestAssumption
  <2> QED
    BY <2>1, <2>2, FailedStep
<1> QED
  BY <1>6, <1>7, <1>8, <1>9, <1>10, <1>11, <1>12, <1>13 DEF Tasks

\* Every task, succeeding, failing, retried or lost, keeps the invariant of the run.
LEMMA TasksKeepRun == ASSUME RunInv, Tasks \/ LoseTask PROVE RunInv'
<1>1. /\ TaskStep
      /\ UNCHANGED <<manifest, edits, current, retired, report>>
      /\ \/ UNCHANGED command
         \/ SetCommand(try, NoCommand)
         \/ SetCommand(try, [NoCommand EXCEPT !.at = "started"])
         \/ Killed(try)
  BY TasksHold
<1>2. /\ RunTypes /\ ReportHolds /\ PlanInv
      /\ \A o \in Commands : Consistent(command[o])
  BY DEF RunInv
<1>3. /\ command' \in [Commands -> CommandRecord]
      /\ \A o \in Commands : Consistent(command[o])'
  BY <1>1, <1>2, KilledHolds
<1>4. PlanInv'
  BY <1>2, TasksKeepPlan
<1>5. RunTypes'
  BY <1>1, <1>2, <1>3 DEF RunTypes, TaskStep
<1>6. Settled \subseteq Settled'
  BY <1>1 DEF Settled
<1>7. ReportHolds'
  BY <1>1, <1>2, <1>6, ReportStays
<1> QED
  BY <1>1, <1>3, <1>4, <1>5, <1>7 DEF RunInv, TaskStep

\* The surroundings: an edit changes only the file, a retirement only moves a package from
\* one side of what is settled to the other.
LEMMA SurroundingsKeepRun ==
    ASSUME RunInv,
           \/ Edit \/ UpgradeSchema \/ UNCHANGED vars
           \/ \E p \in Packages : Retire(p) \/ SealElsewhere(p)
    PROVE  RunInv'
<1>1. /\ RunTypes /\ ReportHolds /\ PlanInv /\ SummaryShape
      /\ \A o \in Commands : Consistent(command[o])
  BY DEF RunInv
<1>2. PlanInv'
  BY <1>1, PlanStep DEF Next
<1>3. UNCHANGED <<report, command, plan, wanted, task, try, at, losses>>
  BY DEF Edit, UpgradeSchema, vars, files, airflow, Retire, SealElsewhere
<1>4. /\ manifest' \in Documents /\ edits' \in 0..MaxEdits
      /\ current' \in [Packages -> BOOLEAN] /\ retired' \subseteq Packages
      /\ Settled \subseteq Settled'
  <2> USE <1>1, ManifestAssumption DEF RunTypes, files, Settled
  <2>1. CASE Edit
    BY <2>1 DEF Edit
  <2>2. CASE UpgradeSchema \/ UNCHANGED vars
    BY <2>2 DEF UpgradeSchema, vars
  <2>3. CASE \E p \in Packages : Retire(p)
    BY <2>3 DEF Retire
  <2>4. CASE \E p \in Packages : SealElsewhere(p)
    BY <2>4 DEF SealElsewhere
  <2> QED
    BY <2>1, <2>2, <2>3, <2>4
<1>5. RunTypes'
  BY <1>1, <1>3, <1>4 DEF RunTypes
<1>6. ReportHolds'
  BY <1>1, <1>3, <1>4, ReportStays
<1>7. SummaryShape'
  BY <1>1, <1>3 DEF SummaryShape
<1>8. ASSUME NEW o \in Commands PROVE Consistent(command[o])'
  BY <1>1, <1>3, <1>4 DEF Consistent, Truthful
<1> QED
  BY <1>2, <1>5, <1>6, <1>7, <1>8 DEF RunInv

\* A database that is not migrated and a graph that has not started satisfy it.
LEMMA RunInit == Init => RunInv
<1> SUFFICES ASSUME Init PROVE RunInv
  OBVIOUS
<1>1. PlanInv
  BY PlanInit
<1>2. NoCommand \in CommandRecord /\ Consistent(NoCommand)
  BY IdleHolds DEF NoCommand
<1>3. command = [c \in Commands |-> NoCommand]
  BY DEF Init
<1>4. /\ command \in [Commands -> CommandRecord]
      /\ \A c \in Commands : Consistent(command[c])
  BY <1>2, <1>3
<1>5. NoReport \in ReportRecord /\ NoReport.sha256 = None
  BY DEF NoReport, ReportRecord
<1>6. 0 \in 0..MaxEdits /\ 0 \in 0..MaxLosses /\ 1 \in 1..2
  BY ManifestAssumption
<1>7. RunTypes
  BY <1>4, <1>5, <1>6 DEF Init, RunTypes
<1>8. ReportHolds /\ SummaryShape
  BY <1>5 DEF Init, ReportHolds, SummaryShape
<1> QED
  BY <1>1, <1>4, <1>7, <1>8 DEF RunInv

\* Every step of the orchestrated run keeps the invariant.
LEMMA RunStep == RunInv /\ [Next]_vars => RunInv'
<1> SUFFICES ASSUME RunInv, [Next]_vars PROVE RunInv'
  OBVIOUS
<1>1. ASSUME NEW c \in Commands, Command(c) PROVE RunInv'
  BY <1>1, CommandKeepsRun
<1>2. CASE Tasks \/ LoseTask
  BY <1>2, TasksKeepRun
<1>3. CASE \/ Edit \/ UpgradeSchema \/ UNCHANGED vars
           \/ \E p \in Packages : Retire(p) \/ SealElsewhere(p)
  BY <1>3, SurroundingsKeepRun
<1> QED
  BY <1>1, <1>2, <1>3 DEF Next

\* The invariant of the orchestrated run holds in every reachable state: what a task was
\* told, what a command has done so far and what is settled agree.
THEOREM RunInvariance == Spec => []RunInv
<1> QED
  BY RunInit, RunStep, PTL DEF Spec

\* Every variable keeps to its type, the schema's included.
THEOREM RunTypeCorrect == Spec => []TypeOK
<1>1. Init => MInv
  BY MInitInv DEF Init
<1>2. MInv /\ [Next]_vars => MInv'
  BY RunIsUpgrades, MStepInv
<1>3. MInv => MTypeOK
  BY DEF MInv
<1>4. RunInv /\ MTypeOK => TypeOK
  <2> SUFFICES ASSUME RunInv, MTypeOK PROVE TypeOK
    OBVIOUS
  <2>1. RunTypes
    BY DEF RunInv
  <2>2. IsReport(report)
    BY <2>1 DEF RunTypes, ReportRecord, IsReport
  <2>3. ASSUME NEW c \in Commands
        PROVE  /\ command[c].at \in {"none", "started", "entry", "inside", "report", "exited",
                                     "dead"}
               /\ IsReport(ReportOf(c)) /\ command[c].exit \in 0..1
    <3>1. command[c] \in CommandRecord
      BY <2>1 DEF RunTypes
    <3> QED
      BY <3>1 DEF CommandRecord, IsReport, ReportOf
  <2> QED
    BY <2>1, <2>2, <2>3 DEF RunTypes, TypeOK
<1> QED
  BY <1>1, <1>2, <1>3, <1>4, RunInvariance, PTL DEF Spec

\* A report, finished or in the making, whichever command wrote it and whoever sealed or
\* retired checkpoints meanwhile, goes through its document in order, past no package but a
\* completed one, and calls none processed that had no current checkpoint
\* (manifest_runner.py, run_manifest).
THEOREM ReportsAreTrue == Spec => []ReportIsTrue
<1>1. RunInv => ReportIsTrue
  <2> SUFFICES ASSUME RunInv,
                      NEW r \in {report} \cup {ReportOf(c) : c \in Commands}, r.sha256 # None
               PROVE  LET ids == Identities(r.sha256)  n == Len(r.entries) IN
                      /\ n <= Len(ids)
                      /\ \A i \in 1..n :
                          LET e == r.entries[i] IN
                          /\ e.source_package_id = ids[i]
                          /\ i < n => Good(e)
                          /\ r.status = "completed" => Good(e)
                          /\ Good(e) => current[ids[i]] \/ ids[i] \in retired
                      /\ r = report /\ r.status = "completed" => n = Len(ids)
                      /\ r.status = "failed" => n > 0 /\ ~Good(r.entries[n])
    BY DEF ReportIsTrue
  <2>1. RunTypes /\ ReportHolds /\ \A c \in Commands : Consistent(command[c])
    BY DEF RunInv
  <2>2. /\ r.sha256 \in Documents /\ Valid(r.sha256)
        /\ Truthful(r.sha256, r.status, r.entries)
    <3>1. CASE r = report
      <4>1. report.sha256 \in Documents
        BY <2>1, <3>1 DEF RunTypes, ReportRecord
      <4> QED
        BY <2>1, <3>1, <4>1 DEF ReportHolds
    <3>2. ASSUME NEW c \in Commands, r = ReportOf(c)
          PROVE  /\ r.sha256 \in Documents /\ Valid(r.sha256)
                 /\ Truthful(r.sha256, r.status, r.entries)
      <4>1. command[c] \in CommandRecord /\ Consistent(command[c])
        BY <2>1 DEF RunTypes
      <4>2. /\ r.sha256 = command[c].doc /\ r.status = command[c].status
            /\ r.entries = command[c].entries
        BY <3>2 DEF ReportOf
      <4>3. command[c].doc \in Documents
        BY <4>1, <4>2 DEF CommandRecord
      <4> QED
        BY <4>1, <4>2, <4>3 DEF Consistent
    <3> QED
      BY <3>1, <3>2
  <2>3. Len(Identities(r.sha256)) = Len(r.sha256.packages)
    BY <2>2, Named
  <2>4. r = report /\ r.status = "completed" => Len(r.entries) = Len(Identities(r.sha256))
    BY <2>1, <2>3 DEF ReportHolds
  <2> QED
    BY <2>2, <2>4 DEF Truthful, Settled
<1> QED
  BY <1>1, RunInvariance, PTL

\* A run succeeds only in a state in which every package of the document that was validated
\* first has a current checkpoint, and the report is of that document
\* (orchestration.py, summarize_report and checkpoint_summary).
THEOREM SuccessesAreConfirmed == Spec => SuccessIsConfirmed
<1>1. RunInv /\ [Next]_vars =>
        (task # "success" /\ task' = "success" =>
            /\ \A p \in Range(Identities(plan)) : current[p]
            /\ report.sha256 = plan)
  <2> SUFFICES ASSUME RunInv, [Next]_vars, task # "success", task' = "success"
               PROVE  /\ \A p \in Range(Identities(plan)) : current[p]
                      /\ report.sha256 = plan
    OBVIOUS
  <2>1. ASSUME UNCHANGED task PROVE FALSE
    BY <2>1
  <2>2. ASSUME NEW c \in Commands, Command(c) PROVE FALSE
    <3>1. RunTypes /\ Consistent(command[c])
      BY DEF RunInv
    <3> QED
      BY <2>1, <2>2, <3>1, CommandHolds DEF airflow
  <2>3. ASSUME TryAgain PROVE FALSE
    BY <2>3, <2>1 DEF TryAgain
  <2>4. CASE ReadStatus
    <3>1. task = "summarize" /\ at = "status" /\ Confirmed(wanted)
      BY <2>3, <2>4 DEF ReadStatus, FailTask
    <3>2. SummaryShape
      BY DEF RunInv
    <3> QED
      BY <3>1, <3>2 DEF SummaryShape, Confirmed
  <2>5. CASE ValidateManifest \/ CommandReturns
    BY <2>3, <2>5 DEF ValidateManifest, CommandReturns, SucceedTask, FailTask
  <2>6. CASE StartCommand \/ TimeOut \/ LoseTask
    BY <2>1, <2>3, <2>6 DEF StartCommand, TimeOut, LoseTask, FailTask
  <2>7. CASE ReadReport \/ ReadManifest
    BY <2>1, <2>3, <2>7 DEF ReadReport, ReadManifest, FailTask
  <2>8. CASE Edit \/ UpgradeSchema \/ UNCHANGED vars
    BY <2>1, <2>8 DEF Edit, UpgradeSchema, vars, airflow
  <2>9. ASSUME NEW p \in Packages, Retire(p) \/ SealElsewhere(p) PROVE FALSE
    BY <2>1, <2>9 DEF Retire, SealElsewhere, airflow
  <2> QED
    BY <2>2, <2>4, <2>5, <2>6, <2>7, <2>8, <2>9 DEF Next, Tasks
<1> QED
  BY <1>1, RunInvariance, PTL DEF Spec, SuccessIsConfirmed
=============================================================================
