----------------------------- MODULE Verification -----------------------------
(***************************************************************************)
(* verify_capture: the attempt history behind "the source agrees this is   *)
(* the whole package" (verification.py, migration 0003), composed with the *)
(* loads of CaptureStore.  Both kinds of work take the same package lock,  *)
(* from the same pool of sessions.                                         *)
(*                                                                         *)
(* The walk over the source's pages (source_api.py) is one action here: it *)
(* enumerates one of the sets the source may hold, completely, or it ends  *)
(* unavailable.                                                            *)
(***************************************************************************)
EXTENDS CaptureStore

CONSTANTS
    Answers,        \* [Package -> set of the identifier sets a complete walk may see]
    Misfiled,       \* notices whose publication date is outside the package's month
    MaxAttempts

VARIABLES
    attempts,   \* tl_work.verification_attempt; a row's index is its id
    coverage,   \* the captures whose coverage_verified is true
    step,       \* where in verify_capture a session is
    target,     \* the capture it was asked to verify
    local,      \* the identifiers it read from that capture
    verdict,    \* the outcome it is about to record
    attempt     \* the attempt it opened

evidence == <<attempts, coverage>>
check == <<step, target, local, verdict, attempt>>
vvars == <<vars, evidence, check>>

-----------------------------------------------------------------------------

Closed == {"verified", "mismatch", "unavailable", "empty_unconfirmed"}

\* keys is what api_keys_sha256 digests, NULL unless the walk was complete; found
\* is local_distinct_count.
Attempt == [capture: Nat, sha: Archive, state: Closed \cup {"in_progress"},
            found: Nat, keys: (SUBSET Notice) \cup {None}]
Verdict == [state: Closed, keys: (SUBSET Notice) \cup {None}]

\* The steps of verify_capture that hold the lock.
Checking == {"reread", "open", "walk", "close", "leave"}

ASSUME AnswersAreTyped ==
    /\ Answers \in [Package -> SUBSET SUBSET Notice]
    /\ Misfiled \in [Package -> SUBSET Notice]
    /\ MaxAttempts \in Nat

VTypeOK ==
    /\ TypeOK
    /\ attempts \in Seq(Attempt)
    /\ coverage \subseteq DOMAIN captures
    /\ step \in [Session -> Checking \cup {"idle", "lock"}]
    /\ target \in [Session -> Nat]
    /\ local \in [Session -> SUBSET Notice]
    /\ verdict \in [Session -> Verdict \cup {None}]
    /\ attempt \in [Session -> Nat]

VInit ==
    /\ Init
    /\ attempts = <<>> /\ coverage = {}
    /\ step = [s \in Session |-> "idle"]
    /\ target = [s \in Session |-> 0]
    /\ local = [s \in Session |-> {}]
    /\ verdict = [s \in Session |-> None]
    /\ attempt = [s \in Session |-> 0]

-----------------------------------------------------------------------------

IsPublished(c) ==
    captures[c].status = "published" /\ pointer[captures[c].pkg] = c

\* Only a published capture that reconciled can be verified.
Verifiable(c) ==
    /\ IsPublished(c)
    /\ LET n == captures[c].counts IN n # <<>> /\ n[1] = n[2] /\ n[2] = n[3]

LocalKeys(c) == {r.notice : r \in RowsOf(c)}

\* Rows dated outside the month their package names: the source is not asked.
CompositionError(c) == LocalKeys(c) \cap Misfiled[captures[c].pkg] # {}

AttemptsOf(c) == {a \in DOMAIN attempts : attempts[a].capture = c}

\* Variant: only what the capture has too much is a mismatch.
CompareOneSide(here, there) ==
    IF ~(here \subseteq there) THEN "mismatch"
    ELSE IF there = {} THEN "empty_unconfirmed" ELSE "verified"

\* Two empty sets agree and still do not establish that the issue was published.
Compare(here, there) ==
    IF here # there THEN "mismatch"
    ELSE IF there = {} THEN "empty_unconfirmed" ELSE "verified"

Do(s, l) == step' = [step EXCEPT ![s] = l]

Drop(s) ==
    /\ target' = [target EXCEPT ![s] = 0]
    /\ local' = [local EXCEPT ![s] = {}]
    /\ verdict' = [verdict EXCEPT ![s] = None]
    /\ attempt' = [attempt EXCEPT ![s] = 0]

-----------------------------------------------------------------------------
(* verify_capture *)

\* The first look at the capture is taken without the lock.
VStart(s, c) ==
    /\ pc[s] = "idle" /\ step[s] = "idle"
    /\ Verifiable(c)
    /\ target' = [target EXCEPT ![s] = c]
    /\ Do(s, "lock")
    /\ UNCHANGED <<vars, evidence, local, verdict, attempt>>

\* Variant: a verification does not take the loaders' lock.
VAcquireNothing(s) ==
    /\ step[s] = "lock"
    /\ Do(s, "reread")
    /\ UNCHANGED <<vars, evidence, target, local, verdict, attempt>>

VAcquire(s) ==
    /\ step[s] = "lock"
    /\ TakeLock(s, captures[target[s]].pkg)
    /\ Do(s, "reread")
    /\ UNCHANGED <<tables, file, pc, work, budgets, evidence, target, local, verdict, attempt>>

VRefuseBusy(s) ==
    /\ step[s] = "lock"
    /\ ~LockFree(s, captures[target[s]].pkg)
    /\ Do(s, "idle")
    /\ Drop(s)
    /\ UNCHANGED <<vars, evidence>>

\* Variant: what was read before the lock is believed.
VRereadOmitted(s) ==
    /\ step[s] = "reread"
    /\ local' = [local EXCEPT ![s] = LocalKeys(target[s])]
    /\ Do(s, "open")
    /\ UNCHANGED <<vars, evidence, target, verdict, attempt>>

\* Under the lock the capture is looked at again and its identifiers are read.  It
\* may have been superseded since the first look: that raises.
VReread(s) ==
    LET c == target[s] IN
    /\ step[s] = "reread"
    /\ IF Verifiable(c)
       THEN local' = [local EXCEPT ![s] = LocalKeys(c)] /\ Do(s, "open")
       ELSE UNCHANGED local /\ Do(s, "leave")
    /\ UNCHANGED <<vars, evidence, target, verdict, attempt>>

NewAttempt(s) ==
    [capture |-> target[s], sha |-> captures[target[s]].sha, state |-> "in_progress",
     found |-> Cardinality(local[s]), keys |-> None]

\* Variant: opening an attempt leaves the standing of the capture alone.
VOpenKeepingStanding(s) ==
    /\ step[s] = "open"
    /\ Len(attempts) < MaxAttempts
    /\ attempts' = Append(attempts, NewAttempt(s))
    /\ attempt' = [attempt EXCEPT ![s] = Len(attempts) + 1]
    /\ Do(s, "walk")
    /\ UNCHANGED <<vars, coverage, target, local, verdict>>

\* One transaction puts the attempt on record and lowers the capture's standing,
\* before the source is asked.  A misfiled capture is not asked about at all.  At
\* the bound on attempts the insert fails.
VOpen(s) ==
    LET c == target[s] IN
    /\ step[s] = "open"
    /\ IF Len(attempts) < MaxAttempts
       THEN /\ attempts' = Append(attempts, NewAttempt(s))
            /\ coverage' = coverage \ {c}
            /\ attempt' = [attempt EXCEPT ![s] = Len(attempts) + 1]
            /\ IF CompositionError(c)
               THEN /\ verdict' = [verdict EXCEPT ![s] = [state |-> "unavailable", keys |-> None]]
                    /\ Do(s, "close")
               ELSE UNCHANGED verdict /\ Do(s, "walk")
       ELSE UNCHANGED <<attempts, coverage, attempt, verdict>> /\ Do(s, "leave")
    /\ UNCHANGED <<vars, target, local>>

\* The walk over the source, with the lock held and no transaction open: a complete
\* enumeration of a set the source may hold, or SourceUnavailable.
VWalk(s) ==
    /\ step[s] = "walk"
    /\ \/ \E there \in Answers[captures[target[s]].pkg] :
              verdict' = [verdict EXCEPT ![s] =
                  [state |-> Compare(local[s], there), keys |-> there]]
       \/ verdict' = [verdict EXCEPT ![s] = [state |-> "unavailable", keys |-> None]]
    /\ Do(s, "close")
    /\ UNCHANGED <<vars, evidence, target, local, attempt>>

\* Variant: the update names the capture and not the attempt.
VCloseAllOfCapture(s) ==
    LET c == target[s] IN
    /\ step[s] = "close"
    /\ attempts' = [a \in DOMAIN attempts |->
            IF attempts[a].capture = c /\ attempts[a].state = "in_progress"
            THEN [attempts[a] EXCEPT !.state = verdict[s].state, !.keys = verdict[s].keys]
            ELSE attempts[a]]
    /\ coverage' = IF verdict[s].state = "verified" THEN coverage \cup {c} ELSE coverage \ {c}
    /\ Do(s, "leave")
    /\ UNCHANGED <<vars, target, local, verdict, attempt>>

\* The verdict and the capture's standing commit together; an attempt that is no
\* longer in progress aborts both.
VClose(s) ==
    LET a == attempt[s] IN
    /\ step[s] = "close"
    /\ IF attempts[a].state = "in_progress"
       THEN /\ attempts' = [attempts EXCEPT
                    ![a].state = verdict[s].state, ![a].keys = verdict[s].keys]
            /\ coverage' = IF verdict[s].state = "verified"
                           THEN coverage \cup {target[s]} ELSE coverage \ {target[s]}
       ELSE UNCHANGED evidence
    /\ Do(s, "leave")
    /\ UNCHANGED <<vars, target, local, verdict, attempt>>

VLeave(s) ==
    /\ step[s] = "leave"
    /\ GiveLock(s, captures[target[s]].pkg)
    /\ Do(s, "idle")
    /\ Drop(s)
    /\ UNCHANGED <<tables, file, pc, work, budgets, evidence>>

\* A statement is cancelled: the call raises, through the release of the lock.
VDbError(s) ==
    /\ step[s] \in {"reread", "open", "close"}
    /\ faults < MaxFaults
    /\ faults' = faults + 1
    /\ Do(s, "leave")
    /\ UNCHANGED <<tables, lock, file, pc, work, crashes, swaps, evidence, target, local,
                   verdict, attempt>>

VCrash(s) ==
    /\ step[s] # "idle"
    /\ crashes < MaxCrashes
    /\ crashes' = crashes + 1
    /\ Goto(s, "dead")
    /\ Do(s, "idle")
    /\ Drop(s)
    /\ UNCHANGED <<tables, lock, file, work, faults, swaps, evidence>>

-----------------------------------------------------------------------------

VAdvance(s) ==
    \/ VAcquire(s) \/ VRefuseBusy(s) \/ VReread(s) \/ VOpen(s) \/ VWalk(s)
    \/ VClose(s) \/ VLeave(s)

VBegin(s) == \E c \in DOMAIN captures : VStart(s, c)

\* A session loads or verifies, one call at a time.
Load(s) ==
    /\ step[s] = "idle"
    /\ Start(s) \/ Advance(s) \/ DbError(s) \/ Crash(s) \/ Reap(s)
    /\ UNCHANGED <<evidence, check>>

Verify(s) == VBegin(s) \/ VAdvance(s) \/ VDbError(s) \/ VCrash(s)

VNext ==
    \/ \E s \in Session : Load(s) \/ Verify(s)
    \/ \E p \in Package : SwapFile(p) /\ UNCHANGED <<evidence, check>>

VSpec == VInit /\ [][VNext]_vvars

-----------------------------------------------------------------------------
(* Properties *)

\* coverage_verified says what the latest attempt said: through verdicts that
\* differ from one attempt to the next, failures, and attempts nobody closed.
CoverageIsLatestVerdict ==
    \A c \in DOMAIN captures :
        c \in coverage <=>
            \E a \in AttemptsOf(c) :
                attempts[a].state = "verified" /\ \A b \in AttemptsOf(c) : b <= a

\* A verified attempt is evidence for good: the identifiers it saw at the source
\* are, at any later time, the ones the capture holds, and its capture is of the
\* bytes the attempt names, whatever loads and recaptures follow.
VerifiedEvidenceHolds ==
    \A a \in DOMAIN attempts : attempts[a].state = "verified" =>
        LET c == attempts[a].capture IN
        /\ attempts[a].keys = LocalKeys(c) /\ attempts[a].keys # {}
        /\ attempts[a].found = Cardinality(LocalKeys(c))
        /\ attempts[a].sha = captures[c].sha

\* What is being verified stays what readers see until the attempt is closed: no
\* load supersedes it between the second look and the verdict.
VerdictOnThePublished ==
    \A s \in Session : step[s] \in {"open", "walk", "close"} => IsPublished(target[s])

InsideFor(s, p) ==
    \/ pc[s] \in Holding /\ job[s].pkg = p
    \/ step[s] \in Checking /\ captures[target[s]].pkg = p

\* Loads and verifications of one package exclude each other and themselves.
PackageWorkIsExclusive ==
    \A p \in Package : \A s, t \in Session :
        InsideFor(s, p) /\ InsideFor(t, p) => s = t

\* An attempt that was closed is never rewritten, and one whose verifier died or
\* failed to close it stays in progress: nobody else closes it later.
HistoryIsKept ==
    [][\A a \in DOMAIN attempts : attempts'[a] # attempts[a] =>
        /\ attempts[a].state = "in_progress"
        /\ \E s \in Session : attempt[s] = a /\ step[s] = "close"]_vvars

Certified == INSTANCE CertifiedNotices WITH
    edition <- pointer, shown <- [p \in Package |-> Visible(p)],
    certified <- [p \in Package |-> pointer[p] \in coverage]

\* A reader sees whole editions, each without a certificate until the source was
\* found to hold exactly its identifiers; a recapture never inherits one.
ReadersSeeCertifiedEditions == Certified!CSpec

-----------------------------------------------------------------------------
(* The inductive invariant behind the properties above *)

\* A verifier does nothing else, knows its capture and holds its package's lock.
VerifierHolds(s) ==
    /\ step[s] # "idle" => pc[s] = "idle" /\ target[s] \in DOMAIN captures
    /\ step[s] \in Checking => owner[captures[target[s]].pkg] = s

\* What it verifies is published and holds what it read, the attempt it opened is
\* its capture's latest and still open, and a good verdict is about what it read
\* and the source held.
CheckIsFounded(s) ==
    LET c == target[s]
        a == attempt[s]
    IN
    /\ step[s] \in {"open", "walk", "close"} => IsPublished(c) /\ local[s] = LocalKeys(c)
    /\ step[s] \in {"walk", "close"} =>
        /\ a \in AttemptsOf(c) /\ \A b \in AttemptsOf(c) : b <= a
        /\ attempts[a].state = "in_progress"
    /\ step[s] = "close" =>
        /\ verdict[s] \in Verdict
        /\ verdict[s].state = "verified" =>
            /\ verdict[s].keys = local[s] /\ local[s] # {}
            /\ local[s] \in Answers[captures[c].pkg]

VerifierShape == \A s \in Session : VerifierHolds(s)
CheckShape == \A s \in Session : CheckIsFounded(s)

\* An attempt is about a capture that was published, so that no load writes to it
\* any more: what the attempt says of the capture's rows stays true.
AttemptShape ==
    \A a \in DOMAIN attempts :
        LET c == attempts[a].capture IN
        /\ c \in DOMAIN captures /\ captures[c].status \in {"published", "superseded"}
        /\ attempts[a].sha = captures[c].sha
        /\ attempts[a].found = Cardinality(LocalKeys(c))
        /\ attempts[a].state = "verified" =>
            attempts[a].keys = LocalKeys(c) /\ attempts[a].keys # {}

VInv ==
    /\ StoreInv /\ VTypeOK /\ VerifierShape /\ CheckShape /\ AttemptShape
    /\ CoverageIsLatestVerdict

=============================================================================
