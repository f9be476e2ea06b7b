-------------------------------- MODULE Download --------------------------------
(***************************************************************************)
(* download_package: acquire one package's file and leave it validated at  *)
(* the destination (download.py).  The caller holds the package's lock, so *)
(* one call runs at a time; the process may die in the middle of it, and   *)
(* the machine may lose power, which keeps of a file only what was synced  *)
(* and of the directory what was synced or happened to be written.         *)
(*                                                                         *)
(* Bytes are counted in chunks of chunk_bytes.  The server may send any    *)
(* body, end it early with or without an error, and declare any length.    *)
(***************************************************************************)
EXTENDS Integers

CONSTANTS
    Body,           \* what the server may send
    Length,         \* [Body -> Nat], in chunks
    Packages,       \* bodies that inspect_package accepts when they are whole
    None,
    MaxAttempts, MaxArtifactBytes, MaxTotalBytes,
    MaxDeaths,      \* bound: deaths of the process and losses of power
    MaxUnremoved    \* bound: removals that fail

ASSUME DownloadAssumption ==
    /\ Length \in [Body -> Nat] /\ Packages \subseteq Body
    /\ MaxAttempts \in Nat \ {0}
    /\ MaxArtifactBytes \in Nat /\ MaxTotalBytes \in Nat
    /\ MaxDeaths \in Nat /\ MaxUnremoved \in Nat

VARIABLES
    destination,    \* the file that is seen at the destination
    durable,        \* the one the synced directory names there
    litter,         \* temporary files that nobody will remove
    unremoved,      \* how often the removal of one failed
    deaths,
    at,             \* where the call is
    attempt,
    late,           \* whether the time budget is spent
    used,           \* _ByteBudget.used, over all attempts
    received,       \* what the server sent in this call
    temporary,      \* the partial file of this attempt
    declared        \* its Content-Length

disk == <<destination, durable, litter, unremoved>>
vars == <<disk, deaths, at, attempt, late, used, received, temporary, declared>>

File == [of: Body, length: Nat, synced: BOOLEAN]
NoFile == [of |-> None, length |-> 0, synced |-> TRUE]

\* inspect_package reads the archive to its end, so a file cut off does not pass.
Whole(f) == f.of \in Packages /\ f.length = Length[f.of]

TypeOK ==
    /\ destination \in File \cup {NoFile} /\ durable \in File \cup {NoFile}
    /\ litter \in Nat /\ unremoved \in 0..MaxUnremoved /\ deaths \in 0..MaxDeaths
    /\ at \in {"idle", "attempt", "open", "stream", "measure", "validate", "sync"}
    /\ attempt \in 1..MaxAttempts
    /\ late \in BOOLEAN
    /\ used \in Nat /\ received \in Nat
    /\ temporary \in File \cup {NoFile}
    /\ declared \in Nat \cup {None}

Init ==
    /\ destination = NoFile /\ durable = NoFile
    /\ litter = 0 /\ unremoved = 0 /\ deaths = 0
    /\ at = "idle" /\ attempt = 1 /\ late = FALSE /\ used = 0 /\ received = 0
    /\ temporary = NoFile /\ declared = None

-----------------------------------------------------------------------------
(* download_package *)

Begin ==
    /\ at = "idle"
    /\ at' = "attempt" /\ attempt' = 1 /\ late' = FALSE /\ used' = 0 /\ received' = 0
    /\ UNCHANGED <<disk, deaths, temporary, declared>>

\* The time budget runs out.
Expire ==
    /\ at # "idle" /\ ~late
    /\ late' = TRUE
    /\ UNCHANGED <<disk, deaths, at, attempt, used, received, temporary, declared>>

\* A partial file that is dropped by name and left on disk.
Abandon == temporary' = NoFile /\ litter' = IF temporary = NoFile THEN litter ELSE litter + 1

\* Variant: the partial file is not removed.
DiscardNothing == Abandon /\ UNCHANGED unremoved

\* Only this call's own partial file is removed, if it is there.  Where that fails nobody
\* hears of it, and the file stays.
Discard ==
    \/ temporary' = NoFile /\ UNCHANGED <<litter, unremoved>>
    \/ /\ temporary # NoFile /\ unremoved < MaxUnremoved
       /\ unremoved' = unremoved + 1
       /\ Abandon

\* DownloadError or any other but a transient one, through the handler that removes the
\* partial file.
Raise == at' = "idle" /\ Discard

\* Variant: one attempt too many.
LastAttemptOffByOne == attempt > MaxAttempts

LastAttempt == attempt = MaxAttempts

\* Variant: each attempt has the whole budget.
SpentAgain == used' = 0

Spent == UNCHANGED used

\* TransientDownloadError: start over from byte zero, unless this was the last attempt
\* or the wait outlasts the time budget.
TryAgain ==
    \/ Raise /\ UNCHANGED <<attempt, used>>
    \/ /\ ~LastAttempt /\ ~late
       /\ attempt' = attempt + 1
       /\ at' = "attempt"
       /\ Discard /\ Spent

Attempt ==
    /\ at = "attempt"
    /\ at' = IF late THEN "idle" ELSE "open"
    /\ UNCHANGED <<disk, deaths, attempt, late, used, received, temporary, declared>>

\* A redirect, a status, an encoding or a declared length that is not accepted.
Refuse ==
    /\ at = "open"
    /\ Raise
    /\ UNCHANGED <<destination, durable, deaths, attempt, late, used, received, declared>>

\* No connection, or 408, 429 or 5xx.
NoReply ==
    /\ at = "open"
    /\ TryAgain
    /\ UNCHANGED <<destination, durable, deaths, late, received, declared>>

\* A complete 200 response begins; the partial file is created.
Reply ==
    /\ at = "open"
    /\ \E b \in Body : temporary' = [of |-> b, length |-> 0, synced |-> FALSE]
    /\ declared' \in {None} \cup 0..MaxArtifactBytes
    /\ at' = "stream"
    /\ UNCHANGED <<disk, deaths, attempt, late, used, received>>

\* A chunk that arrives in time is charged to the budget of the call and to that of the
\* file before it is written.
Chunk ==
    /\ at = "stream"
    /\ temporary.length < Length[temporary.of]
    /\ received' = received + 1
    /\ used' = IF late THEN used ELSE used + 1
    /\ IF late \/ used' > MaxTotalBytes \/ temporary.length + 1 > MaxArtifactBytes
       THEN Raise
       ELSE /\ temporary' = [temporary EXCEPT !.length = @ + 1]
            /\ UNCHANGED <<at, litter, unremoved>>
    /\ UNCHANGED <<destination, durable, deaths, attempt, late, declared>>

\* The connection breaks in the body.
Interrupted ==
    /\ at = "stream"
    /\ TryAgain
    /\ UNCHANGED <<destination, durable, deaths, late, received, declared>>

\* Variant: the file is closed without a sync.
EndUnsynced ==
    /\ at = "stream"
    /\ IF late THEN Raise
       ELSE at' = "measure" /\ UNCHANGED <<temporary, litter, unremoved>>
    /\ UNCHANGED <<destination, durable, deaths, attempt, late, used, received, declared>>

\* The body ends, maybe early: what was written is flushed and synced.
End ==
    /\ at = "stream"
    /\ IF late THEN Raise
       ELSE /\ temporary' = [temporary EXCEPT !.synced = TRUE]
            /\ at' = "measure"
            /\ UNCHANGED <<litter, unremoved>>
    /\ UNCHANGED <<destination, durable, deaths, attempt, late, used, received, declared>>

\* A body shorter than was declared is a broken connection.
Measure ==
    /\ at = "measure"
    /\ IF declared \notin {None, temporary.length}
       THEN TryAgain
       ELSE at' = "validate" /\ UNCHANGED <<temporary, litter, unremoved, attempt, used>>
    /\ UNCHANGED <<destination, durable, deaths, late, received, declared>>

\* A file that is no package is not retried; one that is takes the destination's name.
Validate ==
    /\ at = "validate"
    /\ IF Whole(temporary)
       THEN /\ destination' = temporary
            /\ temporary' = NoFile
            /\ at' = "sync"
            /\ UNCHANGED <<litter, unremoved>>
       ELSE Raise /\ UNCHANGED destination
    /\ UNCHANGED <<durable, deaths, attempt, late, used, received, declared>>

\* The directory is synced where the platform can; an error is ignored.
SyncDirectory ==
    /\ at = "sync"
    /\ durable' \in {durable, destination}
    /\ at' = "idle"
    /\ UNCHANGED <<destination, litter, unremoved, deaths, attempt, late, used, received,
                   temporary, declared>>

\* The local file system fails, or the call is interrupted, anywhere: also behind the
\* rename, which then stands.
Break ==
    /\ at # "idle"
    /\ Raise
    /\ UNCHANGED <<destination, durable, deaths, attempt, late, used, received, declared>>

-----------------------------------------------------------------------------
(* Deaths *)

\* The call ends; its partial file stays, and the next call will not look for it.
Die ==
    /\ at # "idle"
    /\ deaths < MaxDeaths
    /\ deaths' = deaths + 1
    /\ Abandon
    /\ at' = "idle"
    /\ UNCHANGED <<destination, durable, unremoved, attempt, late, used, received, declared>>

\* What a file may hold after the power went: all of it if it was synced, else a part.
Surviving(f) ==
    IF f.synced THEN {f} ELSE {[f EXCEPT !.length = n] : n \in 0..f.length}

LosePower ==
    /\ deaths < MaxDeaths
    /\ deaths' = deaths + 1
    /\ destination' \in Surviving(destination) \cup Surviving(durable)
    /\ durable' = destination'
    /\ Abandon
    /\ at' = "idle"
    /\ UNCHANGED <<unremoved, attempt, late, used, received, declared>>

-----------------------------------------------------------------------------

Next ==
    \/ Begin \/ Expire \/ Attempt \/ Refuse \/ NoReply \/ Reply \/ Chunk \/ Interrupted
    \/ End \/ Measure \/ Validate \/ SyncDirectory \/ Break \/ Die \/ LosePower

Spec == Init /\ [][Next]_vars

-----------------------------------------------------------------------------
(* Properties *)

\* Whatever the server sends, and wherever the process dies or the power goes, what is
\* found under the package's name is a whole package: nobody adopts a part of one.
DestinationIsWhole == destination # NoFile => Whole(destination)

\* One acquisition, over all its attempts, receives at most one chunk more than its
\* budget, however the server truncates and whatever it declares; and the count it
\* reports is what it received, but for a chunk that came too late.
TransferIsBounded ==
    /\ received <= MaxTotalBytes + 1
    /\ received \in {used, used + 1}

\* Every way out of an attempt removes its partial file: one that stays, over all attempts
\* of all calls, is that of a death or of a removal that failed, one each; and no attempt
\* begins with the file of the one before it.
LitterHasCause ==
    /\ litter <= deaths + unremoved
    /\ at \in {"idle", "attempt", "open"} => temporary = NoFile

\* What docs/ingestion.md says of a crash before the rename: the partial file is
\* deleted, by the call itself or by what the next one does.
PartialIsDeleted == at = "sync" => litter = 0
=============================================================================
