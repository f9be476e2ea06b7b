------------------------------- MODULE SourceWalk -------------------------------
(***************************************************************************)
(* enumerate_publication_keys: the walk over the source's pages that one   *)
(* verification rests on (source_api.py).                                  *)
(*                                                                         *)
(* The source is not trusted with paging: a page may list any of the       *)
(* notices it holds, none, or some again, with any token or without one,   *)
(* and it may answer late, ask for a pause, or refuse.  It is trusted with *)
(* what it holds: the total it announces and the notices it lists are of   *)
(* what is published at that moment, and what was published is not         *)
(* withdrawn.  A page that breaks the documented contract, or lists a      *)
(* notice outside the package's window, is a refusal here.                 *)
(***************************************************************************)
EXTENDS Integers, FiniteSets

CONSTANTS
    Notice,         \* what may be published for the package
    Token,          \* iteration tokens
    None,
    PageRecords,    \* records a page carries at most
    MaxNotices, MaxPages, MaxTries,
    Seconds,        \* the time budget of the walk
    Base, Longest,  \* backoff: the first wait, and the longest
    RetryAfter      \* waits the source may ask for, and None

ASSUME SourceWalkAssumption ==
    /\ IsFiniteSet(Notice) /\ None \notin Token
    /\ PageRecords \in Nat /\ MaxNotices \in Nat /\ MaxPages \in Nat
    /\ MaxTries \in Nat \ {0}
    /\ Seconds \in Nat /\ Base \in Nat /\ Longest \in Nat
    /\ None \notin Nat /\ RetryAfter \subseteq Nat \cup {None}

VARIABLES
    held,       \* what the source has published for the package
    answered,   \* what it had published when it answered last
    quiet,      \* the time before which it asked not to be called
    now,        \* time since the walk began
    at,         \* where the walk is
    tries,      \* attempts at this page
    reply,      \* the page that was read
    keys, records, duplicates, total, pages, requests,  \* Enumeration
    tokens      \* seen_tokens

source == <<held, answered, quiet>>
observed == <<keys, records, duplicates, total, pages, requests>>
vars == <<source, now, at, tries, reply, observed, tokens>>

Page == [keys: SUBSET Notice, length: 0..PageRecords, total: Nat, token: Token \cup {None}]

Ended == {"complete", "unavailable"}

TypeOK ==
    /\ held \in SUBSET Notice /\ answered \in SUBSET Notice
    /\ quiet \in Nat /\ now \in Nat
    /\ at \in {"page", "request", "wire", "judge", "confirm"} \cup Ended
    /\ tries \in 1..MaxTries
    /\ reply \in Page \cup {None}
    /\ keys \in SUBSET Notice
    /\ records \in Nat /\ duplicates \in Nat /\ pages \in Nat /\ requests \in Nat
    /\ total \in Nat \cup {None}
    /\ tokens \in SUBSET Token

\* A walk begins with nothing observed.
Init ==
    /\ held \in SUBSET Notice /\ answered = {}
    /\ quiet = 0 /\ now = 0
    /\ at = "page" /\ tries = 1 /\ reply = None
    /\ keys = {} /\ records = 0 /\ duplicates = 0 /\ total = None
    /\ pages = 0 /\ requests = 0
    /\ tokens = {}

-----------------------------------------------------------------------------
(* The source and the clock *)

PublishNotice(n) ==
    /\ n \notin held
    /\ held' = held \cup {n}
    /\ UNCHANGED <<answered, quiet, now, at, tries, reply, observed, tokens>>

\* How far the budget was overrun makes no difference.
Tick ==
    /\ at \notin Ended
    /\ now < Seconds
    /\ now' = now + 1
    /\ UNCHANGED <<source, at, tries, reply, observed, tokens>>

\* Records a page lists, with repetition: only a page without records lists nothing.
Pages ==
    {p \in [keys: SUBSET held, length: 0..PageRecords, total: {Cardinality(held)},
            token: Token \cup {None}] :
        /\ Cardinality(p.keys) <= p.length
        /\ p.keys = {} => p.length = 0}

-----------------------------------------------------------------------------
(* _fetch_page *)

InTime == now < Seconds

GiveUp == at' = "unavailable"

\* The page budget comes before the request; the attempts start over.
NextPage ==
    /\ at = "page"
    /\ IF pages < MaxPages THEN at' = "request" ELSE GiveUp
    /\ tries' = 1
    /\ UNCHANGED <<source, now, reply, observed, tokens>>

Request ==
    /\ at = "request"
    /\ IF InTime
       THEN at' = "wire" /\ requests' = requests + 1
       ELSE GiveUp /\ UNCHANGED requests
    /\ UNCHANGED <<source, now, tries, reply, keys, records, duplicates, total, pages, tokens>>

\* A status 200 that is read within the budget and decodes.
ReadPage ==
    /\ at = "wire"
    /\ InTime
    /\ \E p \in Pages : reply' = p
    /\ answered' = held
    /\ at' = "judge"
    /\ UNCHANGED <<held, quiet, now, tries, observed, tokens>>

\* Another status, a body that is no JSON object or too large, a TLS error, or an
\* answer that took too long.
RefuseReply ==
    /\ at = "wire"
    /\ GiveUp
    /\ UNCHANGED <<source, now, tries, reply, observed, tokens>>

Backoff == LET w == Base * 2 ^ (tries - 1) IN IF w < Longest THEN w ELSE Longest

\* Variant: the source's own wait is only a hint.
WaitByBackoff(r) == Backoff

Wait(r) == IF r = None THEN Backoff ELSE r

\* Variant: one attempt too many.
LastTryOffByOne == tries > MaxTries

LastTry == tries = MaxTries

\* A connection lost, a body cut off, or 408, 429 or 5xx: wait and try again, unless
\* this was the last attempt or the wait outlasts the budget.
Transient(r) ==
    /\ at = "wire"
    /\ quiet' = IF r = None THEN quiet ELSE now + r
    /\ IF LastTry \/ Wait(r) >= Seconds - now
       THEN GiveUp /\ UNCHANGED <<now, tries>>
       ELSE now' = now + Wait(r) /\ tries' = tries + 1 /\ at' = "request"
    /\ UNCHANGED <<held, answered, reply, observed, tokens>>

-----------------------------------------------------------------------------
(* _walk, _page_keys *)

\* Variant: repetitions are counted within a page only.
RepeatedInPage(p) == p.length - Cardinality(p.keys)

Repeated(p) == p.length - Cardinality(p.keys \ keys)

\* The page breaks the contract, or a record lies outside the window: it was fetched,
\* and nothing of it is counted.
RefusePage ==
    /\ at = "judge"
    /\ pages' = pages + 1
    /\ GiveUp
    /\ UNCHANGED <<source, now, tries, reply, keys, records, duplicates, total, requests,
                   tokens>>

TotalChanged == total # None /\ reply.total # total
OverBudget == total = None /\ reply.total > MaxNotices

\* The first total is kept even when it is refused; a later one that differs is not.
RefuseTotal ==
    /\ at = "judge"
    /\ TotalChanged \/ OverBudget
    /\ total' = IF total = None THEN reply.total ELSE total
    /\ pages' = pages + 1
    /\ GiveUp
    /\ UNCHANGED <<source, now, tries, reply, keys, records, duplicates, requests, tokens>>

\* Variant: as many records as were announced, whichever they were.
ReceivedRecords == records' = reply.total

ReceivedEverything == records' = Cardinality(keys') /\ Cardinality(keys') = reply.total

\* Where the walk goes from a page that was counted.
Judge ==
    IF records' > reply.total THEN GiveUp
    ELSE IF reply.length = 0 \/ reply.token = None
    THEN IF ReceivedEverything THEN at' = "confirm" ELSE GiveUp
    ELSE IF reply.token \in tokens THEN GiveUp
    ELSE at' = "page"

CountPage ==
    /\ at = "judge"
    /\ ~TotalChanged /\ ~OverBudget
    /\ total' = reply.total
    /\ pages' = pages + 1
    /\ keys' = keys \cup reply.keys
    /\ duplicates' = duplicates + Repeated(reply)
    /\ records' = records + reply.length
    /\ Judge
    /\ tokens' = IF at' = "page" THEN tokens \cup {reply.token} ELSE tokens
    /\ UNCHANGED <<source, now, tries, reply, requests>>

\* The result is accepted only within the budget.
Confirm ==
    /\ at = "confirm"
    /\ at' = IF InTime THEN "complete" ELSE "unavailable"
    /\ UNCHANGED <<source, now, tries, reply, observed, tokens>>

\* The next verification of the package walks again.
Again ==
    /\ at \in Ended
    /\ now' = 0 /\ quiet' = 0
    /\ at' = "page" /\ tries' = 1 /\ reply' = None
    /\ keys' = {} /\ records' = 0 /\ duplicates' = 0 /\ total' = None
    /\ pages' = 0 /\ requests' = 0
    /\ tokens' = {}
    /\ UNCHANGED <<held, answered>>

-----------------------------------------------------------------------------

Walk ==
    \/ NextPage \/ Request \/ ReadPage \/ RefuseReply
    \/ \E r \in RetryAfter : Transient(r)
    \/ RefusePage \/ RefuseTotal \/ CountPage \/ Confirm

Next ==
    \/ Walk \/ Again \/ Tick
    \/ \E n \in Notice : PublishNotice(n)

Spec == Init /\ [][Next]_vars

-----------------------------------------------------------------------------
(* Properties *)

\* A walk that completes, over however many pages, repetitions, retries and notices
\* published on the way, returns exactly what the source held when it answered last:
\* to the verifier the walk is one read.
CompleteIsSnapshot == at \in {"confirm", "complete"} => keys = answered

\* What is recorded of a walk, also of one that failed, adds up: every record is a
\* new identifier or a repetition, across pages, and none of a complete walk is; no
\* page was read without a request, and no page cost more than its attempts.
EvidenceAddsUp ==
    /\ records = Cardinality(keys) + duplicates
    /\ at = "complete" => duplicates = 0 /\ records = total
    /\ pages <= requests /\ requests <= MaxPages * MaxTries

\* The source is not called before the pause it asked for is over nor after the
\* budget is spent, and no result is accepted after it either, however long anything
\* in between took.
TimeIsKept ==
    [][requests' > requests \/ (at # "complete" /\ at' = "complete")
        => quiet <= now /\ now < Seconds]_vars
=============================================================================
