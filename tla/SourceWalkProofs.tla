--------------------------- MODULE SourceWalkProofs ---------------------------
(***************************************************************************)
(* A walk over the source is one read of it, for every number of notices,  *)
(* pages, attempts and tokens.                                             *)
(***************************************************************************)
EXTENDS SourceWalk, FiniteSetTheorems, TLAPS

\* What was counted was listed, and what was listed was held: so the set counted is
\* the set held as soon as it is as large.
WalkShape ==
    /\ answered \subseteq held /\ held \in SUBSET Notice
    /\ keys \subseteq held
    /\ at \in {"judge", "confirm", "complete"} => keys \subseteq answered
    /\ at = "judge" =>
        /\ reply \in Page /\ reply.keys \subseteq answered
        /\ reply.total = Cardinality(answered)

IInv == WalkShape /\ CompleteIsSnapshot

\* A walk that has not yet asked for a page satisfies the invariant.
LEMMA InitIInv == Init => IInv
BY DEF Init, IInv, WalkShape, CompleteIsSnapshot

\* A finite set's subset of the same size is the set.
LEMMA SameSize ==
    ASSUME NEW S, IsFiniteSet(S), NEW T \in SUBSET S, Cardinality(T) = Cardinality(S)
    PROVE  T = S
BY FS_Subset

\* Every answer, retry, pause and publication at the source keeps the invariant.
LEMMA NextIInv == IInv /\ [Next]_vars => IInv'
<1> SUFFICES ASSUME IInv, [Next]_vars PROVE IInv'
  OBVIOUS
<1> USE DEF IInv, WalkShape, CompleteIsSnapshot, source, observed
<1>1. CASE NextPage
  BY <1>1 DEF NextPage, GiveUp
<1>2. CASE Request
  BY <1>2 DEF Request, GiveUp
<1>3. CASE ReadPage
  <2>1. PICK p \in Pages : reply' = p
    BY <1>3 DEF ReadPage
  <2>2. p \in Page /\ p.keys \subseteq held /\ p.total = Cardinality(held)
    <3>1. IsFiniteSet(held)
      BY SourceWalkAssumption, FS_Subset
    <3>2. Cardinality(held) \in Nat
      BY <3>1, FS_CardinalityType
    <3> QED
      BY <3>2 DEF Pages, Page
  <2> QED
    BY <1>3, <2>1, <2>2 DEF ReadPage
<1>4. CASE RefuseReply
  BY <1>4 DEF RefuseReply, GiveUp
<1>5. ASSUME NEW r \in RetryAfter, Transient(r) PROVE IInv'
  BY <1>5 DEF Transient, GiveUp
<1>6. CASE RefusePage
  BY <1>6 DEF RefusePage, GiveUp
<1>7. CASE RefuseTotal
  BY <1>7 DEF RefuseTotal, GiveUp
<1>8. CASE CountPage
  <2>1. keys' \subseteq answered /\ UNCHANGED <<held, answered, reply>>
    BY <1>8 DEF CountPage
  <2>2. at' \in {"page", "unavailable", "confirm"}
    BY <1>8 DEF CountPage, Judge, GiveUp
  <2>3. ASSUME at' = "confirm" PROVE keys' = answered
    <3>1. Cardinality(keys') = Cardinality(answered)
      BY <1>8, <2>3 DEF CountPage, Judge, GiveUp, ReceivedEverything
    <3>2. IsFiniteSet(answered)
      BY SourceWalkAssumption, FS_Subset
    <3> QED
      BY <2>1, <3>1, <3>2, SameSize
  <2> QED
    BY <2>1, <2>2, <2>3
<1>9. CASE Confirm
  BY <1>9 DEF Confirm
<1>10. CASE Again
  BY <1>10 DEF Again, Ended
<1>11. CASE Tick
  BY <1>11 DEF Tick
<1>12. ASSUME NEW n \in Notice, PublishNotice(n) PROVE IInv'
  BY <1>12 DEF PublishNotice
<1>13. CASE UNCHANGED vars
  BY <1>13 DEF vars
<1> QED
  BY <1>1, <1>2, <1>3, <1>4, <1>5, <1>6, <1>7, <1>8, <1>9, <1>10, <1>11, <1>12, <1>13
     DEF Next, Walk

\* To the verifier a completed walk is one read of the source: it returns exactly what
\* was published when the source answered last.
THEOREM WalkIsSnapshot == Spec => []CompleteIsSnapshot
<1>1. IInv => CompleteIsSnapshot
  BY DEF IInv
<1> QED
  BY <1>1, InitIInv, NextIInv, PTL DEF Spec
-----------------------------------------------------------------------------
(* What a walk records of itself *)

\* The page that is judged lists no more identifiers than records.
ReplyShape == at = "judge" => reply \in Page /\ Cardinality(reply.keys) <= reply.length

RecordShape ==
    /\ records = Cardinality(keys) + duplicates
    /\ at \in {"confirm", "complete"} => duplicates = 0 /\ records = total

\* The attempts at earlier pages and those at this one, and the request behind a reply.
RequestShape ==
    /\ pages <= MaxPages /\ pages <= requests
    /\ requests <= MaxPages * MaxTries
    /\ at = "page" => requests <= pages * MaxTries
    /\ at \in {"request", "wire", "judge"} => pages < MaxPages
    /\ at = "request" => requests <= pages * MaxTries + (tries - 1)
    /\ at \in {"wire", "judge"} => requests <= pages * MaxTries + tries /\ pages + 1 <= requests

\* A pause the source asked for is over, unless it ended the walk.
PauseShape == at # "unavailable" => quiet <= now

Accounts == TypeOK /\ ReplyShape /\ RecordShape /\ RequestShape /\ PauseShape

\* Backoff doubles a whole number of times.
LEMMA PowersOfTwo == ASSUME NEW n \in Nat PROVE 2 ^ n \in Nat
<1>1. IsFiniteSet(1..n) /\ Cardinality(1..n) = n
  BY FS_Interval
<1>2. IsFiniteSet(SUBSET (1..n)) /\ Cardinality(SUBSET (1..n)) = 2 ^ n
  BY <1>1, FS_SUBSET
<1>. QED  BY <1>2, FS_CardinalityType

\* Backoff and Retry-After are waits: they take time or none.
LEMMA WaitType ==
    ASSUME TypeOK, NEW r \in RetryAfter
    PROVE  Wait(r) \in Nat /\ (r # None => r \in Nat /\ Wait(r) = r)
<1>1. tries - 1 \in Nat
  BY SourceWalkAssumption DEF TypeOK
<1>2. 2 ^ (tries - 1) \in Nat
  BY <1>1, PowersOfTwo
<1>. DEFINE b == 2 ^ (tries - 1)
<1>3. Base * b \in Nat
  BY <1>2, SourceWalkAssumption
<1>4. Backoff \in Nat
  BY <1>3, SourceWalkAssumption DEF Backoff
<1>. QED  BY <1>4, SourceWalkAssumption DEF Wait

\* What is listed of a finite package can be counted.
LEMMA Countable ==
    ASSUME NEW S \in SUBSET Notice
    PROVE  IsFiniteSet(S) /\ Cardinality(S) \in Nat
BY SourceWalkAssumption, FS_Subset, FS_CardinalityType

\* A page adds the identifiers that no earlier one listed.
LEMMA Added ==
    ASSUME NEW S \in SUBSET Notice, NEW T \in SUBSET Notice
    PROVE  /\ Cardinality(S \cup T) = Cardinality(S) + Cardinality(T \ S)
           /\ Cardinality(T \ S) <= Cardinality(T)
<1>1. IsFiniteSet(S) /\ IsFiniteSet(T) /\ IsFiniteSet(T \ S)
  BY Countable
<1>2. Cardinality(S \cup (T \ S)) = Cardinality(S) + Cardinality(T \ S) - Cardinality(S \cap (T \ S))
  BY <1>1, FS_Union
<1>3. S \cup (T \ S) = S \cup T /\ S \cap (T \ S) = {} /\ T \ S \subseteq T
  OBVIOUS
<1>4. Cardinality({}) = 0
  BY FS_EmptySet
<1>5. Cardinality(S) \in Nat /\ Cardinality(T \ S) \in Nat /\ Cardinality(T \ S) <= Cardinality(T)
  BY <1>1, <1>3, FS_CardinalityType, FS_Subset
<1>6. Cardinality(S \cup T) = Cardinality(S) + Cardinality(T \ S) - 0
  BY <1>2, <1>3, <1>4, Zenon
<1>. QED  BY <1>5, <1>6

\* Another page has room for all its attempts.
LEMMA RoomForPage ==
    ASSUME NEW n \in Nat, n < MaxPages
    PROVE  /\ n * MaxTries \in Nat /\ (n + 1) * MaxTries = n * MaxTries + MaxTries
           /\ n * MaxTries + MaxTries <= MaxPages * MaxTries
<1>1. \A a, b, m \in Nat : a < b => a * m + m <= b * m
  BY SMT
<1>2. \A a, m \in Nat : a * m \in Nat /\ (a + 1) * m = a * m + m
  BY SMT
<1>3. MaxPages \in Nat /\ MaxTries \in Nat
  BY SourceWalkAssumption
<1>. QED  BY <1>1, <1>2, <1>3

\* Nothing is recorded yet.
LEMMA InitAccounts == Init => Accounts
<1>. SUFFICES ASSUME Init PROVE Accounts
  OBVIOUS
<1>. USE DEF Init
<1>1. TypeOK
  BY SourceWalkAssumption DEF TypeOK
<1>2. Cardinality({}) = 0 /\ 0 * MaxTries = 0 /\ 0 <= MaxPages * MaxTries /\ 0 <= MaxPages
  BY FS_EmptySet, SourceWalkAssumption
<1>3. ReplyShape /\ RecordShape /\ RequestShape /\ PauseShape
  BY <1>2 DEF ReplyShape, RecordShape, RequestShape, PauseShape
<1>. QED  BY <1>1, <1>3 DEF Accounts

\* Every record of a page is a new identifier or a repetition.
LEMMA CountAccounts ==
    ASSUME Accounts, CountPage
    PROVE  Accounts'
<1>. USE DEF Accounts
<1>. DEFINE new == Cardinality(reply.keys \ keys)
<1>1. /\ at = "judge" /\ reply \in Page /\ Cardinality(reply.keys) <= reply.length
      /\ keys \in SUBSET Notice /\ reply.keys \in SUBSET Notice
  BY DEF CountPage, ReplyShape, TypeOK, Page
<1>2. /\ Cardinality(keys \cup reply.keys) = Cardinality(keys) + new
      /\ new <= Cardinality(reply.keys)
      /\ new \in Nat /\ Cardinality(keys) \in Nat /\ Cardinality(reply.keys) \in Nat
  BY <1>1, Added, Countable
<1>3. /\ total' = reply.total /\ pages' = pages + 1 /\ keys' = keys \cup reply.keys
      /\ duplicates' = duplicates + (reply.length - new)
      /\ records' = records + reply.length
      /\ UNCHANGED <<held, answered, quiet, now, tries, reply, requests>>
  BY DEF CountPage, Repeated, source
<1>4. /\ at' \in {"page", "unavailable", "confirm"}
      /\ at' = "confirm" => records' = Cardinality(keys') /\ Cardinality(keys') = reply.total
  BY DEF CountPage, Judge, GiveUp, ReceivedEverything
<1>5. reply.length \in Nat /\ reply.total \in Nat /\ reply.token \in Token \cup {None}
  BY <1>1, SourceWalkAssumption DEF Page
<1>6. duplicates' \in Nat /\ records' \in Nat /\ records' = Cardinality(keys') + duplicates'
  <2>1. records \in Nat /\ duplicates \in Nat /\ records = Cardinality(keys) + duplicates
    BY DEF TypeOK, RecordShape
  <2>. HIDE DEF new
  <2>2. reply.length - new \in Nat
    BY <1>1, <1>2, <1>5
  <2>. QED  BY <1>2, <1>3, <1>5, <2>1, <2>2
<1>7. TypeOK'
  <2>1. tokens' \in SUBSET Token
    <3>1. at' = "page" => reply.token # None
      BY DEF CountPage, Judge, GiveUp
    <3>. QED  BY <1>5, <3>1 DEF CountPage, TypeOK
  <2>. QED  BY <1>1, <1>3, <1>4, <1>5, <1>6, <2>1 DEF TypeOK, Ended
<1>8. RecordShape'
  <2>1. at' = "confirm" => duplicates' = 0
    BY <1>4, <1>6, <1>3, <1>2
  <2>. QED  BY <1>3, <1>4, <1>6, <2>1 DEF RecordShape
<1>9. RequestShape' /\ PauseShape' /\ ReplyShape'
  <2>1. /\ pages \in Nat /\ pages < MaxPages /\ requests \in Nat /\ tries \in 1..MaxTries
        /\ requests <= pages * MaxTries + tries /\ pages + 1 <= requests
        /\ requests <= MaxPages * MaxTries /\ quiet <= now
    BY <1>1 DEF TypeOK, RequestShape, PauseShape
  <2>2. pages * MaxTries \in Nat /\ (pages + 1) * MaxTries = pages * MaxTries + MaxTries
    BY <2>1, RoomForPage
  <2>3. requests <= (pages + 1) * MaxTries /\ pages + 1 <= MaxPages
    BY <2>1, <2>2, SourceWalkAssumption
  <2>. QED  BY <1>3, <1>4, <2>1, <2>3 DEF RequestShape, PauseShape, ReplyShape
<1>. QED  BY <1>7, <1>8, <1>9

\* A request costs one of the attempts that the page has.
LEMMA RequestAccounts ==
    ASSUME Accounts, NextPage \/ Request \/ (\E r \in RetryAfter : Transient(r))
    PROVE  Accounts'
<1>. USE DEF Accounts
<1>0. /\ tries \in 1..MaxTries /\ MaxTries \in Nat \ {0} /\ MaxPages \in Nat
      /\ pages \in Nat /\ requests \in Nat /\ now \in Nat /\ quiet \in Nat
  BY SourceWalkAssumption DEF TypeOK
<1>1. CASE NextPage
  <2>1. at = "page" /\ requests <= pages * MaxTries /\ pages <= MaxPages /\ quiet <= now
    BY <1>1 DEF NextPage, RequestShape, PauseShape
  <2>2. tries' = 1 /\ UNCHANGED <<source, now, reply, observed, tokens>>
        /\ ((at' = "request" /\ pages < MaxPages) \/ at' = "unavailable")
    BY <1>1 DEF NextPage, GiveUp
  <2>3. TypeOK'
    BY <1>0, <2>2 DEF TypeOK, source, observed, Ended
  <2>4. RequestShape'
    BY <1>0, <2>1, <2>2 DEF RequestShape, observed
  <2>. QED  BY <2>1, <2>2, <2>3, <2>4 DEF ReplyShape, RecordShape, PauseShape, observed, source
<1>2. CASE Request
  <2>1. /\ at = "request" /\ quiet <= now /\ pages < MaxPages /\ pages <= requests
        /\ requests <= pages * MaxTries + (tries - 1) /\ requests <= MaxPages * MaxTries
    BY <1>2 DEF Request, RequestShape, PauseShape
  <2>2. /\ \/ at' = "wire" /\ requests' = requests + 1
           \/ at' = "unavailable" /\ requests' = requests
        /\ UNCHANGED <<source, now, tries, reply, keys, records, duplicates, total, pages, tokens>>
    BY <1>2 DEF Request, GiveUp
  <2>3. TypeOK'
    BY <1>0, <2>2 DEF TypeOK, source, Ended
  <2>4. RequestShape'
    <3>1. pages * MaxTries \in Nat /\ pages * MaxTries + MaxTries <= MaxPages * MaxTries
      BY <1>0, <2>1, RoomForPage
    <3>. DEFINE n == pages * MaxTries
                m == MaxPages * MaxTries
    <3>2. n \in Nat /\ n + MaxTries <= m /\ requests <= n + (tries - 1) /\ requests <= m /\ m \in Nat
      BY <1>0, <2>1, <3>1
    <3>3. n' = n /\ m' = m
      BY <2>2
    <3>. HIDE DEF n, m
    <3>4. /\ requests' <= m /\ pages <= requests'
          /\ at' = "wire" => requests' <= n + tries /\ pages + 1 <= requests'
      BY <1>0, <2>1, <2>2, <3>2
    <3>. QED  BY <2>1, <2>2, <3>4 DEF RequestShape, n, m
  <2>. QED  BY <2>1, <2>2, <2>3, <2>4 DEF ReplyShape, RecordShape, PauseShape, source
<1>3. ASSUME NEW r \in RetryAfter, Transient(r) PROVE Accounts'
  <2>1. Wait(r) \in Nat /\ (r # None => r \in Nat /\ Wait(r) = r)
    BY WaitType
  <2>2. /\ at = "wire" /\ quiet <= now /\ pages < MaxPages /\ pages <= requests
        /\ requests <= pages * MaxTries + tries /\ requests <= MaxPages * MaxTries
    BY <1>3 DEF Transient, RequestShape, PauseShape
  <2>3. /\ quiet' \in Nat /\ (quiet' = quiet \/ (r # None /\ quiet' = now + r))
        /\ UNCHANGED <<held, answered, reply, observed, tokens>>
        /\ \/ at' = "unavailable" /\ UNCHANGED <<now, tries>>
           \/ /\ now' = now + Wait(r) /\ tries' = tries + 1 /\ at' = "request"
              /\ tries # MaxTries
    BY <1>0, <1>3, <2>1 DEF Transient, GiveUp, LastTry
  <2>4. TypeOK'
    BY <1>0, <2>1, <2>3 DEF TypeOK, observed, Ended
  <2>5. RequestShape'
    BY <1>0, <2>2, <2>3 DEF RequestShape, observed
  <2>6. PauseShape'
    BY <1>0, <2>1, <2>2, <2>3 DEF PauseShape
  <2>. QED  BY <2>3, <2>4, <2>5, <2>6 DEF ReplyShape, RecordShape, observed
<1>. QED  BY <1>1, <1>2, <1>3

\* The other steps add to no account; a new walk starts them all over.
LEMMA StepAccounts == Accounts /\ [Next]_vars => Accounts'
<1>. SUFFICES ASSUME Accounts, [Next]_vars PROVE Accounts'
  OBVIOUS
<1>. USE DEF Accounts, source, observed
<1>1. CASE NextPage \/ Request \/ (\E r \in RetryAfter : Transient(r))
  BY <1>1, RequestAccounts
<1>2. CASE CountPage
  BY <1>2, CountAccounts
<1>3. CASE ReadPage
  <2>1. PICK p \in Pages : reply' = p
    BY <1>3 DEF ReadPage
  <2>2. p \in Page /\ Cardinality(p.keys) <= p.length
    <3>1. held \in SUBSET Notice /\ Cardinality(held) \in Nat
      BY Countable DEF TypeOK
    <3>. QED  BY <3>1 DEF Pages, Page
  <2>3. TypeOK'
    BY <1>3, <2>1, <2>2 DEF ReadPage, TypeOK, Ended
  <2>. QED  BY <1>3, <2>1, <2>2, <2>3
            DEF ReadPage, ReplyShape, RecordShape, RequestShape, PauseShape
<1>4. CASE RefuseReply
  BY <1>4 DEF RefuseReply, GiveUp, TypeOK, Ended, ReplyShape, RecordShape, RequestShape, PauseShape
<1>5. CASE RefusePage \/ RefuseTotal
  <2>1. /\ at = "judge" /\ at' = "unavailable" /\ pages' = pages + 1
        /\ UNCHANGED <<source, now, tries, reply, keys, records, duplicates, requests, tokens>>
    BY <1>5 DEF RefusePage, RefuseTotal, GiveUp
  <2>2. total' \in Nat \cup {None}
    BY <1>5, <2>1 DEF RefusePage, RefuseTotal, TypeOK, ReplyShape, Page
  <2>3. TypeOK'
    BY <2>1, <2>2 DEF TypeOK, Ended
  <2>4. RequestShape'
    BY <2>1, SourceWalkAssumption DEF RequestShape, TypeOK
  <2>. QED  BY <2>1, <2>3, <2>4 DEF ReplyShape, RecordShape, PauseShape
<1>6. CASE Confirm
  BY <1>6 DEF Confirm, TypeOK, Ended, ReplyShape, RecordShape, RequestShape, PauseShape
<1>7. CASE Again
  <2>1. TypeOK'
    BY <1>7, SourceWalkAssumption DEF Again, TypeOK
  <2>2. Cardinality({}) = 0 /\ 0 * MaxTries = 0 /\ 0 <= MaxPages * MaxTries /\ 0 <= MaxPages
    BY FS_EmptySet, SourceWalkAssumption
  <2>. QED  BY <1>7, <2>1, <2>2 DEF Again, ReplyShape, RecordShape, RequestShape, PauseShape
<1>8. CASE Tick
  <2>1. at' = at /\ now' = now + 1 /\ UNCHANGED <<source, tries, reply, observed, tokens>>
    BY <1>8 DEF Tick
  <2>2. TypeOK'
    BY <2>1 DEF TypeOK
  <2>. QED  BY <2>1, <2>2 DEF ReplyShape, RecordShape, RequestShape, PauseShape, TypeOK
<1>9. ASSUME NEW n \in Notice, PublishNotice(n) PROVE Accounts'
  BY <1>9 DEF PublishNotice, TypeOK, ReplyShape, RecordShape, RequestShape, PauseShape
<1>10. CASE UNCHANGED vars
  BY <1>10 DEF vars, TypeOK, ReplyShape, RecordShape, RequestShape, PauseShape
<1>. QED  BY <1>1, <1>2, <1>3, <1>4, <1>5, <1>6, <1>7, <1>8, <1>9, <1>10 DEF Next, Walk

\* What a walk has recorded of itself whenever it is looked at.
LEMMA AccountsHold == Spec => []Accounts
BY InitAccounts, StepAccounts, PTL DEF Spec

\* The fields of Enumeration and the state of _walk keep their types; waits are whole.
THEOREM WTypeCorrect == Spec => []TypeOK
<1>1. Accounts => TypeOK
  BY DEF Accounts
<1>. QED  BY <1>1, AccountsHold, PTL

\* Enumeration's counts, which verify_capture records: every record is a new identifier or
\* a repetition, and no page costs more requests than _fetch_page has attempts.
THEOREM EvidenceIsConsistent == Spec => []EvidenceAddsUp
<1>1. Accounts => EvidenceAddsUp
  BY DEF Accounts, RecordShape, RequestShape, EvidenceAddsUp
<1>. QED  BY <1>1, AccountsHold, PTL

\* _fetch_page and its callers look at the clock before every request and before the result
\* is accepted; a pause that outlasts the budget ends the walk instead.
THEOREM PausesAreKept == Spec => TimeIsKept
<1>1. ASSUME Accounts, Next,
             requests' > requests \/ (at # "complete" /\ at' = "complete")
      PROVE  quiet <= now /\ now < Seconds
  <2>1. CASE Request \/ Confirm
    <3>1. quiet <= now /\ requests \in Nat
      BY <1>1, <2>1 DEF Request, Confirm, Accounts, PauseShape, TypeOK
    <3>2. CASE InTime
      BY <3>1, <3>2 DEF InTime
    <3>3. CASE ~InTime
      <4>1. requests' = requests /\ at' = "unavailable"
        BY <2>1, <3>3 DEF Request, Confirm, GiveUp, observed
      <4>. QED  BY <1>1, <3>1, <4>1
    <3>. QED  BY <3>2, <3>3
  <2>2. CASE Next /\ ~(Request \/ Confirm)
    <3>1. requests' \in {requests, 0} /\ (at' # "complete" \/ at' = at)
      BY <2>2 DEF Next, Walk, NextPage, ReadPage, RefuseReply, Transient, RefusePage, RefuseTotal,
         CountPage, Judge, GiveUp, Again, Tick, PublishNotice, observed
    <3>. QED  BY <1>1, <3>1 DEF Accounts, TypeOK
  <2>. QED  BY <1>1, <2>1, <2>2
<1>2. Accounts /\ [Next]_vars =>
        [requests' > requests \/ (at # "complete" /\ at' = "complete")
            => quiet <= now /\ now < Seconds]_vars
  BY <1>1
<1>. QED  BY <1>2, AccountsHold, PTL DEF Spec, TimeIsKept

=============================================================================
