-------------------------- MODULE CaptureStoreProofs --------------------------
(***************************************************************************)
(* Proofs about CaptureStore for any set of packages, sessions, archives,  *)
(* requests and replacements, and any bounds.                              *)
(***************************************************************************)
EXTENDS CaptureStore, FiniteSetTheorems, FunctionTheorems, SequenceTheorems, TLAPS

-----------------------------------------------------------------------------
(* Data *)

\* The set of notices of a sequence of members is finite, so its size is a
\* natural number.
LEMMA NoticesFinite ==
    ASSUME NEW S, NEW members \in Seq(S)
    PROVE  /\ IsFiniteSet(NoticesIn(members))
           /\ NoticesIn(members) \subseteq S
<1>1. members \in [1..Len(members) -> S] /\ DOMAIN members = 1..Len(members)
  BY LenProperties
<1>2. members \in Surjection(1..Len(members), NoticesIn(members))
  BY <1>1 DEF Surjection, NoticesIn
<1>3. IsFiniteSet(1..Len(members))
  BY FS_Interval, LenProperties
<1>4. NoticesIn(members) \subseteq S
  BY <1>1 DEF NoticesIn
<1>. QED  BY <1>2, <1>3, <1>4, FS_Surjection

\* A batch is a sequence of members of its archive.
LEMMA SliceType ==
    ASSUME NEW S, NEW members \in Seq(S), NEW b \in Nat, NEW o \in Nat,
           o * b < Len(members)
    PROVE  Slice(members, b, o) \in Seq(S)
<1>. DEFINE k == o * b
            left == Len(members) - k
            n == IF left < b THEN left ELSE b
<1>1. k \in Nat /\ Len(members) \in Nat
  BY LenProperties
<1>2. left \in Nat /\ n \in Nat /\ \A i \in 1..n : k + i \in 1..Len(members)
  BY <1>1
<1>3. \A i \in 1..n : members[k + i] \in S
  BY <1>2, ElementOfSeq
<1>. HIDE DEF k
<1>4. [i \in 1..n |-> members[k + i]] \in Seq(S)
  BY <1>2, <1>3, IsASeq
<1>. QED  BY <1>4 DEF Slice, k

\* The rows of a readable batch are rows, and finitely many.
LEMMA BatchRowsType ==
    ASSUME NEW c \in Nat, NEW o \in Nat, NEW a \in Archive,
           NEW members \in Seq(Notice \cup {Unreadable}),
           Unreadable \notin NoticesIn(members)
    PROVE  /\ BatchRows(c, o, a, members) \subseteq Row
           /\ IsFiniteSet(BatchRows(c, o, a, members))
<1>1. NoticesIn(members) \subseteq Notice /\ IsFiniteSet(NoticesIn(members))
  BY NoticesFinite
<1>2. BatchRows(c, o, a, members) \subseteq Row
  BY <1>1 DEF BatchRows, Row
<1>. DEFINE f == [n \in NoticesIn(members) |->
                     [capture |-> c, notice |-> n, batch |-> o, from |-> a]]
<1>3. f \in Surjection(NoticesIn(members), BatchRows(c, o, a, members))
  BY DEF Surjection, BatchRows
<1>. QED  BY <1>1, <1>2, <1>3, FS_Surjection

\* A rewritten capture table of the same length is a capture table.
LEMMA RewriteCaptures ==
    ASSUME NEW old \in Seq(Capture), NEW new,
           new = [c \in DOMAIN old |-> new[c]],
           \A c \in DOMAIN old : new[c] \in Capture
    PROVE  new \in Seq(Capture) /\ Len(new) = Len(old) /\ DOMAIN new = DOMAIN old
<1>1. DOMAIN old = 1..Len(old) /\ Len(old) \in Nat
  BY LenProperties
<1>2. new \in [1..Len(old) -> Capture]
  BY <1>1
<1>3. new \in Seq(Capture)
  BY <1>1, <1>2
<1>. QED  BY <1>1, <1>3, LenProperties

\* What an update of one capture's status does to the capture table.
LEMMA SetStatus ==
    ASSUME NEW old \in Seq(Capture), NEW c \in DOMAIN old, NEW st \in Status, NEW new,
           new = [old EXCEPT ![c].status = st]
    PROVE  /\ new \in Seq(Capture) /\ DOMAIN new = DOMAIN old
           /\ Len(new) = Len(old)
           /\ new[c] = [old[c] EXCEPT !.status = st]
           /\ \A d \in DOMAIN old \ {c} : new[d] = old[d]
           /\ \A d \in DOMAIN old : new[d].pkg = old[d].pkg
<1>1. DOMAIN old = 1..Len(old) /\ \A d \in DOMAIN old : old[d] \in Capture
  BY LenProperties, ElementOfSeq
<1>2. /\ new = [d \in DOMAIN old |-> new[d]]
      /\ new[c] = [old[c] EXCEPT !.status = st]
      /\ \A d \in DOMAIN old \ {c} : new[d] = old[d]
  OBVIOUS
<1>3. [old[c] EXCEPT !.status = st] \in Capture
  BY <1>1 DEF Capture
<1>4. \A d \in DOMAIN old : new[d] \in Capture
  BY <1>1, <1>2, <1>3
<1>5. \A d \in DOMAIN old : new[d].pkg = old[d].pkg
  BY <1>1, <1>2 DEF Capture
<1>. QED  BY <1>2, <1>4, <1>5, RewriteCaptures

-----------------------------------------------------------------------------
(* The initial states *)

\* The store that the migrations leave, with no capture, no lock and no session at work,
\* satisfies the inductive invariant.
THEOREM InitIInv == Init => IInv
<1>. SUFFICES ASSUME Init PROVE IInv
  OBVIOUS
<1>. USE DEF Init
<1>1. captures \in Seq(Capture) /\ \A c \in DOMAIN captures : captures[c].status = "acquiring"
  <2>1. CASE captures = <<>>
    BY <2>1
  <2>2. CASE captures \in {<<c>> : c \in LegacyCaptures}
    <3>1. PICK c \in LegacyCaptures : captures = <<c>>
      BY <2>2
    <3>2. c \in Capture /\ c.status = "acquiring"
      BY LegacyCapturesAreOpen
    <3>. QED  BY <3>1, <3>2
  <2>. QED  BY <2>1, <2>2
<1>2. TypeOK
  <2>1. IsFiniteSet(rows)
    BY FS_EmptySet
  <2>. QED  BY <1>1, <2>1 DEF TypeOK, PC
<1>3. SessionShape /\ LockShape /\ WorkShape /\ OwnersWork
  BY DEF SessionShape, LockShape, WorkShape, OwnersWork, Holding, Working
<1>4. PointerShape
  BY <1>1 DEF PointerShape
<1>. QED  BY <1>2, <1>3, <1>4 DEF IInv, StoreInv

-----------------------------------------------------------------------------
(* The lock *)

\* A lock has one holder, so the locked part of a load has one as well.
LEMMA LockExcludes ==
    ASSUME LockShape
    PROVE  WorkIsExclusive
BY DEF LockShape, WorkIsExclusive

\* An acquisition is granted to the owner or to the first who asks.
LEMMA TakeLockTable ==
    ASSUME TypeOK, LockShape, NEW s \in Session, NEW p \in Package, TakeLock(s, p)
    PROVE  /\ owner' \in [Package -> Session \cup {None}] /\ depth' \in [Package -> Nat]
           /\ \A q \in Package : depth'[q] = 0 <=> owner'[q] = None
           /\ owner'[p] = s /\ depth'[p] = depth[p] + 1
           /\ \A q \in Package \ {p} : owner'[q] = owner[q] /\ depth'[q] = depth[q]
           /\ \A q \in Package : owner[q] # None => owner'[q] = owner[q]
<1>. USE ConstantsAreDisjoint
<1>1. /\ owner' = [owner EXCEPT ![p] = s] /\ depth' = [depth EXCEPT ![p] = @ + 1]
      /\ owner[p] \in {None, s}
  BY DEF TakeLock, LockFree
<1>2. depth[p] \in Nat /\ s # None
  BY DEF TypeOK
<1>. QED  BY <1>1, <1>2 DEF TypeOK, LockShape

\* A release takes back one acquisition of the session's own, or nothing.
LEMMA GiveLockTable ==
    ASSUME TypeOK, LockShape, NEW s \in Session, NEW p \in Package, GiveLock(s, p)
    PROVE  /\ owner' \in [Package -> Session \cup {None}] /\ depth' \in [Package -> Nat]
           /\ \A q \in Package : depth'[q] = 0 <=> owner'[q] = None
           /\ \A q \in Package \ {p} : owner'[q] = owner[q] /\ depth'[q] = depth[q]
           /\ owner[p] # s => owner'[p] = owner[p] /\ depth'[p] = depth[p]
           /\ owner[p] = s => /\ depth'[p] = depth[p] - 1
                              /\ owner'[p] = IF depth[p] = 1 THEN None ELSE s
<1>. USE ConstantsAreDisjoint
<1>1. CASE owner[p] # s
  BY <1>1 DEF GiveLock, lock, TypeOK, LockShape
<1>2. CASE owner[p] = s
  <2>1. /\ owner' = [owner EXCEPT ![p] = IF depth[p] = 1 THEN None ELSE s]
        /\ depth' = [depth EXCEPT ![p] = @ - 1]
    BY <1>2 DEF GiveLock
  <2>2. depth[p] \in Nat /\ depth[p] # 0 /\ s # None
    BY <1>2 DEF TypeOK, LockShape
  <2>. QED  BY <1>2, <2>1, <2>2 DEF TypeOK, LockShape
<1>. QED  BY <1>1, <1>2

-----------------------------------------------------------------------------
(* The types, one action at a time *)

\* What a session forgets and where it goes keep their types.
LEMMA ForgetType ==
    ASSUME TypeOK, NEW s \in Session, Forget(s)
    PROVE  /\ job' \in [Session -> Job \cup {None}]
           /\ cap' \in [Session -> Nat]
           /\ resumed' \in [Session -> BOOLEAN]
           /\ done' \in [Session -> SUBSET Nat]
           /\ stream' \in [Session -> Archive \cup {None}]
           /\ next' \in [Session -> Nat]
BY DEF TypeOK, Forget

\* Moving one session to another line leaves every session at a line of the program.
LEMMA GotoType ==
    ASSUME TypeOK, NEW s \in Session, NEW l \in PC, Goto(s, l)
    PROVE  /\ pc' \in [Session -> PC]
           /\ pc'[s] = l
           /\ \A t \in Session \ {s} : pc'[t] = pc[t]
BY DEF TypeOK, Goto

\* A session that is at work holds its package's lock.
LEMMA HeldInside ==
    ASSUME StoreInv, NEW s \in Session, pc[s] \in Holding
    PROVE  /\ job[s] \in Job /\ job[s].pkg \in Package
           /\ owner[job[s].pkg] = s
BY DEF StoreInv, SessionShape, LockShape, Job

\* What a working session works on is a capture.
LEMMA WorkCapture ==
    ASSUME StoreInv, NEW s \in Session, pc[s] \in Working
    PROVE  /\ cap[s] \in DOMAIN captures /\ cap[s] \in Nat
           /\ captures[cap[s]] \in Capture
           /\ captures[cap[s]].pkg = job[s].pkg
           /\ captures[cap[s]].status \in OpenStatus
           /\ job[s] \in Job
<1>1. cap[s] \in DOMAIN captures /\ captures[cap[s]].pkg = job[s].pkg
  BY DEF StoreInv, WorkShape, CapturesOf
<1>2. captures \in Seq(Capture)
  BY DEF StoreInv, TypeOK
<1>3. captures[cap[s]] \in Capture /\ cap[s] \in Nat
  BY <1>1, <1>2, ElementOfSeq, LenProperties
<1>. QED  BY <1>1, <1>3 DEF StoreInv, WorkShape, SessionShape, Working, Holding

\* Opening a session and choosing what to load keeps the types.
LEMMA StartTypes ==
    ASSUME StoreInv, NEW s \in Session, Start(s)
    PROVE  TypeOK'
<1>1. PICK p \in Package, r \in Requests : StartLoad(s, p, r)
  BY DEF Start
<1>2. file[p] \in Archive /\ r \in Request
  BY <1>1, ConstantsAreTyped DEF StartLoad, StoreInv, TypeOK
<1>3. [pkg |-> p, sha |-> file[p], req |-> r] \in Job
  BY <1>2 DEF Job
<1>4. pc' \in [Session -> PC]
  BY <1>1, GotoType DEF StartLoad, StoreInv, PC
<1>. QED  BY <1>1, <1>3, <1>4 DEF StartLoad, StoreInv, TypeOK, tables, lock, budgets

\* Taking the package's advisory lock keeps the types.
LEMMA AcquireTypes ==
    ASSUME StoreInv, NEW s \in Session, Acquire(s)
    PROVE  TypeOK'
<1>1. job[s].pkg \in Package
  BY DEF Acquire, StoreInv, SessionShape, Job
<1>2. pc' \in [Session -> PC]
  BY GotoType DEF Acquire, StoreInv, PC, Holding
<1>. QED  BY <1>1, <1>2, SMTT(20) DEF Acquire, TakeLock, StoreInv, TypeOK, tables, budgets, work

\* Being refused because another session holds the lock keeps the types.
LEMMA RefuseBusyTypes ==
    ASSUME StoreInv, NEW s \in Session, RefuseBusy(s)
    PROVE  TypeOK'
<1>1. pc' \in [Session -> PC]
  BY GotoType DEF RefuseBusy, StoreInv, PC
<1>2. Forget(s)
  BY DEF RefuseBusy
<1>. QED  BY <1>1, <1>2, ForgetType DEF RefuseBusy, StoreInv, TypeOK, tables, lock, budgets

\* The three outcomes of begin_capture.
LEMMA DecideTypes ==
    ASSUME StoreInv, NEW s \in Session, DecideResume(s) \/ DecideReplay(s) \/ DecideNew(s)
    PROVE  TypeOK'
<1>1. job[s] \in Job
  BY DEF StoreInv, SessionShape, Holding, DecideResume, DecideReplay, DecideNew
<1>2. captures \in Seq(Capture) /\ DOMAIN captures = 1..Len(captures) /\ Len(captures) \in Nat
  BY LenProperties DEF StoreInv, TypeOK
<1>3. CASE DecideResume(s)
  <2>1. PICK c \in Resumable(job[s]) : cap' = [cap EXCEPT ![s] = c] /\ Goto(s, EntryPoint(c))
    BY <1>3 DEF DecideResume
  <2>2. c \in Nat
    BY <2>1, <1>2 DEF Resumable, CapturesOf
  <2>3. EntryPoint(c) \in PC
    BY DEF EntryPoint, PC, Holding
  <2>4. pc' \in [Session -> PC]
    BY <2>1, <2>3, GotoType DEF StoreInv
  <2>. QED  BY <1>3, <2>1, <2>2, <2>4 DEF DecideResume, StoreInv, TypeOK, tables, lock, budgets
<1>4. CASE DecideReplay(s)
  <2>1. PICK c \in Replayable(job[s]) : cap' = [cap EXCEPT ![s] = c]
    BY <1>4 DEF DecideReplay
  <2>2. c \in Nat
    BY <2>1, <1>2 DEF Replayable, CapturesOf
  <2>3. pc' \in [Session -> PC]
    BY <1>4, GotoType DEF DecideReplay, StoreInv, PC, Holding
  <2>. QED  BY <1>4, <2>1, <2>2, <2>3 DEF DecideReplay, StoreInv, TypeOK, tables, lock, budgets
<1>5. CASE DecideNew(s)
  <2>1. NewCapture(job[s]) \in Capture
    BY <1>1 DEF NewCapture, Capture, Job, Request, Status, OpenStatus
  <2>2. Append(captures, NewCapture(job[s])) \in Seq(Capture)
    BY <1>2, <2>1, AppendProperties
  <2>3. pc' \in [Session -> PC]
    BY <1>5, GotoType DEF DecideNew, StoreInv, PC, Holding
  <2>4. captures' \in Seq(Capture) /\ cap' \in [Session -> Nat]
    <3>1. CASE Len(captures) < MaxCaptures
      <4>1. /\ captures' = Append(captures, NewCapture(job[s]))
            /\ cap' = [cap EXCEPT ![s] = Len(captures) + 1]
        BY <1>5, <3>1 DEF DecideNew
      <4>2. cap' \in [Session -> Nat]
        BY <1>2, <4>1 DEF StoreInv, TypeOK
      <4>. QED  BY <2>2, <4>1, <4>2
    <3>2. CASE ~(Len(captures) < MaxCaptures)
      BY <1>2, <1>5, <3>2 DEF DecideNew, StoreInv, TypeOK
    <3>. QED  BY <3>1, <3>2
  <2>. QED  BY <1>5, <2>3, <2>4 DEF DecideNew, StoreInv, TypeOK, lock, budgets
<1>. QED  BY <1>3, <1>4, <1>5

\* A resumed capture loses rows and its partition is a set of ordinals.
LEMMA PrepareTypes ==
    ASSUME StoreInv, NEW s \in Session, Prepare(s)
    PROVE  TypeOK'
<1>1. job[s].pkg \in Package
  BY HeldInside DEF Prepare, Holding
<1>2. pc' \in [Session -> PC]
  <2>1. PICK l \in {"fail", "stream"} : Goto(s, l)
    BY DEF Prepare
  <2>. QED  BY <2>1, GotoType DEF StoreInv, PC, Holding
<1>3. stream' \in [Session -> Archive \cup {None}]
  BY <1>1 DEF Prepare, StoreInv, TypeOK
<1>4. done' \in [Session -> SUBSET Nat]
  <2>1. {b[2] : b \in {x \in batches : x[1] = cap[s]}} \subseteq Nat
    BY DEF StoreInv, TypeOK
  <2>. QED  BY <2>1 DEF Prepare, StoreInv, TypeOK
<1>5. rows' \subseteq rows
  BY DEF Prepare
<1>6. rows' \subseteq Row /\ IsFiniteSet(rows')
  BY <1>5, FS_Subset DEF StoreInv, TypeOK
<1>. QED  BY <1>2, <1>3, <1>4, <1>6 DEF Prepare, StoreInv, TypeOK, lock, budgets

\* The steps that only move a session on inside the locked part.
LEMMA MoveTypes ==
    ASSUME StoreInv, NEW s \in Session,
           ReadFails(s) \/ SkipBatch(s) \/ LoadDuplicate(s) \/ Recheck(s) \/ DbError(s)
    PROVE  TypeOK'
<1>1. CASE SkipBatch(s)
  BY <1>1 DEF SkipBatch, StoreInv, TypeOK, tables, lock, budgets
<1>2. CASE ReadFails(s) \/ LoadDuplicate(s)
  <2>1. pc' \in [Session -> PC]
    BY <1>2, GotoType DEF ReadFails, LoadDuplicate, StoreInv, PC, Holding
  <2>. QED  BY <1>2, <2>1 DEF ReadFails, LoadDuplicate, StoreInv, TypeOK, tables, lock, work, budgets
<1>3. CASE Recheck(s)
  <2>1. PICK l \in {"reconcile", "raise", "fail"} : Goto(s, l)
    BY <1>3 DEF Recheck
  <2>2. pc' \in [Session -> PC]
    BY <2>1, GotoType DEF StoreInv, PC, Holding
  <2>. QED  BY <1>3, <2>2 DEF Recheck, StoreInv, TypeOK, tables, lock, work, budgets
<1>4. CASE DbError(s)
  <2>1. PICK l \in {"return", "raise"} : Goto(s, l)
    BY <1>4 DEF DbError
  <2>2. pc' \in [Session -> PC]
    BY <2>1, GotoType DEF StoreInv, PC, Holding
  <2>. QED  BY <1>4, <2>2 DEF DbError, StoreInv, TypeOK, tables, lock, work
<1>. QED  BY <1>1, <1>2, <1>3, <1>4

\* What a session streams is an archive, in batches of its members.
LEMMA CurrentSliceType ==
    ASSUME StoreInv, NEW s \in Session, Streaming(s)
    PROVE  /\ stream[s] \in Archive /\ next[s] \in Nat
           /\ Members[stream[s]] \in Seq(Notice \cup {Unreadable})
           /\ CurrentSlice(s) \in Seq(Notice \cup {Unreadable})
<1>1. stream[s] \in Archive /\ next[s] \in Nat
  BY DEF Streaming, StoreInv, SessionShape, TypeOK
<1>2. Members[stream[s]] \in Seq(Notice \cup {Unreadable})
  BY <1>1, ConstantsAreTyped
<1>3. BatchSize(s) \in Nat
  BY WorkCapture DEF Streaming, Working, BatchSize, Capture
<1>4. CurrentSlice(s) \in Seq(Notice \cup {Unreadable})
  BY <1>1, <1>2, <1>3, SliceType DEF CurrentSlice, Streaming, MoreToRead
<1>. QED  BY <1>1, <1>2, <1>4

\* The status a batch leaves is the open one the capture had or its successor.
LEMMA LoadBatchTable ==
    ASSUME StoreInv, NEW s \in Session, LoadBatch(s)
    PROVE  \E st \in OpenStatus : captures' = [captures EXCEPT ![cap[s]].status = st]
<1>1. cap[s] \in DOMAIN captures /\ captures[cap[s]].status \in OpenStatus
  BY WorkCapture DEF LoadBatch, Streaming, Working
<1>. DEFINE st == IF captures[cap[s]].status = "acquiring" THEN "loading"
                  ELSE captures[cap[s]].status
<1>2. st \in OpenStatus
  BY <1>1 DEF OpenStatus
<1>3. captures' = [captures EXCEPT ![cap[s]].status = st]
  BY DEF LoadBatch
<1>. QED  BY <1>2, <1>3

\* Writing one batch with its rows and its counters keeps the types.
LEMMA LoadBatchTypes ==
    ASSUME StoreInv, NEW s \in Session, LoadBatch(s)
    PROVE  TypeOK'
<1>1. cap[s] \in DOMAIN captures /\ cap[s] \in Nat
  BY WorkCapture DEF LoadBatch, Streaming, Working
<1>2. captures' \in Seq(Capture)
  <2>1. PICK st \in OpenStatus : captures' = [captures EXCEPT ![cap[s]].status = st]
    BY LoadBatchTable
  <2>2. captures \in Seq(Capture) /\ st \in Status
    BY DEF StoreInv, TypeOK, Status
  <2>. QED  BY <1>1, <2>1, <2>2, SetStatus
<1>3. Streaming(s) /\ Unreadable \notin NoticesIn(CurrentSlice(s))
  BY DEF LoadBatch, Readable
<1>4. stream[s] \in Archive /\ next[s] \in Nat /\ CurrentSlice(s) \in Seq(Notice \cup {Unreadable})
  BY <1>3, CurrentSliceType
<1>. DEFINE new == BatchRows(cap[s], next[s], stream[s], CurrentSlice(s))
<1>5. new \subseteq Row /\ IsFiniteSet(new)
  BY <1>1, <1>3, <1>4, BatchRowsType
<1>6. rows' = rows \cup new
  BY DEF LoadBatch
<1>. HIDE DEF new
<1>7. rows' \subseteq Row /\ IsFiniteSet(rows')
  BY <1>5, <1>6, FS_Union DEF StoreInv, TypeOK
<1>8. batches' \subseteq Nat \X Nat
  BY <1>1, <1>4 DEF LoadBatch, StoreInv, TypeOK
<1>9. next' \in [Session -> Nat]
  BY <1>4 DEF LoadBatch, StoreInv, TypeOK
<1>. QED  BY <1>2, <1>7, <1>8, <1>9 DEF LoadBatch, StoreInv, TypeOK, lock, budgets

\* reconcile records its counts and never leaves the open statuses.
LEMMA ReconcileTable ==
    ASSUME StoreInv, NEW s \in Session, Reconcile(s)
    PROVE  \E row \in Capture :
               /\ row.pkg = captures[cap[s]].pkg /\ row.status \in OpenStatus
               /\ captures' = [captures EXCEPT ![cap[s]] = row]
<1>. DEFINE members == Members[stream[s]]
            counts == <<Len(members), Cardinality(NoticesIn(members)),
                        Cardinality(RowsOf(cap[s]))>>
            ok == /\ counts[3] = counts[2] /\ counts[2] = counts[1]
                  /\ ReferencesOfRows(RowsOf(cap[s])) = ReferencesOfArchive(stream[s])
            st == IF ok /\ captures[cap[s]].status \in {"acquiring", "loading"}
                  THEN "loaded" ELSE captures[cap[s]].status
<1>1. stream[s] \in Archive
  BY DEF Reconcile, StoreInv, SessionShape
<1>2. members \in Seq(Notice \cup {Unreadable})
  BY <1>1, ConstantsAreTyped
<1>3. Len(members) \in Nat /\ Cardinality(NoticesIn(members)) \in Nat
  BY <1>2, NoticesFinite, FS_CardinalityType, LenProperties
<1>4. Cardinality(RowsOf(cap[s])) \in Nat
  <2>1. IsFiniteSet(RowsOf(cap[s]))
    BY FS_Subset DEF RowsOf, StoreInv, TypeOK
  <2>. QED  BY <2>1, FS_CardinalityType
<1>5. counts \in Seq(Nat)
  BY <1>3, <1>4
<1>6. st \in OpenStatus
  BY WorkCapture DEF Reconcile, Working, OpenStatus
<1>. DEFINE row == [captures[cap[s]] EXCEPT !.counts = counts, !.status = st]
<1>7. captures' = [captures EXCEPT ![cap[s]] = row]
  BY DEF Reconcile
<1>. HIDE DEF counts, st
<1>8. /\ row \in Capture
      /\ row.pkg = captures[cap[s]].pkg /\ row.status = st
  <2>1. captures[cap[s]] \in Capture
    BY WorkCapture DEF Reconcile, Working
  <2>. QED  BY <1>5, <1>6, <2>1 DEF Capture, Status
<1>. QED  BY <1>6, <1>7, <1>8

\* What replacing a row by another of its package does to the capture table.
LEMMA ReplaceCapture ==
    ASSUME NEW old \in Seq(Capture), NEW c \in DOMAIN old, NEW row \in Capture,
           row.pkg = old[c].pkg, NEW new, new = [old EXCEPT ![c] = row]
    PROVE  /\ new \in Seq(Capture) /\ DOMAIN new = DOMAIN old
           /\ new[c] = row
           /\ \A d \in DOMAIN old \ {c} : new[d] = old[d]
           /\ \A d \in DOMAIN old : new[d].pkg = old[d].pkg
<1>1. \A d \in DOMAIN old : old[d] \in Capture
  BY ElementOfSeq, LenProperties
<1>2. /\ new = [d \in DOMAIN old |-> new[d]]
      /\ new[c] = row
      /\ \A d \in DOMAIN old \ {c} : new[d] = old[d]
  OBVIOUS
<1>3. \A d \in DOMAIN old : new[d] \in Capture
  BY <1>1, <1>2
<1>4. \A d \in DOMAIN old : new[d].pkg = old[d].pkg
  BY <1>2
<1>. QED  BY <1>2, <1>3, <1>4, RewriteCaptures

\* The transaction that reconciles what was loaded with the archive keeps the types.
LEMMA ReconcileTypes ==
    ASSUME StoreInv, NEW s \in Session, Reconcile(s)
    PROVE  TypeOK'
<1>1. captures' \in Seq(Capture)
  <2>1. PICK row \in Capture :
            /\ row.pkg = captures[cap[s]].pkg
            /\ captures' = [captures EXCEPT ![cap[s]] = row]
    BY ReconcileTable
  <2>2. captures \in Seq(Capture) /\ cap[s] \in DOMAIN captures
    BY WorkCapture DEF StoreInv, TypeOK, Reconcile, Working
  <2>. QED  BY <2>1, <2>2, ReplaceCapture
<1>2. pc' \in [Session -> PC]
  <2>1. PICK l \in {"publish", "fail"} : Goto(s, l)
    BY DEF Reconcile
  <2>. QED  BY <2>1, GotoType DEF StoreInv, PC, Holding
<1>. QED  BY <1>1, <1>2 DEF Reconcile, StoreInv, TypeOK, lock, work, budgets

\* fail_capture keeps the types, and of the captures it changes one row's status.
LEMMA FailTypes ==
    ASSUME StoreInv, NEW s \in Session, Fail(s)
    PROVE  TypeOK' /\ captures' = [captures EXCEPT ![cap[s]].status = "failed"]
<1>1. cap[s] \in DOMAIN captures /\ captures[cap[s]].status \in OpenStatus
  BY WorkCapture DEF Fail, Working
<1>2. captures' = [captures EXCEPT ![cap[s]].status = "failed"]
  BY <1>1 DEF Fail, OpenStatus
<1>3. captures' \in Seq(Capture)
  BY <1>1, <1>2, SetStatus DEF StoreInv, TypeOK, Status
<1>4. pc' \in [Session -> PC]
  BY GotoType DEF Fail, StoreInv, PC, Holding
<1>. QED  BY <1>2, <1>3, <1>4 DEF Fail, StoreInv, TypeOK, lock, work, budgets

\* What publish does to the capture table: it touches two statuses at most.
LEMMA PublishTable ==
    ASSUME StoreInv, NEW s \in Session, Publish(s), ReadyToPublish(cap[s])
    PROVE  LET c == cap[s]
               p == captures[c].pkg
           IN  /\ captures' \in Seq(Capture) /\ DOMAIN captures' = DOMAIN captures
               /\ c \in DOMAIN captures /\ p \in Package
               /\ pointer' = [pointer EXCEPT ![p] = c]
               /\ captures'[c].status = "published"
               /\ \A d \in DOMAIN captures : captures'[d].pkg = captures[d].pkg
               /\ \A d \in DOMAIN captures \ {c} :
                      captures'[d] = IF d = pointer[p]
                                     THEN [captures[d] EXCEPT !.status = "superseded"]
                                     ELSE captures[d]
<1>. DEFINE c == cap[s]
            p == captures[c].pkg
<1>1. c \in DOMAIN captures /\ captures \in Seq(Capture)
  BY WorkCapture DEF Publish, Working, StoreInv, TypeOK
<1>2. \A d \in DOMAIN captures : captures[d] \in Capture
  BY <1>1, ElementOfSeq, LenProperties
<1>3. p \in Package
  BY <1>1, <1>2 DEF Capture
<1>4. /\ captures' = [d \in DOMAIN captures |->
              IF d = c THEN [captures[d] EXCEPT !.status = "published"]
              ELSE IF d = pointer[p] THEN [captures[d] EXCEPT !.status = "superseded"]
              ELSE captures[d]]
      /\ pointer' = [pointer EXCEPT ![p] = c]
  BY DEF Publish
<1>5. \A d \in DOMAIN captures : \A st \in Status :
          /\ [captures[d] EXCEPT !.status = st] \in Capture
          /\ [captures[d] EXCEPT !.status = st].pkg = captures[d].pkg
          /\ [captures[d] EXCEPT !.status = st].status = st
  BY <1>2 DEF Capture
<1>6. \A d \in DOMAIN captures :
          captures'[d] \in Capture /\ captures'[d].pkg = captures[d].pkg
  BY <1>2, <1>4, <1>5 DEF Status
<1>7. captures'[c].status = "published"
  BY <1>1, <1>4, <1>5 DEF Status
<1>8. captures' \in Seq(Capture) /\ DOMAIN captures' = DOMAIN captures
  BY <1>1, <1>4, <1>6, RewriteCaptures
<1>. QED  BY <1>1, <1>3, <1>4, <1>6, <1>7, <1>8

\* publish, which supersedes the old capture and moves the pointer, keeps the types.
LEMMA PublishTypes ==
    ASSUME StoreInv, NEW s \in Session, Publish(s)
    PROVE  TypeOK'
<1>1. pc' \in [Session -> PC]
  BY GotoType DEF Publish, StoreInv, PC, Holding
<1>2. captures' \in Seq(Capture) /\ pointer' \in [Package -> Nat]
  <2>1. CASE ReadyToPublish(cap[s])
    BY <2>1, PublishTable, WorkCapture DEF Publish, Working, StoreInv, TypeOK
  <2>2. CASE ~ReadyToPublish(cap[s])
    BY <2>2 DEF Publish, StoreInv, TypeOK
  <2>. QED  BY <2>1, <2>2
<1>. QED  BY <1>1, <1>2 DEF Publish, StoreInv, TypeOK, lock, work, budgets

\* Returning from a load and unlocking keeps the types.
LEMMA FinishTypes ==
    ASSUME StoreInv, NEW s \in Session, Finish(s)
    PROVE  TypeOK'
<1>1. job[s].pkg \in Package
  BY HeldInside DEF Finish, Holding
<1>2. owner' \in [Package -> Session \cup {None}] /\ depth' \in [Package -> Nat]
  BY <1>1, GiveLockTable DEF Finish, StoreInv
<1>3. pc' \in [Session -> PC]
  BY GotoType DEF Finish, StoreInv, PC
<1>4. Forget(s) /\ UNCHANGED <<tables, file, budgets>>
  BY DEF Finish
<1>. QED  BY <1>2, <1>3, <1>4, ForgetType DEF StoreInv, TypeOK, tables, budgets

\* A killed process, the server's cleanup after it and a file replaced on disk keep the
\* types.
LEMMA EnvironmentTypes ==
    ASSUME StoreInv, NEW s \in Session, Crash(s) \/ Reap(s) \/ \E p \in Package : SwapFile(p)
    PROVE  TypeOK'
<1>1. CASE Crash(s)
  <2>1. pc' \in [Session -> PC] /\ Forget(s)
    BY <1>1, GotoType DEF Crash, StoreInv, PC
  <2>2. crashes' \in Nat /\ UNCHANGED <<tables, lock, file, faults, swaps>>
    BY <1>1 DEF Crash, StoreInv, TypeOK
  <2>3. TypeOK
    BY DEF StoreInv
  <2>4. /\ job' \in [Session -> Job \cup {None}]
        /\ cap' \in [Session -> Nat]
        /\ resumed' \in [Session -> BOOLEAN]
        /\ done' \in [Session -> SUBSET Nat]
        /\ stream' \in [Session -> Archive \cup {None}]
        /\ next' \in [Session -> Nat]
    BY <2>1, <2>3, ForgetType
  <2>. QED  BY <2>1, <2>2, <2>3, <2>4 DEF TypeOK, tables, lock
<1>2. CASE Reap(s)
  <2>1. pc' \in [Session -> PC]
    BY <1>2, GotoType DEF Reap, StoreInv, PC
  <2>. QED  BY <1>2, <2>1 DEF Reap, StoreInv, TypeOK, tables, work, budgets
<1>3. ASSUME NEW p \in Package, SwapFile(p) PROVE TypeOK'
  BY <1>3 DEF SwapFile, StoreInv, TypeOK, tables, lock, work
<1>. QED  BY <1>1, <1>2, <1>3

\* Every step of the specification keeps the types.
LEMMA NextTypes ==
    ASSUME StoreInv, [Next]_vars
    PROVE  TypeOK'
<1>1. CASE UNCHANGED vars
  BY <1>1 DEF StoreInv, TypeOK, vars, tables, lock, work, budgets
<1>2. ASSUME NEW s \in Session, Start(s) PROVE TypeOK'
  BY <1>2, StartTypes
<1>3. ASSUME NEW s \in Session, Advance(s) PROVE TypeOK'
  BY <1>3, AcquireTypes, RefuseBusyTypes, DecideTypes, PrepareTypes, MoveTypes,
     LoadBatchTypes, ReconcileTypes, PublishTypes, FailTypes, FinishTypes DEF Advance
<1>4. ASSUME NEW s \in Session, DbError(s) PROVE TypeOK'
  BY <1>4, MoveTypes
<1>5. ASSUME NEW s \in Session, Crash(s) \/ Reap(s) PROVE TypeOK'
  BY <1>5, EnvironmentTypes
<1>6. ASSUME NEW p \in Package, SwapFile(p) PROVE TypeOK'
  BY <1>6 DEF SwapFile, StoreInv, TypeOK, tables, lock, work
<1>. QED  BY <1>1, <1>2, <1>3, <1>4, <1>5, <1>6 DEF Next

-----------------------------------------------------------------------------
(* Steps inside the locked part *)

\* The steps of session s between taking the lock and giving it back.
Inside(s) ==
    \/ DecideResume(s) \/ DecideReplay(s) \/ DecideNew(s) \/ Prepare(s)
    \/ ReadFails(s) \/ SkipBatch(s) \/ LoadBatch(s) \/ LoadDuplicate(s)
    \/ Recheck(s) \/ Reconcile(s) \/ Publish(s) \/ Fail(s) \/ DbError(s)

\* Such a step stays under the lock and is invisible in the other sessions.
StaysInside(s) ==
    /\ pc[s] \in Holding /\ pc'[s] \in Holding
    /\ UNCHANGED <<owner, depth, job, file>>
    /\ \A t \in Session \ {s} :
           pc'[t] = pc[t] /\ cap'[t] = cap[t] /\ stream'[t] = stream[t]

\* A step between the locking and the unlocking of a load moves that session alone and
\* keeps its lock.
LEMMA InsideStays ==
    ASSUME StoreInv, NEW s \in Session, Inside(s)
    PROVE  StaysInside(s)
<1>. USE DEF StoreInv, TypeOK
<1>1. CASE DecideResume(s)
  <2>1. PICK l \in {"prepare", "publish", "raise"} : Goto(s, l)
    BY <1>1 DEF DecideResume, EntryPoint
  <2>2. \A t \in Session \ {s} : cap'[t] = cap[t]
    BY <1>1 DEF DecideResume
  <2>. QED  BY <1>1, <2>1, <2>2 DEF DecideResume, StaysInside, Goto, lock, Holding
<1>2. CASE DecideReplay(s)
  BY <1>2 DEF DecideReplay, StaysInside, Goto, lock, Holding
<1>3. CASE DecideNew(s)
  <2>1. PICK l \in {"prepare", "raise"} : Goto(s, l)
    BY <1>3 DEF DecideNew
  <2>2. \A t \in Session \ {s} : cap'[t] = cap[t]
    BY <1>3 DEF DecideNew
  <2>. QED  BY <1>3, <2>1, <2>2 DEF DecideNew, StaysInside, Goto, lock, Holding
<1>4. CASE Prepare(s)
  <2>1. PICK l \in {"fail", "stream"} : Goto(s, l)
    BY <1>4 DEF Prepare
  <2>. QED  BY <1>4, <2>1 DEF Prepare, StaysInside, Goto, lock, Holding
<1>5. CASE ReadFails(s) \/ LoadDuplicate(s)
  BY <1>5 DEF ReadFails, LoadDuplicate, Streaming, StaysInside, Goto, lock, work, Holding
<1>6. CASE SkipBatch(s)
  BY <1>6 DEF SkipBatch, Streaming, StaysInside, lock, Holding
<1>7. CASE LoadBatch(s)
  BY <1>7 DEF LoadBatch, Streaming, StaysInside, lock, Holding
<1>8. CASE Recheck(s)
  <2>1. PICK l \in {"reconcile", "raise", "fail"} : Goto(s, l)
    BY <1>8 DEF Recheck
  <2>. QED  BY <1>8, <2>1 DEF Recheck, StaysInside, Goto, lock, work, Holding
<1>9. CASE Reconcile(s)
  <2>1. PICK l \in {"publish", "fail"} : Goto(s, l)
    BY <1>9 DEF Reconcile
  <2>. QED  BY <1>9, <2>1 DEF Reconcile, StaysInside, Goto, lock, work, Holding
<1>10. CASE Publish(s)
  BY <1>10 DEF Publish, StaysInside, Goto, lock, work, Holding
<1>11. CASE Fail(s)
  BY <1>11 DEF Fail, StaysInside, Goto, lock, work, Holding
<1>12. CASE DbError(s)
  <2>1. PICK l \in {"return", "raise"} : Goto(s, l)
    BY <1>12 DEF DbError
  <2>. QED  BY <1>12, <2>1 DEF DbError, StaysInside, Goto, lock, work, Holding
<1>. QED
  BY <1>1, <1>2, <1>3, <1>4, <1>5, <1>6, <1>7, <1>8, <1>9, <1>10, <1>11, <1>12 DEF Inside

\* So such a step leaves every lock with a session that is inside a load.
LEMMA InsideLock ==
    ASSUME StoreInv, NEW s \in Session, StaysInside(s)
    PROVE  LockShape'
<1>1. LockShape
  BY DEF StoreInv
<1>2. \A t \in Session : pc'[t] \in Holding => pc[t] \in Holding
  BY DEF StaysInside
<1>3. owner' = owner /\ depth' = depth /\ job' = job
  BY DEF StaysInside
<1>. QED  BY <1>1, <1>2, <1>3 DEF LockShape

\* What a session inside a load knows of its capture is still so after its own step.
LEMMA InsideSession ==
    ASSUME StoreInv, NEW s \in Session, Inside(s)
    PROVE  SessionShape'
<1>1. StaysInside(s)
  BY InsideStays
<1>2. \A t \in Session : pc'[t] \in Holding \cup {"begin"} => job'[t] \in Job
  BY <1>1 DEF StaysInside, StoreInv, SessionShape
<1>3. \A t \in Session \ {s} : pc'[t] \in {"stream", "reconcile"} => stream'[t] \in Archive
  BY <1>1 DEF StaysInside, StoreInv, SessionShape
<1>4. pc'[s] \in {"stream", "reconcile"} => stream'[s] \in Archive
  <2>. USE DEF StoreInv, TypeOK
  <2>1. CASE Prepare(s)
    <3>1. file[job[s].pkg] \in Archive \cup {None} /\ stream'[s] = file[job[s].pkg]
      BY <2>1, HeldInside DEF Prepare, Holding
    <3>2. file[job[s].pkg] = None => pc'[s] = "fail"
      BY <2>1 DEF Prepare, Goto
    <3>. QED  BY <3>1, <3>2
  <2>2. CASE SkipBatch(s) \/ LoadBatch(s)
    BY <2>2 DEF SkipBatch, LoadBatch, Streaming, SessionShape
  <2>3. CASE Recheck(s)
    <3>1. pc[s] = "stream" /\ stream' = stream
      BY <2>3 DEF Recheck, work
    <3>. QED  BY <3>1 DEF SessionShape
  <2>4. CASE DecideResume(s)
    <3>1. PICK l \in {"prepare", "publish", "raise"} : Goto(s, l)
      BY <2>4 DEF DecideResume, EntryPoint
    <3>. QED  BY <3>1 DEF Goto
  <2>5. CASE \/ DecideReplay(s) \/ DecideNew(s) \/ ReadFails(s) \/ LoadDuplicate(s)
             \/ Reconcile(s) \/ Publish(s) \/ Fail(s) \/ DbError(s)
    <3>1. PICK l \in {"prepare", "publish", "raise", "return", "fail"} : Goto(s, l)
      BY <2>5 DEF DecideReplay, DecideNew, ReadFails, LoadDuplicate, Reconcile, Publish,
                  Fail, DbError
    <3>. QED  BY <3>1 DEF Goto
  <2>. QED  BY <2>1, <2>2, <2>3, <2>4, <2>5 DEF Inside
<1>. QED  BY <1>2, <1>3, <1>4 DEF SessionShape

-----------------------------------------------------------------------------
(* What the steps do to the capture table *)

\* Captures are never deleted or moved to another package, and a step under the
\* lock of package p leaves the captures of the others alone.
OnlyTouches(p) ==
    /\ DOMAIN captures \subseteq DOMAIN captures'
    /\ \A d \in DOMAIN captures :
           /\ captures'[d].pkg = captures[d].pkg
           /\ captures[d].pkg # p => captures'[d] = captures[d]
    /\ \A d \in DOMAIN captures' \ DOMAIN captures : captures'[d].pkg = p

\* A step that keeps one open capture open and touches no other.
KeepsOpen(c) ==
    /\ c \in DOMAIN captures /\ DOMAIN captures' = DOMAIN captures
    /\ captures[c].status \in OpenStatus /\ captures'[c].status \in OpenStatus
    /\ captures'[c].pkg = captures[c].pkg
    /\ \A d \in DOMAIN captures \ {c} : captures'[d] = captures[d]

\* begin_capture appends one row in status acquiring and rewrites no other.
LEMMA NewCaptureTable ==
    ASSUME StoreInv, NEW s \in Session, DecideNew(s), Len(captures) < MaxCaptures
    PROVE  LET c == Len(captures) + 1 IN
           /\ DOMAIN captures' = DOMAIN captures \cup {c} /\ c \notin DOMAIN captures
           /\ DOMAIN captures = 1..Len(captures) /\ Len(captures) \in Nat
           /\ captures'[c].pkg = job[s].pkg /\ captures'[c].status = "acquiring"
           /\ \A d \in DOMAIN captures : captures'[d] = captures[d]
           /\ cap' = [cap EXCEPT ![s] = c]
<1>1. /\ captures' = Append(captures, NewCapture(job[s]))
      /\ cap' = [cap EXCEPT ![s] = Len(captures) + 1]
  BY DEF DecideNew
<1>2. captures \in Seq(Capture) /\ DOMAIN captures = 1..Len(captures) /\ Len(captures) \in Nat
  BY LenProperties DEF StoreInv, TypeOK
<1>3. NewCapture(job[s]) \in Capture
  BY DEF DecideNew, NewCapture, Capture, Job, Request, Status, OpenStatus, StoreInv,
         SessionShape, Holding
<1>. DEFINE new == NewCapture(job[s])
<1>4. new.pkg = job[s].pkg /\ new.status = "acquiring"
  BY DEF NewCapture
<1>. HIDE DEF new
<1>5. /\ captures' \in Seq(Capture) /\ Len(captures') = Len(captures) + 1
      /\ \A d \in 1..Len(captures) : captures'[d] = captures[d]
      /\ captures'[Len(captures) + 1] = new
  BY <1>1, <1>2, <1>3, AppendProperties DEF new
<1>6. DOMAIN captures' = 1..(Len(captures) + 1)
  BY <1>5, LenProperties
<1>. QED  BY <1>1, <1>2, <1>4, <1>5, <1>6

\* A batch and the reconciliation write the row of the open capture of that session alone.
LEMMA OpenStepTable ==
    ASSUME StoreInv, NEW s \in Session, LoadBatch(s) \/ Reconcile(s)
    PROVE  KeepsOpen(cap[s])
<1>1. /\ cap[s] \in DOMAIN captures /\ captures[cap[s]].status \in OpenStatus
      /\ captures \in Seq(Capture) /\ OpenStatus \subseteq Status
      /\ captures[cap[s]] \in Capture
  BY WorkCapture DEF LoadBatch, Reconcile, Streaming, Working, StoreInv, TypeOK, Status
<1>2. CASE LoadBatch(s)
  <2>1. PICK st \in OpenStatus : captures' = [captures EXCEPT ![cap[s]].status = st]
    BY <1>2, LoadBatchTable
  <2>2. captures'[cap[s]] = [captures[cap[s]] EXCEPT !.status = st]
    BY <1>1, <2>1
  <2>3. captures'[cap[s]].status = st
    BY <1>1, <2>2 DEF Capture
  <2>. QED  BY <1>1, <2>1, <2>3, SetStatus DEF KeepsOpen
<1>3. CASE Reconcile(s)
  <2>1. PICK row \in Capture :
            /\ row.pkg = captures[cap[s]].pkg /\ row.status \in OpenStatus
            /\ captures' = [captures EXCEPT ![cap[s]] = row]
    BY <1>3, ReconcileTable
  <2>2. /\ DOMAIN captures' = DOMAIN captures
        /\ captures'[cap[s]] = row
        /\ \A d \in DOMAIN captures \ {cap[s]} : captures'[d] = captures[d]
        /\ \A d \in DOMAIN captures : captures'[d].pkg = captures[d].pkg
    BY <1>1, <2>1, ReplaceCapture
  <2>. QED  BY <1>1, <2>1, <2>2 DEF KeepsOpen
<1>. QED  BY <1>2, <1>3

\* fail_capture turns one open capture into a failed one and rewrites no other row.
LEMMA FailTable ==
    ASSUME StoreInv, NEW s \in Session, Fail(s)
    PROVE  /\ cap[s] \in DOMAIN captures /\ DOMAIN captures' = DOMAIN captures
           /\ captures[cap[s]].pkg = job[s].pkg
           /\ captures[cap[s]].status \in OpenStatus /\ captures'[cap[s]].status = "failed"
           /\ \A d \in DOMAIN captures : captures'[d].pkg = captures[d].pkg
           /\ \A d \in DOMAIN captures \ {cap[s]} : captures'[d] = captures[d]
<1>1. /\ cap[s] \in DOMAIN captures /\ captures[cap[s]].status \in OpenStatus
      /\ captures \in Seq(Capture) /\ "failed" \in Status
      /\ captures[cap[s]] \in Capture /\ captures[cap[s]].pkg = job[s].pkg
  BY WorkCapture DEF Fail, Working, StoreInv, TypeOK, Status
<1>2. captures' = [captures EXCEPT ![cap[s]].status = "failed"]
  BY FailTypes
<1>3. captures'[cap[s]] = [captures[cap[s]] EXCEPT !.status = "failed"]
  BY <1>1, <1>2
<1>4. captures'[cap[s]].status = "failed"
  BY <1>1, <1>3 DEF Capture
<1>. QED  BY <1>1, <1>2, <1>4, SetStatus

\* A step inside a load writes rows of the package it has locked and of no other.
LEMMA InsideTouches ==
    ASSUME StoreInv, NEW s \in Session, Inside(s)
    PROVE  OnlyTouches(job[s].pkg)
<1>1. CASE UNCHANGED captures
  BY <1>1 DEF OnlyTouches
<1>2. CASE DecideNew(s) /\ Len(captures) < MaxCaptures
  BY <1>2, NewCaptureTable DEF OnlyTouches
<1>3. CASE LoadBatch(s) \/ Reconcile(s)
  <2>1. captures[cap[s]].pkg = job[s].pkg
    BY <1>3, WorkCapture DEF LoadBatch, Reconcile, Streaming, Working
  <2>. QED  BY <1>3, <2>1, OpenStepTable DEF KeepsOpen, OnlyTouches
<1>4. CASE Fail(s)
  BY <1>4, FailTable DEF OnlyTouches
<1>5. CASE Publish(s) /\ ReadyToPublish(cap[s])
  <2>1. captures[cap[s]].pkg = job[s].pkg /\ job[s].pkg \in Package
    BY <1>5, WorkCapture DEF Publish, Working, Job
  <2>2. \A d \in DOMAIN captures : d = pointer[job[s].pkg] => captures[d].pkg = job[s].pkg
    <3>1. 0 \notin DOMAIN captures
      BY LenProperties DEF StoreInv, TypeOK
    <3>. QED  BY <2>1, <3>1 DEF StoreInv, PointerShape, CapturesOf
  <2>3. /\ DOMAIN captures' = DOMAIN captures
        /\ \A d \in DOMAIN captures : captures'[d].pkg = captures[d].pkg
        /\ \A d \in DOMAIN captures \ {cap[s]} :
               d # pointer[captures[cap[s]].pkg] => captures'[d] = captures[d]
    BY <1>5, PublishTable
  <2>. QED  BY <2>1, <2>2, <2>3 DEF OnlyTouches
<1>. QED
  <2>1. (DecideNew(s) /\ ~(Len(captures) < MaxCaptures)) => UNCHANGED captures
    BY DEF DecideNew
  <2>2. (Publish(s) /\ ~ReadyToPublish(cap[s])) => UNCHANGED captures
    BY DEF Publish
  <2>3. (\/ DecideResume(s) \/ DecideReplay(s) \/ Prepare(s) \/ ReadFails(s)
         \/ SkipBatch(s) \/ LoadDuplicate(s) \/ Recheck(s) \/ DbError(s)) => UNCHANGED captures
    BY DEF DecideResume, DecideReplay, Prepare, ReadFails, SkipBatch, LoadDuplicate,
           Recheck, DbError, tables
  <2>. QED  BY <1>1, <1>2, <1>3, <1>4, <1>5, <2>1, <2>2, <2>3 DEF Inside

\* The other sessions at work are at work on other packages.
LEMMA OthersKeepWorking ==
    ASSUME StoreInv, NEW s \in Session, StaysInside(s), OnlyTouches(job[s].pkg),
           NEW t \in Session \ {s}, pc'[t] \in Working
    PROVE  /\ cap'[t] \in CapturesOf(job[t].pkg)'
           /\ IsLatest(cap[t])'
           /\ captures'[cap'[t]].status \in OpenStatus
<1>1. pc[t] = pc'[t] /\ cap'[t] = cap[t] /\ job' = job
  BY DEF StaysInside
<1>2. job[t].pkg # job[s].pkg
  BY <1>1 DEF StoreInv, LockShape, StaysInside, Working, Holding
<1>3. /\ cap[t] \in DOMAIN captures /\ captures[cap[t]].pkg = job[t].pkg
      /\ captures[cap[t]].status \in OpenStatus
      /\ \A d \in DOMAIN captures : captures[d].pkg = job[t].pkg => d <= cap[t]
  BY <1>1 DEF StoreInv, WorkShape, CapturesOf, IsLatest
<1>4. captures'[cap[t]] = captures[cap[t]] /\ cap[t] \in DOMAIN captures'
  BY <1>2, <1>3 DEF OnlyTouches
<1>5. \A d \in DOMAIN captures' : captures'[d].pkg = job[t].pkg => d <= cap[t]
  BY <1>2, <1>3 DEF OnlyTouches
<1>. QED  BY <1>1, <1>3, <1>4, <1>5 DEF CapturesOf, IsLatest

\* The session that took the step works on its package's latest open capture.
LEMMA InsideOwnWork ==
    ASSUME StoreInv, NEW s \in Session, Inside(s), pc'[s] \in Working
    PROVE  /\ cap'[s] \in CapturesOf(job[s].pkg)'
           /\ IsLatest(cap[s])'
           /\ captures'[cap'[s]].status \in OpenStatus
<1>. USE DEF StoreInv, TypeOK
<1>1. job' = job
  BY InsideStays DEF StaysInside
<1>2. CASE DecideResume(s)
  <2>1. PICK c \in Resumable(job[s]) : cap' = [cap EXCEPT ![s] = c]
    BY <1>2 DEF DecideResume
  <2>2. cap'[s] = c /\ captures' = captures
    BY <1>2, <2>1 DEF DecideResume, tables
  <2>. QED  BY <1>1, <2>1, <2>2 DEF Resumable, CapturesOf, IsLatest
<1>3. CASE DecideNew(s)
  <2>1. Len(captures) < MaxCaptures
    <3>. SUFFICES ASSUME ~(Len(captures) < MaxCaptures) PROVE FALSE
      OBVIOUS
    <3>1. Goto(s, "raise")
      BY <1>3 DEF DecideNew
    <3>. QED  BY <3>1 DEF Goto, Working
  <2>2. cap'[s] = Len(captures) + 1
    BY <1>3, <2>1, NewCaptureTable
  <2>3. \A d \in DOMAIN captures' : d <= cap'[s]
    <3>1. /\ DOMAIN captures' = DOMAIN captures \cup {Len(captures) + 1}
          /\ DOMAIN captures = 1..Len(captures) /\ Len(captures) \in Nat
      BY <1>3, <2>1, NewCaptureTable
    <3>. QED  BY <2>2, <3>1
  <2>4. cap'[s] \in DOMAIN captures' /\ captures'[cap'[s]].pkg = job[s].pkg
        /\ captures'[cap'[s]].status = "acquiring"
    BY <1>3, <2>1, <2>2, NewCaptureTable
  <2>. QED  BY <1>1, <2>3, <2>4 DEF CapturesOf, IsLatest, OpenStatus
<1>4. CASE \/ Prepare(s) \/ ReadFails(s) \/ SkipBatch(s) \/ LoadDuplicate(s) \/ Recheck(s)
  <2>1. pc[s] \in Working /\ captures' = captures /\ cap' = cap
    BY <1>4 DEF Prepare, ReadFails, SkipBatch, LoadDuplicate, Recheck, Streaming, Working,
                tables, work
  <2>. QED  BY <1>1, <2>1 DEF WorkShape, CapturesOf, IsLatest
<1>5. CASE LoadBatch(s) \/ Reconcile(s)
  <2>1. KeepsOpen(cap[s]) /\ pc[s] \in Working /\ cap' = cap
    BY <1>5, OpenStepTable DEF LoadBatch, Reconcile, Streaming, Working, work
  <2>2. \A d \in DOMAIN captures : captures'[d].pkg = captures[d].pkg
    BY <2>1 DEF KeepsOpen
  <2>. QED  BY <1>1, <2>1, <2>2 DEF KeepsOpen, WorkShape, CapturesOf, IsLatest
<1>6. CASE DecideReplay(s) \/ Publish(s) \/ Fail(s) \/ DbError(s)
  <2>1. PICK l \in {"return", "raise"} : Goto(s, l)
    BY <1>6 DEF DecideReplay, Publish, Fail, DbError
  <2>. QED  BY <2>1 DEF Goto, Working
<1>. QED  BY <1>2, <1>3, <1>4, <1>5, <1>6 DEF Inside

\* After a step inside a load every session at work is at work on its package's latest
\* acquisition, which is still open.
LEMMA InsideWork ==
    ASSUME StoreInv, NEW s \in Session, Inside(s)
    PROVE  WorkShape'
<1>1. StaysInside(s) /\ OnlyTouches(job[s].pkg) /\ job' = job
  BY InsideStays, InsideTouches DEF StaysInside
<1>2. ASSUME NEW t \in Session \ {s}, pc'[t] \in Working
      PROVE  /\ cap'[t] \in CapturesOf(job[t].pkg)'
             /\ IsLatest(cap[t])'
             /\ captures'[cap'[t]].status \in OpenStatus
  BY <1>1, <1>2, OthersKeepWorking
<1>3. ASSUME pc'[s] \in Working
      PROVE  /\ cap'[s] \in CapturesOf(job[s].pkg)'
             /\ IsLatest(cap[s])'
             /\ captures'[cap'[s]].status \in OpenStatus
  BY <1>3, InsideOwnWork
<1>. QED  BY <1>2, <1>3 DEF WorkShape

\* After a step inside a load each package's pointer names its published capture, and a
\* capture that is published is the one that is pointed at.
LEMMA InsidePointer ==
    ASSUME StoreInv, NEW s \in Session, Inside(s)
    PROVE  PointerShape'
<1>. DEFINE c == cap[s]
<1>0. 0 \notin DOMAIN captures /\ pointer \in [Package -> Nat]
      /\ \A d \in DOMAIN captures : captures[d].pkg \in Package
  <2>1. captures \in Seq(Capture)
    BY DEF StoreInv, TypeOK
  <2>2. \A d \in DOMAIN captures : captures[d] \in Capture
    BY <2>1, ElementOfSeq, LenProperties
  <2>. QED  BY <2>1, <2>2, LenProperties DEF Capture, StoreInv, TypeOK
<1>1. CASE UNCHANGED <<captures, pointer>>
  BY <1>1 DEF StoreInv, PointerShape, CapturesOf
<1>2. CASE DecideNew(s) /\ Len(captures) < MaxCaptures
  <2>1. pointer' = pointer
    BY <1>2 DEF DecideNew
  <2>. QED  BY <1>2, <2>1, NewCaptureTable DEF StoreInv, PointerShape, CapturesOf
<1>3. CASE LoadBatch(s) \/ Reconcile(s)
  <2>1. pointer' = pointer /\ KeepsOpen(c)
    BY <1>3, OpenStepTable DEF LoadBatch, Reconcile
  <2>2. "published" \notin OpenStatus
    BY DEF OpenStatus
  <2>. QED  BY <2>1, <2>2 DEF KeepsOpen, StoreInv, PointerShape, CapturesOf
<1>4. CASE Fail(s)
  <2>1. pointer' = pointer
    BY <1>4 DEF Fail
  <2>. QED  BY <1>4, <2>1, FailTable DEF StoreInv, PointerShape, CapturesOf, OpenStatus
<1>5. CASE Publish(s) /\ ReadyToPublish(c)
  <2>0. PICK p \in Package : p = captures[c].pkg
    BY <1>5, PublishTable
  <2>1. /\ DOMAIN captures' = DOMAIN captures /\ c \in DOMAIN captures
        /\ pointer' = [pointer EXCEPT ![p] = c]
        /\ captures'[c].status = "published"
        /\ \A d \in DOMAIN captures : captures'[d].pkg = captures[d].pkg
        /\ \A d \in DOMAIN captures \ {c} :
               captures'[d] = IF d = pointer[p] THEN [captures[d] EXCEPT !.status = "superseded"]
                              ELSE captures[d]
    BY <1>5, <2>0, PublishTable
  <2>2. pointer'[p] = c /\ \A q \in Package \ {p} : pointer'[q] = pointer[q]
    BY <1>0, <2>1
  <2>3. ASSUME NEW q \in Package \ {p}, pointer'[q] # 0
        PROVE  /\ pointer'[q] \in CapturesOf(q)'
               /\ captures'[pointer'[q]].status = "published"
    <3>1. pointer[q] \in DOMAIN captures /\ captures[pointer[q]].pkg = q
          /\ captures[pointer[q]].status = "published" /\ pointer'[q] = pointer[q]
      BY <2>2, <2>3 DEF StoreInv, PointerShape, CapturesOf
    <3>2. pointer[q] # c /\ pointer[q] # pointer[p]
      BY <1>0, <2>0, <2>1, <3>1 DEF StoreInv, PointerShape, CapturesOf
    <3>3. captures'[pointer[q]] = captures[pointer[q]]
      BY <2>1, <3>1, <3>2
    <3>. QED  BY <2>1, <3>1, <3>3 DEF CapturesOf
  <2>4. pointer'[p] \in CapturesOf(p)' /\ captures'[pointer'[p]].status = "published"
    <3>1. captures'[c].pkg = p
      BY <2>0, <2>1
    <3>. QED  BY <2>1, <2>2, <3>1 DEF CapturesOf
  <2>5. ASSUME NEW d \in DOMAIN captures', captures'[d].status = "published"
        PROVE  pointer'[captures'[d].pkg] = d
    <3>1. CASE d = c
      BY <2>0, <2>1, <2>2, <3>1
    <3>2. CASE d # c
      <4>1. d \in DOMAIN captures /\ captures[d] \in Capture
        BY <2>1, ElementOfSeq, LenProperties DEF StoreInv, TypeOK
      <4>2. d # pointer[p]
        <5>. SUFFICES ASSUME d = pointer[p] PROVE FALSE
          OBVIOUS
        <5>1. captures'[d] = [captures[d] EXCEPT !.status = "superseded"]
          BY <2>1, <3>2, <4>1
        <5>2. captures'[d].status = "superseded"
          BY <4>1, <5>1 DEF Capture
        <5>. QED  BY <2>5, <5>2
      <4>3. captures'[d] = captures[d]
        BY <2>1, <3>2, <4>1, <4>2
      <4>4. pointer[captures[d].pkg] = d /\ captures[d].pkg # p
        BY <2>5, <4>1, <4>2, <4>3 DEF StoreInv, PointerShape
      <4>. QED  BY <1>0, <2>2, <4>1, <4>3, <4>4
    <3>. QED  BY <3>1, <3>2
  <2>6. ASSUME NEW q \in Package, pointer'[q] # 0
        PROVE  pointer'[q] \in CapturesOf(q)' /\ captures'[pointer'[q]].status = "published"
    BY <2>3, <2>4, <2>6
  <2>. QED  BY <2>5, <2>6 DEF PointerShape
<1>. QED
  <2>1. (DecideNew(s) /\ ~(Len(captures) < MaxCaptures)) => UNCHANGED <<captures, pointer>>
    BY DEF DecideNew
  <2>2. (Publish(s) /\ ~ReadyToPublish(c)) => UNCHANGED <<captures, pointer>>
    BY DEF Publish
  <2>3. (\/ DecideResume(s) \/ DecideReplay(s) \/ Prepare(s) \/ ReadFails(s)
         \/ SkipBatch(s) \/ LoadDuplicate(s) \/ Recheck(s) \/ DbError(s))
        => UNCHANGED <<captures, pointer>>
    BY DEF DecideResume, DecideReplay, Prepare, ReadFails, SkipBatch, LoadDuplicate,
           Recheck, DbError, tables
  <2>. QED  BY <1>1, <1>2, <1>3, <1>4, <1>5, <2>1, <2>2, <2>3 DEF Inside

-----------------------------------------------------------------------------
(* The steps that take the lock, give it back or happen around it *)

\* Work goes on when the capture tables do and nobody new starts working.
LEMMA WorkUndisturbed ==
    ASSUME StoreInv, UNCHANGED tables,
           \A t \in Session : pc'[t] \in Working =>
               pc[t] \in Working /\ cap'[t] = cap[t] /\ job'[t] = job[t]
    PROVE  WorkShape' /\ PointerShape'
<1>1. captures' = captures /\ pointer' = pointer
  BY DEF tables
<1>. QED  BY <1>1 DEF StoreInv, WorkShape, PointerShape, CapturesOf, IsLatest

\* So does the lock, when nobody goes inside and the inside keep what they own.
LEMMA LockUndisturbed ==
    ASSUME StoreInv,
           \A t \in Session : pc'[t] \in Holding =>
               pc[t] \in Holding /\ job'[t] = job[t] /\ owner'[job[t].pkg] = t,
           \A p \in Package : depth'[p] = 0 <=> owner'[p] = None
    PROVE  LockShape'
BY DEF StoreInv, LockShape

\* A step that leaves the lock alone and takes nobody inside.
LEMMA NobodyEnters ==
    ASSUME StoreInv, UNCHANGED <<owner, depth>>,
           \A t \in Session : pc'[t] \in Holding => pc[t] \in Holding /\ job'[t] = job[t]
    PROVE  LockShape'
BY DEF StoreInv, LockShape

\* Opening a session disturbs no part of the invariant: it touches no table.
LEMMA StartShapes ==
    ASSUME StoreInv, NEW s \in Session, Start(s)
    PROVE  SessionShape' /\ LockShape' /\ WorkShape' /\ PointerShape'
<1>1. PICK p \in Package, r \in Requests : StartLoad(s, p, r)
  BY DEF Start
<1>2. /\ pc[s] = "idle" /\ pc'[s] = "begin"
      /\ \A t \in Session \ {s} : pc'[t] = pc[t] /\ job'[t] = job[t]
      /\ UNCHANGED <<tables, owner, depth, stream, cap>>
  BY <1>1 DEF StartLoad, Goto, StoreInv, TypeOK, lock
<1>3. job'[s] \in Job
  <2>1. file[p] \in Archive /\ r \in Request
    BY <1>1, ConstantsAreTyped DEF StartLoad, StoreInv, TypeOK
  <2>. QED  BY <1>1, <2>1 DEF StartLoad, Job, StoreInv, TypeOK
<1>4. SessionShape'
  BY <1>2, <1>3 DEF StoreInv, SessionShape, Holding
<1>5. LockShape'
  BY <1>2, NobodyEnters DEF Holding
<1>6. WorkShape' /\ PointerShape'
  BY <1>2, WorkUndisturbed DEF Working
<1>. QED  BY <1>4, <1>5, <1>6

\* A session that takes the package's lock is the only one inside that package.
LEMMA AcquireShapes ==
    ASSUME StoreInv, NEW s \in Session, Acquire(s)
    PROVE  SessionShape' /\ LockShape' /\ WorkShape' /\ PointerShape'
<1>. PICK p \in Package : p = job[s].pkg
  BY DEF Acquire, StoreInv, SessionShape, Job
<1>1. /\ pc[s] = "begin" /\ pc'[s] = "decide"
      /\ \A t \in Session \ {s} : pc'[t] = pc[t]
      /\ UNCHANGED <<tables, job, stream, cap>>
  BY DEF Acquire, Goto, StoreInv, TypeOK, work
<1>2. TakeLock(s, p)
  BY DEF Acquire
<1>3. /\ owner'[p] = s
      /\ \A q \in Package : owner[q] # None => owner'[q] = owner[q]
      /\ \A q \in Package : depth'[q] = 0 <=> owner'[q] = None
  BY <1>2, TakeLockTable DEF StoreInv
<1>4. SessionShape'
  BY <1>1 DEF StoreInv, SessionShape, Holding
<1>5. LockShape'
  <2>1. ASSUME NEW t \in Session \ {s}, pc'[t] \in Holding PROVE owner'[job'[t].pkg] = t
    <3>1. owner[job[t].pkg] = t /\ job[t].pkg \in Package /\ t # None
      BY <1>1, <2>1, HeldInside, ConstantsAreDisjoint
    <3>. QED  BY <1>1, <1>3, <3>1
  <2>. QED  BY <1>1, <1>3, <2>1 DEF LockShape
<1>6. WorkShape' /\ PointerShape'
  BY <1>1, WorkUndisturbed DEF Working
<1>. QED  BY <1>4, <1>5, <1>6

\* A session leaves the call it is in: it was refused, it is done, or it died.
LEMMA RefuseBusyShapes ==
    ASSUME StoreInv, NEW s \in Session, RefuseBusy(s)
    PROVE  SessionShape' /\ LockShape' /\ WorkShape' /\ PointerShape'
<1>1. /\ pc[s] = "begin" /\ pc'[s] = "idle"
      /\ \A t \in Session \ {s} :
             pc'[t] = pc[t] /\ job'[t] = job[t] /\ stream'[t] = stream[t] /\ cap'[t] = cap[t]
      /\ UNCHANGED <<tables, owner, depth>>
  BY DEF RefuseBusy, Forget, Goto, StoreInv, TypeOK, lock
<1>2. SessionShape'
  BY <1>1 DEF StoreInv, SessionShape, Holding
<1>3. LockShape'
  BY <1>1, NobodyEnters DEF Holding
<1>4. WorkShape' /\ PointerShape'
  BY <1>1, WorkUndisturbed DEF Working
<1>. QED  BY <1>2, <1>3, <1>4

\* A session that unlocks and returns disturbs no other session's lock or work.
LEMMA FinishShapes ==
    ASSUME StoreInv, NEW s \in Session, Finish(s)
    PROVE  SessionShape' /\ LockShape' /\ WorkShape' /\ PointerShape'
<1>. PICK p \in Package : p = job[s].pkg
  BY HeldInside DEF Finish, Holding
<1>1. /\ pc[s] \in Holding /\ pc'[s] = "idle"
      /\ \A t \in Session \ {s} :
             pc'[t] = pc[t] /\ job'[t] = job[t] /\ stream'[t] = stream[t] /\ cap'[t] = cap[t]
      /\ UNCHANGED tables
  BY DEF Finish, Forget, Goto, StoreInv, TypeOK, Holding
<1>2. GiveLock(s, p)
  BY DEF Finish
<1>3. SessionShape'
  BY <1>1 DEF StoreInv, SessionShape, Holding
<1>4. LockShape'
  <2>1. ASSUME NEW t \in Session, pc'[t] \in Holding
        PROVE  pc[t] \in Holding /\ job'[t] = job[t] /\ owner'[job[t].pkg] = t
    <3>1. t # s /\ pc[t] \in Holding /\ job'[t] = job[t]
      BY <1>1, <2>1 DEF Holding
    <3>2. owner[job[t].pkg] = t /\ job[t].pkg \in Package
      BY <3>1, HeldInside
    <3>. QED  BY <1>2, <3>1, <3>2, GiveLockTable DEF StoreInv
  <2>2. \A q \in Package : depth'[q] = 0 <=> owner'[q] = None
    BY <1>2, GiveLockTable DEF StoreInv
  <2>. QED  BY <2>1, <2>2, LockUndisturbed
<1>5. WorkShape' /\ PointerShape'
  BY <1>1, WorkUndisturbed DEF Working
<1>. QED  BY <1>3, <1>4, <1>5

\* A killed process leaves the tables as they were, and its lock until the server reaps it.
LEMMA CrashShapes ==
    ASSUME StoreInv, NEW s \in Session, Crash(s)
    PROVE  SessionShape' /\ LockShape' /\ WorkShape' /\ PointerShape'
<1>1. /\ pc'[s] = "dead"
      /\ \A t \in Session \ {s} :
             pc'[t] = pc[t] /\ job'[t] = job[t] /\ stream'[t] = stream[t] /\ cap'[t] = cap[t]
      /\ UNCHANGED <<tables, owner, depth>> /\ pc[s] # "dead"
  BY DEF Crash, Forget, Goto, StoreInv, TypeOK, lock
<1>2. SessionShape'
  BY <1>1 DEF StoreInv, SessionShape, Holding
<1>3. LockShape'
  BY <1>1, NobodyEnters DEF Holding
<1>4. WorkShape' /\ PointerShape'
  BY <1>1, WorkUndisturbed DEF Working
<1>. QED  BY <1>2, <1>3, <1>4

\* The server frees the lock of a dead session, whose open capture the next loader finds.
LEMMA ReapShapes ==
    ASSUME StoreInv, NEW s \in Session, Reap(s)
    PROVE  SessionShape' /\ LockShape' /\ WorkShape' /\ PointerShape'
<1>1. /\ pc[s] = "dead" /\ pc'[s] = "idle"
      /\ \A t \in Session \ {s} : pc'[t] = pc[t]
      /\ UNCHANGED <<tables, job, stream, cap>>
  BY DEF Reap, Goto, StoreInv, TypeOK, work
<1>2. \A p \in Package :
          /\ owner'[p] = IF owner[p] = s THEN None ELSE owner[p]
          /\ depth'[p] = IF owner[p] = s THEN 0 ELSE depth[p]
  BY DEF Reap
<1>3. SessionShape'
  BY <1>1 DEF StoreInv, SessionShape, Holding
<1>4. LockShape'
  <2>1. ASSUME NEW t \in Session, pc'[t] \in Holding
        PROVE  pc[t] \in Holding /\ job'[t] = job[t] /\ owner'[job[t].pkg] = t
    <3>1. t # s /\ pc[t] \in Holding /\ job' = job
      BY <1>1, <2>1 DEF Holding
    <3>2. owner[job[t].pkg] = t /\ job[t].pkg \in Package
      BY <3>1, HeldInside
    <3>. QED  BY <1>2, <3>1, <3>2
  <2>2. \A q \in Package : depth'[q] = 0 <=> owner'[q] = None
    BY <1>2 DEF StoreInv, LockShape
  <2>. QED  BY <2>1, <2>2, LockUndisturbed
<1>5. WorkShape' /\ PointerShape'
  BY <1>1, WorkUndisturbed DEF Working
<1>. QED  BY <1>3, <1>4, <1>5

-----------------------------------------------------------------------------
(* The theorems *)

\* Any step of a session, and any replacement of a file, keeps what loads rely on.
\* The lemma does not ask who holds the locks besides: Verification and Ingest
\* compose these steps with theirs.
LEMMA StepStoreInv ==
    ASSUME StoreInv, Next
    PROVE  StoreInv'
<1>0. TypeOK'
  BY NextTypes
<1>1. ASSUME NEW s \in Session, Start(s) PROVE StoreInv'
  BY <1>0, <1>1, StartShapes DEF StoreInv
<1>2. ASSUME NEW s \in Session, Inside(s) PROVE StoreInv'
  <2>1. StaysInside(s)
    BY <1>2, InsideStays
  <2>2. SessionShape' /\ LockShape' /\ WorkShape' /\ PointerShape'
    BY <1>2, <2>1, InsideSession, InsideLock, InsideWork, InsidePointer
  <2>. QED  BY <1>0, <2>2 DEF StoreInv
<1>3. ASSUME NEW s \in Session, Acquire(s) \/ RefuseBusy(s) \/ Finish(s) PROVE StoreInv'
  <2>1. SessionShape' /\ LockShape' /\ WorkShape' /\ PointerShape'
    BY <1>3, AcquireShapes, RefuseBusyShapes, FinishShapes
  <2>. QED  BY <1>0, <2>1 DEF StoreInv
<1>4. ASSUME NEW s \in Session, Crash(s) \/ Reap(s) PROVE StoreInv'
  <2>1. SessionShape' /\ LockShape' /\ WorkShape' /\ PointerShape'
    BY <1>4, CrashShapes, ReapShapes
  <2>. QED  BY <1>0, <2>1 DEF StoreInv
<1>5. ASSUME NEW p \in Package, SwapFile(p) PROVE StoreInv'
  <2>1. UNCHANGED <<tables, lock, pc, work>>
    BY <1>5 DEF SwapFile
  <2>2. SessionShape' /\ LockShape' /\ WorkShape' /\ PointerShape'
    BY <2>1 DEF tables, lock, work, StoreInv, SessionShape, LockShape, WorkShape,
                PointerShape, CapturesOf, IsLatest
  <2>. QED  BY <1>0, <2>2 DEF StoreInv
<1>. QED
  BY <1>1, <1>2, <1>3, <1>4, <1>5 DEF Next, Advance, Inside

\* Who owns a lock got it once and has not left it behind.
LEMMA StepOwnersWork ==
    ASSUME IInv, Next
    PROVE  OwnersWork'
<1>0. StoreInv /\ OwnersWork /\ TypeOK /\ "dead" \notin Holding
      /\ \A q \in Package : owner[q] # None => owner[q] \in Session
  BY DEF IInv, StoreInv, TypeOK, Holding
<1>. USE ConstantsAreDisjoint
<1>1. ASSUME UNCHANGED <<owner, depth>>,
             \A t \in Session :
                 /\ pc[t] \in Holding => \/ pc'[t] \in Holding /\ job'[t] = job[t]
                                        \/ pc'[t] = "dead"
                 /\ pc[t] = "dead" => pc'[t] = "dead"
      PROVE  OwnersWork'
  BY <1>0, <1>1 DEF OwnersWork
<1>2. ASSUME NEW s \in Session, Start(s) \/ RefuseBusy(s) \/ Crash(s) PROVE OwnersWork'
  <2>1. /\ UNCHANGED <<owner, depth>>
        /\ pc[s] \notin Holding \/ pc'[s] = "dead"
        /\ pc[s] # "dead"
        /\ \A t \in Session \ {s} : pc'[t] = pc[t] /\ job'[t] = job[t]
    BY <1>0, <1>2 DEF Start, StartLoad, RefuseBusy, Crash, Forget, Goto, TypeOK, lock, Holding
  <2>2. ASSUME NEW t \in Session, t # s
        PROVE  pc'[t] = pc[t] /\ job'[t] = job[t]
    BY <2>1, <2>2
  <2>. QED  BY <1>1, <2>1, <2>2
<1>3. ASSUME NEW s \in Session, Inside(s) PROVE OwnersWork'
  BY <1>0, <1>1, <1>3, InsideStays DEF StaysInside
<1>4. ASSUME NEW s \in Session, Acquire(s) PROVE OwnersWork'
  <2>. PICK p \in Package : p = job[s].pkg
    BY <1>0, <1>4 DEF Acquire, StoreInv, SessionShape, Job
  <2>1. /\ pc[s] = "begin" /\ pc'[s] = "decide" /\ job' = job
        /\ \A t \in Session \ {s} : pc'[t] = pc[t]
        /\ TakeLock(s, p)
    BY <1>0, <1>4 DEF Acquire, Goto, TypeOK, work
  <2>2. \A q \in Package : owner[q] # s
    BY <1>0, <2>1 DEF OwnersWork, Holding
  <2>3. owner[p] = None /\ depth[p] = 0
    BY <1>0, <2>1, <2>2 DEF TakeLock, LockFree, StoreInv, LockShape
  <2>4. /\ owner'[p] = s /\ depth'[p] = 1
        /\ \A q \in Package \ {p} : owner'[q] = owner[q] /\ depth'[q] = depth[q]
    BY <1>0, <2>1, <2>3, TakeLockTable DEF StoreInv
  <2>. QED  BY <1>0, <2>1, <2>2, <2>4 DEF OwnersWork, Holding
<1>5. ASSUME NEW s \in Session, Finish(s) PROVE OwnersWork'
  <2>. PICK p \in Package : p = job[s].pkg
    BY <1>0, <1>5, HeldInside DEF Finish, Holding
  <2>1. /\ pc[s] \in Holding /\ \A t \in Session \ {s} : pc'[t] = pc[t] /\ job'[t] = job[t]
        /\ GiveLock(s, p)
    BY <1>0, <1>5 DEF Finish, Forget, Goto, TypeOK, Holding
  <2>2. owner[p] = s /\ depth[p] = 1 /\ \A q \in Package \ {p} : owner[q] # s
    BY <1>0, <2>1, HeldInside DEF OwnersWork
  <2>3. /\ owner'[p] = None
        /\ \A q \in Package \ {p} : owner'[q] = owner[q] /\ depth'[q] = depth[q]
    BY <1>0, <2>1, <2>2, GiveLockTable DEF StoreInv
  <2>. QED  BY <1>0, <2>1, <2>2, <2>3 DEF OwnersWork
<1>6. ASSUME NEW s \in Session, Reap(s) PROVE OwnersWork'
  <2>1. /\ \A t \in Session \ {s} : pc'[t] = pc[t] /\ job'[t] = job[t]
        /\ \A p \in Package :
               /\ owner'[p] = IF owner[p] = s THEN None ELSE owner[p]
               /\ depth'[p] = IF owner[p] = s THEN 0 ELSE depth[p]
    BY <1>0, <1>6 DEF Reap, Goto, TypeOK, work
  <2>. QED  BY <1>0, <2>1 DEF OwnersWork
<1>7. ASSUME NEW p \in Package, SwapFile(p) PROVE OwnersWork'
  <2>1. UNCHANGED <<owner, depth, pc, job>>
    BY <1>7 DEF SwapFile, lock, work
  <2>. QED  BY <1>0, <2>1 DEF OwnersWork
<1>. QED  BY <1>2, <1>3, <1>4, <1>5, <1>6, <1>7 DEF Next, Advance, Inside

\* Every step of every session, and every crash, database error and replaced file, keeps
\* the inductive invariant.
THEOREM NextIInv == IInv /\ [Next]_vars => IInv'
<1>. SUFFICES ASSUME IInv, [Next]_vars PROVE IInv'
  OBVIOUS
<1>1. CASE UNCHANGED vars
  BY <1>1 DEF vars, tables, lock, work, budgets, IInv, StoreInv, OwnersWork, TypeOK,
              SessionShape, LockShape, WorkShape, PointerShape, CapturesOf, IsLatest
<1>2. CASE Next
  BY <1>2, StepStoreInv, StepOwnersWork DEF IInv
<1>. QED  BY <1>1, <1>2

\* The inductive invariant of the capture store holds in every reachable state.
THEOREM Invariance == Spec => []IInv
BY InitIInv, NextIInv, PTL DEF Spec

\* In every reachable state the tables, the lock and the sessions have the
\* shapes the code relies on.
THEOREM TypeCorrect == Spec => []TypeOK
<1>1. IInv => TypeOK
  BY DEF IInv, StoreInv
<1>. QED  BY <1>1, Invariance, PTL

\* However many sessions load however many packages and die doing it, the part of
\* load_package between the decision and the publish has one session per package.
THEOREM LoadsExclude == Spec => []WorkIsExclusive
<1>1. IInv => WorkIsExclusive
  BY LockExcludes DEF IInv, StoreInv
<1>. QED  BY <1>1, Invariance, PTL

\* The actions of a session that write the capture tables.
WritesTables(s) ==
    \/ DecideNew(s) /\ Len(captures) < MaxCaptures
    \/ Prepare(s) \/ LoadBatch(s) \/ Reconcile(s) \/ Fail(s)
    \/ Publish(s) /\ ReadyToPublish(cap[s])

\* No other action writes to them.
LEMMA TableWriters ==
    ASSUME Next
    PROVE  UNCHANGED tables \/ \E s \in Session : WritesTables(s)
<1>1. ASSUME NEW s \in Session, Start(s) PROVE UNCHANGED tables
  BY <1>1 DEF Start, StartLoad
<1>2. ASSUME NEW s \in Session, Advance(s) PROVE UNCHANGED tables \/ WritesTables(s)
  <2>1. CASE Acquire(s) \/ RefuseBusy(s)
    BY <2>1 DEF Acquire, RefuseBusy
  <2>2. CASE DecideResume(s) \/ DecideReplay(s)
    BY <2>2 DEF DecideResume, DecideReplay
  <2>3. CASE DecideNew(s)
    BY <2>3 DEF DecideNew, WritesTables, tables
  <2>4. CASE ReadFails(s) \/ SkipBatch(s) \/ LoadDuplicate(s)
    BY <2>4 DEF ReadFails, SkipBatch, LoadDuplicate
  <2>5. CASE Recheck(s) \/ Finish(s)
    BY <2>5 DEF Recheck, Finish
  <2>6. CASE Publish(s)
    BY <2>6 DEF Publish, WritesTables, tables
  <2>7. CASE Prepare(s) \/ LoadBatch(s) \/ Reconcile(s) \/ Fail(s)
    BY <2>7 DEF WritesTables
  <2>. QED  BY <1>2, <2>1, <2>2, <2>3, <2>4, <2>5, <2>6, <2>7 DEF Advance
<1>3. ASSUME NEW s \in Session, DbError(s) PROVE UNCHANGED tables
  BY <1>3 DEF DbError
<1>4. ASSUME NEW s \in Session, Crash(s) \/ Reap(s) PROVE UNCHANGED tables
  BY <1>4 DEF Crash, Reap
<1>5. ASSUME NEW p \in Package, SwapFile(p) PROVE UNCHANGED tables
  BY <1>5 DEF SwapFile
<1>. QED  BY <1>1, <1>2, <1>3, <1>4, <1>5 DEF Next

\* Only a publish moves a pointer, and only to a capture that is ready.
LEMMA PointerWriters ==
    ASSUME Next, pointer' # pointer
    PROVE  \E s \in Session : Publish(s) /\ ReadyToPublish(cap[s])
<1>1. PICK s \in Session : WritesTables(s)
  BY TableWriters DEF tables
<1>. QED  BY <1>1 DEF WritesTables, DecideNew, Prepare, LoadBatch, Reconcile, Fail

\* One package's pointer moves at a time, and only forward.
LEMMA PointerMoves ==
    ASSUME StoreInv, Next, pointer' # pointer
    PROVE  \E p \in Package, c \in Nat :
               /\ pointer' = [pointer EXCEPT ![p] = c] /\ pointer'[p] = c
               /\ pointer[p] \in Nat /\ c > pointer[p] /\ c # 0
<1>1. PICK s \in Session : Publish(s) /\ ReadyToPublish(cap[s])
  BY PointerWriters
<1>. DEFINE c == cap[s]
            p == captures[c].pkg
<1>2. c \in DOMAIN captures /\ p \in Package /\ pointer' = [pointer EXCEPT ![p] = c]
  BY <1>1, PublishTable
<1>3. IsLatest(c) /\ c \in Nat /\ c # 0 /\ pointer[p] \in Nat /\ pointer'[p] = c
  BY <1>1, <1>2, LenProperties DEF StoreInv, TypeOK, WorkShape, Publish, Working
<1>4. captures[c].status = "loaded"
  BY <1>1 DEF ReadyToPublish
<1>5. pointer[p] <= c /\ pointer[p] # c
  BY <1>2, <1>3, <1>4 DEF StoreInv, PointerShape, IsLatest
<1>6. c > pointer[p]
  BY <1>3, <1>5
<1>. HIDE DEF c, p
<1>. QED  BY <1>2, <1>3, <1>6

\* publish takes the latest open acquisition: a package is only ever moved to a
\* capture acquired after the one it shows.
THEOREM PointerForward == Spec => PointerMovesForward
<1>. DEFINE Forward == \A p \in Package : pointer'[p] # pointer[p] => pointer'[p] > pointer[p]
<1>1. ASSUME StoreInv, [Next]_vars PROVE [Forward]_vars
  <2>. SUFFICES ASSUME NEW p \in Package, pointer'[p] # pointer[p]
                PROVE  pointer'[p] > pointer[p]
    OBVIOUS
  <2>1. Next /\ pointer' # pointer
    BY <1>1 DEF vars, tables
  <2>2. PICK q \in Package, c \in Nat :
            /\ pointer' = [pointer EXCEPT ![q] = c] /\ pointer'[q] = c
            /\ pointer[q] \in Nat /\ c > pointer[q] /\ c # 0
    BY <1>1, <2>1, PointerMoves
  <2>. QED  BY <1>1, <2>2 DEF StoreInv, TypeOK
<1>2. IInv => StoreInv
  BY DEF IInv
<1>. QED  BY <1>1, <1>2, Invariance, PTL DEF Spec, PointerMovesForward

\* The rows a step adds or removes are of the capture it works on.
LEMMA RowsMoveWithTheWork ==
    ASSUME StoreInv, Next, NEW c \in DOMAIN captures, RowsOf(c)' # RowsOf(c)
    PROVE  \E s \in Session : pc[s] \in Working /\ cap[s] = c
<1>1. rows' # rows
  BY DEF RowsOf
<1>2. PICK s \in Session : Prepare(s) \/ LoadBatch(s)
  <2>1. PICK s \in Session : WritesTables(s)
    BY <1>1, TableWriters DEF tables
  <2>. QED  BY <1>1, <2>1 DEF WritesTables, DecideNew, Reconcile, Fail, Publish
<1>3. pc[s] \in Working
  BY <1>2 DEF Prepare, LoadBatch, Streaming, Working
<1>4. ASSUME cap[s] # c PROVE FALSE
  <2>1. CASE Prepare(s)
    <3>1. \A r \in Row : r.capture = c => (r \in rows' <=> r \in rows)
      BY <1>4, <2>1 DEF Prepare
    <3>2. rows \subseteq Row /\ rows' \subseteq Row
      BY PrepareTypes, <2>1 DEF StoreInv, TypeOK
    <3>. QED  BY <3>1, <3>2 DEF RowsOf
  <2>2. CASE LoadBatch(s)
    <3>1. rows' = rows \cup BatchRows(cap[s], next[s], stream[s], CurrentSlice(s))
      BY <2>2 DEF LoadBatch
    <3>2. \A r \in BatchRows(cap[s], next[s], stream[s], CurrentSlice(s)) : r.capture = cap[s]
      BY DEF BatchRows
    <3>. QED  BY <1>4, <3>1, <3>2 DEF RowsOf
  <2>. QED  BY <1>2, <2>1, <2>2
<1>. QED  BY <1>3, <1>4

\* What a step may do to a capture that ended or was overtaken.
Kept(c) ==
    /\ RowsOf(c)' = RowsOf(c)
    /\ \/ captures'[c] = captures[c]
       \/ /\ captures[c].status = "published"
          /\ captures'[c] = [captures[c] EXCEPT !.status = "superseded"]

\* No step rewrites what a settled capture's row says of its outcome and its counts.
LEMMA StepKeepsSettled ==
    ASSUME StoreInv, Next, NEW c \in DOMAIN captures, Settled(c)
    PROVE  Kept(c)
<1>. USE DEF Kept
<1>1. \A s \in Session : pc[s] \in Working => cap[s] # c
  BY DEF StoreInv, WorkShape, Settled
<1>2. RowsOf(c)' = RowsOf(c)
  BY <1>1, RowsMoveWithTheWork
<1>3. CASE captures' = captures
  BY <1>2, <1>3
<1>4. CASE captures' # captures
  <2>1. PICK s \in Session :
            \/ DecideNew(s) /\ Len(captures) < MaxCaptures
            \/ LoadBatch(s) \/ Reconcile(s) \/ Fail(s)
            \/ Publish(s) /\ ReadyToPublish(cap[s])
    <3>1. PICK s \in Session : WritesTables(s)
      BY <1>4, TableWriters DEF tables
    <3>. QED  BY <1>4, <3>1 DEF WritesTables, Prepare
  <2>2. CASE DecideNew(s) /\ Len(captures) < MaxCaptures
    BY <1>2, <2>2, NewCaptureTable
  <2>3. CASE LoadBatch(s) \/ Reconcile(s)
    <3>1. cap[s] # c
      BY <1>1, <2>3 DEF LoadBatch, Reconcile, Streaming, Working
    <3>. QED  BY <1>2, <2>3, <3>1, OpenStepTable DEF KeepsOpen
  <2>4. CASE Fail(s)
    <3>1. cap[s] # c
      BY <1>1, <2>4 DEF Fail, Working
    <3>. QED  BY <1>2, <2>4, <3>1, FailTable
  <2>5. CASE Publish(s) /\ ReadyToPublish(cap[s])
    <3>1. cap[s] # c
      BY <1>1, <2>5 DEF Publish, Working
    <3>2. captures'[c] = IF c = pointer[captures[cap[s]].pkg]
                         THEN [captures[c] EXCEPT !.status = "superseded"] ELSE captures[c]
      BY <2>5, <3>1, PublishTable
    <3>3. c = pointer[captures[cap[s]].pkg] => captures[c].status = "published"
      <4>1. captures[cap[s]].pkg \in Package
        BY <2>5, PublishTable
      <4>2. 0 \notin DOMAIN captures
        BY LenProperties DEF StoreInv, TypeOK
      <4>. QED  BY <4>1, <4>2 DEF StoreInv, PointerShape
    <3>. QED  BY <1>2, <3>2, <3>3
  <2>. QED  BY <2>1, <2>2, <2>3, <2>4, <2>5
<1>. QED  BY <1>3, <1>4

\* No capture that ended or was overtaken changes again, except that what was
\* published may be superseded.
THEOREM SettledStays == Spec => SettledIsLeftAlone
<1>1. ASSUME StoreInv, [Next]_vars PROVE [\A c \in DOMAIN captures : Settled(c) => Kept(c)]_vars
  BY <1>1, StepKeepsSettled
<1>2. IInv => StoreInv
  BY DEF IInv
<1>. QED  BY <1>1, <1>2, Invariance, PTL DEF Spec, SettledIsLeftAlone, Kept

-----------------------------------------------------------------------------
(* Members and batches *)

\* What is left of an offset that is cut into batches of b.
LEMMA DivUnique ==
    ASSUME NEW b \in Nat \ {0}, NEW o \in Nat, NEW j \in 1..b
    PROVE  (o * b + j - 1) \div b = o
BY SMT

\* Dividing by the batch size rounds down.
LEMMA DivBounds ==
    ASSUME NEW b \in Nat \ {0}, NEW i \in Nat
    PROVE  /\ i \div b \in Nat
           /\ (i \div b) * b <= i /\ i < (i \div b) * b + b
BY SMT

\* A multiple that is smaller is a smaller multiple.
LEMMA DivBelow ==
    ASSUME NEW b \in Nat \ {0}, NEW o \in Nat, NEW n \in Nat, o * b < n * b
    PROVE  o < n
BY SMT

\* A batch holds the members whose place divided by the batch size is its ordinal.
LEMMA SliceMembers ==
    ASSUME NEW S, NEW members \in Seq(S), NEW b \in Nat \ {0}, NEW o \in Nat,
           NEW j \in DOMAIN Slice(members, b, o)
    PROVE  \E i \in DOMAIN members : Slice(members, b, o)[j] = members[i] /\ (i - 1) \div b = o
<1>. DEFINE k == o * b
            left == Len(members) - k
            n == IF left < b THEN left ELSE b
<1>1. k \in Nat /\ Len(members) \in Nat /\ DOMAIN members = 1..Len(members)
  BY LenProperties
<1>2. Slice(members, b, o) = [i \in 1..n |-> members[k + i]]
  BY DEF Slice
<1>. HIDE DEF k
<1>3. j \in 1..n /\ j \in 1..b
  BY <1>1, <1>2
<1>. DEFINE i == k + j
<1>4. i \in DOMAIN members
  BY <1>1, <1>3
<1>5. Slice(members, b, o)[j] = members[i]
  BY <1>2, <1>3
<1>6. (i - 1) \div b = o
  BY <1>3, DivUnique DEF k
<1>. HIDE DEF i
<1>. QED  BY <1>4, <1>5, <1>6

\* The batches of an archive cover it: each member lies in the slice that its position
\* selects, and that slice starts inside the archive.
LEMMA MemberInSlice ==
    ASSUME NEW S, NEW members \in Seq(S), NEW b \in Nat \ {0}, NEW i \in DOMAIN members
    PROVE  LET o == (i - 1) \div b IN
           /\ o \in Nat /\ o * b < Len(members)
           /\ members[i] \in NoticesIn(Slice(members, b, o))
<1>. DEFINE o == (i - 1) \div b
            k == o * b
            j == i - k
            left == Len(members) - k
            n == IF left < b THEN left ELSE b
<1>1. Len(members) \in Nat /\ i \in 1..Len(members)
  BY LenProperties
<1>2. o \in Nat /\ k <= i - 1 /\ i - 1 < k + b
  <2>. DEFINE x == i - 1
  <2>1. x \in Nat
    BY <1>1
  <2>. HIDE DEF x
  <2>2. x \div b \in Nat /\ (x \div b) * b <= x /\ x < (x \div b) * b + b
    BY <2>1, DivBounds
  <2>. QED  BY <2>2 DEF x
<1>. HIDE DEF o
<1>3. k \in Nat
  BY <1>2
<1>4. Slice(members, b, o) = [x \in 1..n |-> members[k + x]]
  BY DEF Slice
<1>. HIDE DEF k
<1>5. j \in 1..n /\ k + j = i /\ k < Len(members)
  BY <1>1, <1>2, <1>3
<1>6. members[i] \in NoticesIn(Slice(members, b, o))
  BY <1>4, <1>5 DEF NoticesIn
<1>7. o * b < Len(members)
  BY <1>5 DEF k
<1>. QED  BY <1>2, <1>6, <1>7 DEF o

\* A stored batch holds members of its archive, each under its ordinal.
LEMMA BatchRowShape ==
    ASSUME NEW c \in Nat, NEW o \in Nat, NEW a \in Archive, NEW b \in Nat \ {0},
           NEW r \in BatchRows(c, o, a, Slice(Members[a], b, o))
    PROVE  /\ r.capture = c /\ r.batch = o /\ r.from = a
           /\ \E i \in DOMAIN Members[a] : r.notice = Members[a][i] /\ r.batch = (i - 1) \div b
<1>1. Members[a] \in Seq(Notice \cup {Unreadable})
  BY ConstantsAreTyped
<1>2. PICK j \in DOMAIN Slice(Members[a], b, o) :
          r = [capture |-> c, notice |-> Slice(Members[a], b, o)[j], batch |-> o, from |-> a]
  BY DEF BatchRows, NoticesIn
<1>3. PICK i \in DOMAIN Members[a] :
          Slice(Members[a], b, o)[j] = Members[a][i] /\ (i - 1) \div b = o
  BY <1>1, SliceMembers
<1>. QED  BY <1>2, <1>3

\* A batch of an archive that has members left is not empty.
LEMMA BatchRowsFirst ==
    ASSUME NEW c \in Nat, NEW o \in Nat, NEW a \in Archive, NEW b \in Nat \ {0},
           o * b < Len(Members[a])
    PROVE  \E r \in BatchRows(c, o, a, Slice(Members[a], b, o)) : r.capture = c /\ r.from = a
<1>. DEFINE k == o * b
            left == Len(Members[a]) - k
            n == IF left < b THEN left ELSE b
<1>1. Len(Members[a]) \in Nat /\ k \in Nat
  BY ConstantsAreTyped, LenProperties
<1>2. Slice(Members[a], b, o) = [x \in 1..n |-> Members[a][k + x]]
  BY DEF Slice
<1>. HIDE DEF k
<1>3. 1 \in DOMAIN Slice(Members[a], b, o)
  <2>1. k < Len(Members[a])
    BY DEF k
  <2>. QED  BY <1>1, <1>2, <2>1
<1>. DEFINE m == Slice(Members[a], b, o)[1]
            r == [capture |-> c, notice |-> m, batch |-> o, from |-> a]
<1>4. m \in NoticesIn(Slice(Members[a], b, o))
  BY <1>3 DEF NoticesIn
<1>. HIDE DEF m
<1>5. r \in BatchRows(c, o, a, Slice(Members[a], b, o))
  BY <1>4 DEF BatchRows
<1>. QED  BY <1>5

\* When every batch of a stream is on record and no row is of other bytes, the
\* capture holds what an uninterrupted load would have stored.
LEMMA CleanOfBatches ==
    ASSUME StoreInv, RowShape, BatchShape, NEW c \in DOMAIN captures,
           captures[c].batch # 0, \A r \in RowsOf(c) : r.from = captures[c].sha,
           NEW n \in Nat, \A o \in 0..(n - 1) : <<c, o>> \in batches,
           Len(Members[captures[c].sha]) <= n * captures[c].batch
    PROVE  RowsOf(c) = CleanRun(c, captures[c].sha)
<1>. DEFINE a == captures[c].sha
            b == captures[c].batch
<1>0. captures[c] \in Capture /\ a \in Archive /\ b \in Nat \ {0} /\ c \in Nat
      /\ Members[a] \in Seq(Notice \cup {Unreadable})
      /\ Len(Members[a]) \in Nat /\ DOMAIN Members[a] = 1..Len(Members[a])
  <2>1. captures[c] \in Capture /\ c \in Nat
    BY ElementOfSeq, LenProperties DEF StoreInv, TypeOK
  <2>. QED  BY <2>1, ConstantsAreTyped, LenProperties DEF Capture
<1>1. ASSUME NEW r \in RowsOf(c) PROVE r \in CleanRun(c, a)
  <2>1. r \in Row /\ r.capture = c /\ r.from = a
    BY DEF RowsOf, StoreInv, TypeOK
  <2>2. PICK i \in DOMAIN Members[a] : r.notice = Members[a][i] /\ r.batch = (i - 1) \div b
    BY <2>1 DEF RowShape, RowsOf
  <2>3. r = [capture |-> c, notice |-> Members[a][i], from |-> a, batch |-> (i - 1) \div b]
    BY <2>1, <2>2 DEF Row
  <2>. QED  BY <2>3 DEF CleanRun
<1>2. ASSUME NEW i \in DOMAIN Members[a]
      PROVE  [capture |-> c, notice |-> Members[a][i], from |-> a,
              batch |-> (i - 1) \div b] \in RowsOf(c)
  <2>. DEFINE o == (i - 1) \div b
              row == [capture |-> c, notice |-> Members[a][i], batch |-> o, from |-> a]
  <2>1. o \in Nat /\ o * b < Len(Members[a]) /\ Members[a][i] \in NoticesIn(Slice(Members[a], b, o))
    BY <1>0, MemberInSlice
  <2>. HIDE DEF o
  <2>2. <<c, o>> \in batches
    <3>1. o * b < n * b
      BY <1>0, <2>1
    <3>2. o < n
      BY <1>0, <2>1, <3>1, DivBelow
    <3>. QED  BY <2>1, <3>2
  <2>3. PICK x \in Archive : o * b < Len(Members[x])
                             /\ BatchRows(c, o, x, Slice(Members[x], b, o)) \subseteq rows
    BY <2>2 DEF BatchShape, BatchHolds
  <2>4. x = a
    <3>1. PICK r \in BatchRows(c, o, x, Slice(Members[x], b, o)) : r.capture = c /\ r.from = x
      <4>1. c \in Nat /\ b \in Nat \ {0} /\ o \in Nat /\ o * b < Len(Members[x])
            /\ Len(Members[x]) \in Nat
        BY <1>0, <2>1, <2>3, ConstantsAreTyped, LenProperties
      <4>. HIDE DEF b
      <4>2. \E r \in BatchRows(c, o, x, Slice(Members[x], b, o)) : r.capture = c /\ r.from = x
        BY <4>1, BatchRowsFirst
      <4>. QED  BY <4>2
    <3>. QED  BY <2>3, <3>1 DEF RowsOf
  <2>5. row \in rows
    BY <2>1, <2>3, <2>4 DEF BatchRows
  <2>. QED  BY <2>5 DEF RowsOf, o
<1>. QED  BY <1>1, <1>2 DEF CleanRun

-----------------------------------------------------------------------------
(* What the rows of a capture are from *)

\* What a load relies on about the constants, and the capture table's types.
LEMMA CaptureRow ==
    ASSUME StoreInv, NEW c \in DOMAIN captures
    PROVE  captures[c] \in Capture /\ captures[c].sha \in Archive /\ c \in Nat
           /\ captures[c].pkg \in Package /\ captures[c].batch \in Nat
<1>1. captures[c] \in Capture /\ c \in Nat
  BY ElementOfSeq, LenProperties DEF StoreInv, TypeOK
<1>. QED  BY <1>1 DEF Capture

\* A session reads one capture of a package of its own.
LEMMA OthersCapture ==
    ASSUME StoreInv, NEW s \in Session, pc[s] \in Holding,
           NEW t \in Session \ {s}, pc[t] \in Working
    PROVE  cap[t] \in DOMAIN captures /\ captures[cap[t]].pkg # job[s].pkg
<1>1. pc[t] \in Holding
  BY DEF Working, Holding
<1>. QED  BY <1>1, HeldInside, WorkCapture

\* A step that writes to no table and replaces no file leaves to show how far its own
\* session is.
LEMMA QuietRead ==
    ASSUME StoreInv, NEW later, RInv(later), NEW s \in Session, UNCHANGED <<tables, file>>,
           \A t \in Session \ {s} :
               /\ pc'[t] = pc[t] /\ job'[t] = job[t] /\ cap'[t] = cap[t] /\ done'[t] = done[t]
               /\ stream'[t] = stream[t] /\ next'[t] = next[t],
           FileMovesOn(later, s)', ReadIsFounded(s)'
    PROVE  RInv(later)'
<1>0. UNCHANGED <<captures, batches, rows, pointer, file>>
  BY DEF tables
<1>1. \A c \in Nat : RowsOf(c)' = RowsOf(c)
  BY <1>0 DEF RowsOf
<1>2. RowsOfLaterFiles(later)' /\ RowShape'
  BY <1>0 DEF RInv, RowsOfLaterFiles, RowShape, Follows
<1>3. BatchShape'
  BY <1>0 DEF RInv, BatchShape, BatchHolds
<1>4. LoadedShape'
  BY <1>0, <1>1, CaptureRow DEF RInv, LoadedShape, CleanRun
<1>5. ASSUME NEW t \in Session, t # s PROVE FileMovesOn(later, t)' /\ ReadIsFounded(t)'
  <2>1. /\ pc'[t] = pc[t] /\ job'[t] = job[t] /\ cap'[t] = cap[t] /\ done'[t] = done[t]
        /\ stream'[t] = stream[t] /\ next'[t] = next[t]
    BY <1>5
  <2>2. FileMovesOn(later, t) /\ ReadIsFounded(t)
    BY DEF RInv
  <2>3. FileMovesOn(later, t)'
    BY <1>0, <2>1, <2>2 DEF FileMovesOn, Follows
  <2>4. ReadIsFounded(t)'
    BY <1>0, <2>1, <2>2 DEF ReadIsFounded, RowsOf, CleanRun
  <2>. QED  BY <2>3, <2>4
<1>. QED  BY <1>2, <1>3, <1>4, <1>5 DEF RInv

\* A step of a load that writes to its own package's captures, keeping what each is of.
SameContent(d) ==
    /\ captures'[d].pkg = captures[d].pkg /\ captures'[d].sha = captures[d].sha
    /\ captures'[d].batch = captures[d].batch

\* A write of one session keeps what the loads have read, once the parts about that
\* session and about the tables are shown: the other sessions and packages are untouched.
LEMMA WriteRead ==
    ASSUME StoreInv, NEW later, RInv(later), NEW s \in Session,
           StaysInside(s), OnlyTouches(job[s].pkg),
           \A t \in Session \ {s} : done'[t] = done[t] /\ next'[t] = next[t],
           batches \subseteq batches',
           \A d \in DOMAIN captures : captures[d].pkg # job[s].pkg => RowsOf(d)' = RowsOf(d),
           FileMovesOn(later, s)', ReadIsFounded(s)',
           RowsOfLaterFiles(later)', RowShape', BatchShape', LoadedShape'
    PROVE  RInv(later)'
<1>1. ASSUME NEW t \in Session, t # s PROVE FileMovesOn(later, t)' /\ ReadIsFounded(t)'
  <2>1. /\ pc'[t] = pc[t] /\ job' = job /\ cap'[t] = cap[t] /\ done'[t] = done[t]
        /\ stream'[t] = stream[t] /\ next'[t] = next[t] /\ file' = file
    BY <1>1 DEF StaysInside
  <2>2. FileMovesOn(later, t) /\ ReadIsFounded(t)
    BY DEF RInv
  <2>3. FileMovesOn(later, t)'
    BY <2>1, <2>2 DEF FileMovesOn, Follows
  <2>4. CASE pc[t] \notin Working
    <3>1. pc'[t] \notin {"prepare", "stream", "reconcile"}
      BY <2>1, <2>4 DEF Working
    <3>2. pc'[t] \in {"idle", "dead", "begin", "decide", "prepare"} => done'[t] = {} /\ next'[t] = 0
      BY <2>1, <2>2 DEF ReadIsFounded
    <3>3. ReadIsFounded(t)'
      BY <3>1, <3>2 DEF ReadIsFounded
    <3>. QED  BY <2>3, <3>3
  <2>5. CASE pc[t] \in Working
    <3>1. cap[t] \in DOMAIN captures /\ captures[cap[t]].pkg # job[s].pkg
      BY <1>1, <2>5, OthersCapture DEF StaysInside
    <3>2. captures'[cap[t]] = captures[cap[t]] /\ RowsOf(cap[t])' = RowsOf(cap[t])
      BY <3>1, <2>1 DEF OnlyTouches, RowsOf
    <3>3. ReadIsFounded(t)'
      BY <2>1, <2>2, <3>2 DEF ReadIsFounded, RowsOf, CleanRun
    <3>. QED  BY <2>3, <3>3
  <2>. QED  BY <2>3, <2>4, <2>5
<1>. QED  BY <1>1 DEF RInv

\* Such a step that leaves rows and batches alone.
LEMMA RowsUndisturbed ==
    ASSUME StoreInv, NEW later, RInv(later), UNCHANGED <<rows, batches, file>>,
           DOMAIN captures \subseteq DOMAIN captures',
           \A d \in DOMAIN captures : SameContent(d)
    PROVE  /\ RowsOfLaterFiles(later)' /\ RowShape' /\ BatchShape'
           /\ \A d \in Nat : RowsOf(d)' = RowsOf(d)
           /\ \A d \in DOMAIN captures, a \in Archive : CleanRun(d, a)' = CleanRun(d, a)
<1>1. RowsOfLaterFiles(later)'
  BY DEF RInv, RowsOfLaterFiles, SameContent, Follows
<1>2. RowShape'
  BY DEF RInv, RowShape, RowsOfLaterFiles, SameContent
<1>3. BatchShape'
  BY DEF RInv, BatchShape, BatchHolds, SameContent
<1>4. \A d \in Nat : RowsOf(d)' = RowsOf(d)
  BY DEF RowsOf
<1>5. \A d \in DOMAIN captures, a \in Archive : CleanRun(d, a)' = CleanRun(d, a)
  BY DEF CleanRun, SameContent
<1>. QED  BY <1>1, <1>2, <1>3, <1>4, <1>5

-----------------------------------------------------------------------------
(* How far a session is with its file and its capture *)

\* What a session's own step does to its own work, where it writes to no table.
LEMMA OthersWork ==
    ASSUME StoreInv, NEW s \in Session, NEW t \in Session \ {s},
           Start(s) \/ Advance(s) \/ DbError(s) \/ Crash(s) \/ Reap(s)
    PROVE  /\ pc'[t] = pc[t] /\ job'[t] = job[t] /\ cap'[t] = cap[t] /\ done'[t] = done[t]
           /\ stream'[t] = stream[t] /\ next'[t] = next[t] /\ resumed'[t] = resumed[t]
<1>. USE DEF StoreInv, TypeOK, Goto, Forget, work
<1>1. CASE Start(s)
  BY <1>1 DEF Start, StartLoad
<1>2. CASE Acquire(s) \/ RefuseBusy(s)
  BY <1>2 DEF Acquire, RefuseBusy
<1>3. CASE DecideResume(s)
  BY <1>3 DEF DecideResume
<1>4. CASE DecideReplay(s)
  BY <1>4 DEF DecideReplay
<1>5. CASE DecideNew(s)
  BY <1>5 DEF DecideNew
<1>6. CASE Prepare(s)
  BY <1>6 DEF Prepare
<1>7. CASE ReadFails(s) \/ LoadDuplicate(s) \/ Recheck(s)
  BY <1>7 DEF ReadFails, LoadDuplicate, Recheck
<1>8. CASE SkipBatch(s)
  BY <1>8 DEF SkipBatch
<1>9. CASE LoadBatch(s)
  BY <1>9 DEF LoadBatch
<1>10. CASE Reconcile(s)
  BY <1>10 DEF Reconcile
<1>11. CASE Publish(s)
  BY <1>11 DEF Publish
<1>12. CASE Fail(s) \/ Finish(s)
  BY <1>12 DEF Fail, Finish
<1>13. CASE DbError(s)
  BY <1>13 DEF DbError
<1>14. CASE Crash(s) \/ Reap(s)
  BY <1>14 DEF Crash, Reap
<1>. QED  BY <1>1, <1>2, <1>3, <1>4, <1>5, <1>6, <1>7, <1>8, <1>9, <1>10, <1>11, <1>12, <1>13,
             <1>14 DEF Advance

\* A call begins with the digest of the file as it is.
LEMMA StartRead ==
    ASSUME StoreInv, NEW later, RInv(later), NEW s \in Session, Start(s)
    PROVE  RInv(later)'
<1>1. PICK p \in Package, r \in Requests : StartLoad(s, p, r)
  BY DEF Start
<1>2. /\ UNCHANGED <<tables, file, done, next>> /\ pc[s] = "idle" /\ pc'[s] = "begin"
      /\ job'[s].sha = file[job'[s].pkg]
  BY <1>1 DEF StartLoad, Goto, StoreInv, TypeOK
<1>3. FileMovesOn(later, s)'
  BY <1>2 DEF FileMovesOn, Follows
<1>4. ReadIsFounded(s)'
  BY <1>2 DEF ReadIsFounded, RInv
<1>. QED  BY <1>2, <1>3, <1>4, OthersWork, QuietRead

\* A session that takes or awaits no more of the file.
LEMMA LeaveRead ==
    ASSUME StoreInv, NEW later, RInv(later), NEW s \in Session,
           Start(s) \/ Advance(s) \/ DbError(s) \/ Crash(s) \/ Reap(s),
           UNCHANGED <<tables, file>>,
           pc'[s] \in {"decide", "publish", "fail", "return", "raise", "idle", "dead"},
           pc'[s] \in {"idle", "dead"} => done'[s] = {} /\ next'[s] = 0,
           pc'[s] = "decide" => pc[s] = "begin" /\ UNCHANGED <<done, next>>,
           pc'[s] \in Holding => pc[s] \in Holding \cup {"begin"} /\ job' = job
    PROVE  RInv(later)'
<1>1. FileMovesOn(later, s)'
  <2>1. pc'[s] # "stream" /\ pc'[s] # "begin"
    OBVIOUS
  <2>2. pc'[s] \in Holding => Follows(later, job'[s].sha, file'[job'[s].pkg])
    BY DEF RInv, FileMovesOn
  <2>. QED  BY <2>1, <2>2 DEF FileMovesOn, Follows
<1>2. ReadIsFounded(s)'
  <2>1. pc'[s] \notin {"prepare", "stream", "reconcile", "begin"}
    OBVIOUS
  <2>2. pc'[s] = "decide" => done'[s] = {} /\ next'[s] = 0
    BY DEF RInv, ReadIsFounded
  <2>. QED  BY <2>1, <2>2 DEF ReadIsFounded
<1>. QED  BY <1>1, <1>2, OthersWork, QuietRead

\* The steps that neither read the file nor write a row keep what the loads have read.
LEMMA QuietSteps ==
    ASSUME StoreInv, NEW later, RInv(later), NEW s \in Session,
           \/ Acquire(s) \/ RefuseBusy(s) \/ DecideReplay(s)
           \/ ReadFails(s) \/ LoadDuplicate(s)
           \/ Finish(s) \/ DbError(s) \/ Crash(s) \/ Reap(s)
    PROVE  RInv(later)'
<1>. USE DEF StoreInv, TypeOK, Goto, Forget, work, tables, Holding
<1>1. CASE Acquire(s)
  <2>1. /\ UNCHANGED <<tables, file, done, next, job>> /\ pc[s] = "begin" /\ pc'[s] = "decide"
    BY <1>1 DEF Acquire
  <2>. QED  BY <1>1, <2>1, LeaveRead DEF Advance
<1>2. CASE RefuseBusy(s) \/ Finish(s) \/ Crash(s)
  <2>1. /\ UNCHANGED <<tables, file>> /\ pc'[s] \in {"idle", "dead"}
        /\ done'[s] = {} /\ next'[s] = 0
    BY <1>2 DEF RefuseBusy, Finish, Crash
  <2>. QED  BY <1>2, <2>1, LeaveRead DEF Advance
<1>3. CASE DecideReplay(s)
  <2>1. /\ UNCHANGED <<tables, file, job>> /\ pc[s] = "decide" /\ pc'[s] = "return"
    BY <1>3 DEF DecideReplay
  <2>. QED  BY <1>3, <2>1, LeaveRead DEF Advance
<1>4. CASE ReadFails(s) \/ LoadDuplicate(s)
  <2>1. /\ UNCHANGED <<tables, file, job>> /\ pc[s] = "stream" /\ pc'[s] = "fail"
    BY <1>4 DEF ReadFails, LoadDuplicate, Streaming
  <2>. QED  BY <1>4, <2>1, LeaveRead DEF Advance
<1>5. CASE DbError(s)
  <2>1. /\ UNCHANGED <<tables, file, job>> /\ pc[s] \in Holding /\ pc'[s] \in {"return", "raise"}
    BY <1>5 DEF DbError
  <2>. QED  BY <1>5, <2>1, LeaveRead
<1>6. CASE Reap(s)
  <2>1. /\ UNCHANGED <<tables, file, done, next>> /\ pc[s] = "dead" /\ pc'[s] = "idle"
    BY <1>6 DEF Reap
  <2>2. done[s] = {} /\ next[s] = 0
    BY <2>1 DEF RInv, ReadIsFounded
  <2>. QED  BY <1>6, <2>1, <2>2, LeaveRead
<1>. QED  BY <1>1, <1>2, <1>3, <1>4, <1>5, <1>6

\* A load resumes a capture of the bytes it was asked for, from its first batch.
LEMMA ResumeRead ==
    ASSUME StoreInv, NEW later, RInv(later), NEW s \in Session, DecideResume(s)
    PROVE  RInv(later)'
<1>1. PICK c \in Resumable(job[s]) : /\ cap' = [cap EXCEPT ![s] = c]
                                    /\ Goto(s, EntryPoint(c))
  BY DEF DecideResume
<1>2. /\ UNCHANGED <<tables, file, job, done, next>> /\ pc[s] = "decide"
      /\ pc'[s] = EntryPoint(c) /\ cap'[s] = c
  BY <1>1 DEF DecideResume, Goto, StoreInv, TypeOK
<1>3. EntryPoint(c) \in {"publish", "raise", "prepare"}
  BY DEF EntryPoint
<1>4. CASE EntryPoint(c) # "prepare"
  BY <1>2, <1>3, <1>4, LeaveRead DEF Advance, Holding
<1>5. CASE EntryPoint(c) = "prepare"
  <2>1. /\ captures[c].sha = job[s].sha /\ captures[c].batch # 0
        /\ captures[c].status \in {"acquiring", "loading"}
    BY <1>5 DEF EntryPoint, Resumable, Matches, OpenStatus
  <2>2. done[s] = {} /\ next[s] = 0
    BY <1>2 DEF RInv, ReadIsFounded
  <2>3. ReadIsFounded(s)'
    <3>1. captures' = captures
      BY <1>2 DEF tables
    <3>. QED  BY <1>2, <1>5, <2>1, <2>2, <3>1 DEF ReadIsFounded
  <2>4. FileMovesOn(later, s)'
    BY <1>2, <1>5 DEF RInv, FileMovesOn, Follows, Holding
  <2>. QED  BY <1>2, <2>3, <2>4, OthersWork, QuietRead DEF Advance
<1>. QED  BY <1>4, <1>5

\* A batch that is on record already is read and not written.
LEMMA SkipRead ==
    ASSUME StoreInv, NEW later, RInv(later), NEW s \in Session, SkipBatch(s)
    PROVE  RInv(later)'
<1>1. /\ UNCHANGED <<tables, file, pc, job, cap, done, stream>> /\ pc[s] = "stream"
      /\ next[s] \in done[s] /\ next[s] \in Nat /\ next'[s] = next[s] + 1
  BY DEF SkipBatch, Streaming, StoreInv, TypeOK
<1>2. FileMovesOn(later, s)'
  BY <1>1 DEF RInv, FileMovesOn, Follows
<1>3. ReadIsFounded(s)'
  <2>1. UNCHANGED <<captures, batches>>
    BY <1>1 DEF tables
  <2>2. \A o \in 0..(next[s] + 1 - 1) : o \in 0..(next[s] - 1) \/ o = next[s]
    BY <1>1
  <2>. QED  BY <1>1, <2>1, <2>2 DEF RInv, ReadIsFounded
<1>. QED  BY <1>1, <1>2, <1>3, OthersWork, QuietRead DEF Advance

\* The second digest: had the stream been of other bytes, or any row of the capture,
\* the file would have moved on and could not be what it was.
LEMMA RecheckRead ==
    ASSUME StoreInv, NEW later, Ordered(later), RInv(later), NEW s \in Session, Recheck(s)
    PROVE  RInv(later)'
<1>. DEFINE c == cap[s]
            a == job[s].sha
<1>1. /\ UNCHANGED <<tables, file, job, cap, done, stream, next>> /\ pc[s] = "stream"
      /\ pc'[s] \in {"reconcile", "raise", "fail"}
      /\ pc'[s] = "reconcile" => file[job[s].pkg] = a
      /\ ~MoreToRead(s)
  BY DEF Recheck, Goto, StoreInv, TypeOK, work
<1>2. CASE pc'[s] # "reconcile"
  BY <1>1, <1>2, LeaveRead DEF Advance, Holding
<1>3. CASE pc'[s] = "reconcile"
  <2>0. UNCHANGED <<captures, batches, rows>>
    BY <1>1 DEF tables
  <2>1. /\ c \in DOMAIN captures /\ captures[c].pkg = job[s].pkg /\ a \in Archive
        /\ stream[s] \in Archive /\ next[s] \in Nat
    BY <1>1, WorkCapture DEF Working, Job, StoreInv, SessionShape, TypeOK
  <2>2. /\ captures[c].sha = a /\ captures[c].batch # 0
        /\ captures[c].status \in {"acquiring", "loading"}
        /\ \A o \in 0..(next[s] - 1) : <<c, o>> \in batches
    BY <1>1 DEF RInv, ReadIsFounded
  <2>3. stream[s] = a
    <3>1. Follows(later, a, stream[s]) /\ Follows(later, stream[s], a)
      BY <1>1, <1>3 DEF RInv, FileMovesOn
    <3>. QED  BY <2>1, <3>1 DEF Follows, Ordered
  <2>4. \A r \in RowsOf(c) : r.from = captures[c].sha
    <3>1. ASSUME NEW r \in RowsOf(c) PROVE r.from = a
      <4>1. r.from \in Archive /\ Follows(later, a, r.from) /\ Follows(later, r.from, a)
        BY <1>1, <1>3, <2>1, <2>2 DEF RInv, RowsOfLaterFiles, RowsOf, StoreInv, TypeOK, Row
      <4>. QED  BY <2>1, <4>1 DEF Follows, Ordered
    <3>. QED  BY <2>2, <3>1
  <2>5. Len(Members[a]) <= next[s] * captures[c].batch
    <3>1. Len(Members[a]) \in Nat /\ captures[c].batch \in Nat
      BY <2>1, ConstantsAreTyped, LenProperties, CaptureRow
    <3>. QED  BY <1>1, <2>1, <2>3, <3>1 DEF MoreToRead, BatchSize
  <2>6. RowsOf(c) = CleanRun(c, captures[c].sha)
    BY <2>1, <2>2, <2>4, <2>5, CleanOfBatches DEF RInv
  <2>7. ReadIsFounded(s)'
    BY <1>1, <1>3, <2>0, <2>2, <2>3, <2>6 DEF ReadIsFounded, RowsOf, CleanRun
  <2>8. FileMovesOn(later, s)'
    BY <1>1, <1>3 DEF RInv, FileMovesOn, Follows, Holding
  <2>. QED  BY <1>1, <2>7, <2>8, OthersWork, QuietRead DEF Advance
<1>. QED  BY <1>2, <1>3

\* A new capture is of the bytes that were digested, and has no rows yet.
LEMMA NewRead ==
    ASSUME StoreInv, NEW later, RInv(later), NEW s \in Session, DecideNew(s)
    PROVE  RInv(later)'
<1>1. /\ UNCHANGED <<batches, rows, file, job, done, next>> /\ pc[s] = "decide"
  BY DEF DecideNew
<1>2. CASE Len(captures) < MaxCaptures
  <2>. DEFINE c == Len(captures) + 1
  <2>1. /\ DOMAIN captures' = DOMAIN captures \cup {c} /\ c \notin DOMAIN captures
        /\ captures'[c].status = "acquiring"
        /\ \A d \in DOMAIN captures : captures'[d] = captures[d]
        /\ cap' = [cap EXCEPT ![s] = c]
    BY <1>2, NewCaptureTable
  <2>2. captures'[c] = NewCapture(job[s]) /\ pc'[s] = "prepare" /\ cap'[s] = c
    BY <1>2 DEF DecideNew, StoreInv, TypeOK, Goto
  <2>. HIDE DEF c
  <2>3. captures'[c].sha = job[s].sha /\ captures'[c].batch # 0
    <3>1. job[s] \in Job
      BY <1>1, HeldInside DEF Holding
    <3>. QED  BY <2>2, <3>1 DEF NewCapture, Job, Request
  <2>4. StaysInside(s) /\ OnlyTouches(job[s].pkg)
    BY InsideStays, InsideTouches DEF Inside
  <2>5. \A d \in DOMAIN captures : SameContent(d)
    BY <2>1 DEF SameContent
  <2>6. /\ RowsOfLaterFiles(later)' /\ RowShape' /\ BatchShape'
        /\ \A d \in Nat : RowsOf(d)' = RowsOf(d)
        /\ \A d \in DOMAIN captures, a \in Archive : CleanRun(d, a)' = CleanRun(d, a)
    BY <1>1, <2>1, <2>5, RowsUndisturbed
  <2>7. LoadedShape'
    <3>1. ASSUME NEW d \in DOMAIN captures,
                 captures'[d].status \in {"loaded", "published", "superseded"}
          PROVE  RowsOf(d)' = CleanRun(d, captures[d].sha)'
      <4>1. RowsOf(d) = CleanRun(d, captures[d].sha) /\ captures'[d] = captures[d]
        BY <2>1, <3>1 DEF RInv, LoadedShape
      <4>2. d \in Nat /\ captures[d].sha \in Archive
        BY CaptureRow
      <4>3. CleanRun(d, captures[d].sha)' = CleanRun(d, captures[d].sha)
        BY <4>1 DEF CleanRun
      <4>4. RowsOf(d)' = RowsOf(d)
        BY <2>6, <4>2
      <4>. QED  BY <4>1, <4>3, <4>4
    <3>. QED  BY <2>1, <3>1 DEF LoadedShape
  <2>8. FileMovesOn(later, s)'
    BY <1>1, <2>2 DEF RInv, FileMovesOn, Follows, Holding
  <2>9. ReadIsFounded(s)'
    <3>1. done[s] = {} /\ next[s] = 0
      BY <1>1 DEF RInv, ReadIsFounded
    <3>. QED  BY <1>1, <2>1, <2>2, <2>3, <3>1 DEF ReadIsFounded
  <2>10. \A d \in DOMAIN captures : RowsOf(d)' = RowsOf(d)
    BY <2>6, CaptureRow
  <2>11. \A t \in Session \ {s} : done'[t] = done[t] /\ next'[t] = next[t]
    BY <1>1
  <2>. QED  BY <1>1, <2>4, <2>6, <2>7, <2>8, <2>9, <2>10, <2>11, WriteRead
<1>3. CASE ~(Len(captures) < MaxCaptures)
  <2>1. UNCHANGED <<tables, file, job>> /\ pc'[s] = "raise"
    BY <1>1, <1>3 DEF DecideNew, tables, StoreInv, TypeOK, Goto
  <2>. QED  BY <1>1, <2>1, LeaveRead DEF Advance, Holding
<1>. QED  BY <1>2, <1>3

\* A resumed capture's batches are read, rows of no batch on record are cleared, and
\* the file is opened.
LEMMA PrepareRead ==
    ASSUME StoreInv, NEW later, RInv(later), NEW s \in Session, Prepare(s)
    PROVE  RInv(later)'
<1>. DEFINE c == cap[s]
<1>1. /\ UNCHANGED <<captures, batches, file, job, cap, next>> /\ pc[s] = "prepare"
      /\ stream'[s] = file[job[s].pkg] /\ pc'[s] \in {"fail", "stream"}
  BY DEF Prepare, Goto, StoreInv, TypeOK
<1>2. /\ c \in DOMAIN captures /\ captures[c].pkg = job[s].pkg /\ c \in Nat
      /\ captures[c].status \in {"acquiring", "loading"} /\ captures[c].sha = job[s].sha
      /\ captures[c].batch \in Nat \ {0}
      /\ done[s] = {} /\ next[s] = 0
  <2>1. c \in DOMAIN captures /\ captures[c].pkg = job[s].pkg
    BY <1>1, WorkCapture DEF Working
  <2>. QED  BY <1>1, <2>1, CaptureRow DEF RInv, ReadIsFounded
<1>3. /\ rows' \subseteq rows
      /\ \A r \in rows : r \in rows' \/ (r.capture = c /\ <<c, r.batch>> \notin batches)
  BY DEF Prepare
<1>4. \A o \in done'[s] : <<c, o>> \in batches
  <2>1. CASE resumed[s]
    <3>1. done'[s] = {b[2] : b \in {x \in batches : x[1] = c}}
      BY <2>1 DEF Prepare, StoreInv, TypeOK
    <3>2. batches \subseteq Nat \X Nat
      BY DEF StoreInv, TypeOK
    <3>. QED  BY <3>1, <3>2
  <2>2. CASE ~resumed[s]
    BY <1>2, <2>2 DEF Prepare
  <2>. QED  BY <2>1, <2>2
<1>5. StaysInside(s) /\ OnlyTouches(job[s].pkg)
  BY InsideStays, InsideTouches DEF Inside
<1>6. RowsOfLaterFiles(later)' /\ RowShape'
  BY <1>1, <1>3 DEF RInv, RowsOfLaterFiles, RowShape, Follows
<1>7. BatchShape'
  <2>1. ASSUME NEW x \in batches PROVE BatchHolds(x[1], x[2])'
    <3>. DEFINE d == x[1]
                o == x[2]
                b == captures[d].batch
    <3>1. d \in DOMAIN captures /\ d \in Nat /\ o \in Nat /\ x = <<d, o>>
      BY CaptureRow DEF RInv, BatchShape, BatchHolds, StoreInv, TypeOK
    <3>2. PICK a \in Archive : o * b < Len(Members[a])
                               /\ BatchRows(d, o, a, Slice(Members[a], b, o)) \subseteq rows
      BY DEF RInv, BatchShape, BatchHolds
    <3>. HIDE DEF d, o
    <3>3. \A r \in BatchRows(d, o, a, Slice(Members[a], b, o)) : r.capture = d /\ r.batch = o
      BY DEF BatchRows
    <3>4. BatchRows(d, o, a, Slice(Members[a], b, o)) \subseteq rows'
      BY <1>3, <3>1, <3>2, <3>3
    <3>. QED  BY <1>1, <3>1, <3>2, <3>4 DEF BatchHolds, d, o
  <2>. QED  BY <1>1, <2>1 DEF BatchShape
<1>8. \A d \in DOMAIN captures : d # c => RowsOf(d)' = RowsOf(d)
  BY <1>3 DEF RowsOf
<1>9. LoadedShape'
  BY <1>1, <1>2, <1>8 DEF RInv, LoadedShape, CleanRun
<1>10. FileMovesOn(later, s)'
  <2>1. Follows(later, job[s].sha, file[job[s].pkg])
    BY <1>1 DEF RInv, FileMovesOn, Holding
  <2>. QED  BY <1>1, <2>1 DEF FileMovesOn, Follows
<1>11. ReadIsFounded(s)'
  BY <1>1, <1>2, <1>4 DEF ReadIsFounded
<1>12. \A t \in Session \ {s} : done'[t] = done[t] /\ next'[t] = next[t]
  BY OthersWork DEF Advance
<1>. QED  BY <1>1, <1>2, <1>5, <1>6, <1>7, <1>8, <1>9, <1>10, <1>11, <1>12, WriteRead

\* A batch is written with its record: its rows are of the open stream, which is of
\* the capture's own bytes unless the file has moved on.
LEMMA BatchRead ==
    ASSUME StoreInv, NEW later, RInv(later), NEW s \in Session, LoadBatch(s)
    PROVE  RInv(later)'
<1>. DEFINE c == cap[s]
            o == next[s]
            a == stream[s]
            b == captures[c].batch
            new == BatchRows(c, o, a, Slice(Members[a], b, o))
<1>1. /\ UNCHANGED <<file, pc, job, cap, done, stream>> /\ pc[s] = "stream"
      /\ next' = [next EXCEPT ![s] = @ + 1]
      /\ batches' = batches \cup {<<c, o>>} /\ MoreToRead(s)
      /\ rows' = rows \cup new
  BY DEF LoadBatch, Streaming, CurrentSlice, BatchSize
<1>2. /\ c \in DOMAIN captures /\ captures[c].pkg = job[s].pkg /\ c \in Nat
      /\ captures[c].status \in {"acquiring", "loading"} /\ captures[c].sha = job[s].sha
      /\ b \in Nat \ {0} /\ o \in Nat /\ a \in Archive /\ job[s].pkg \in Package
      /\ captures[c].sha \in Archive
      /\ \A x \in done[s] \cup 0..(next[s] - 1) : <<c, x>> \in batches
  <2>1. c \in DOMAIN captures /\ captures[c].pkg = job[s].pkg /\ o \in Nat /\ a \in Archive
    BY <1>1, WorkCapture DEF Working, StoreInv, SessionShape, TypeOK
  <2>. QED  BY <1>1, <2>1, CaptureRow DEF RInv, ReadIsFounded
<1>3. PICK st \in OpenStatus : captures' = [captures EXCEPT ![c].status = st]
  BY LoadBatchTable
<1>4. /\ DOMAIN captures' = DOMAIN captures /\ \A d \in DOMAIN captures : SameContent(d)
      /\ captures'[c].status \in {"acquiring", "loading"}
      /\ \A d \in DOMAIN captures \ {c} : captures'[d] = captures[d]
  <2>1. \A d \in DOMAIN captures : captures[d] \in Capture
    BY CaptureRow
  <2>2. captures'[c].status \in {"acquiring", "loading"}
    <3>1. captures' = [captures EXCEPT ![c].status = IF @ = "acquiring" THEN "loading" ELSE @]
      BY DEF LoadBatch
    <3>. QED  BY <1>2, <2>1, <3>1 DEF Capture
  <2>. QED  BY <1>2, <1>3, <2>1, <2>2 DEF SameContent, Capture
<1>5. StaysInside(s) /\ OnlyTouches(job[s].pkg)
  BY InsideStays, InsideTouches DEF Inside
<1>6. o * b < Len(Members[a])
  BY <1>1 DEF MoreToRead, BatchSize
<1>. HIDE DEF o, b, a
<1>7. \A r \in new : /\ r.capture = c /\ r.batch = o /\ r.from = a
                     /\ \E i \in DOMAIN Members[a] : r.notice = Members[a][i]
                                                     /\ r.batch = (i - 1) \div b
  BY <1>2, BatchRowShape
<1>8. /\ Follows(later, captures[c].sha, a)
      /\ Follows(later, a, file[captures[c].pkg])
  BY <1>1, <1>2 DEF RInv, FileMovesOn, a
<1>9. RowsOfLaterFiles(later)'
  <2>1. ASSUME NEW r \in rows
        PROVE  /\ r.capture \in DOMAIN captures'
               /\ Follows(later, captures'[r.capture].sha, r.from)
               /\ Follows(later, r.from, file'[captures'[r.capture].pkg])
    BY <1>1, <1>4 DEF RInv, RowsOfLaterFiles, SameContent
  <2>2. ASSUME NEW r \in new
        PROVE  /\ r.capture \in DOMAIN captures'
               /\ Follows(later, captures'[r.capture].sha, r.from)
               /\ Follows(later, r.from, file'[captures'[r.capture].pkg])
    BY <1>1, <1>2, <1>4, <1>7, <1>8 DEF SameContent
  <2>. QED  BY <1>1, <2>1, <2>2 DEF RowsOfLaterFiles, Follows
<1>10. RowShape'
  <2>1. captures'[c].batch = b
    BY <1>2, <1>4 DEF SameContent, b
  <2>2. ASSUME NEW r \in rows
        PROVE  \E i \in DOMAIN Members[r.from] : /\ r.notice = Members[r.from][i]
                                                 /\ r.batch = (i - 1) \div captures'[r.capture].batch
    BY <1>4 DEF RInv, RowShape, RowsOfLaterFiles, SameContent
  <2>3. ASSUME NEW r \in new
        PROVE  \E i \in DOMAIN Members[r.from] : /\ r.notice = Members[r.from][i]
                                                 /\ r.batch = (i - 1) \div captures'[r.capture].batch
    BY <1>7, <2>1
  <2>. QED  BY <1>1, <2>2, <2>3 DEF RowShape
<1>11. BatchShape'
  <2>1. ASSUME NEW x \in batches PROVE BatchHolds(x[1], x[2])'
    <3>1. BatchHolds(x[1], x[2])
      BY DEF RInv, BatchShape
    <3>. QED  BY <1>1, <1>4, <3>1 DEF BatchHolds, SameContent
  <2>2. ASSUME NEW x, x = <<c, o>> PROVE BatchHolds(x[1], x[2])'
    <3>1. captures'[c].batch = b /\ c \in DOMAIN captures'
      BY <1>2, <1>4 DEF SameContent, b
    <3>2. BatchRows(c, o, a, Slice(Members[a], b, o)) \subseteq rows'
      BY <1>1 DEF o, b, a
    <3>3. \E y \in Archive : /\ o * captures'[c].batch < Len(Members[y])
                             /\ BatchRows(c, o, y, Slice(Members[y], captures'[c].batch, o)) \subseteq rows'
      BY <1>2, <1>6, <3>1, <3>2
    <3>4. x[1] = c /\ x[2] = o
      BY <2>2
    <3>. QED  BY <3>1, <3>3, <3>4 DEF BatchHolds
  <2>. QED  BY <1>1, <2>1, <2>2 DEF BatchShape, o
<1>12. \A d \in DOMAIN captures : d # c => RowsOf(d)' = RowsOf(d)
  BY <1>1, <1>7 DEF RowsOf
<1>13. LoadedShape'
  BY <1>2, <1>4, <1>12 DEF RInv, LoadedShape, CleanRun
<1>14. FileMovesOn(later, s)'
  BY <1>1 DEF RInv, FileMovesOn, Follows
<1>15. ReadIsFounded(s)'
  <2>1. next'[s] = next[s] + 1 /\ next[s] \in Nat
    BY <1>1 DEF StoreInv, TypeOK
  <2>2. \A x \in done[s] \cup 0..(next[s] + 1 - 1) : <<c, x>> \in batches'
    BY <1>1, <1>2, <2>1 DEF o
  <2>3. captures'[c].sha = job[s].sha /\ captures'[c].batch # 0
    BY <1>2, <1>4 DEF SameContent, b
  <2>. QED  BY <1>1, <1>4, <2>1, <2>2, <2>3 DEF ReadIsFounded
<1>16. \A t \in Session \ {s} : done'[t] = done[t] /\ next'[t] = next[t]
  BY OthersWork DEF Advance
<1>. QED  BY <1>1, <1>2, <1>5, <1>9, <1>10, <1>11, <1>12, <1>13, <1>14, <1>15, <1>16, WriteRead

\* A capture's status and counts are written, and nothing else of it.
LEMMA StatusRead ==
    ASSUME StoreInv, NEW later, RInv(later), NEW s \in Session, Inside(s),
           UNCHANGED <<rows, batches>>, DOMAIN captures' = DOMAIN captures,
           pc'[s] \in {"publish", "fail", "return"},
           \A d \in DOMAIN captures : SameContent(d),
           \A d \in DOMAIN captures : captures'[d].status \in {"loaded", "published", "superseded"} =>
               RowsOf(d) = CleanRun(d, captures[d].sha)
    PROVE  RInv(later)'
<1>1. StaysInside(s) /\ OnlyTouches(job[s].pkg)
  BY InsideStays, InsideTouches
<1>2. /\ RowsOfLaterFiles(later)' /\ RowShape' /\ BatchShape'
      /\ \A d \in Nat : RowsOf(d)' = RowsOf(d)
      /\ \A d \in DOMAIN captures, a \in Archive : CleanRun(d, a)' = CleanRun(d, a)
  BY <1>1, RowsUndisturbed DEF StaysInside
<1>3. LoadedShape'
  <2>1. ASSUME NEW d \in DOMAIN captures,
               captures'[d].status \in {"loaded", "published", "superseded"}
        PROVE  RowsOf(d)' = CleanRun(d, captures[d].sha)'
    <3>1. RowsOf(d) = CleanRun(d, captures[d].sha)
      BY <2>1
    <3>2. CleanRun(d, captures[d].sha)' = CleanRun(d, captures[d].sha)
      BY DEF CleanRun, SameContent
    <3>3. RowsOf(d)' = RowsOf(d)
      BY <1>2, CaptureRow
    <3>. QED  BY <3>1, <3>2, <3>3
  <2>. QED  BY <2>1 DEF LoadedShape
<1>4. FileMovesOn(later, s)'
  <2>1. Follows(later, job[s].sha, file[job[s].pkg])
    BY <1>1 DEF RInv, FileMovesOn, StaysInside
  <2>. QED  BY <1>1, <2>1 DEF FileMovesOn, Follows, StaysInside
<1>5. ReadIsFounded(s)'
  BY DEF ReadIsFounded
<1>6. \A t \in Session \ {s} : done'[t] = done[t] /\ next'[t] = next[t]
  BY OthersWork DEF Inside, Advance
<1>7. \A d \in DOMAIN captures : RowsOf(d)' = RowsOf(d)
  BY <1>2, CaptureRow
<1>. QED  BY <1>1, <1>2, <1>3, <1>4, <1>5, <1>6, <1>7, WriteRead

\* A capture reconciles after the second digest, so its rows are already whole.
LEMMA ReconcileRead ==
    ASSUME StoreInv, NEW later, RInv(later), NEW s \in Session, Reconcile(s)
    PROVE  RInv(later)'
<1>. DEFINE c == cap[s]
<1>1. /\ UNCHANGED <<rows, batches>> /\ pc[s] = "reconcile" /\ pc'[s] \in {"publish", "fail"}
  BY DEF Reconcile, Goto, StoreInv, TypeOK
<1>2. c \in DOMAIN captures /\ RowsOf(c) = CleanRun(c, captures[c].sha)
  BY <1>1, WorkCapture DEF Working, RInv, ReadIsFounded
<1>3. /\ DOMAIN captures' = DOMAIN captures
      /\ \A d \in DOMAIN captures \ {c} : captures'[d] = captures[d]
      /\ \A d \in DOMAIN captures : SameContent(d)
  <2>1. \A d \in DOMAIN captures : captures[d] \in Capture
    BY CaptureRow
  <2>2. PICK n, st : captures' = [captures EXCEPT ![c].counts = n, ![c].status = st]
    BY DEF Reconcile
  <2>3. /\ DOMAIN captures' = DOMAIN captures
        /\ \A d \in DOMAIN captures \ {c} : captures'[d] = captures[d]
        /\ captures'[c] = [captures[c] EXCEPT !.counts = n, !.status = st]
    BY <1>2, <2>2
  <2>4. SameContent(c)
    BY <1>2, <2>1, <2>3 DEF SameContent, Capture
  <2>. QED  BY <2>3, <2>4 DEF SameContent
<1>4. \A d \in DOMAIN captures : captures'[d].status \in {"loaded", "published", "superseded"} =>
          RowsOf(d) = CleanRun(d, captures[d].sha)
  BY <1>2, <1>3 DEF RInv, LoadedShape
<1>. QED  BY <1>1, <1>3, <1>4, StatusRead DEF Inside

\* Publishing marks captures that reconciled, and the one readers saw before.
LEMMA PublishRead ==
    ASSUME StoreInv, NEW later, RInv(later), NEW s \in Session, Publish(s)
    PROVE  RInv(later)'
<1>. DEFINE c == cap[s]
            p == captures[c].pkg
<1>1. UNCHANGED <<rows, batches, file, job>> /\ pc[s] = "publish" /\ pc'[s] = "return"
  BY DEF Publish, Goto, StoreInv, TypeOK, work
<1>2. CASE ReadyToPublish(c)
  <2>1. /\ c \in DOMAIN captures /\ p \in Package /\ DOMAIN captures' = DOMAIN captures
        /\ captures' = [d \in DOMAIN captures |->
               IF d = c THEN [captures[d] EXCEPT !.status = "published"]
               ELSE IF d = pointer[p] THEN [captures[d] EXCEPT !.status = "superseded"]
               ELSE captures[d]]
    BY <1>2, PublishTable DEF Publish
  <2>2. \A d \in DOMAIN captures : captures[d] \in Capture
    BY CaptureRow
  <2>3. \A d \in DOMAIN captures : SameContent(d)
    BY <2>1, <2>2 DEF SameContent, Capture
  <2>4. captures[c].status = "loaded"
    BY <1>2 DEF ReadyToPublish
  <2>5. pointer[p] \in DOMAIN captures => captures[pointer[p]].status = "published"
    <3>1. 0 \notin DOMAIN captures
      BY LenProperties DEF StoreInv, TypeOK
    <3>. QED  BY <2>1, <3>1 DEF StoreInv, PointerShape
  <2>6. \A d \in DOMAIN captures : captures'[d].status \in {"loaded", "published", "superseded"} =>
            captures[d].status \in {"loaded", "published", "superseded"}
    BY <2>1, <2>2, <2>4, <2>5 DEF Capture
  <2>. QED  BY <1>1, <2>1, <2>3, <2>6, StatusRead DEF Inside, RInv, LoadedShape
<1>3. CASE ~ReadyToPublish(c)
  <2>1. UNCHANGED tables
    BY <1>1, <1>3 DEF Publish, tables
  <2>. QED  BY <1>1, <2>1, LeaveRead DEF Advance, Holding
<1>. QED  BY <1>2, <1>3

\* So does failing a capture.
LEMMA FailRead ==
    ASSUME StoreInv, NEW later, RInv(later), NEW s \in Session, Fail(s)
    PROVE  RInv(later)'
<1>1. UNCHANGED <<rows, batches>> /\ pc'[s] = "return"
  BY DEF Fail, Goto, StoreInv, TypeOK
<1>2. /\ captures' = [captures EXCEPT ![cap[s]].status = "failed"]
      /\ cap[s] \in DOMAIN captures
  BY FailTypes, FailTable
<1>3. \A d \in DOMAIN captures : captures[d] \in Capture
  BY CaptureRow
<1>4. /\ DOMAIN captures' = DOMAIN captures /\ captures'[cap[s]].status = "failed"
      /\ \A d \in DOMAIN captures \ {cap[s]} : captures'[d] = captures[d]
      /\ \A d \in DOMAIN captures : SameContent(d)
  BY <1>2, <1>3 DEF SameContent, Capture
<1>5. \A d \in DOMAIN captures : captures'[d].status \in {"loaded", "published", "superseded"} =>
          RowsOf(d) = CleanRun(d, captures[d].sha)
  BY <1>4 DEF RInv, LoadedShape
<1>. QED  BY <1>1, <1>4, <1>5, StatusRead DEF Inside

\* A replacement only moves the file on.
LEMMA FileRead ==
    ASSUME StoreInv, NEW later, Ordered(later), RInv(later), NEW p \in Package,
           NEW a \in Contents, <<file[p], a>> \in later, file' = [file EXCEPT ![p] = a],
           UNCHANGED <<captures, batches, rows, pc, job, cap, done, stream, next>>
    PROVE  RInv(later)'
<1>1. <<file[p], a>> \in later /\ file' = [file EXCEPT ![p] = a]
  OBVIOUS
<1>2. UNCHANGED <<captures, batches, rows, pc, job, cap, done, stream, next>>
  OBVIOUS
<1>3. \A q \in Package : file'[q] = file[q] \/ <<file[q], file'[q]>> \in later
  BY <1>1 DEF Ordered, StoreInv, TypeOK
<1>4. \A q \in Package : file[q] \in Contents /\ file'[q] \in Contents
  BY <1>1 DEF StoreInv, TypeOK, Contents
<1>5. \A q \in Package, x \in Contents :
          Follows(later, x, file[q]) => Follows(later, x, file'[q])
  BY <1>3, <1>4 DEF Follows, Ordered
<1>6. ASSUME NEW s \in Session PROVE FileMovesOn(later, s)' /\ ReadIsFounded(s)'
  <2>1. FileMovesOn(later, s) /\ ReadIsFounded(s)
    BY DEF RInv
  <2>2. ReadIsFounded(s)'
    BY <1>2, <2>1 DEF ReadIsFounded, RowsOf, CleanRun
  <2>3. pc[s] \in Holding \cup {"begin"} => job[s].pkg \in Package /\ job[s].sha \in Contents
    BY DEF StoreInv, SessionShape, Job, Contents
  <2>4. stream[s] \in Contents
    BY DEF StoreInv, TypeOK, Contents
  <2>5. FileMovesOn(later, s)'
    <3>1. pc[s] \in Holding \cup {"begin"} => Follows(later, job[s].sha, file'[job[s].pkg])
      BY <1>5, <2>1, <2>3 DEF FileMovesOn
    <3>2. pc[s] = "stream" => /\ Follows(later, job[s].sha, stream[s])
                              /\ Follows(later, stream[s], file'[job[s].pkg])
      BY <1>5, <2>1, <2>3, <2>4 DEF FileMovesOn, Holding
    <3>. QED  BY <1>2, <3>1, <3>2 DEF FileMovesOn, Follows
  <2>. QED  BY <2>2, <2>5
<1>7. RowsOfLaterFiles(later)'
  <2>1. \A c \in DOMAIN captures : captures[c].sha \in Contents /\ captures[c].pkg \in Package
    BY CaptureRow DEF Contents
  <2>2. \A r \in rows : r.from \in Contents
    BY DEF StoreInv, TypeOK, Row, Contents
  <2>3. \A r \in rows : /\ r.capture \in DOMAIN captures
                        /\ Follows(later, captures[r.capture].sha, r.from)
                        /\ Follows(later, r.from, file'[captures[r.capture].pkg])
    BY <1>5, <2>1, <2>2 DEF RInv, RowsOfLaterFiles
  <2>. QED  BY <1>2, <2>3 DEF RowsOfLaterFiles, Follows
<1>8. RowShape' /\ BatchShape'
  BY <1>2 DEF RInv, RowShape, BatchShape, BatchHolds
<1>9. LoadedShape'
  BY <1>2 DEF RInv, LoadedShape, RowsOf, CleanRun
<1>. QED  BY <1>6, <1>7, <1>8, <1>9 DEF RInv

\* So does replacing a file on disk, as long as files only move on to later contents.
LEMMA SwapRead ==
    ASSUME StoreInv, NEW later, ForwardOnly(later), RInv(later), NEW p \in Package, SwapFile(p)
    PROVE  RInv(later)'
<1>1. PICK a \in Contents : <<file[p], a>> \in Swaps /\ file' = [file EXCEPT ![p] = a]
  BY DEF SwapFile, Contents
<1>2. UNCHANGED <<captures, batches, rows, pc, job, cap, done, stream, next>>
  BY DEF SwapFile, tables, work
<1>3. <<file[p], a>> \in later
  BY <1>1 DEF ForwardOnly
<1>. QED  BY <1>1, <1>2, <1>3, FileRead DEF ForwardOnly

\* Before the first load there is nothing that could be wrong.
LEMMA InitRead ==
    ASSUME Init, NEW later
    PROVE  RInv(later)
<1>. USE DEF Init
<1>1. \A c \in DOMAIN captures : captures[c].status = "acquiring"
  <2>1. CASE captures = <<>>
    BY <2>1
  <2>2. CASE captures \in {<<c>> : c \in LegacyCaptures}
    BY <2>2, LegacyCapturesAreOpen
  <2>. QED  BY <2>1, <2>2
<1>. QED  BY <1>1 DEF RInv, FileMovesOn, ReadIsFounded, RowsOfLaterFiles, RowShape, BatchShape,
             LoadedShape, Holding

\* Every step of a session keeps what the loads have read.
LEMMA SessionRead ==
    ASSUME StoreInv, NEW later, Ordered(later), RInv(later), NEW s \in Session,
           Start(s) \/ Advance(s) \/ DbError(s) \/ Crash(s) \/ Reap(s)
    PROVE  RInv(later)'
<1>1. CASE \/ Acquire(s) \/ RefuseBusy(s) \/ DecideReplay(s) \/ ReadFails(s) \/ LoadDuplicate(s)
           \/ Finish(s) \/ DbError(s) \/ Crash(s) \/ Reap(s)
  BY <1>1, QuietSteps
<1>2. CASE Start(s) \/ DecideResume(s) \/ SkipBatch(s) \/ Recheck(s)
  BY <1>2, StartRead, ResumeRead, SkipRead, RecheckRead
<1>3. CASE DecideNew(s) \/ Prepare(s) \/ LoadBatch(s)
  BY <1>3, NewRead, PrepareRead, BatchRead
<1>4. CASE Reconcile(s) \/ Publish(s) \/ Fail(s)
  BY <1>4, ReconcileRead, PublishRead, FailRead
<1>. QED  BY <1>1, <1>2, <1>3, <1>4 DEF Advance

\* Every step of the store keeps it where files only move on.
LEMMA StepRead ==
    ASSUME StoreInv, NEW later, ForwardOnly(later), RInv(later), Next
    PROVE  RInv(later)'
<1>1. Ordered(later)
  BY DEF ForwardOnly
<1>2. ASSUME NEW p \in Package, SwapFile(p) PROVE RInv(later)'
  BY <1>2, SwapRead
<1>. QED  BY <1>1, <1>2, SessionRead DEF Next

\* A step that neither counts a capture nor raises its status to loaded, published or
\* superseded keeps what is known of the counts.
LEMMA CountsStay ==
    ASSUME CountsShape,
           \A d \in DOMAIN captures' :
               captures'[d].status \in {"loaded", "published", "superseded"} =>
                   /\ d \in DOMAIN captures
                   /\ captures[d].status \in {"loaded", "published", "superseded"}
                   /\ captures'[d].counts = captures[d].counts
                   /\ captures'[d].sha = captures[d].sha
    PROVE  CountsShape'
BY DEF CountsShape

\* reconcile counts the members of the bytes it streamed, which by then are known to be
\* those on record.
LEMMA ReconcileCounts ==
    ASSUME StoreInv, NEW later, RInv(later), CountsShape, NEW s \in Session, Reconcile(s)
    PROVE  CountsShape'
<1>. DEFINE c == cap[s]
            m == Members[stream[s]]
<1>1. pc[s] = "reconcile"
  BY DEF Reconcile
<1>2. /\ c \in DOMAIN captures /\ captures[c] \in Capture
      /\ captures[c].sha = job[s].sha /\ stream[s] = job[s].sha
  BY <1>1, WorkCapture, CaptureRow DEF Working, RInv, ReadIsFounded
<1>3. PICK n, st : /\ n[2] = Cardinality(NoticesIn(m))
                   /\ captures' = [captures EXCEPT ![c].counts = n, ![c].status = st]
  BY DEF Reconcile
<1>4. /\ DOMAIN captures' = DOMAIN captures
      /\ \A d \in DOMAIN captures \ {c} : captures'[d] = captures[d]
      /\ captures'[c].counts = n /\ captures'[c].sha = captures[c].sha
  BY <1>2, <1>3 DEF Capture
<1>. QED  BY <1>2, <1>3, <1>4 DEF CountsShape

\* Every step of the store keeps the counts of what reconciled.
LEMMA StepCounts ==
    ASSUME StoreInv, NEW later, RInv(later), CountsShape, Next
    PROVE  CountsShape'
<1>0. \A d \in DOMAIN captures : captures[d] \in Capture
  BY CaptureRow
<1>1. ASSUME UNCHANGED captures PROVE CountsShape'
  BY <1>1 DEF CountsShape
<1>2. ASSUME NEW s \in Session, DecideNew(s) PROVE CountsShape'
  <2>1. CASE captures' = captures
    BY <1>1, <2>1
  <2>2. CASE captures' = Append(captures, NewCapture(job[s]))
    <3>1. \A d \in DOMAIN captures' : \/ d \in DOMAIN captures /\ captures'[d] = captures[d]
                                      \/ captures'[d].status = "acquiring"
      BY <2>2, LenProperties DEF StoreInv, TypeOK, NewCapture
    <3>. QED  BY <3>1, CountsStay
  <2>. QED  BY <1>2, <2>1, <2>2 DEF DecideNew
<1>3. ASSUME NEW s \in Session, LoadBatch(s) PROVE CountsShape'
  <2>1. KeepsOpen(cap[s])
    BY <1>3, OpenStepTable
  <2>. QED  BY <1>0, <1>3, <2>1, CountsStay DEF KeepsOpen, LoadBatch, Capture
<1>4. ASSUME NEW s \in Session, Publish(s) PROVE CountsShape'
  <2>1. CASE captures' = captures
    BY <1>1, <2>1
  <2>2. CASE ReadyToPublish(cap[s])
    <3>. DEFINE p == captures[cap[s]].pkg
    <3>1. /\ cap[s] \in DOMAIN captures /\ p \in Package /\ DOMAIN captures' = DOMAIN captures
          /\ captures' = [d \in DOMAIN captures |->
                 IF d = cap[s] THEN [captures[d] EXCEPT !.status = "published"]
                 ELSE IF d = pointer[p] THEN [captures[d] EXCEPT !.status = "superseded"]
                 ELSE captures[d]]
      BY <1>4, <2>2, PublishTable DEF Publish
    <3>2. captures[cap[s]].status = "loaded"
      BY <2>2 DEF ReadyToPublish
    <3>3. pointer[p] \in DOMAIN captures => captures[pointer[p]].status = "published"
      <4>1. 0 \notin DOMAIN captures
        BY LenProperties DEF StoreInv, TypeOK
      <4>. QED  BY <3>1, <4>1 DEF StoreInv, PointerShape
    <3>. QED  BY <1>0, <3>1, <3>2, <3>3, CountsStay DEF Capture
  <2>. QED  BY <1>4, <2>1, <2>2 DEF Publish
<1>5. ASSUME NEW s \in Session, Fail(s) PROVE CountsShape'
  <2>1. /\ captures' = [captures EXCEPT ![cap[s]].status = "failed"]
        /\ cap[s] \in DOMAIN captures
    BY <1>5, FailTypes, FailTable
  <2>. QED  BY <1>0, <2>1, CountsStay DEF Capture
<1>6. ASSUME NEW s \in Session,
             \/ Start(s) \/ Acquire(s) \/ RefuseBusy(s) \/ DecideResume(s) \/ DecideReplay(s)
             \/ Prepare(s) \/ ReadFails(s) \/ SkipBatch(s) \/ LoadDuplicate(s) \/ Recheck(s)
             \/ Finish(s) \/ DbError(s) \/ Crash(s) \/ Reap(s)
      PROVE  UNCHANGED captures
  BY <1>6 DEF Start, StartLoad, Acquire, RefuseBusy, DecideResume, DecideReplay, Prepare,
     ReadFails, SkipBatch, LoadDuplicate, Recheck, Finish, DbError, Crash, Reap, tables
<1>7. ASSUME NEW p \in Package, SwapFile(p) PROVE UNCHANGED captures
  BY <1>7 DEF SwapFile, tables
<1>. QED  BY <1>1, <1>2, <1>3, <1>4, <1>5, <1>6, <1>7, ReconcileCounts DEF Next, Advance

\* The store's two invariants are kept together by every step and by every stutter.
LEMMA StepRInv ==
    ASSUME StoreInv, NEW later, ForwardOnly(later), RInv(later), [Next]_vars
    PROVE  StoreInv' /\ RInv(later)'
<1>1. CASE Next
  BY <1>1, StepStoreInv, StepRead
<1>2. CASE UNCHANGED vars
  <2>1. UNCHANGED <<captures, batches, rows, pointer, owner, depth, file, pc, job, cap, resumed,
                    done, stream, next, crashes, faults, swaps>>
    BY <1>2 DEF vars, tables, lock, work, budgets
  <2>2. StoreInv'
    BY <2>1 DEF StoreInv, TypeOK, SessionShape, LockShape, WorkShape, PointerShape, CapturesOf,
                IsLatest
  <2>3. RInv(later)'
    BY <2>1 DEF RInv, FileMovesOn, ReadIsFounded, RowsOfLaterFiles, RowShape, BatchShape,
                BatchHolds, LoadedShape, RowsOf, CleanRun, Follows
  <2>. QED  BY <2>2, <2>3
<1>. QED  BY <1>1, <1>2

\* The loader's two digests, committed_batches and reconcile together: where replaced
\* content never comes back to a path, what a package shows is exactly what a load of
\* its recorded artifact that nothing interrupted would have stored.
THEOREM PublishedIsWhole == NothingReturns => (Spec => []PublishedIsWholeArtifact)
<1>. SUFFICES ASSUME NothingReturns PROVE Spec => []PublishedIsWholeArtifact
  OBVIOUS
<1>. PICK later \in SUBSET (Contents \X Contents) : ForwardOnly(later)
  BY DEF NothingReturns
<1>1. Init => StoreInv /\ RInv(later)
  BY InitIInv, InitRead DEF IInv
<1>2. StoreInv /\ RInv(later) /\ [Next]_vars => StoreInv' /\ RInv(later)'
  BY StepRInv
<1>3. StoreInv /\ RInv(later) => PublishedIsWholeArtifact
  BY DEF StoreInv, PointerShape, CapturesOf, RInv, LoadedShape, PublishedIsWholeArtifact
<1>. QED  BY <1>1, <1>2, <1>3, PTL DEF Spec

-----------------------------------------------------------------------------
(* What a reader sees: PublishedNotices *)

\* A package whose pointer stays shows what it showed.
LEMMA VisibleStays ==
    ASSUME StoreInv, NEW later, RInv(later), RInv(later)', StoreInv', Next,
           NEW p \in Package, pointer'[p] = pointer[p]
    PROVE  Visible(p)' = Visible(p)
<1>1. CASE pointer[p] = 0
  <2>1. 0 \notin DOMAIN captures /\ 0 \notin DOMAIN captures'
    BY LenProperties DEF StoreInv, TypeOK
  <2>2. \A r \in rows : r.capture # 0
    BY <2>1 DEF RInv, RowsOfLaterFiles
  <2>3. \A r \in rows' : r.capture # 0
    BY <2>1 DEF RInv, RowsOfLaterFiles
  <2>. QED  BY <1>1, <2>2, <2>3 DEF Visible, RowsOf
<1>2. CASE pointer[p] # 0
  <2>1. pointer[p] \in DOMAIN captures /\ Settled(pointer[p])
    BY <1>2 DEF StoreInv, PointerShape, CapturesOf, Settled, OpenStatus
  <2>2. RowsOf(pointer[p])' = RowsOf(pointer[p])
    BY <2>1, StepKeepsSettled DEF Kept, RowsOf
  <2>. QED  BY <2>2 DEF Visible, RowsOf
<1>. QED  BY <1>1, <1>2

\* What a package shows is the content of the archive its capture names.
LEMMA VisibleIsContent ==
    ASSUME StoreInv, NEW later, RInv(later), NEW p \in Package, pointer[p] # 0
    PROVE  \E a \in Archive : Visible(p) = Readers!Content(a)
<1>. DEFINE c == pointer[p]
            a == captures[c].sha
<1>1. c \in DOMAIN captures /\ captures[c].status = "published"
  BY DEF StoreInv, PointerShape, CapturesOf
<1>2. a \in Archive /\ RowsOf(c) = CleanRun(c, a)
  BY <1>1, CaptureRow DEF RInv, LoadedShape
<1>3. Visible(p) = {<<r.notice, r.from>> : r \in CleanRun(c, a)}
  BY <1>2 DEF Visible
<1>. HIDE DEF a
<1>. DEFINE Of(i) == [capture |-> c, notice |-> Members[a][i], from |-> a,
                      batch |-> (i - 1) \div captures[c].batch]
<1>4. /\ \A r \in CleanRun(c, a) : \E i \in DOMAIN Members[a] : r = Of(i)
      /\ \A i \in DOMAIN Members[a] : Of(i) \in CleanRun(c, a)
  BY DEF CleanRun
<1>5. \A i \in DOMAIN Members[a] : Of(i).notice = Members[a][i] /\ Of(i).from = a
  OBVIOUS
<1>. HIDE DEF Of
<1>6. ASSUME NEW x PROVE x \in Visible(p) <=> x \in Readers!Content(a)
  <2>1. CASE x \in Visible(p)
    <3>1. PICK r \in CleanRun(c, a) : x = <<r.notice, r.from>>
      BY <1>3, <2>1
    <3>. QED  BY <1>4, <1>5, <3>1, <2>1 DEF Readers!Content
  <2>2. CASE x \in Readers!Content(a)
    <3>1. PICK i \in DOMAIN Members[a] : x = <<Members[a][i], a>>
      BY <2>2 DEF Readers!Content
    <3>. QED  BY <1>3, <1>4, <1>5, <3>1, <2>2
  <2>. QED  BY <2>1, <2>2
<1>7. Visible(p) = Readers!Content(a)
  BY <1>3, <1>6 DEF Readers!Content
<1>. QED  BY <1>2, <1>7

\* tl_read.notice as its readers know it: loads, resumes, failures and deaths are
\* invisible but for the single step that replaces a whole edition by a later one.
THEOREM WholeEditions == NothingReturns => (Spec => ReadersSeeWholeEditions)
<1>. SUFFICES ASSUME NothingReturns PROVE Spec => ReadersSeeWholeEditions
  OBVIOUS
<1>. PICK later \in SUBSET (Contents \X Contents) : ForwardOnly(later)
  BY DEF NothingReturns
<1>1. Init => StoreInv /\ RInv(later)
  BY InitIInv, InitRead DEF IInv
<1>2. StoreInv /\ RInv(later) /\ [Next]_vars => StoreInv' /\ RInv(later)'
  BY StepRInv
<1>3. Init => Readers!Init
  BY DEF Init, Readers!Init, Visible, RowsOf
<1>. DEFINE Shows == \A p \in Package : pointer[p] # 0 =>
                         \E a \in Archive : Visible(p) = Readers!Content(a)
<1>5. StoreInv /\ RInv(later) => Shows
  BY VisibleIsContent
<1>4. StoreInv /\ RInv(later) /\ StoreInv' /\ RInv(later)' /\ Shows' /\ [Next]_vars
          => [Readers!Next]_<<pointer, [p \in Package |-> Visible(p)]>>
  <2>. SUFFICES ASSUME StoreInv, RInv(later), StoreInv', RInv(later)', Shows', [Next]_vars
                PROVE  [Readers!Next]_<<pointer, [p \in Package |-> Visible(p)]>>
    OBVIOUS
  <2>1. CASE UNCHANGED vars
    BY <2>1 DEF vars, tables, Visible, RowsOf
  <2>2. CASE Next /\ pointer' = pointer
    <3>1. \A p \in Package : Visible(p)' = Visible(p)
      BY <2>2, VisibleStays
    <3>. QED  BY <2>2, <3>1
  <2>3. CASE Next /\ pointer' # pointer
    <3>1. PICK p \in Package, c \in Nat :
               /\ pointer' = [pointer EXCEPT ![p] = c] /\ pointer'[p] = c
               /\ pointer[p] \in Nat /\ c > pointer[p] /\ c # 0
      BY <2>3, PointerMoves
    <3>2. \A q \in Package \ {p} : Visible(q)' = Visible(q)
      BY <2>3, <3>1, VisibleStays DEF StoreInv, TypeOK
    <3>3. PICK a \in Archive : Visible(p)' = Readers!Content(a)
      BY <3>1
    <3>4. [q \in Package |-> Visible(q)]' = [[q \in Package |-> Visible(q)] EXCEPT ![p] = Readers!Content(a)]
      BY <3>2, <3>3
    <3>5. Readers!Publish(p)
      BY <3>1, <3>4 DEF Readers!Publish
    <3>. QED  BY <3>5 DEF Readers!Next
  <2>. QED  BY <2>1, <2>2, <2>3
<1>. HIDE DEF Shows
<1>. QED  BY <1>1, <1>2, <1>3, <1>4, <1>5, PTL DEF Spec, ReadersSeeWholeEditions, Readers!Spec

-----------------------------------------------------------------------------
(* What is counted *)

\* Equal counts of members and of identities say that no identity comes twice.
LEMMA IdentitiesDiffer ==
    ASSUME NEW a \in Archive, WellFormed(a)
    PROVE  /\ \A i, j \in DOMAIN Members[a] : Members[a][i] = Members[a][j] => i = j
           /\ \A i \in DOMAIN Members[a] : Members[a][i] \in Notice
           /\ IsFiniteSet(DOMAIN Members[a]) /\ Cardinality(DOMAIN Members[a]) = Len(Members[a])
<1>. DEFINE m == Members[a]
<1>1. m \in Seq(Notice \cup {Unreadable}) /\ Len(m) \in Nat /\ DOMAIN m = 1..Len(m)
  BY ConstantsAreTyped, LenProperties
<1>2. m \in Surjection(1..Len(m), NoticesIn(m))
  BY <1>1 DEF Surjection, NoticesIn
<1>3. IsFiniteSet(1..Len(m)) /\ Cardinality(1..Len(m)) = Len(m)
  BY <1>1, FS_Interval
<1>4. m \in Injection(1..Len(m), NoticesIn(m))
  BY <1>2, <1>3, FS_Surjection DEF WellFormed
<1>5. \A i \in DOMAIN m : m[i] \in Notice
  BY <1>1 DEF WellFormed, NoticesIn
<1>. QED  BY <1>1, <1>3, <1>4, <1>5 DEF Injection, IsInjective

\* Every batch of such an archive can be read and repeats no identity.
LEMMA SliceIsWellFormed ==
    ASSUME NEW a \in Archive, WellFormed(a), NEW b \in Nat \ {0}, NEW o \in Nat,
           o * b < Len(Members[a])
    PROVE  LET slice == Slice(Members[a], b, o) IN
           Unreadable \notin NoticesIn(slice) /\ Cardinality(NoticesIn(slice)) = Len(slice)
<1>. DEFINE k == o * b
            m == Members[a]
            left == Len(m) - k
            n == IF left < b THEN left ELSE b
            slice == [i \in 1..n |-> m[k + i]]
<1>1. k \in Nat /\ Len(m) \in Nat /\ DOMAIN m = 1..Len(m) /\ k < Len(m)
  BY ConstantsAreTyped, LenProperties
<1>2. Slice(m, b, o) = slice
  BY DEF Slice
<1>3. \A i, j \in DOMAIN m : m[i] = m[j] => i = j
  BY IdentitiesDiffer
<1>4. \A i \in DOMAIN m : m[i] \in Notice
  BY IdentitiesDiffer
<1>. HIDE DEF k, m
<1>5. n \in Nat /\ \A i \in 1..n : k + i \in 1..Len(m)
  BY <1>1
<1>6. slice \in Seq(Notice) /\ Len(slice) = n
  <2>1. \A i \in 1..n : m[k + i] \in Notice
    BY <1>1, <1>4, <1>5
  <2>. HIDE DEF n
  <2>. QED  BY <1>5, <2>1, IsASeq, LenProperties
<1>7. slice \in Injection(1..n, NoticesIn(slice))
  <2>1. \A i, j \in 1..n : m[k + i] = m[k + j] => i = j
    BY <1>1, <1>3, <1>5
  <2>. HIDE DEF n
  <2>2. \A i, j \in 1..n : slice[i] = slice[j] => i = j
    BY <2>1
  <2>3. slice \in [1..n -> NoticesIn(slice)]
    BY DEF NoticesIn
  <2>. HIDE DEF slice
  <2>. QED  BY <2>2, <2>3 DEF Injection, IsInjective
<1>. HIDE DEF n
<1>8. slice \in Surjection(1..n, NoticesIn(slice))
  BY DEF Surjection, NoticesIn
<1>9. IsFiniteSet(1..n) /\ Cardinality(1..n) = n
  <2>1. n \in Nat /\ n \in Int /\ 1 \in Int
    BY <1>5
  <2>2. IsFiniteSet(1..n) /\ Cardinality(1..n) = IF 1 > n THEN 0 ELSE n - 1 + 1
    BY <2>1, FS_Interval
  <2>. QED  BY <2>1, <2>2
<1>. HIDE DEF slice
<1>10. Cardinality(NoticesIn(slice)) = n
  BY <1>7, <1>8, <1>9, FS_Surjection
<1>11. Unreadable \notin NoticesIn(slice)
  BY <1>6, NoticesFinite, ConstantsAreDisjoint
<1>. QED  BY <1>2, <1>6, <1>10, <1>11 DEF m

\* A total is over finitely many occurrences.
LEMMA TotalIsFinite ==
    ASSUME NEW D, IsFiniteSet(D), NEW f \in [D -> Nat]
    PROVE  IsFiniteSet(UNION {{x} \X (1..f[x]) : x \in D})
<1>. DEFINE Of == [x \in D |-> {x} \X (1..f[x])]
            Parts == {{x} \X (1..f[x]) : x \in D}
<1>1. Of \in Surjection(D, Parts)
  BY DEF Surjection
<1>2. IsFiniteSet(Parts)
  BY <1>1, FS_Surjection
<1>3. ASSUME NEW x \in D PROVE IsFiniteSet({x} \X (1..f[x]))
  <2>1. IsFiniteSet({x})
    BY FS_Singleton
  <2>2. f[x] \in Int
    OBVIOUS
  <2>3. IsFiniteSet(1..f[x])
    BY <2>2, FS_Interval
  <2>. QED  BY <2>1, <2>3, FS_Product
<1>4. \A T \in Parts : IsFiniteSet(T)
  BY <1>3
<1>. HIDE DEF Parts
<1>5. IsFiniteSet(UNION Parts)
  BY <1>2, <1>4, FS_UNION
<1>. QED  BY <1>5 DEF Parts

\* Renaming what is counted changes no total.
LEMMA SameTotal ==
    ASSUME NEW D, NEW E, IsFiniteSet(D), NEW g \in Bijection(D, E),
           NEW f \in [D -> Nat], NEW h \in [E -> Nat], \A x \in D : f[x] = h[g[x]]
    PROVE  Total(f) = Total(h)
<1>. DEFINE A == UNION {{x} \X (1..f[x]) : x \in D}
            B == UNION {{y} \X (1..h[y]) : y \in E}
            Move == [u \in A |-> <<g[u[1]], u[2]>>]
<1>0. /\ DOMAIN f = D /\ DOMAIN h = E /\ g \in [D -> E]
      /\ \A x, y \in D : g[x] = g[y] => x = y
      /\ \A y \in E : \E x \in D : g[x] = y
  BY DEF Bijection, Injection, Surjection, IsInjective
<1>1. \A u : u \in A <=> \E x \in D, k \in Nat : k \in 1..f[x] /\ u = <<x, k>>
  OBVIOUS
<1>2. \A u : u \in B <=> \E y \in E, k \in Nat : k \in 1..h[y] /\ u = <<y, k>>
  OBVIOUS
<1>3. IsFiniteSet(A)
  BY TotalIsFinite
<1>. HIDE DEF A, B
<1>4. ASSUME NEW u \in A PROVE Move[u] \in B
  <2>1. PICK x \in D, k \in Nat : k \in 1..f[x] /\ u = <<x, k>>
    BY <1>1
  <2>2. Move[u] = <<g[x], k>> /\ g[x] \in E /\ k \in 1..h[g[x]]
    BY <1>0, <2>1
  <2>. QED  BY <1>2, <2>2
<1>5. ASSUME NEW u \in A, NEW v \in A, Move[u] = Move[v] PROVE u = v
  <2>1. PICK x \in D, k \in Nat : k \in 1..f[x] /\ u = <<x, k>>
    BY <1>1
  <2>2. PICK y \in D, l \in Nat : l \in 1..f[y] /\ v = <<y, l>>
    BY <1>1
  <2>3. <<g[x], k>> = <<g[y], l>>
    BY <1>5, <2>1, <2>2
  <2>. QED  BY <1>0, <2>1, <2>2, <2>3
<1>6. ASSUME NEW v \in B PROVE \E u \in A : Move[u] = v
  <2>1. PICK y \in E, k \in Nat : k \in 1..h[y] /\ v = <<y, k>>
    BY <1>2
  <2>2. PICK x \in D : g[x] = y
    BY <1>0
  <2>3. k \in 1..f[x]
    BY <2>1, <2>2
  <2>4. <<x, k>> \in A
    BY <1>1, <2>3
  <2>5. Move[<<x, k>>] = v
    BY <2>1, <2>2, <2>4
  <2>. QED  BY <2>4, <2>5
<1>7. Move \in [A -> B]
  BY <1>4
<1>. HIDE DEF Move
<1>8. Move \in Bijection(A, B)
  BY <1>5, <1>6, <1>7 DEF Bijection, Injection, Surjection, IsInjective
<1>9. Cardinality(A) = Cardinality(B)
  BY <1>3, <1>8, FS_Bijection DEF ExistsBijection
<1>. QED  BY <1>0, <1>9 DEF Total, A, B

\* The rows an uninterrupted load leaves are as many as the members, and have as many
\* change references.
LEMMA CleanRunCounts ==
    ASSUME StoreInv, NEW c \in DOMAIN captures, NEW a \in Archive, WellFormed(a)
    PROVE  /\ Cardinality(CleanRun(c, a)) = Len(Members[a])
           /\ ReferencesOfRows(CleanRun(c, a)) = ReferencesOfArchive(a)
<1>. DEFINE m == Members[a]
            D == DOMAIN m
            E == CleanRun(c, a)
            g == [i \in D |-> [capture |-> c, notice |-> m[i], from |-> a,
                               batch |-> (i - 1) \div captures[c].batch]]
            f == [i \in D |-> References[a][m[i]]]
            h == [r \in E |-> References[r.from][r.notice]]
<1>1. IsFiniteSet(D) /\ Cardinality(D) = Len(m)
  BY IdentitiesDiffer
<1>2. \A i, j \in D : m[i] = m[j] => i = j
  BY IdentitiesDiffer
<1>3. \A i \in D : m[i] \in Notice
  BY IdentitiesDiffer
<1>4. E = {g[i] : i \in D}
  BY DEF CleanRun
<1>5. \A i \in D : g[i].notice = m[i] /\ g[i].from = a
  OBVIOUS
<1>6. \A i \in D : References[a][m[i]] \in Nat
  BY <1>3, ConstantsAreTyped
<1>7. DOMAIN g = D /\ g = [i \in D |-> g[i]]
  OBVIOUS
<1>. HIDE DEF g, m, E
<1>8. g \in Bijection(D, E)
  <2>1. g \in [D -> E]
    BY <1>4, <1>7
  <2>2. \A i, j \in D : g[i] = g[j] => i = j
    BY <1>2, <1>5
  <2>3. \A r \in E : \E i \in D : g[i] = r
    BY <1>4
  <2>. QED  BY <2>1, <2>2, <2>3 DEF Bijection, Injection, Surjection, IsInjective
<1>9. Cardinality(E) = Cardinality(D)
  BY <1>1, <1>8, FS_Bijection DEF ExistsBijection
<1>10. f \in [D -> Nat]
  BY <1>6
<1>11. h \in [E -> Nat]
  BY <1>4, <1>5, <1>6
<1>12. \A i \in D : f[i] = h[g[i]]
  BY <1>4, <1>5
<1>. HIDE DEF D, f, h
<1>13. Total(f) = Total(h)
  BY <1>1, <1>8, <1>10, <1>11, <1>12, SameTotal
<1>. QED  BY <1>1, <1>9, <1>13 DEF ReferencesOfRows, ReferencesOfArchive, f, h, D, E, m

-----------------------------------------------------------------------------
(* What condemns a capture *)

\* What a session knows of its capture's batches, and why it gives the capture up, is not
\* changed by what other sessions do.
LEMMA KnownToOthers ==
    ASSUME StoreInv, KnownInv, NEW s \in Session, NEW t \in Session \ {s},
           Start(s) \/ Advance(s) \/ DbError(s) \/ Crash(s) \/ Reap(s)
    PROVE  KnowsItsBatches(t)' /\ FailIsADefect(t)'
<1>1. /\ pc'[t] = pc[t] /\ cap'[t] = cap[t] /\ done'[t] = done[t] /\ next'[t] = next[t]
      /\ resumed'[t] = resumed[t]
  BY OthersWork
<1>2. KnowsItsBatches(t) /\ FailIsADefect(t)
  BY DEF KnownInv
<1>3. CASE pc[t] \notin Working
  BY <1>1, <1>3 DEF Working, KnowsItsBatches, FailIsADefect
<1>4. CASE pc[t] \in Working /\ Inside(s)
  <2>1. pc[s] \in Holding
    BY <1>4, InsideStays DEF StaysInside
  <2>2. cap[t] \in DOMAIN captures /\ captures[cap[t]].pkg # job[s].pkg
    BY <1>4, <2>1, OthersCapture
  <2>3. captures'[cap[t]] = captures[cap[t]]
    BY <1>4, <2>2, InsideTouches DEF OnlyTouches
  <2>4. \A x \in batches' : x \in batches \/ x[1] # cap[t]
    <3>1. CASE batches' = batches
      BY <3>1
    <3>2. CASE LoadBatch(s)
      <4>1. captures[cap[s]].pkg = job[s].pkg
        BY <3>2, WorkCapture DEF LoadBatch, Streaming, Working
      <4>2. batches' = batches \cup {<<cap[s], next[s]>>}
        BY <3>2 DEF LoadBatch
      <4>. QED  BY <2>2, <4>1, <4>2
    <3>3. batches' = batches \/ LoadBatch(s)
      BY <1>4 DEF Inside, DecideResume, DecideReplay, DecideNew, Prepare, ReadFails, SkipBatch,
         LoadDuplicate, Recheck, Reconcile, Publish, Fail, DbError, tables
    <3>. QED  BY <3>1, <3>2, <3>3
  <2>5. KnowsItsBatches(t)'
    BY <1>1, <1>2, <2>4 DEF KnowsItsBatches
  <2>6. FailIsADefect(t)'
    BY <1>1, <1>2, <2>3 DEF FailIsADefect, WellFormed
  <2>. QED  BY <2>5, <2>6
<1>5. CASE pc[t] \in Working /\ ~Inside(s)
  <2>1. UNCHANGED <<captures, batches>>
    BY <1>5 DEF Inside, Start, StartLoad, Advance, Acquire, RefuseBusy, Finish, Crash, Reap, tables
  <2>. QED  BY <1>1, <1>2, <2>1 DEF KnowsItsBatches, FailIsADefect, WellFormed
<1>. QED  BY <1>3, <1>4, <1>5

\* A session that neither reads on nor gives its capture up.
LEMMA NothingToKnow ==
    ASSUME NEW s \in Session, pc'[s] \notin {"prepare", "stream", "fail"}
    PROVE  KnowsItsBatches(s)' /\ FailIsADefect(s)'
BY DEF KnowsItsBatches, FailIsADefect

\* What a session that streams has before it while no file was replaced: the bytes its
\* capture is of.
LEMMA StreamIsArtifact ==
    ASSUME StoreInv, RInv({}), NEW s \in Session, pc[s] = "stream"
    PROVE  /\ cap[s] \in DOMAIN captures /\ job[s].sha \in Archive
           /\ captures[cap[s]].sha = job[s].sha /\ stream[s] = job[s].sha
           /\ file[job[s].pkg] = job[s].sha
           /\ captures[cap[s]].batch \in Nat \ {0} /\ next[s] \in Nat
<1>1. cap[s] \in DOMAIN captures /\ job[s] \in Job
  BY WorkCapture DEF Working
<1>2. captures[cap[s]].batch \in Nat /\ next[s] \in Nat
  BY <1>1, CaptureRow DEF StoreInv, TypeOK
<1>3. captures[cap[s]].sha = job[s].sha /\ captures[cap[s]].batch # 0
  BY DEF RInv, ReadIsFounded
<1>4. stream[s] = job[s].sha /\ file[job[s].pkg] = job[s].sha
  BY DEF RInv, FileMovesOn, Follows
<1>. QED  BY <1>1, <1>2, <1>3, <1>4 DEF Job

\* A batch that is not on record yet repeats no key, unless the archive repeats an identity.
LEMMA FirstInsert ==
    ASSUME StoreInv, RInv({}), KnownInv, NEW s \in Session, Streaming(s), next[s] \notin done[s],
           WellFormed(captures[cap[s]].sha)
    PROVE  ~ViolatesKey(s)
<1>. DEFINE c == cap[s]
            a == captures[c].sha
            b == captures[c].batch
            o == next[s]
            m == Members[a]
<1>1. /\ c \in DOMAIN captures /\ a \in Archive /\ stream[s] = a /\ b \in Nat \ {0} /\ o \in Nat
      /\ pc[s] = "stream"
  BY StreamIsArtifact DEF Streaming
<1>2. o * b < Len(m) /\ CurrentSlice(s) = Slice(m, b, o)
  BY <1>1 DEF Streaming, MoreToRead, CurrentSlice, BatchSize
<1>3. <<c, o>> \notin batches
  BY <1>1 DEF KnownInv, KnowsItsBatches
<1>4. Cardinality(NoticesIn(Slice(m, b, o))) = Len(Slice(m, b, o))
  BY <1>1, <1>2, SliceIsWellFormed
<1>5. ASSUME NEW r \in RowsOf(c), r.notice \in NoticesIn(Slice(m, b, o)) PROVE FALSE
  <2>1. r.from = a
    BY DEF RInv, RowsOfLaterFiles, RowsOf, Follows
  <2>2. PICK i \in DOMAIN m : r.notice = m[i] /\ r.batch = (i - 1) \div b
    BY <2>1 DEF RInv, RowShape, RowsOf
  <2>3. PICK j \in DOMAIN Slice(m, b, o) : r.notice = Slice(m, b, o)[j]
    BY <1>5 DEF NoticesIn
  <2>4. PICK k \in DOMAIN m : Slice(m, b, o)[j] = m[k] /\ (k - 1) \div b = o
    <3>1. m \in Seq(Notice \cup {Unreadable}) /\ b \in Nat \ {0} /\ o \in Nat
      BY <1>1, ConstantsAreTyped
    <3>. HIDE DEF m, b, o
    <3>. QED  BY <2>3, <3>1, SliceMembers
  <2>5. i = k
    BY <1>1, <2>2, <2>3, <2>4, IdentitiesDiffer
  <2>6. r.batch = o
    BY <2>2, <2>4, <2>5
  <2>. QED  BY <1>3, <2>6 DEF KnownInv, RowsAreOfBatches, RowsOf
<1>6. Len(Slice(m, b, o)) \in Nat
  BY <1>1, <1>2, SliceType, ConstantsAreTyped, LenProperties
<1>. HIDE DEF o, b, m
<1>. QED  BY <1>2, <1>3, <1>4, <1>5, <1>6 DEF ViolatesKey, o

\* A load reads on, or gives up on its capture, for what the archive holds and nothing else.
LEMMA OwnKnown ==
    ASSUME StoreInv, RInv({}), KnownInv, NEW s \in Session,
           Start(s) \/ Advance(s) \/ DbError(s) \/ Crash(s) \/ Reap(s)
    PROVE  KnowsItsBatches(s)' /\ FailIsADefect(s)'
<1>0. KnowsItsBatches(s)
  BY DEF KnownInv
<1>1. CASE Start(s) \/ Acquire(s) \/ RefuseBusy(s) \/ DecideReplay(s)
  <2>1. pc'[s] \in {"begin", "decide", "idle", "return"}
    BY <1>1 DEF Start, StartLoad, Acquire, RefuseBusy, DecideReplay, Goto, StoreInv, TypeOK
  <2>. QED  BY <2>1, NothingToKnow
<1>2. CASE DecideResume(s)
  <2>1. resumed'[s] /\ pc'[s] \in {"publish", "raise", "prepare"}
    BY <1>2 DEF DecideResume, Goto, EntryPoint, StoreInv, TypeOK
  <2>. QED  BY <2>1 DEF KnowsItsBatches, FailIsADefect
<1>3. CASE DecideNew(s) /\ Len(captures) < MaxCaptures
  <2>. DEFINE c == Len(captures) + 1
  <2>1. pc'[s] = "prepare" /\ batches' = batches /\ cap'[s] = c /\ c \notin DOMAIN captures
    BY <1>3, NewCaptureTable DEF DecideNew, Goto, StoreInv, TypeOK
  <2>2. \A x \in batches : x[1] \in DOMAIN captures
    BY DEF RInv, BatchShape, BatchHolds
  <2>. HIDE DEF c
  <2>. QED  BY <2>1, <2>2 DEF KnowsItsBatches, FailIsADefect
<1>4. CASE DecideNew(s) /\ ~(Len(captures) < MaxCaptures)
  <2>1. pc'[s] = "raise"
    BY <1>4 DEF DecideNew, Goto, StoreInv, TypeOK
  <2>. QED  BY <2>1, NothingToKnow
<1>5. CASE Prepare(s)
  <2>1. /\ pc[s] = "prepare" /\ batches' = batches /\ cap'[s] = cap[s] /\ next'[s] = next[s]
        /\ pc'[s] = IF file[job[s].pkg] = None THEN "fail" ELSE "stream"
    BY <1>5 DEF Prepare, Goto, StoreInv, TypeOK
  <2>2. file[job[s].pkg] # None
    <3>1. job[s] \in Job /\ job[s].sha = file[job[s].pkg]
      BY <2>1 DEF RInv, FileMovesOn, Follows, Holding, StoreInv, SessionShape
    <3>. QED  BY <3>1, ConstantsAreDisjoint DEF Job
  <2>3. \A x \in batches : x[1] = cap[s] => x[2] \in done'[s]
    <3>1. CASE resumed[s]
      <4>1. done'[s] = {b[2] : b \in {x \in batches : x[1] = cap[s]}}
        BY <1>5, <3>1 DEF Prepare, StoreInv, TypeOK
      <4>. QED  BY <4>1
    <3>2. CASE ~resumed[s]
      BY <1>0, <2>1, <3>2 DEF KnowsItsBatches
    <3>. QED  BY <3>1, <3>2
  <2>. QED  BY <2>1, <2>2, <2>3 DEF KnowsItsBatches, FailIsADefect
<1>6. CASE ReadFails(s)
  <2>1. /\ pc[s] = "stream" /\ pc'[s] = "fail" /\ UNCHANGED <<captures, cap>> /\ ~Readable(s)
        /\ MoreToRead(s)
    BY <1>6 DEF ReadFails, Streaming, Goto, StoreInv, TypeOK, tables, work
  <2>2. ~WellFormed(captures[cap[s]].sha)
    BY <2>1, StreamIsArtifact, SliceIsWellFormed DEF Readable, CurrentSlice, MoreToRead, BatchSize
  <2>. QED  BY <2>1, <2>2 DEF KnowsItsBatches, FailIsADefect, WellFormed
<1>7. CASE SkipBatch(s)
  <2>1. /\ pc[s] = "stream" /\ UNCHANGED <<batches, cap, pc, done>>
        /\ next'[s] = next[s] + 1 /\ next[s] \in Nat
    BY <1>7 DEF SkipBatch, Streaming, StoreInv, TypeOK, tables
  <2>2. \A x \in batches : x[2] \in Nat
    BY DEF StoreInv, TypeOK
  <2>3. \A n \in Nat : n >= next[s] + 1 => n >= next[s]
    BY <2>1
  <2>. QED  BY <1>0, <2>1, <2>2, <2>3 DEF KnowsItsBatches, FailIsADefect
<1>8. CASE LoadBatch(s)
  <2>1. /\ pc[s] = "stream" /\ UNCHANGED <<cap, pc, done>>
        /\ next'[s] = next[s] + 1 /\ next[s] \in Nat
        /\ batches' = batches \cup {<<cap[s], next[s]>>}
    BY <1>8 DEF LoadBatch, Streaming, StoreInv, TypeOK
  <2>2. \A x \in batches : x[2] \in Nat
    BY DEF StoreInv, TypeOK
  <2>3. ~(next[s] >= next[s] + 1) /\ \A n \in Nat : n >= next[s] + 1 => n >= next[s]
    BY <2>1
  <2>4. ASSUME NEW x \in batches', x[1] = cap[s], x[2] >= next'[s] PROVE x[2] \in done'[s]
    BY <1>0, <2>1, <2>2, <2>3, <2>4 DEF KnowsItsBatches
  <2>. QED  BY <2>1, <2>4 DEF KnowsItsBatches, FailIsADefect
<1>9. CASE LoadDuplicate(s)
  <2>1. /\ Streaming(s) /\ next[s] \notin done[s] /\ ViolatesKey(s) /\ pc'[s] = "fail"
        /\ UNCHANGED <<captures, cap>>
    BY <1>9 DEF LoadDuplicate, Goto, StoreInv, TypeOK, tables, work
  <2>2. ~WellFormed(captures[cap[s]].sha)
    BY <2>1, FirstInsert
  <2>. QED  BY <2>1, <2>2 DEF KnowsItsBatches, FailIsADefect, WellFormed
<1>10. CASE Recheck(s)
  <2>1. pc[s] = "stream"
    BY <1>10 DEF Recheck
  <2>2. pc'[s] = "reconcile"
    BY <1>10, <2>1, StreamIsArtifact DEF Recheck, Goto, StoreInv, TypeOK
  <2>. QED  BY <2>2, NothingToKnow
<1>11. CASE Reconcile(s)
  <2>. DEFINE c == cap[s]
              a == captures[c].sha
              m == Members[a]
              ok == /\ Cardinality(RowsOf(c)) = Cardinality(NoticesIn(m))
                    /\ Cardinality(NoticesIn(m)) = Len(m)
                    /\ ReferencesOfRows(RowsOf(c)) = ReferencesOfArchive(a)
  <2>1. pc[s] = "reconcile"
    BY <1>11 DEF Reconcile
  <2>2. /\ c \in DOMAIN captures /\ a \in Archive /\ stream[s] = a /\ RowsOf(c) = CleanRun(c, a)
    BY <2>1, WorkCapture, CaptureRow DEF Working, RInv, ReadIsFounded
  <2>3. WellFormed(a) => ok
    BY <2>2, CleanRunCounts DEF WellFormed
  <2>4. Goto(s, IF ok THEN "publish" ELSE "fail")
    BY <1>11, <2>2 DEF Reconcile
  <2>5. cap' = cap /\ captures'[c].sha = a
    <3>1. PICK n, st : captures' = [captures EXCEPT ![c].counts = n, ![c].status = st]
      BY <1>11 DEF Reconcile
    <3>2. captures[c] \in Capture
      BY <2>2, CaptureRow
    <3>. QED  BY <1>11, <2>2, <3>1, <3>2 DEF Reconcile, work, Capture
  <2>. HIDE DEF ok, a
  <2>6. pc'[s] = IF ok THEN "publish" ELSE "fail"
    BY <2>4 DEF Goto, StoreInv, TypeOK
  <2>. QED  BY <2>3, <2>5, <2>6 DEF KnowsItsBatches, FailIsADefect, WellFormed
<1>12. CASE Publish(s) \/ Fail(s) \/ Finish(s)
  <2>1. pc'[s] \in {"return", "idle"}
    BY <1>12 DEF Publish, Fail, Finish, Goto, StoreInv, TypeOK
  <2>. QED  BY <2>1, NothingToKnow
<1>13. CASE DbError(s) \/ Crash(s) \/ Reap(s)
  <2>1. pc'[s] \in {"return", "raise", "dead", "idle"}
    BY <1>13 DEF DbError, Crash, Reap, Goto, StoreInv, TypeOK
  <2>. QED  BY <2>1, NothingToKnow
<1>. QED  BY <1>1, <1>2, <1>3, <1>4, <1>5, <1>6, <1>7, <1>8, <1>9, <1>10, <1>11, <1>12, <1>13
          DEF Advance

\* Every row a load stores goes with the record of its batch.
LEMMA RowsStayOfBatches ==
    ASSUME StoreInv, RowsAreOfBatches, Next
    PROVE  RowsAreOfBatches'
<1>1. CASE UNCHANGED tables
  BY <1>1 DEF tables, RowsAreOfBatches
<1>2. ASSUME NEW s \in Session, WritesTables(s) PROVE RowsAreOfBatches'
  <2>1. CASE Prepare(s)
    <3>1. rows' \subseteq rows /\ batches' = batches
      BY <2>1 DEF Prepare
    <3>. QED  BY <3>1 DEF RowsAreOfBatches
  <2>2. CASE LoadBatch(s)
    <3>1. /\ rows' = rows \cup BatchRows(cap[s], next[s], stream[s], CurrentSlice(s))
          /\ batches' = batches \cup {<<cap[s], next[s]>>}
      BY <2>2 DEF LoadBatch
    <3>2. \A r \in BatchRows(cap[s], next[s], stream[s], CurrentSlice(s)) :
              r.capture = cap[s] /\ r.batch = next[s]
      BY DEF BatchRows
    <3>. QED  BY <3>1, <3>2 DEF RowsAreOfBatches
  <2>3. CASE DecideNew(s) \/ Reconcile(s) \/ Publish(s) \/ Fail(s)
    <3>1. UNCHANGED <<rows, batches>>
      BY <2>3 DEF DecideNew, Reconcile, Publish, Fail
    <3>. QED  BY <3>1 DEF RowsAreOfBatches
  <2>. QED  BY <1>2, <2>1, <2>2, <2>3 DEF WritesTables
<1>. QED  BY <1>1, <1>2, TableWriters

\* The replacements are counted.
LEMMA SwapsAreCounted ==
    ASSUME StoreInv, Next
    PROVE  /\ \A p \in Package : SwapFile(p) => swaps' # 0
           /\ \A s \in Session : Start(s) \/ Advance(s) \/ DbError(s) \/ Crash(s) \/ Reap(s)
                  => swaps' = swaps
<1>1. \A p \in Package : SwapFile(p) => swaps' # 0
  BY DEF SwapFile, StoreInv, TypeOK
<1>2. \A s \in Session : Start(s) \/ DbError(s) \/ Crash(s) \/ Reap(s) => swaps' = swaps
  BY DEF Start, StartLoad, DbError, Crash, Reap, budgets
<1>3. \A s \in Session : Advance(s) => swaps' = swaps
  <2>. SUFFICES ASSUME NEW s \in Session, Advance(s) PROVE swaps' = swaps
    OBVIOUS
  <2>1. CASE Acquire(s) \/ RefuseBusy(s) \/ Finish(s)
    BY <2>1 DEF Acquire, RefuseBusy, Finish, budgets
  <2>2. CASE DecideResume(s) \/ DecideReplay(s) \/ DecideNew(s) \/ Prepare(s)
    BY <2>2 DEF DecideResume, DecideReplay, DecideNew, Prepare, budgets
  <2>3. CASE ReadFails(s) \/ SkipBatch(s) \/ LoadBatch(s) \/ LoadDuplicate(s)
    BY <2>3 DEF ReadFails, SkipBatch, LoadBatch, LoadDuplicate, budgets
  <2>4. CASE Recheck(s) \/ Reconcile(s) \/ Publish(s) \/ Fail(s)
    BY <2>4 DEF Recheck, Reconcile, Publish, Fail, budgets
  <2>. QED  BY <2>1, <2>2, <2>3, <2>4 DEF Advance
<1>. QED  BY <1>1, <1>2, <1>3

\* Until a file is replaced, every step keeps what is known of the batches and why a load
\* gives up.
LEMMA StepUndisturbed ==
    ASSUME StoreInv, UndisturbedInv, [Next]_vars
    PROVE  UndisturbedInv'
<1>1. CASE UNCHANGED vars
  <2>1. UNCHANGED <<captures, batches, rows, pointer, file, pc, job, cap, resumed, done, stream,
                    next, swaps>>
    BY <1>1 DEF vars, tables, work, budgets
  <2>2. RInv({}) => RInv({})'
    BY <2>1 DEF RInv, FileMovesOn, ReadIsFounded, RowsOfLaterFiles, RowShape, BatchShape,
                BatchHolds, LoadedShape, RowsOf, CleanRun, Follows
  <2>3. KnownInv => KnownInv'
    BY <2>1 DEF KnownInv, RowsAreOfBatches, KnowsItsBatches, FailIsADefect, WellFormed
  <2>. QED  BY <2>1, <2>2, <2>3 DEF UndisturbedInv
<1>2. CASE Next /\ swaps' = 0
  <2>1. PICK s \in Session : Start(s) \/ Advance(s) \/ DbError(s) \/ Crash(s) \/ Reap(s)
    BY <1>2, SwapsAreCounted DEF Next
  <2>2. RInv({}) /\ KnownInv
    BY <1>2, <2>1, SwapsAreCounted DEF UndisturbedInv
  <2>3. RInv({})'
    <3>1. Ordered({})
      BY DEF Ordered
    <3>. QED  BY <2>1, <2>2, <3>1, SessionRead
  <2>4. \A t \in Session : KnowsItsBatches(t)' /\ FailIsADefect(t)'
    BY <2>1, <2>2, KnownToOthers, OwnKnown
  <2>5. RowsAreOfBatches'
    BY <1>2, <2>2, RowsStayOfBatches DEF KnownInv
  <2>. QED  BY <2>3, <2>4, <2>5 DEF UndisturbedInv, KnownInv
<1>3. CASE swaps' # 0
  BY <1>3 DEF UndisturbedInv
<1>. QED  BY <1>1, <1>2, <1>3

\* Only fail_capture condemns, and only the capture of the load that gives up.
LEMMA Condemnation ==
    ASSUME StoreInv, Next, NEW c \in DOMAIN captures,
           captures[c].status # "failed", captures'[c].status = "failed"
    PROVE  \E s \in Session : pc[s] = "fail" /\ cap[s] = c
<1>0. \A d \in DOMAIN captures : captures[d] \in Capture
  BY CaptureRow
<1>1. PICK s \in Session : WritesTables(s)
  BY TableWriters DEF tables
<1>2. CASE DecideNew(s) /\ Len(captures) < MaxCaptures
  BY <1>2, NewCaptureTable
<1>3. CASE Prepare(s)
  BY <1>3 DEF Prepare
<1>4. CASE LoadBatch(s) \/ Reconcile(s)
  BY <1>4, OpenStepTable DEF KeepsOpen, OpenStatus
<1>5. CASE Fail(s)
  BY <1>5, FailTable DEF Fail
<1>6. CASE Publish(s) /\ ReadyToPublish(cap[s])
  BY <1>0, <1>6 DEF Publish, Capture
<1>. QED  BY <1>1, <1>2, <1>3, <1>4, <1>5, <1>6 DEF WritesTables

\* No crash, cancelled statement, concurrent load or resume with another batch size
\* condemns a capture of an archive whose members can be read and differ.
THEOREM DefectsCondemn == Spec => OnlyDefectsCondemn
<1>. DEFINE Deserved == \A c \in DOMAIN captures :
                (captures[c].status # "failed" /\ captures'[c].status = "failed")
                    => ~WellFormed(captures[c].sha) \/ swaps > 0
<1>1. Init => StoreInv /\ UndisturbedInv
  <2>. SUFFICES ASSUME Init PROVE StoreInv /\ UndisturbedInv
    OBVIOUS
  <2>1. StoreInv /\ RInv({})
    BY InitIInv, InitRead DEF IInv
  <2>2. KnownInv
    BY DEF Init, KnownInv, RowsAreOfBatches, KnowsItsBatches, FailIsADefect
  <2>. QED  BY <2>1, <2>2 DEF UndisturbedInv
<1>2. StoreInv /\ UndisturbedInv /\ [Next]_vars => UndisturbedInv'
  BY StepUndisturbed
<1>3. ASSUME StoreInv, UndisturbedInv, [Next]_vars PROVE [Deserved]_vars
  <2>. SUFFICES ASSUME Next, swaps = 0, NEW c \in DOMAIN captures,
                       captures[c].status # "failed", captures'[c].status = "failed"
                PROVE  ~WellFormed(captures[c].sha)
    BY <1>3 DEF StoreInv, TypeOK
  <2>1. PICK s \in Session : pc[s] = "fail" /\ cap[s] = c
    BY <1>3, Condemnation
  <2>. QED  BY <1>3, <2>1 DEF UndisturbedInv, KnownInv, FailIsADefect
<1>4. IInv => StoreInv
  BY DEF IInv
<1>. QED  BY <1>1, <1>2, <1>3, <1>4, Invariance, PTL DEF Spec, OnlyDefectsCondemn

=============================================================================
