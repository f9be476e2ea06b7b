------------------------------ MODULE PackageProofs ------------------------------
(***************************************************************************)
(* What the contract of a package guarantees to those who rely on it, and  *)
(* that the walk over an archive decides, for any archive and any limits,  *)
(* what its readers need to know of it.                                    *)
(***************************************************************************)
EXTENDS Archive, PackageContract, FiniteSetTheorems, SequenceTheorems, NaturalsInduction,
        WellFoundedInduction, TLAPS

-----------------------------------------------------------------------------
(* Identities and policies *)

\* A policy as the constructor takes it.
IsPolicy(p) ==
    /\ p.notices \in Nat /\ p.api_page_size \in Nat /\ p.api_max_pages \in Nat
    /\ {"notices", "api_page_size", "api_max_pages"} \subseteq DOMAIN p \ {"container_count"}

\* The least number of pages that hold n records.
IsPages(k, n, size) == k \in Nat /\ k * size >= n /\ (k > 0 => (k - 1) * size < n)

\* Fewer pages hold no more.
LEMMA PagesAreMonotone ==
    ASSUME NEW a \in Int, NEW b \in Int, NEW size \in Nat, a <= b
    PROVE  a * size <= b * size
<1>1. (b - a) * size >= 0
  OBVIOUS
<1>2. (b - a) * size = b * size - a * size
  OBVIOUS
<1>3. a * size \in Int /\ b * size \in Int
  OBVIOUS
<1> QED
  BY <1>1, <1>2, <1>3

\* A package within the notice limit of a policy that its constructor accepted can be
\* walked to the terminal page within the page limit: the walk of a package that loads
\* never stops for want of pages (package_contract.py, the check on api_max_pages).
THEOREM LoadableIsVerifiable ==
    ASSUME NEW p, IsPolicy(p), SoundPolicy(p),
           NEW n \in 0..p.notices, NEW k, IsPages(k, n, p.api_page_size)
    PROVE  k + 1 <= p.api_max_pages
<1> DEFINE size == p.api_page_size
           most == p.api_max_pages
<1>1. size \in Nat /\ most \in Nat /\ p.notices \in Nat /\ k \in Nat
  BY DEF IsPolicy, IsPages
<1>2. size > 0 /\ most > 0
  BY DEF IsPolicy, SoundPolicy
<1>3. most * size >= p.notices + size
  BY DEF SoundPolicy
<1>4. (most - 1) * size >= n
  <2>1. (most - 1) * size = most * size - size
    BY <1>1
  <2> QED
    BY <1>1, <1>3, <2>1
<1>5. SUFFICES ASSUME k >= most PROVE FALSE
  BY <1>1
<1>6. (most - 1) * size <= (k - 1) * size
  <2> HIDE DEF size, most
  <2> QED
    BY <1>1, <1>5, PagesAreMonotone
<1>7. (k - 1) * size < n
  BY <1>1, <1>2, <1>5 DEF IsPages
<1> QED
  BY <1>1, <1>4, <1>6, <1>7

\* A supported month.
LEMMA MonthlyType ==
    ASSUME NEW id, Supported(id), id.kind = "monthly"
    PROVE  id.year \in 1990..2099 /\ id.number \in 1..12
<1>1. id.kind # "daily"
  OBVIOUS
<1>2. id.number \in 1..12
  <2>1. Canonical(id)
    BY DEF Supported
  <2> QED
    BY <1>1, <2>1 DEF Canonical
<1> QED
  BY <1>2, SMTT(20) DEF Supported

\* The days of a month lie within the numbers of that month.
LEMMA DaysOfItsMonth ==
    ASSUME NEW id, Supported(id), id.kind = "monthly", NEW d \in publication_interval(id)
    PROVE  /\ d \in Int
           /\ d >= (id.year * 100 + id.number) * 100
           /\ d <= (id.year * 100 + id.number) * 100 + 31
<1>1. id.year \in Int /\ id.number \in Int
  BY MonthlyType
<1> DEFINE last == LastDay(id.year, id.number)
<1>2. last \in {28, 29, 30, 31}
  BY DEF LastDay
<1>3. d \in (id.year * 100 + id.number) * 100 + 1 .. (id.year * 100 + id.number) * 100 + last
  BY DEF publication_interval, Day
<1> HIDE DEF last
<1> QED
  BY <1>1, <1>2, <1>3

\* Numbers of days tell their month.
LEMMA MonthOfDay ==
    ASSUME NEW y \in Int, NEW z \in Int, NEW m \in 1..12, NEW n \in 1..12, NEW d \in Int,
           d >= (y * 100 + m) * 100, d <= (y * 100 + m) * 100 + 31,
           d >= (z * 100 + n) * 100, d <= (z * 100 + n) * 100 + 31
    PROVE  y = z /\ m = n
  OBVIOUS

\* A publication date belongs to the packages of one month only: the days that two
\* monthly identities ask the source for do not meet (package_contract.py,
\* _monthly_identity).
THEOREM MonthsAreDisjoint ==
    ASSUME NEW i, NEW j, Supported(i), Supported(j), i.kind = "monthly", j.kind = "monthly",
           publication_interval(i) \cap publication_interval(j) # {}
    PROVE  i.year = j.year /\ i.number = j.number
<1>1. PICK d : d \in publication_interval(i) /\ d \in publication_interval(j)
  OBVIOUS
<1> DEFINE y == i.year  m == i.number  z == j.year  n == j.number
<1>2. y \in Int /\ m \in 1..12 /\ z \in Int /\ n \in 1..12
  BY MonthlyType
<1>3. d \in Int /\ d >= (y * 100 + m) * 100 /\ d <= (y * 100 + m) * 100 + 31
  BY <1>1, DaysOfItsMonth
<1>4. d >= (z * 100 + n) * 100 /\ d <= (z * 100 + n) * 100 + 31
  BY <1>1, DaysOfItsMonth
<1>5. y = z /\ m = n
  <2> HIDE DEF y, m, z, n
  <2> QED
    BY <1>2, <1>3, <1>4, MonthOfDay
<1> QED
  BY <1>5

-----------------------------------------------------------------------------
(* Induction, and what it says of the library's folds *)

\* What holds of nothing, and of one more whenever it holds of what comes before, holds of
\* every prefix.
LEMMA Climb ==
    ASSUME NEW n \in Nat, NEW T, 0 \in T, \A i \in 1..n : i - 1 \in T => i \in T
    PROVE  \A i \in 0..n : i \in T
<1> DEFINE below == OpToRel(<, Nat)
           missing == {i \in 0..n : i \notin T}
<1>1. SUFFICES ASSUME missing # {} PROVE FALSE
  OBVIOUS
<1>2. \A i, j \in Nat : i < j => <<i, j>> \in below
  BY DEF OpToRel
<1>3. IsWellFoundedOn(below, Nat)
  BY NatLessThanWellFounded
<1>4. missing \subseteq Nat
  OBVIOUS
<1> HIDE DEF below
<1>5. PICK first \in missing : \A i \in missing : <<i, first>> \notin below
  <2> HIDE DEF missing
  <2> QED
    BY <1>1, <1>3, <1>4, WFMin
<1>6. first \in 1..n /\ first \notin T
  BY <1>5
<1>7. first - 1 \notin missing
  <2>1. first - 1 \in Nat /\ first \in Nat /\ first - 1 < first
    BY <1>6
  <2>2. <<first - 1, first>> \in below
    BY <1>2, <2>1
  <2> QED
    BY <1>5, <2>2
<1> QED
  BY <1>6, <1>7

\* The greatest of a set of positions.
LEMMA GreatestIsLast ==
    ASSUME NEW k \in Nat, NEW d \in SUBSET (1..k + 1), k + 1 \in d
    PROVE  Max(d) = k + 1 /\ d \ {k + 1} \in SUBSET (1..k)
<1>1. k + 1 \in d /\ \A y \in d : k + 1 >= y
  OBVIOUS
<1>2. \A x \in d : (\A y \in d : x >= y) => x = k + 1
  BY <1>1
<1>3. Max(d) = k + 1
  BY <1>1, <1>2 DEF Max
<1> QED
  BY <1>3

\* A set of positions that is not empty has a greatest.
LEMMA MaxIsIn ==
    ASSUME NEW n \in Nat, NEW d \in SUBSET (1..n), d # {}
    PROVE  Max(d) \in d /\ Max(d) \in 1..n
<1> DEFINE T == {k \in 0..n : \A e \in SUBSET (1..k) : e # {} => Max(e) \in e}
<1>1. 0 \in T
  <2>1. 0 \in 0..n /\ \A e \in SUBSET (1..0) : e = {}
    OBVIOUS
  <2> QED
    BY <2>1
<1>2. ASSUME NEW i \in 1..n, i - 1 \in T PROVE i \in T
  <2>1. i - 1 \in Nat /\ (i - 1) + 1 = i /\ i \in 0..n
    OBVIOUS
  <2>2. ASSUME NEW e \in SUBSET (1..i), e # {} PROVE Max(e) \in e
    <3>1. CASE i \in e
      BY <2>1, <3>1, GreatestIsLast
    <3>2. CASE i \notin e
      <4>1. e \in SUBSET (1..i - 1)
        BY <3>2
      <4> QED
        BY <1>2, <2>2, <4>1
    <3> QED
      BY <3>1, <3>2
  <2> QED
    BY <2>1, <2>2
<1>3. n \in T
  <2> HIDE DEF T
  <2> QED
    BY <1>1, <1>2, Climb
<1> QED
  BY <1>3

\* iter is what the library's fold from the left of a sequence of length n is read off.
IsFold(iter, base, n, step) ==
    \A d \in SUBSET (1..n) :
        iter[d] = IF d = {} THEN base ELSE step[<<iter[d \ {Max(d)}], Max(d)>>]

\* A fold from the left is defined: the function that the library's fold chooses exists.
LEMMA FoldExists ==
    ASSUME NEW S, NEW base \in S, NEW n \in Nat, NEW step \in [S \X (1..n) -> S]
    PROVE  \E iter \in [SUBSET (1..n) -> S] : IsFold(iter, base, n, step)
<1> DEFINE Body(f, d) == IF d = {} THEN base ELSE step[<<f[d \ {Max(d)}], Max(d)>>]
           Folds(f, k) == /\ f \in [SUBSET (1..k) -> S]
                          /\ \A d \in SUBSET (1..k) : f[d] = Body(f, d)
           T == {k \in 0..n : \E f : Folds(f, k)}
<1>1. 0 \in T
  <2> DEFINE f == [d \in SUBSET (1..0) |-> base]
  <2>1. \A d \in SUBSET (1..0) : d = {}
    OBVIOUS
  <2>2. Folds(f, 0)
    BY <2>1
  <2>3. \E h : Folds(h, 0)
    <3> HIDE DEF Folds
    <3> QED
      BY <2>2
  <2> HIDE DEF Folds
  <2> QED
    BY <2>3
<1>2. ASSUME NEW i \in 1..n, i - 1 \in T PROVE i \in T
  <2> DEFINE k == i - 1
  <2>1. k \in Nat /\ k + 1 = i /\ i \in 0..n
    OBVIOUS
  <2>2. PICK f : Folds(f, k)
    BY <1>2
  <2> DEFINE g == [d \in SUBSET (1..i) |->
                      IF i \in d THEN step[<<f[d \ {i}], i>>] ELSE f[d]]
  <2> HIDE DEF k
  <2>3. ASSUME NEW d \in SUBSET (1..i), i \in d
        PROVE  Max(d) = i /\ d \ {i} \in SUBSET (1..k) /\ d # {} /\ i \notin d \ {i}
               /\ d \ {i} \in SUBSET (1..i)
    BY <2>1, <2>3, GreatestIsLast
  <2>4. ASSUME NEW d \in SUBSET (1..i), i \notin d PROVE d \in SUBSET (1..k)
    BY <2>1, <2>4
  <2>5. g \in [SUBSET (1..i) -> S]
    <3>1. ASSUME NEW d \in SUBSET (1..i), i \in d PROVE step[<<f[d \ {i}], i>>] \in S
      BY <2>2, <2>3, <3>1
    <3>2. ASSUME NEW d \in SUBSET (1..i), i \notin d PROVE f[d] \in S
      BY <2>2, <2>4, <3>2
    <3> QED
      BY <3>1, <3>2
  <2>6. ASSUME NEW d \in SUBSET (1..i) PROVE g[d] = Body(g, d)
    <3>1. CASE i \in d
      <4>1. g[d \ {i}] = f[d \ {i}]
        BY <2>3, <3>1
      <4> QED
        BY <2>3, <3>1, <4>1
    <3>2. CASE i \notin d /\ d # {}
      <4>1. d \in SUBSET (1..k)
        BY <2>4, <3>2
      <4>2. f[d] = step[<<f[d \ {Max(d)}], Max(d)>>]
        BY <2>2, <3>2, <4>1
      <4>3. d \ {Max(d)} \in SUBSET (1..i) /\ i \notin d \ {Max(d)}
        BY <3>2
      <4>4. g[d] = f[d] /\ g[d \ {Max(d)}] = f[d \ {Max(d)}]
        BY <3>2, <4>3
      <4> HIDE DEF g
      <4> QED
        BY <3>2, <4>2, <4>4
    <3>3. CASE i \notin d /\ d = {}
      BY <2>2, <2>4, <3>3
    <3> QED
      BY <3>1, <3>2, <3>3
  <2>7. Folds(g, i)
    <3> HIDE DEF g, Body
    <3> QED
      BY <2>5, <2>6
  <2>8. \E h : Folds(h, i)
    <3> HIDE DEF Folds, g
    <3> QED
      BY <2>7
  <2> QED
    BY <2>1, <2>8
<1>3. n \in T
  <2> HIDE DEF T
  <2> QED
    BY <1>1, <1>2, Climb
<1>4. PICK f : Folds(f, n)
  BY <1>3
<1> QED
  BY <1>4 DEF IsFold

\* The set of the first positions, as the library's fold takes it apart.
LEMMA LastOfPrefix ==
    ASSUME NEW n \in Nat, NEW i \in 1..n
    PROVE  /\ 1..i \in SUBSET (1..n) /\ 1..i # {} /\ Max(1..i) = i
           /\ (1..i) \ {i} = 1..i - 1 /\ i - 1 \in 0..n /\ 1..i - 1 \in SUBSET (1..n)
<1>1. i - 1 \in Nat /\ (i - 1) + 1 = i /\ i \in 1..i
  OBVIOUS
<1>2. Max(1..i) = i
  BY <1>1, GreatestIsLast
<1> QED
  BY <1>1, <1>2

\* A total is reached one size at a time.
LEMMA TotalSteps ==
    ASSUME NEW n \in Nat, NEW sizes \in [1..n -> Nat]
    PROVE  \E sum \in [0..n -> Nat] :
               /\ sum[0] = 0
               /\ \A i \in 1..n : sum[i] = sum[i - 1] + sizes[i]
               /\ Total(sizes) = sum[n]
<1> DEFINE Eq(f) == f = [d \in SUBSET (1..n) |->
                          IF d = {} THEN 0 ELSE f[d \ {Max(d)}] + sizes[Max(d)]]
           iter == CHOOSE f : Eq(f)
           sum == [i \in 0..n |-> iter[1..i]]
<1>1. Total(sizes) = iter[1..n]
  <2>1. DOMAIN sizes = 1..n
    OBVIOUS
  <2> QED
    BY <2>1 DEF Total, FoldLeft, MapThenFoldSet
<1>2. Eq(iter)
  <2> DEFINE step == [p \in Nat \X (1..n) |-> p[1] + sizes[p[2]]]
  <2>1. step \in [Nat \X (1..n) -> Nat]
    OBVIOUS
  <2>2. PICK f \in [SUBSET (1..n) -> Nat] : IsFold(f, 0, n, step)
    <3> HIDE DEF step
    <3> QED
      BY <2>1, FoldExists
  <2>3. ASSUME NEW d \in SUBSET (1..n)
        PROVE  f[d] = IF d = {} THEN 0 ELSE f[d \ {Max(d)}] + sizes[Max(d)]
    <3>1. CASE d = {}
      BY <2>2, <3>1 DEF IsFold
    <3>2. CASE d # {}
      <4>1. Max(d) \in 1..n
        BY <3>2, MaxIsIn
      <4>2. d \ {Max(d)} \in SUBSET (1..n)
        OBVIOUS
      <4>3. f[d] = step[<<f[d \ {Max(d)}], Max(d)>>]
        BY <2>2, <3>2 DEF IsFold
      <4> QED
        BY <3>2, <4>1, <4>2, <4>3
    <3> QED
      BY <3>1, <3>2
  <2>4. Eq(f)
    BY <2>3
  <2> QED
    BY <2>4
<1> HIDE DEF iter
<1>3. sum[0] = 0
  <2>1. 1..0 = {} /\ 0 \in 0..n
    OBVIOUS
  <2>2. iter[{}] = 0
    BY <1>2
  <2> QED
    BY <2>1, <2>2
<1>4. ASSUME NEW i \in 1..n PROVE sum[i] = sum[i - 1] + sizes[i]
  <2>1. /\ 1..i \in SUBSET (1..n) /\ 1..i # {} /\ Max(1..i) = i
        /\ (1..i) \ {i} = 1..i - 1 /\ i - 1 \in 0..n /\ i \in 0..n
    BY LastOfPrefix
  <2>2. iter[1..i] = iter[(1..i) \ {Max(1..i)}] + sizes[Max(1..i)]
    BY <1>2, <2>1
  <2>3. iter[1..i] = iter[1..i - 1] + sizes[i]
    BY <2>1, <2>2
  <2>4. sum[i] = iter[1..i] /\ sum[i - 1] = iter[1..i - 1]
    BY <2>1
  <2> QED
    BY <2>3, <2>4
<1>5. \A i \in 0..n : sum[i] \in Nat
  <2> DEFINE T == {i \in 0..n : sum[i] \in Nat}
  <2>1. 0 \in T
    BY <1>3
  <2>2. ASSUME NEW i \in 1..n, i - 1 \in T PROVE i \in T
    <3> HIDE DEF sum
    <3> QED
      BY <1>4, <2>2
  <2> HIDE DEF T
  <2>3. \A i \in 0..n : i \in T
    BY <2>1, <2>2, Climb
  <2> QED
    BY <2>3 DEF T
<1>6. Total(sizes) = sum[n]
  BY <1>1
<1> HIDE DEF iter
<1>7. sum \in [0..n -> Nat]
  BY <1>5
<1> HIDE DEF sum
<1> QED
  BY <1>3, <1>4, <1>6, <1>7

-----------------------------------------------------------------------------
(* One step of the walk *)

\* What a walk counts.  Only a survey counts what it could not take.
Counted(caller) == IF caller = "survey" THEN Nat ELSE {0}
Walks(K, caller) ==
    [spent : Nat, notices : Nat, containers : Nat, layout : {"empty", "flat", "nested"},
     keys : SUBSET K, rejected : Counted(caller), duplicates : Counted(caller), fault : BOOLEAN]

\* Nothing was wrong with what was read so far.
Clean(w) == ~w.fault /\ w.rejected = 0 /\ w.duplicates = 0

\* Every caller wants what parses; all but the inspector want it projected.
Wanted(m, caller) == m.kind = "xml" /\ Parses(m) /\ (caller # "inspect" => Projects(m))

\* What a walk counts are numbers.
LEMMA CountedType ==
    ASSUME NEW caller, NEW c \in Counted(caller)
    PROVE  c \in Nat /\ (caller = "survey" => c + 1 \in Counted(caller) /\ c + 1 # 0)
  BY DEF Counted

\* A walk that stops stays a walk.
LEMMA FaultStep ==
    ASSUME NEW K, NEW caller, NEW w \in Walks(K, caller)
    PROVE  Fault(w) \in Walks(K, caller) /\ ~ Clean(Fault(w))
  BY DEF Walks, Fault, Clean

\* Charging the budget.
Charged(w, n) == [w EXCEPT !.spent = w.spent + n]

\* It stops at what is past the budget.
LEMMA SpendStep ==
    ASSUME NEW K, NEW caller, NEW w \in Walks(K, caller), NEW n \in Nat, NEW l, IsLimits(l)
    PROVE  /\ Spend(w, n, l) \in Walks(K, caller)
           /\ Spend(w, n, l).fault <=> w.fault \/ w.spent + n > l.expanded
           /\ Clean(Spend(w, n, l)) <=> Clean(w) /\ w.spent + n <= l.expanded
           /\ Clean(Spend(w, n, l)) => Spend(w, n, l) = Charged(w, n)
<1> DEFINE most == l.expanded + 1
           spent == Min({w.spent + n, most})
<1>1. w.spent + n \in Nat /\ most \in Nat /\ l.expanded \in Nat
  BY DEF Walks, IsLimits
<1>2. spent = IF w.spent + n <= most THEN w.spent + n ELSE most
  BY <1>1 DEF Min
<1>3. Spend(w, n, l) = [w EXCEPT !.spent = spent, !.fault = w.fault \/ spent > l.expanded]
  BY DEF Spend
<1> HIDE DEF spent
<1>4. spent \in Nat /\ (spent > l.expanded <=> w.spent + n > l.expanded)
  BY <1>1, <1>2
<1>5. Spend(w, n, l) \in Walks(K, caller)
  BY <1>3, <1>4 DEF Walks
<1>6. Spend(w, n, l).fault <=> w.fault \/ w.spent + n > l.expanded
  BY <1>3, <1>4 DEF Walks
<1>7. Clean(Spend(w, n, l)) <=> Clean(w) /\ w.spent + n <= l.expanded
  BY <1>1, <1>3, <1>6 DEF Walks, Clean
<1>8. Clean(Spend(w, n, l)) => Spend(w, n, l) = [w EXCEPT !.spent = w.spent + n]
  <2>1. SUFFICES ASSUME w.fault = FALSE, w.spent + n <= l.expanded
                 PROVE  Spend(w, n, l) = [w EXCEPT !.spent = w.spent + n]
    BY <1>7 DEF Clean, Walks
  <2>2. spent = w.spent + n /\ (w.fault \/ spent > l.expanded) = FALSE
    BY <1>1, <1>2, <2>1
  <2>3. Spend(w, n, l) = [w EXCEPT !.spent = w.spent + n, !.fault = FALSE]
    BY <1>3, <2>2
  <2> QED
    BY <2>1, <2>3 DEF Walks
<1> QED
  BY <1>5, <1>6, <1>7, <1>8 DEF Charged

\* The first regular member decides the layout.
LEMMA ClaimStep ==
    ASSUME NEW K, NEW caller, NEW w \in Walks(K, caller), NEW layout \in {"flat", "nested"}
    PROVE  /\ Claim(w, layout) \in Walks(K, caller)
           /\ Clean(Claim(w, layout)) <=> Clean(w) /\ w.layout \in {"empty", layout}
           /\ Claim(w, layout).fault <=> w.fault \/ w.layout \notin {"empty", layout}
           /\ w.layout \in {"empty", layout} => Claim(w, layout) = [w EXCEPT !.layout = layout]
  BY DEF Claim, Fault, Walks, Clean

\* A fault of one member stops the walk or is counted.
LEMMA RejectStep ==
    ASSUME NEW K, NEW caller, NEW w \in Walks(K, caller)
    PROVE  Reject(w, caller) \in Walks(K, caller) /\ ~ Clean(Reject(w, caller))
<1>1. CASE caller = "survey"
  <2>1. w.rejected + 1 \in Counted(caller) /\ w.rejected + 1 # 0
    BY <1>1, CountedType DEF Walks
  <2> QED
    BY <1>1, <2>1 DEF Reject, Walks, Clean
<1>2. CASE caller # "survey"
  BY <1>2, FaultStep DEF Reject
<1> QED
  BY <1>1, <1>2

\* An identity that was not seen yet is taken, any other stops the walk or is counted.
LEMMA ReceiveStep ==
    ASSUME NEW K, NEW caller, NEW w \in Walks(K, caller), NEW m, m.key \in K
    PROVE  /\ Receive(w, m, caller) \in Walks(K, caller)
           /\ Clean(Receive(w, m, caller)) <=>
                  /\ Clean(w) /\ m.key \notin w.keys
                  /\ caller # "inspect" => Projects(m)
           /\ Clean(Receive(w, m, caller)) =>
                  Receive(w, m, caller) = [w EXCEPT !.keys = w.keys \cup {m.key}]
<1>1. CASE caller # "inspect" /\ ~ Projects(m)
  BY <1>1, RejectStep DEF Receive
<1>2. CASE (caller # "inspect" => Projects(m)) /\ m.key \notin w.keys
  <2>1. Receive(w, m, caller) = [w EXCEPT !.keys = w.keys \cup {m.key}]
    BY <1>2 DEF Receive
  <2> QED
    BY <1>2, <2>1 DEF Walks, Clean
<1>3. CASE (caller # "inspect" => Projects(m)) /\ m.key \in w.keys
  <2>1. CASE caller = "survey"
    <3>1. w.duplicates + 1 \in Counted(caller) /\ w.duplicates + 1 # 0
      BY <2>1, CountedType DEF Walks
    <3>2. Receive(w, m, caller) = [w EXCEPT !.duplicates = w.duplicates + 1]
      BY <1>3, <2>1 DEF Receive
    <3> QED
      BY <1>3, <3>1, <3>2 DEF Walks, Clean
  <2>2. CASE caller # "survey"
    <3>1. Receive(w, m, caller) = Fault(w)
      BY <1>3, <2>2 DEF Receive
    <3> QED
      BY <1>3, <3>1, FaultStep
  <2> QED
    BY <2>1, <2>2
<1> QED
  BY <1>1, <1>2, <1>3

\* What a candidate needs of a walk, and what it makes of it.
Fits(w, m, l, caller, outer) ==
    /\ m.size <= l.member /\ w.notices < l.notices
    /\ w.spent + m.size <= l.expanded
    /\ outer => w.layout # "nested"
    /\ Wanted(m, caller) /\ m.key \notin w.keys

Noticed(w, m, outer) ==
    [w EXCEPT !.spent = w.spent + m.size, !.notices = w.notices + 1,
              !.layout = IF outer THEN "flat" ELSE w.layout, !.keys = w.keys \cup {m.key}]

\* It is taken exactly when the walk has room for it.
LEMMA NoticeStep ==
    ASSUME NEW K, NEW caller, NEW w \in Walks(K, caller), NEW l, IsLimits(l),
           NEW m, m.size \in Nat, m.key \in K, NEW outer \in BOOLEAN
    PROVE  /\ Notice(w, m, l, caller, outer) \in Walks(K, caller)
           /\ Clean(Notice(w, m, l, caller, outer)) <=> Clean(w) /\ Fits(w, m, l, caller, outer)
           /\ Clean(Notice(w, m, l, caller, outer)) =>
                  Notice(w, m, l, caller, outer) = Noticed(w, m, outer)
<1> DEFINE charged == Spend(w, m.size, l)
           read == [charged EXCEPT !.notices = charged.notices + 1]
           placed == IF m.kind = "xml" /\ outer THEN Claim(read, "flat") ELSE read
           notice == Notice(w, m, l, caller, outer)
<1>1. CASE m.size > l.member \/ w.notices >= l.notices
  <2>1. notice = Fault(w)
    BY <1>1 DEF Notice
  <2>2. ~ Fits(w, m, l, caller, outer)
    BY <1>1 DEF Fits, Walks, IsLimits
  <2> QED
    BY <2>1, <2>2, FaultStep
<1>2. CASE ~ (m.size > l.member \/ w.notices >= l.notices)
  <2>1. notice = IF read.fault \/ placed.fault THEN Fault(placed)
                 ELSE IF m.kind # "xml" \/ ~ Parses(m) THEN Reject(placed, caller)
                 ELSE Receive(placed, m, caller)
    BY <1>2 DEF Notice
  <2>2. /\ charged \in Walks(K, caller)
        /\ Clean(charged) <=> Clean(w) /\ w.spent + m.size <= l.expanded
        /\ Clean(charged) => charged = [w EXCEPT !.spent = w.spent + m.size]
    BY SpendStep DEF Charged
  <2> HIDE DEF charged
  <2>3. /\ read \in Walks(K, caller) /\ (Clean(read) <=> Clean(charged))
        /\ read.layout = charged.layout
    BY <2>2 DEF Walks, Clean
  <2>4. Clean(read) => read = [w EXCEPT !.spent = w.spent + m.size, !.notices = w.notices + 1]
    BY <2>2, <2>3 DEF Walks
  <2>5. Clean(read) => read.layout = w.layout
    BY <2>2, <2>3 DEF Walks
  <2> HIDE DEF read
  <2>6. /\ placed \in Walks(K, caller)
        /\ m.kind = "xml" => (Clean(placed) <=> Clean(read) /\ (outer => w.layout # "nested"))
        /\ Clean(placed) => Clean(read)
        /\ Clean(placed) /\ m.kind = "xml" =>
               placed = [read EXCEPT !.layout = IF outer THEN "flat" ELSE read.layout]
    <3>1. CASE m.kind = "xml" /\ outer
      <4>1. placed = Claim(read, "flat")
        BY <3>1
      <4>2. /\ placed \in Walks(K, caller)
            /\ Clean(placed) <=> Clean(read) /\ read.layout \in {"empty", "flat"}
            /\ read.layout \in {"empty", "flat"} => placed = [read EXCEPT !.layout = "flat"]
        BY <2>3, <4>1, ClaimStep
      <4>3. Clean(read) => (read.layout \in {"empty", "flat"} <=> w.layout # "nested")
        BY <2>5 DEF Walks
      <4> QED
        BY <3>1, <4>2, <4>3
    <3>2. CASE ~ (m.kind = "xml" /\ outer)
      <4>1. placed = read
        BY <3>2
      <4>2. read = [read EXCEPT !.layout = read.layout]
        BY <2>3 DEF Walks
      <4> QED
        BY <2>3, <3>2, <4>1, <4>2
    <3> QED
      BY <3>1, <3>2
  <2>7. m.size <= l.member /\ w.notices < l.notices
    BY <1>2 DEF Walks, IsLimits
  <2> HIDE DEF placed, notice
  <2>8. CASE read.fault \/ placed.fault
    <3>1. notice = Fault(placed)
      BY <2>1, <2>8
    <3>2. ~ Clean(placed) \/ ~ Clean(read)
      BY <2>8 DEF Clean
    <3>3. ~ (Clean(w) /\ Fits(w, m, l, caller, outer))
      BY <2>2, <2>3, <2>6, <3>2 DEF Fits, Wanted
    <3> QED
      BY <2>6, <3>1, <3>3, FaultStep DEF notice
  <2>9. CASE ~ (read.fault \/ placed.fault) /\ (m.kind # "xml" \/ ~ Parses(m))
    <3>1. notice = Reject(placed, caller)
      BY <2>1, <2>9
    <3>2. ~ Fits(w, m, l, caller, outer)
      BY <2>9 DEF Fits, Wanted
    <3> QED
      BY <2>6, <3>1, <3>2, RejectStep DEF notice
  <2>10. CASE ~ (read.fault \/ placed.fault) /\ m.kind = "xml" /\ Parses(m)
    <3>1. notice = Receive(placed, m, caller)
      BY <2>1, <2>10
    <3>2. /\ notice \in Walks(K, caller)
          /\ Clean(notice) <=>
                 /\ Clean(placed) /\ m.key \notin placed.keys
                 /\ caller # "inspect" => Projects(m)
          /\ Clean(notice) => notice = [placed EXCEPT !.keys = placed.keys \cup {m.key}]
      BY <2>6, <3>1, ReceiveStep
    <3>3. Clean(placed) =>
            placed = [w EXCEPT !.spent = w.spent + m.size, !.notices = w.notices + 1,
                               !.layout = IF outer THEN "flat" ELSE w.layout]
      <4>1. SUFFICES ASSUME Clean(placed)
                     PROVE  placed = [w EXCEPT !.spent = w.spent + m.size,
                                               !.notices = w.notices + 1,
                                               !.layout = IF outer THEN "flat" ELSE w.layout]
        OBVIOUS
      <4>2. placed = [read EXCEPT !.layout = IF outer THEN "flat" ELSE w.layout]
        BY <2>5, <2>6, <2>10, <4>1
      <4> QED
        BY <2>4, <2>6, <4>1, <4>2 DEF Walks
    <3>4. Clean(placed) => placed.keys = w.keys
      BY <3>3 DEF Walks
    <3>5. Clean(placed) <=> /\ Clean(w) /\ w.spent + m.size <= l.expanded
                            /\ outer => w.layout # "nested"
      BY <2>2, <2>3, <2>6, <2>10
    <3>6. Clean(notice) <=> Clean(w) /\ Fits(w, m, l, caller, outer)
      BY <2>7, <2>10, <3>2, <3>4, <3>5 DEF Fits, Wanted
    <3>7. Clean(notice) => notice = Noticed(w, m, outer)
      <4>1. SUFFICES ASSUME Clean(notice) PROVE notice = Noticed(w, m, outer)
        OBVIOUS
      <4>2. notice = [placed EXCEPT !.keys = w.keys \cup {m.key}]
        BY <3>2, <3>4, <4>1
      <4> QED
        BY <3>2, <3>3, <4>1, <4>2 DEF Noticed, Walks
    <3> QED
      BY <3>2, <3>6, <3>7 DEF notice
  <2> QED
    BY <2>8, <2>9, <2>10
<1> QED
  BY <1>1, <1>2

\* What a member that is not opened needs of a walk, header included, and what it makes of it.
Takes(w, m, l, caller, outer) ==
    /\ m.kind \notin {"unsafe", "special"}
    /\ w.spent + Weight(m) <= l.expanded
    /\ Regular(m) => /\ m.size <= l.member /\ w.notices < l.notices
                     /\ outer => w.layout # "nested"
                     /\ Wanted(m, caller) /\ m.key \notin w.keys

Taken(w, m, outer) ==
    IF Regular(m)
    THEN [w EXCEPT !.spent = w.spent + Weight(m), !.notices = w.notices + 1,
                   !.layout = IF outer THEN "flat" ELSE w.layout, !.keys = w.keys \cup {m.key}]
    ELSE [w EXCEPT !.spent = w.spent + Weight(m)]

Became(v, w, m, outer) == v = Taken(w, m, outer)

\* A member weighs its header, and its bytes when it has any.
LEMMA WeightType ==
    ASSUME NEW m, m.size \in Nat
    PROVE  Weight(m) \in Nat /\ Weight(m) = IF Regular(m) THEN 1 + m.size ELSE 1
  BY DEF Weight

\* The header, and then the notice.
LEMMA HeadedStep ==
    ASSUME NEW K, NEW caller, NEW w \in Walks(K, caller), NEW l, IsLimits(l),
           NEW m, m.size \in Nat, m.key \in K, NEW outer \in BOOLEAN, Regular(m),
           NEW v, v = Notice(Spend(w, 1, l), m, l, caller, outer)
    PROVE  /\ v \in Walks(K, caller)
           /\ Clean(v) <=> Clean(w) /\ Takes(w, m, l, caller, outer)
           /\ Clean(v) => Became(v, w, m, outer)
<1> DEFINE headed == Spend(w, 1, l)
<1>1. /\ headed \in Walks(K, caller)
      /\ Clean(headed) <=> Clean(w) /\ w.spent + 1 <= l.expanded
      /\ Clean(headed) => headed = [w EXCEPT !.spent = w.spent + 1]
  <2>1. /\ headed \in Walks(K, caller)
        /\ Clean(headed) <=> Clean(w) /\ w.spent + 1 <= l.expanded
        /\ Clean(headed) => headed = Charged(w, 1)
    BY SpendStep
  <2> QED
    BY <2>1 DEF Charged
<1> HIDE DEF headed
<1>2. /\ v \in Walks(K, caller)
      /\ Clean(v) <=> Clean(headed) /\ Fits(headed, m, l, caller, outer)
      /\ Clean(v) => v = Noticed(headed, m, outer)
  BY <1>1, NoticeStep DEF headed
<1>3. Weight(m) = 1 + m.size /\ w.spent \in Nat /\ l.expanded \in Nat
  BY WeightType DEF Walks, IsLimits
<1>4. Clean(headed) => (Fits(headed, m, l, caller, outer) <=> Takes(w, m, l, caller, outer))
  <2>1. SUFFICES ASSUME Clean(headed)
                 PROVE  Fits(headed, m, l, caller, outer) <=> Takes(w, m, l, caller, outer)
    OBVIOUS
  <2>2. /\ headed.spent = w.spent + 1 /\ headed.notices = w.notices
        /\ headed.layout = w.layout /\ headed.keys = w.keys
    BY <1>1, <2>1 DEF Walks
  <2>3. headed.spent + m.size = w.spent + Weight(m)
    BY <1>3, <2>2
  <2>4. m.kind \notin {"unsafe", "special"}
    BY DEF Regular
  <2> QED
    BY <2>2, <2>3, <2>4 DEF Fits, Takes
<1>5. Takes(w, m, l, caller, outer) => w.spent + 1 <= l.expanded
  BY <1>3 DEF Takes
<1>6. Clean(v) => Became(v, w, m, outer)
  <2>1. SUFFICES ASSUME Clean(v) PROVE Became(v, w, m, outer)
    OBVIOUS
  <2>2. headed = [w EXCEPT !.spent = w.spent + 1] /\ v = Noticed(headed, m, outer)
    BY <1>1, <1>2, <2>1
  <2>3. (w.spent + 1) + m.size = w.spent + Weight(m)
    BY <1>3
  <2>4. /\ headed.spent = w.spent + 1 /\ headed.notices = w.notices
        /\ headed.layout = w.layout /\ headed.keys = w.keys
    BY <2>2 DEF Walks
  <2>5. v = [headed EXCEPT !.spent = w.spent + Weight(m), !.notices = w.notices + 1,
                           !.layout = IF outer THEN "flat" ELSE w.layout,
                           !.keys = w.keys \cup {m.key}]
    BY <2>2, <2>3, <2>4 DEF Noticed
  <2>6. v = [w EXCEPT !.spent = w.spent + Weight(m), !.notices = w.notices + 1,
                      !.layout = IF outer THEN "flat" ELSE w.layout,
                      !.keys = w.keys \cup {m.key}]
    BY <2>2, <2>5 DEF Walks
  <2> QED
    BY <2>6 DEF Taken, Became
<1> QED
  BY <1>1, <1>2, <1>4, <1>5, <1>6

\* The header alone.
LEMMA DirectoryStep ==
    ASSUME NEW K, NEW caller, NEW w \in Walks(K, caller), NEW l, IsLimits(l),
           NEW m, m.size \in Nat, NEW outer \in BOOLEAN, m.kind = "directory",
           NEW v, v = Spend(w, 1, l)
    PROVE  /\ v \in Walks(K, caller)
           /\ Clean(v) <=> Clean(w) /\ Takes(w, m, l, caller, outer)
           /\ Clean(v) => Became(v, w, m, outer)
<1>1. ~ Regular(m) /\ Weight(m) = 1 /\ m.kind \notin {"unsafe", "special"}
  BY WeightType DEF Regular
<1>2. Takes(w, m, l, caller, outer) <=> w.spent + 1 <= l.expanded
  BY <1>1 DEF Takes
<1>3. Taken(w, m, outer) = [w EXCEPT !.spent = w.spent + 1]
  BY <1>1 DEF Taken
<1>4. Taken(w, m, outer) = Charged(w, 1)
  BY <1>3 DEF Charged
<1> QED
  BY <1>2, <1>4, SpendStep DEF Became

\* What cannot be taken.
LEMMA RefusedStep ==
    ASSUME NEW K, NEW caller, NEW w \in Walks(K, caller), NEW l, IsLimits(l),
           NEW m, m.size \in Nat, NEW outer \in BOOLEAN,
           NEW v, v = Spend(w, 1, l),
           v.fault \/ m.kind \in {"unsafe", "special"} \/ (m.kind = "container" /\ ~ outer)
    PROVE  /\ Fault(v) \in Walks(K, caller) /\ ~ Clean(Fault(v))
           /\ ~ (Clean(w) /\ Takes(w, m, l, caller, outer))
<1>1. /\ v \in Walks(K, caller)
      /\ v.fault <=> w.fault \/ w.spent + 1 > l.expanded
  BY SpendStep
<1>2. Fault(v) \in Walks(K, caller) /\ ~ Clean(Fault(v))
  BY <1>1, FaultStep
<1>3. SUFFICES ASSUME Clean(w), Takes(w, m, l, caller, outer) PROVE FALSE
  BY <1>2
<1>4. ~ v.fault
  <2>1. w.spent + Weight(m) <= l.expanded /\ Weight(m) \in Nat /\ Weight(m) >= 1
    BY <1>3, WeightType DEF Takes
  <2> QED
    BY <1>1, <1>3, <2>1 DEF Clean, Walks, IsLimits
<1>5. m.kind = "container" /\ ~ outer
  BY <1>3, <1>4 DEF Takes
<1> QED
  BY <1>3, <1>5 DEF Takes, Regular, Wanted

\* One member of a container, and one of the archive that is no container.
LEMMA NestedStep ==
    ASSUME NEW K, NEW caller, NEW w \in Walks(K, caller), NEW l, IsLimits(l),
           NEW m, m.size \in Nat, m.key \in K,
           NEW outer \in BOOLEAN, ~ outer, NEW v, v = Nested(w, m, l, caller)
    PROVE  /\ v \in Walks(K, caller)
           /\ Clean(v) <=> Clean(w) /\ Takes(w, m, l, caller, outer)
           /\ Clean(v) => Became(v, w, m, outer)
<1> DEFINE headed == Spend(w, 1, l)
<1>1. CASE w.fault
  BY <1>1 DEF Nested, Clean
<1>2. CASE ~ w.fault /\ (headed.fault \/ m.kind \in {"unsafe", "special", "container"})
  <2>1. v = Fault(headed)
    BY <1>2 DEF Nested
  <2>2. headed.fault \/ m.kind \in {"unsafe", "special"} \/ (m.kind = "container" /\ ~ outer)
    BY <1>2
  <2> HIDE DEF headed
  <2>3. /\ Fault(headed) \in Walks(K, caller) /\ ~ Clean(Fault(headed))
        /\ ~ (Clean(w) /\ Takes(w, m, l, caller, outer))
    BY <2>2, RefusedStep DEF headed
  <2> QED
    BY <2>1, <2>3
<1>3. CASE /\ ~ w.fault
           /\ ~ (headed.fault \/ m.kind \in {"unsafe", "special", "container"})
           /\ m.kind = "directory"
  <2>1. v = Spend(w, 1, l)
    BY <1>3 DEF Nested
  <2>2. m.kind = "directory" /\ outer \in BOOLEAN
    BY <1>3
  <2>3. /\ v \in Walks(K, caller)
        /\ Clean(v) <=> Clean(w) /\ Takes(w, m, l, caller, outer)
        /\ Clean(v) => Became(v, w, m, outer)
    BY <2>1, <2>2, DirectoryStep
  <2> QED
    BY <2>3
<1>4. CASE /\ ~ w.fault
           /\ ~ (headed.fault \/ m.kind \in {"unsafe", "special", "container"})
           /\ m.kind # "directory"
  <2>1. v = Notice(Spend(w, 1, l), m, l, caller, outer)
    BY <1>4 DEF Nested
  <2>2. Regular(m)
    BY <1>4 DEF Regular
  <2>4. v = Notice(Spend(w, 1, l), m, l, caller, outer) /\ outer \in BOOLEAN
    BY <2>1
  <2>5. /\ v \in Walks(K, caller)
        /\ Clean(v) <=> Clean(w) /\ Takes(w, m, l, caller, outer)
        /\ Clean(v) => Became(v, w, m, outer)
    BY <2>2, <2>4, HeadedStep
  <2> QED
    BY <2>5
<1> QED
  BY <1>1, <1>2, <1>3, <1>4

\* One member of the archive that is no container to be opened.
LEMMA PlainStep ==
    ASSUME NEW K, NEW caller, NEW w \in Walks(K, caller), NEW l, IsLimits(l),
           NEW m, m.size \in Nat, m.key \in K, ~ IsOpened(m, l),
           NEW outer \in BOOLEAN, outer, NEW v, v = Member(w, m, l, caller)
    PROVE  /\ v \in Walks(K, caller)
           /\ Clean(v) <=> Clean(w) /\ Takes(w, m, l, caller, outer)
           /\ Clean(v) => Became(v, w, m, outer)
<1> DEFINE headed == Spend(w, 1, l)
<1>1. CASE w.fault
  BY <1>1 DEF Member, Clean
<1>2. CASE ~ w.fault /\ (headed.fault \/ m.kind \in {"unsafe", "special"})
  <2>1. v = Fault(headed)
    BY <1>2 DEF Member
  <2>2. headed.fault \/ m.kind \in {"unsafe", "special"} \/ (m.kind = "container" /\ ~ outer)
    BY <1>2
  <2> HIDE DEF headed
  <2>3. /\ Fault(headed) \in Walks(K, caller) /\ ~ Clean(Fault(headed))
        /\ ~ (Clean(w) /\ Takes(w, m, l, caller, outer))
    BY <2>2, RefusedStep DEF headed
  <2> QED
    BY <2>1, <2>3
<1>3. CASE /\ ~ w.fault
           /\ ~ (headed.fault \/ m.kind \in {"unsafe", "special"})
           /\ m.kind = "directory"
  <2>1. v = Spend(w, 1, l)
    BY <1>3 DEF Member
  <2>2. m.kind = "directory" /\ outer \in BOOLEAN
    BY <1>3
  <2>3. /\ v \in Walks(K, caller)
        /\ Clean(v) <=> Clean(w) /\ Takes(w, m, l, caller, outer)
        /\ Clean(v) => Became(v, w, m, outer)
    BY ONLY w \in Walks(K, caller), IsLimits(l), m.size \in Nat, <2>1, <2>2, DirectoryStep
  <2> QED
    BY <2>3
<1>4. CASE /\ ~ w.fault
           /\ ~ (headed.fault \/ m.kind \in {"unsafe", "special"})
           /\ m.kind # "directory"
  <2>1. ~ (m.kind = "container" /\ l.container_count > 0)
    BY DEF IsOpened
  <2>2. v = Notice(Spend(w, 1, l), m, l, caller, outer)
    BY <1>4, <2>1 DEF Member
  <2>3. Regular(m)
    BY <1>4 DEF Regular
  <2>4. v = Notice(Spend(w, 1, l), m, l, caller, outer) /\ outer \in BOOLEAN
    BY <2>2
  <2>5. /\ v \in Walks(K, caller)
        /\ Clean(v) <=> Clean(w) /\ Takes(w, m, l, caller, outer)
        /\ Clean(v) => Became(v, w, m, outer)
    BY ONLY w \in Walks(K, caller), IsLimits(l), m.size \in Nat, m.key \in K,
       <2>3, <2>4, HeadedStep
  <2> QED
    BY <2>5
<1> QED
  BY <1>1, <1>2, <1>3, <1>4

-----------------------------------------------------------------------------
(* The places of an archive, and what a walk over them holds *)

\* What a layer of an archive consists of.
LEMMA LayerType ==
    ASSUME NEW a, IsLayer(a)
    PROVE  /\ Len(a.members) \in Nat /\ DOMAIN a.members = 1..Len(a.members)
           /\ \A i \in 1..Len(a.members) : a.members[i].size \in Nat
           /\ a.padding \in Nat
<1>1. a.members \in Seq(Range(a.members))
  BY DEF IsLayer
<1>2. Len(a.members) \in Nat /\ DOMAIN a.members = 1..Len(a.members)
  BY <1>1, LenProperties
<1>3. \A i \in DOMAIN a.members : a.members[i] \in Range(a.members)
  BY DEF Range
<1> QED
  BY <1>2, <1>3 DEF IsLayer

\* What is at a place.
LEMMA PlaceType ==
    ASSUME NEW a, IsArchive(a), NEW l, NEW p \in Places(a, l)
    PROVE  /\ p = <<p[1], p[2]>> /\ p[1] \in DOMAIN a.members /\ p[2] \in Nat
           /\ p[2] # 0 => /\ p[1] \in Opened(a, l)
                           /\ p[2] \in DOMAIN a.members[p[1]].inside.members
           /\ At(a, p).size \in Nat
<1>1. IsLayer(a)
  BY DEF IsArchive
<1>2. CASE p \in {<<i, 0>> : i \in DOMAIN a.members}
  <2>1. PICK i \in DOMAIN a.members : p = <<i, 0>>
    BY <1>2
  <2> QED
    BY <1>1, <2>1, LayerType DEF At
<1>3. CASE p \notin {<<i, 0>> : i \in DOMAIN a.members}
  <2>1. PICK i \in Opened(a, l) : p \in {<<i, j>> : j \in DOMAIN a.members[i].inside.members}
    BY <1>3 DEF Places
  <2>2. PICK j \in DOMAIN a.members[i].inside.members : p = <<i, j>>
    BY <2>1
  <2>3. i \in DOMAIN a.members /\ a.members[i].kind = "container"
    BY DEF Opened, IsOpened
  <2>4. a.members[i] \in Range(a.members)
    BY <2>3 DEF Range
  <2>5. IsLayer(a.members[i].inside)
    BY <2>3, <2>4 DEF IsArchive
  <2>6. j \in 1..Len(a.members[i].inside.members) /\ Len(a.members[i].inside.members) \in Nat
    BY <2>2, <2>5, LayerType
  <2>7. j \in Nat /\ j # 0 /\ a.members[i].inside.members[j].size \in Nat
    BY <2>5, <2>6, LayerType
  <2>8. p[1] = i /\ p[2] = j
    BY <2>2
  <2>9. At(a, p) = a.members[i].inside.members[j]
    BY <2>7, <2>8 DEF At
  <2> QED
    BY <2>2, <2>3, <2>7, <2>8, <2>9
<1> QED
  BY <1>2, <1>3

\* What a set of places holds.
Found(a, l, P) == P \cap Candidates(a, l)
OpenedIn(a, l, P) == {i \in Opened(a, l) : <<i, 0>> \in P}

\* Nothing is wrong with what is at a set of places that expands to sum.
Good(a, l, caller, P, sum) ==
    /\ sum <= l.expanded
    /\ Cardinality(OpenedIn(a, l, P)) <= l.container_count
    /\ \A i \in OpenedIn(a, l, P) : a.members[i].size <= l.container
    /\ \A p \in P :
        /\ At(a, p).kind \notin {"unsafe", "special"}
        /\ p[2] # 0 => At(a, p).kind # "container"
        /\ p[2] = 0 /\ OpenedIn(a, l, P) # {} => At(a, p).kind # "xml"
    /\ Cardinality(Found(a, l, P)) <= l.notices
    /\ \A p \in Found(a, l, P) : At(a, p).size <= l.member /\ Wanted(At(a, p), caller)
    /\ \A p, q \in Found(a, l, P) : At(a, p).key = At(a, q).key => p = q

\* Nothing but padding follows the containers of E.
Padded(a, E) == \A i \in E : a.members[i].inside.tail = "padding"

\* A clean walk over them holds.
Pictures(a, l, w, P, sum) ==
    /\ w.spent = sum
    /\ w.notices = Cardinality(Found(a, l, P))
    /\ w.containers = Cardinality(OpenedIn(a, l, P))
    /\ w.keys = {At(a, p).key : p \in Found(a, l, P)}
    /\ w.layout = "nested" <=> OpenedIn(a, l, P) # {}
    /\ w.layout = "flat" <=> \E p \in P : p[2] = 0 /\ At(a, p).kind = "xml"

\* The walk over them, to the end of the containers of E, is clean as it should be.
Tracks(a, l, caller, w, P, E, sum) ==
    /\ Clean(w) <=> Good(a, l, caller, P, sum) /\ Padded(a, E)
    /\ Clean(w) => Pictures(a, l, w, P, sum)

\* What is wrong stays wrong.
LEMMA GoodShrinks ==
    ASSUME NEW a, NEW l, IsLimits(l), NEW caller, NEW P, NEW Q, P \subseteq Q, IsFiniteSet(Q),
           NEW sum \in Nat, NEW more \in Nat, sum <= more, Good(a, l, caller, Q, more),
           IsFiniteSet(Opened(a, l))
    PROVE  Good(a, l, caller, P, sum)
<1>1. Found(a, l, P) \subseteq Found(a, l, Q) /\ OpenedIn(a, l, P) \subseteq OpenedIn(a, l, Q)
  BY DEF Found, OpenedIn
<1>2. IsFiniteSet(Found(a, l, Q))
  <2>1. Found(a, l, Q) \in SUBSET Q
    BY DEF Found
  <2> QED
    BY <2>1, FS_Subset
<1>3. IsFiniteSet(OpenedIn(a, l, Q))
  <2>1. OpenedIn(a, l, Q) \in SUBSET Opened(a, l)
    BY DEF OpenedIn
  <2> QED
    BY <2>1, FS_Subset
<1>4. /\ Cardinality(Found(a, l, P)) \in Nat /\ Cardinality(Found(a, l, Q)) \in Nat
      /\ Cardinality(Found(a, l, P)) <= Cardinality(Found(a, l, Q))
  BY <1>1, <1>2, FS_Subset, FS_CardinalityType
<1>5. /\ Cardinality(OpenedIn(a, l, P)) \in Nat /\ Cardinality(OpenedIn(a, l, Q)) \in Nat
      /\ Cardinality(OpenedIn(a, l, P)) <= Cardinality(OpenedIn(a, l, Q))
  BY <1>1, <1>3, FS_Subset, FS_CardinalityType
<1>6. sum <= l.expanded
  BY DEF Good, IsLimits
<1>7. Cardinality(Found(a, l, P)) <= l.notices
  BY <1>4 DEF Good, IsLimits
<1>8. Cardinality(OpenedIn(a, l, P)) <= l.container_count
  BY <1>5 DEF Good, IsLimits
<1>9. \A p \in P :
        /\ At(a, p).kind \notin {"unsafe", "special"}
        /\ p[2] # 0 => At(a, p).kind # "container"
        /\ p[2] = 0 /\ OpenedIn(a, l, P) # {} => At(a, p).kind # "xml"
  BY <1>1 DEF Good
<1> QED
  BY <1>1, <1>6, <1>7, <1>8, <1>9 DEF Good

\* One more place that is no container.
LEMMA FoundGrows ==
    ASSUME NEW a, NEW l, NEW P, IsFiniteSet(P), NEW p \in Places(a, l), p \notin P,
           p[2] = 0 => p[1] \notin Opened(a, l),
           NEW m, m = At(a, p), NEW Q, Q = P \cup {p}
    PROVE  /\ OpenedIn(a, l, Q) = OpenedIn(a, l, P)
           /\ \A q : q \in Found(a, l, Q) <=> q \in Found(a, l, P) \/ (q = p /\ Regular(m))
           /\ IsFiniteSet(Found(a, l, P)) /\ p \notin Found(a, l, P)
           /\ Cardinality(Found(a, l, P)) \in Nat
           /\ Cardinality(Found(a, l, Q)) =
                  IF Regular(m) THEN Cardinality(Found(a, l, P)) + 1
                  ELSE Cardinality(Found(a, l, P))
<1>1. ASSUME NEW i \in Opened(a, l) PROVE <<i, 0>> # p
  <2>1. <<i, 0>>[1] = i /\ <<i, 0>>[2] = 0
    OBVIOUS
  <2> QED
    BY <2>1
<1>2. OpenedIn(a, l, Q) = OpenedIn(a, l, P)
  BY <1>1 DEF OpenedIn
<1>3. p \in Candidates(a, l) <=> Regular(m)
  BY DEF Candidates
<1>4. Found(a, l, Q) = IF Regular(m) THEN Found(a, l, P) \cup {p}
                               ELSE Found(a, l, P)
  BY <1>3 DEF Found
<1>5. IsFiniteSet(Found(a, l, P)) /\ p \notin Found(a, l, P)
  <2>1. Found(a, l, P) \in SUBSET P
    BY DEF Found
  <2> QED
    BY <2>1, FS_Subset
<1>6. Cardinality(Found(a, l, P)) \in Nat
  BY <1>5, FS_CardinalityType
<1>7. Cardinality(Found(a, l, P) \cup {p}) = Cardinality(Found(a, l, P)) + 1
  BY <1>5, FS_AddElement
<1> QED
  BY <1>2, <1>4, <1>5, <1>6, <1>7

\* A clean walk takes a member that is no container exactly when nothing is wrong with it
\* and what came before.
LEMMA PlainGood ==
    ASSUME NEW a, IsArchive(a), NEW l, IsLimits(l), NEW caller,
           NEW K, NEW w \in Walks(K, caller),
           NEW P, P \subseteq Places(a, l), IsFiniteSet(P), NEW sum \in Nat,
           NEW p \in Places(a, l), p \notin P, p[2] = 0 => p[1] \notin Opened(a, l),
           NEW outer \in BOOLEAN, outer <=> p[2] = 0,
           Good(a, l, caller, P, sum), Pictures(a, l, w, P, sum)
    PROVE  Good(a, l, caller, P \cup {p}, sum + Weight(At(a, p))) <=>
               Takes(w, At(a, p), l, caller, outer)
<1> DEFINE m == At(a, p)
           Q == P \cup {p}
<1>1. m.size \in Nat /\ Weight(m) \in Nat
  BY PlaceType, WeightType
<1>2. /\ OpenedIn(a, l, Q) = OpenedIn(a, l, P)
      /\ \A q : q \in Found(a, l, Q) <=> q \in Found(a, l, P) \/ (q = p /\ Regular(m))
      /\ IsFiniteSet(Found(a, l, P)) /\ p \notin Found(a, l, P)
      /\ Cardinality(Found(a, l, P)) \in Nat
      /\ Cardinality(Found(a, l, Q)) = IF Regular(m) THEN Cardinality(Found(a, l, P)) + 1
                                      ELSE Cardinality(Found(a, l, P))
  <2> HIDE DEF m, Q
  <2>1. m = At(a, p) /\ Q = P \cup {p}
    BY DEF m, Q
  <2>2. p[2] = 0 => p[1] \notin Opened(a, l)
    OBVIOUS
  <2> QED
    BY ONLY IsFiniteSet(P), p \in Places(a, l), p \notin P, <2>1, <2>2, FoundGrows
<1>3. l.expanded \in Nat /\ l.notices \in Nat /\ l.container_count \in Nat
  BY DEF IsLimits
<1>4. w.layout = "nested" <=> OpenedIn(a, l, P) # {}
  BY DEF Pictures
<1>5. w.notices = Cardinality(Found(a, l, P)) /\ w.spent = sum
  BY DEF Pictures
<1>6. ASSUME Good(a, l, caller, Q, sum + Weight(m)) PROVE Takes(w, m, l, caller, outer)
  <2>1. m.kind \notin {"unsafe", "special"}
    BY <1>6 DEF Good
  <2>2. w.spent + Weight(m) <= l.expanded
    BY <1>5, <1>6 DEF Good
  <2>3. ASSUME Regular(m)
        PROVE  /\ m.size <= l.member /\ w.notices < l.notices
               /\ outer => w.layout # "nested"
               /\ Wanted(m, caller) /\ m.key \notin w.keys
    <3>1. p \in Found(a, l, Q) /\ Found(a, l, P) \subseteq Found(a, l, Q)
      BY <1>2, <2>3
    <3>2. m.size <= l.member /\ Wanted(m, caller)
      BY <1>6, <3>1 DEF Good
    <3>3. w.notices < l.notices
      <4>1. Cardinality(Found(a, l, Q)) <= l.notices
        BY <1>6 DEF Good
      <4> QED
        BY <1>2, <1>3, <1>5, <2>3, <4>1
    <3>4. outer => w.layout # "nested"
      <4>1. p \in Q /\ m.kind = "xml"
        BY <3>2 DEF Wanted
      <4>2. outer => OpenedIn(a, l, Q) = {}
        BY <1>6, <4>1 DEF Good
      <4> QED
        BY <1>2, <1>4, <4>2
    <3>5. m.key \notin w.keys
      <4>1. SUFFICES ASSUME m.key \in w.keys PROVE FALSE
        OBVIOUS
      <4>2. PICK q \in Found(a, l, P) : m.key = At(a, q).key
        BY <4>1 DEF Pictures
      <4>3. q = p
        BY <1>6, <3>1, <4>2 DEF Good
      <4> QED
        BY <1>2, <4>2, <4>3
    <3> QED
      BY <3>2, <3>3, <3>4, <3>5
  <2> QED
    BY <2>1, <2>2, <2>3 DEF Takes
<1>7. ASSUME Takes(w, m, l, caller, outer) PROVE Good(a, l, caller, Q, sum + Weight(m))
  <2>1. sum + Weight(m) <= l.expanded
    BY <1>5, <1>7 DEF Takes
  <2>2. /\ Cardinality(OpenedIn(a, l, Q)) <= l.container_count
        /\ \A i \in OpenedIn(a, l, Q) : a.members[i].size <= l.container
    BY <1>2 DEF Good
  <2>3. ASSUME NEW q \in Q
        PROVE  /\ At(a, q).kind \notin {"unsafe", "special"}
               /\ q[2] # 0 => At(a, q).kind # "container"
               /\ q[2] = 0 /\ OpenedIn(a, l, Q) # {} => At(a, q).kind # "xml"
    <3>1. CASE q \in P
      BY <1>2, <3>1 DEF Good
    <3>2. CASE q = p
      <4>1. m.kind \notin {"unsafe", "special"}
        BY <1>7 DEF Takes
      <4>2. m.kind = "container" => FALSE \/ p[2] = 0
        <5>1. m.kind = "container" => Regular(m) /\ ~ Wanted(m, caller)
          BY DEF Regular, Wanted
        <5> QED
          BY <1>7, <5>1 DEF Takes
      <4>3. p[2] = 0 /\ OpenedIn(a, l, Q) # {} => m.kind # "xml"
        <5>1. m.kind = "xml" => Regular(m)
          BY DEF Regular
        <5> QED
          BY <1>2, <1>4, <1>7, <5>1 DEF Takes
      <4> QED
        BY <3>2, <4>1, <4>2, <4>3
    <3> QED
      BY <3>1, <3>2
  <2>4. Cardinality(Found(a, l, Q)) <= l.notices
    <3>1. Cardinality(Found(a, l, P)) <= l.notices
      BY DEF Good
    <3>2. Regular(m) => w.notices < l.notices
      BY <1>7 DEF Takes
    <3> QED
      BY <1>2, <1>3, <1>5, <3>1, <3>2
  <2>5. ASSUME NEW q \in Found(a, l, Q)
        PROVE  At(a, q).size <= l.member /\ Wanted(At(a, q), caller)
    <3>1. q \in Found(a, l, P) \/ (q = p /\ Regular(m))
      BY <1>2
    <3> QED
      BY <1>7, <3>1 DEF Good, Takes
  <2>6. ASSUME NEW q \in Found(a, l, Q), NEW r \in Found(a, l, Q), At(a, q).key = At(a, r).key
        PROVE  q = r
    <3>1. q \in Found(a, l, P) \/ (q = p /\ Regular(m))
      BY <1>2
    <3>2. r \in Found(a, l, P) \/ (r = p /\ Regular(m))
      BY <1>2
    <3>3. Regular(m) => \A s \in Found(a, l, P) : At(a, s).key # m.key
      BY <1>7 DEF Takes, Pictures
    <3> QED
      BY <2>6, <3>1, <3>2, <3>3 DEF Good
  <2> HIDE DEF Q, m
  <2> QED
    BY <2>1, <2>2, <2>3, <2>4, <2>5, <2>6 DEF Good
<1> QED
  BY <1>6, <1>7

\* What it holds then.
LEMMA PlainPictures ==
    ASSUME NEW a, IsArchive(a), NEW l, IsLimits(l), NEW caller,
           NEW K, NEW w \in Walks(K, caller),
           NEW P, P \subseteq Places(a, l), IsFiniteSet(P), NEW sum \in Nat,
           NEW p \in Places(a, l), p \notin P, p[2] = 0 => p[1] \notin Opened(a, l),
           NEW outer \in BOOLEAN, outer <=> p[2] = 0,
           Pictures(a, l, w, P, sum), Takes(w, At(a, p), l, caller, outer)
    PROVE  Pictures(a, l, Taken(w, At(a, p), outer), P \cup {p}, sum + Weight(At(a, p)))
<1> DEFINE m == At(a, p)
           Q == P \cup {p}
           v == Taken(w, m, outer)
<1>1. /\ OpenedIn(a, l, Q) = OpenedIn(a, l, P)
      /\ \A q : q \in Found(a, l, Q) <=> q \in Found(a, l, P) \/ (q = p /\ Regular(m))
      /\ Cardinality(Found(a, l, Q)) = IF Regular(m) THEN Cardinality(Found(a, l, P)) + 1
                                      ELSE Cardinality(Found(a, l, P))
  <2> HIDE DEF m, Q
  <2>1. m = At(a, p) /\ Q = P \cup {p}
    BY DEF m, Q
  <2> QED
    BY <2>1, FoundGrows
<1>2. CASE Regular(m)
  <2>1. /\ v.spent = w.spent + Weight(m) /\ v.notices = w.notices + 1
        /\ v.containers = w.containers /\ v.keys = w.keys \cup {m.key}
        /\ v.layout = IF outer THEN "flat" ELSE w.layout
    BY <1>2 DEF Taken, Walks
  <2>2. m.kind = "xml" /\ (outer => w.layout # "nested")
    BY <1>2 DEF Takes, Wanted
  <2>3. w.keys = {At(a, q).key : q \in Found(a, l, P)}
    BY DEF Pictures
  <2>4. v.keys = {At(a, q).key : q \in Found(a, l, Q)}
    <3>1. \A q \in Found(a, l, Q) : q \in Found(a, l, P) \/ q = p
      BY <1>1
    <3>2. p \in Found(a, l, Q) /\ \A q \in Found(a, l, P) : q \in Found(a, l, Q)
      BY <1>1, <1>2
    <3> HIDE DEF Q, v, m
    <3>3. ASSUME NEW k \in v.keys PROVE \E q \in Found(a, l, Q) : k = At(a, q).key
      BY <2>1, <2>3, <3>2 DEF m
    <3>4. ASSUME NEW q \in Found(a, l, Q) PROVE At(a, q).key \in v.keys
      BY <2>1, <2>3, <3>1 DEF m
    <3> QED
      BY <3>3, <3>4
  <2>5. v.layout = "nested" <=> OpenedIn(a, l, Q) # {}
    BY <1>1, <2>1, <2>2 DEF Pictures
  <2>6. v.layout = "flat" <=> \E q \in Q : q[2] = 0 /\ At(a, q).kind = "xml"
    <3>1. CASE outer
      BY <2>1, <2>2, <3>1
    <3>2. CASE ~ outer
      BY <2>1, <3>2 DEF Pictures
    <3> QED
      BY <3>1, <3>2
  <2>7. v.spent = sum + Weight(m) /\ v.containers = Cardinality(OpenedIn(a, l, Q))
    BY <1>1, <2>1 DEF Pictures
  <2>8. v.notices = Cardinality(Found(a, l, Q))
    BY <1>1, <1>2, <2>1 DEF Pictures
  <2> HIDE DEF v, Q, m
  <2> QED
    BY <2>4, <2>5, <2>6, <2>7, <2>8 DEF Pictures, v, Q, m
<1>3. CASE ~ Regular(m)
  <2>1. /\ v.spent = w.spent + Weight(m) /\ v.notices = w.notices
        /\ v.containers = w.containers /\ v.keys = w.keys /\ v.layout = w.layout
    BY <1>3 DEF Taken, Walks
  <2>2. m.kind # "xml"
    BY <1>3 DEF Regular
  <2>3. (\E q \in Q : q[2] = 0 /\ At(a, q).kind = "xml") <=>
            (\E q \in P : q[2] = 0 /\ At(a, q).kind = "xml")
    BY <2>2
  <2>4. Found(a, l, Q) = Found(a, l, P)
    BY <1>1, <1>3
  <2>5. v.spent = sum + Weight(m)
    BY <2>1 DEF Pictures
  <2> HIDE DEF v, Q, m
  <2> QED
    BY <1>1, <2>1, <2>3, <2>4, <2>5 DEF Pictures, v, Q, m
<1> QED
  BY <1>2, <1>3

\* The containers are finitely many.
LEMMA OpenedIsFinite ==
    ASSUME NEW a, IsLayer(a), NEW l
    PROVE  IsFiniteSet(Opened(a, l))
<1>1. Len(a.members) \in Nat /\ DOMAIN a.members = 1..Len(a.members)
  BY LayerType
<1>2. IsFiniteSet(1..Len(a.members))
  BY <1>1, FS_Interval
<1>3. Opened(a, l) \in SUBSET (1..Len(a.members))
  BY <1>1 DEF Opened
<1> QED
  BY <1>2, <1>3, FS_Subset

\* The walk goes on over a member that is no container.
LEMMA PlainTracks ==
    ASSUME NEW a, IsArchive(a), NEW l, IsLimits(l), NEW caller,
           NEW K, NEW w \in Walks(K, caller),
           NEW P, P \subseteq Places(a, l), IsFiniteSet(P), NEW E, NEW sum \in Nat,
           NEW p \in Places(a, l), p \notin P, p[2] = 0 => p[1] \notin Opened(a, l),
           NEW outer \in BOOLEAN, outer <=> p[2] = 0,
           Tracks(a, l, caller, w, P, E, sum),
           NEW v, Clean(v) <=> Clean(w) /\ Takes(w, At(a, p), l, caller, outer),
           Clean(v) => Became(v, w, At(a, p), outer)
    PROVE  Tracks(a, l, caller, v, P \cup {p}, E, sum + Weight(At(a, p)))
<1> DEFINE Q == P \cup {p}
           more == sum + Weight(At(a, p))
<1>1. Weight(At(a, p)) \in Nat
  BY PlaceType, WeightType
<1>2. more \in Nat /\ sum <= more
  BY <1>1
<1>3. IsFiniteSet(Q) /\ P \subseteq Q
  BY FS_AddElement
<1>4. IsFiniteSet(Opened(a, l))
  BY OpenedIsFinite DEF IsArchive
<1>5. CASE Clean(w)
  <2>1. Good(a, l, caller, P, sum) /\ Padded(a, E) /\ Pictures(a, l, w, P, sum)
    BY <1>5 DEF Tracks
  <2>2. Good(a, l, caller, Q, more) <=> Takes(w, At(a, p), l, caller, outer)
    BY <2>1, PlainGood
  <2>3. Takes(w, At(a, p), l, caller, outer) =>
            Pictures(a, l, Taken(w, At(a, p), outer), Q, more)
    BY <2>1, PlainPictures
  <2> HIDE DEF Q, more
  <2> QED
    BY <1>5, <2>1, <2>2, <2>3 DEF Tracks, Q, more, Became
<1>6. CASE ~ Clean(w)
  <2> HIDE DEF Q, more
  <2>1. Good(a, l, caller, Q, more) => Good(a, l, caller, P, sum)
    BY <1>2, <1>3, <1>4, GoodShrinks
  <2> QED
    BY <1>6, <2>1 DEF Tracks, Q, more
<1> QED
  BY <1>5, <1>6

-----------------------------------------------------------------------------
(* Containers, and the ends of streams *)

\* What opening a container needs of a walk, header included, and what it makes of it.
Opens(w, m, l) ==
    /\ w.spent + Weight(m) <= l.expanded /\ w.layout # "flat"
    /\ w.containers < l.container_count /\ m.size <= l.container

Enters(w, m) ==
    [w EXCEPT !.spent = w.spent + Weight(m), !.layout = "nested",
              !.containers = w.containers + 1]

\* The header, the layout, the bytes of the container and its number.
LEMMA OpenStep ==
    ASSUME NEW K, NEW caller, NEW w \in Walks(K, caller), NEW l, IsLimits(l),
           NEW m, m.size \in Nat, m.kind = "container",
           NEW claimed, claimed = Claim(Spend(w, 1, l), "nested"),
           NEW opened, opened = [Spend(claimed, m.size, l) EXCEPT !.containers = @ + 1]
    PROVE  /\ claimed \in Walks(K, caller) /\ opened \in Walks(K, caller)
           /\ claimed.containers = w.containers
           /\ Clean(opened) => Clean(claimed)
           /\ Clean(opened) /\ claimed.containers < l.container_count /\ m.size <= l.container
                  <=> Clean(w) /\ Opens(w, m, l)
           /\ Clean(opened) => opened = Enters(w, m)
<1> DEFINE headed == Spend(w, 1, l)
           charged == Spend(claimed, m.size, l)
<1>1. /\ headed \in Walks(K, caller)
      /\ Clean(headed) <=> Clean(w) /\ w.spent + 1 <= l.expanded
      /\ Clean(headed) => headed = Charged(w, 1)
  BY SpendStep
<1>2. headed.layout = w.layout /\ headed.containers = w.containers
  BY DEF Spend, Walks
<1> HIDE DEF headed
<1>3. /\ claimed \in Walks(K, caller)
      /\ Clean(claimed) <=> Clean(headed) /\ headed.layout \in {"empty", "nested"}
      /\ headed.layout \in {"empty", "nested"} => claimed = [headed EXCEPT !.layout = "nested"]
  BY <1>1, ClaimStep DEF headed
<1>4. claimed.containers = w.containers
  BY <1>1, <1>2 DEF Claim, Fault, Walks, headed
<1>5. /\ charged \in Walks(K, caller)
      /\ Clean(charged) <=> Clean(claimed) /\ claimed.spent + m.size <= l.expanded
      /\ Clean(charged) => charged = Charged(claimed, m.size)
  BY <1>3, SpendStep
<1>6. charged.containers = w.containers
  BY <1>3, <1>4 DEF Spend, Walks
<1> HIDE DEF charged
<1>7. opened = [charged EXCEPT !.containers = w.containers + 1]
  BY <1>6 DEF charged
<1>8. opened \in Walks(K, caller) /\ (Clean(opened) <=> Clean(charged))
  BY <1>5, <1>7 DEF Walks, Clean
<1>9. /\ Regular(m) /\ Weight(m) = 1 + m.size /\ Weight(m) \in Nat
      /\ w.spent \in Nat /\ l.expanded \in Nat
  BY WeightType DEF Regular, Walks, IsLimits
<1>10. headed.layout \in {"empty", "nested"} <=> w.layout # "flat"
  BY <1>2 DEF Walks
<1>11. Clean(claimed) => claimed.spent = w.spent + 1
  BY <1>1, <1>3 DEF Charged, Walks
<1>12. Clean(opened) <=> Clean(w) /\ w.spent + Weight(m) <= l.expanded /\ w.layout # "flat"
  <2>1. Clean(claimed) =>
          (claimed.spent + m.size <= l.expanded <=> w.spent + Weight(m) <= l.expanded)
    BY <1>9, <1>11
  <2>2. w.spent + Weight(m) <= l.expanded => w.spent + 1 <= l.expanded
    BY <1>9
  <2> QED
    BY <1>1, <1>3, <1>5, <1>8, <1>10, <2>1, <2>2
<1>13. Clean(opened) => opened = Enters(w, m)
  <2>1. SUFFICES ASSUME Clean(opened) PROVE opened = Enters(w, m)
    OBVIOUS
  <2>2. Clean(charged) /\ Clean(claimed) /\ Clean(headed)
    BY <1>3, <1>5, <1>8, <2>1
  <2>3. claimed = [Charged(w, 1) EXCEPT !.layout = "nested"]
    BY <1>1, <1>3, <2>2
  <2>4. claimed = [w EXCEPT !.spent = w.spent + 1, !.layout = "nested"]
    BY <2>3 DEF Charged, Walks
  <2>5. (w.spent + 1) + m.size = w.spent + Weight(m)
    BY <1>9
  <2>6. charged = [w EXCEPT !.spent = w.spent + Weight(m), !.layout = "nested"]
    <3>1. charged = Charged(claimed, m.size)
      BY <1>5, <2>2
    <3>2. claimed.spent + m.size = w.spent + Weight(m)
      BY <1>11, <2>2, <2>5
    <3>3. charged = [claimed EXCEPT !.spent = w.spent + Weight(m)]
      BY <3>1, <3>2 DEF Charged
    <3> HIDE DEF charged
    <3> QED
      BY <2>4, <3>3 DEF Walks
  <2> QED
    BY <1>7, <2>6 DEF Enters, Walks
<1> QED
  BY <1>3, <1>4, <1>5, <1>8, <1>12, <1>13 DEF Opens

\* One more container.
LEMMA OpenedGrows ==
    ASSUME NEW a, NEW l, NEW P, NEW i \in Opened(a, l),
           NEW p, p = <<i, 0>>, NEW Q, Q = P \cup {p}
    PROVE  OpenedIn(a, l, Q) = OpenedIn(a, l, P) \cup {i}
<1>1. \A j : <<j, 0>> = p <=> j = i
  OBVIOUS
<1> QED
  BY <1>1 DEF OpenedIn

\* It is nothing that should be a notice.
LEMMA FoundStays ==
    ASSUME NEW a, NEW l, NEW P, NEW i \in Opened(a, l),
           NEW p, p = <<i, 0>>, NEW Q, Q = P \cup {p}
    PROVE  Found(a, l, Q) = Found(a, l, P)
<1>1. p[1] = i /\ p[2] = 0
  OBVIOUS
<1>2. p \notin Candidates(a, l)
  BY <1>1 DEF Candidates
<1> QED
  BY <1>2 DEF Found

\* A clean walk opens a container exactly when nothing is wrong with it and what came before.
LEMMA OpenGood ==
    ASSUME NEW a, IsArchive(a), NEW l, IsLimits(l), NEW caller,
           NEW K, NEW w \in Walks(K, caller), NEW P, NEW sum \in Nat,
           NEW i \in Opened(a, l), <<i, 0>> \notin P,
           Good(a, l, caller, P, sum), Pictures(a, l, w, P, sum),
           NEW p, p = <<i, 0>>, NEW Q, Q = P \cup {p}, NEW m, m = a.members[i]
    PROVE  /\ Good(a, l, caller, Q, sum + Weight(m)) <=> Opens(w, m, l)
           /\ Opens(w, m, l) => Pictures(a, l, Enters(w, m), Q, sum + Weight(m))
<1>1. /\ Found(a, l, Q) = Found(a, l, P)
      /\ \A j : j \in OpenedIn(a, l, Q) <=> j \in OpenedIn(a, l, P) \/ j = i
      /\ Cardinality(OpenedIn(a, l, P)) \in Nat
      /\ Cardinality(OpenedIn(a, l, Q)) = Cardinality(OpenedIn(a, l, P)) + 1
  <2>1. OpenedIn(a, l, Q) = OpenedIn(a, l, P) \cup {i}
    BY OpenedGrows
  <2>2. Found(a, l, Q) = Found(a, l, P)
    BY FoundStays
  <2>3. i \notin OpenedIn(a, l, P)
    BY DEF OpenedIn
  <2>4. IsFiniteSet(OpenedIn(a, l, P))
    <3>1. OpenedIn(a, l, P) \in SUBSET Opened(a, l) /\ IsFiniteSet(Opened(a, l))
      BY OpenedIsFinite DEF OpenedIn, IsArchive
    <3> QED
      BY <3>1, FS_Subset
  <2>5. /\ Cardinality(OpenedIn(a, l, P)) \in Nat
        /\ Cardinality(OpenedIn(a, l, Q)) = Cardinality(OpenedIn(a, l, P)) + 1
    BY <2>1, <2>3, <2>4, FS_AddElement, FS_CardinalityType
  <2> QED
    BY <2>1, <2>2, <2>5
<1>2. p[2] = 0 /\ At(a, p) = m /\ m.kind = "container"
  BY DEF At, Opened, IsOpened
<1>3. l.expanded \in Nat /\ l.container_count \in Nat
  BY DEF IsLimits
<1>4. /\ w.spent = sum /\ w.containers = Cardinality(OpenedIn(a, l, P))
      /\ w.layout = "flat" <=> \E q \in P : q[2] = 0 /\ At(a, q).kind = "xml"
  BY DEF Pictures
<1>5. OpenedIn(a, l, Q) # {} /\ i \in OpenedIn(a, l, Q)
  BY <1>1
<1>6. ASSUME Good(a, l, caller, Q, sum + Weight(m)) PROVE Opens(w, m, l)
  <2>1. w.spent + Weight(m) <= l.expanded /\ m.size <= l.container
    BY <1>4, <1>5, <1>6 DEF Good
  <2>2. w.containers < l.container_count
    BY <1>1, <1>3, <1>4, <1>6 DEF Good
  <2>3. w.layout # "flat"
    BY <1>4, <1>5, <1>6 DEF Good
  <2> QED
    BY <2>1, <2>2, <2>3 DEF Opens
<1>7. ASSUME Opens(w, m, l) PROVE Good(a, l, caller, Q, sum + Weight(m))
  <2>1. sum + Weight(m) <= l.expanded
    BY <1>4, <1>7 DEF Opens
  <2>2. Cardinality(OpenedIn(a, l, Q)) <= l.container_count
    BY <1>1, <1>3, <1>4, <1>7 DEF Opens
  <2>3. \A j \in OpenedIn(a, l, Q) : a.members[j].size <= l.container
    BY <1>1, <1>7 DEF Opens, Good
  <2>4. ASSUME NEW q \in Q
        PROVE  /\ At(a, q).kind \notin {"unsafe", "special"}
               /\ q[2] # 0 => At(a, q).kind # "container"
               /\ q[2] = 0 /\ OpenedIn(a, l, Q) # {} => At(a, q).kind # "xml"
    <3>1. CASE q = p
      BY <1>2, <3>1
    <3>2. CASE q \in P
      BY <1>4, <1>7, <3>2 DEF Opens, Good
    <3> QED
      BY <3>1, <3>2
  <2>5. /\ Cardinality(Found(a, l, Q)) <= l.notices
        /\ \A q \in Found(a, l, Q) : At(a, q).size <= l.member /\ Wanted(At(a, q), caller)
        /\ \A q, r \in Found(a, l, Q) : At(a, q).key = At(a, r).key => q = r
    BY <1>1 DEF Good
  <2> QED
    BY <2>1, <2>2, <2>3, <2>4, <2>5 DEF Good
<1>8. ASSUME Opens(w, m, l) PROVE Pictures(a, l, Enters(w, m), Q, sum + Weight(m))
  <2> DEFINE v == Enters(w, m)
  <2>1. /\ v.spent = w.spent + Weight(m) /\ v.notices = w.notices
        /\ v.containers = w.containers + 1 /\ v.keys = w.keys /\ v.layout = "nested"
    BY DEF Enters, Walks
  <2>2. ~ \E q \in Q : q[2] = 0 /\ At(a, q).kind = "xml"
    BY <1>2, <1>4, <1>8 DEF Opens
  <2>3. /\ w.notices = Cardinality(Found(a, l, Q))
        /\ w.keys = {At(a, q).key : q \in Found(a, l, Q)}
    BY <1>1 DEF Pictures
  <2>4. v.spent = sum + Weight(m) /\ v.containers = Cardinality(OpenedIn(a, l, Q))
    BY <1>1, <1>4, <2>1
  <2> HIDE DEF v
  <2> QED
    BY <1>5, <2>1, <2>2, <2>3, <2>4 DEF Pictures, v
<1> QED
  BY <1>6, <1>7, <1>8

\* To the end of a stream.
LEMMA DrainStep ==
    ASSUME NEW K, NEW caller, NEW w \in Walks(K, caller), NEW l, IsLimits(l),
           NEW b, b.padding \in Nat
    PROVE  /\ Drain(w, b, l) \in Walks(K, caller)
           /\ Clean(Drain(w, b, l)) <=>
                  Clean(w) /\ b.tail = "padding" /\ w.spent + b.padding <= l.expanded
           /\ Clean(Drain(w, b, l)) => Drain(w, b, l) = Charged(w, b.padding)
<1>1. CASE w.fault
  BY <1>1 DEF Drain, Clean
<1>2. CASE ~ w.fault /\ b.tail # "padding"
  <2>1. Drain(w, b, l) = Fault(w)
    BY <1>2 DEF Drain
  <2> QED
    BY <1>2, <2>1, FaultStep
<1>3. CASE ~ w.fault /\ b.tail = "padding"
  <2>1. Drain(w, b, l) = Spend(w, b.padding, l)
    BY <1>3 DEF Drain
  <2> QED
    BY <1>3, <2>1, SpendStep
<1> QED
  BY <1>1, <1>2, <1>3

\* More padding is wrong with a set of places only for the budget.
LEMMA GoodPadding ==
    ASSUME NEW a, NEW l, NEW caller, NEW P, NEW sum \in Nat, NEW n \in Nat, IsLimits(l)
    PROVE  Good(a, l, caller, P, sum + n) <=>
               Good(a, l, caller, P, sum) /\ sum + n <= l.expanded
<1>1. l.expanded \in Nat
  BY DEF IsLimits
<1>2. sum + n <= l.expanded => sum <= l.expanded
  BY <1>1
<1> QED
  BY <1>2 DEF Good

\* The walk goes on over the end of a container.
LEMMA DrainTracks ==
    ASSUME NEW a, NEW l, IsLimits(l), NEW caller, NEW K, NEW w \in Walks(K, caller),
           NEW P, NEW E, NEW sum \in Nat, NEW i,
           NEW b, b = a.members[i].inside, b.padding \in Nat,
           Tracks(a, l, caller, w, P, E, sum)
    PROVE  Tracks(a, l, caller, Drain(w, b, l), P, E \cup {i}, sum + b.padding)
<1> DEFINE v == Drain(w, b, l)
<1>1. /\ Clean(v) <=> Clean(w) /\ b.tail = "padding" /\ w.spent + b.padding <= l.expanded
      /\ Clean(v) => v = Charged(w, b.padding)
  BY DrainStep
<1> HIDE DEF v
<1>2. Padded(a, E \cup {i}) <=> Padded(a, E) /\ b.tail = "padding"
  BY DEF Padded
<1>3. Good(a, l, caller, P, sum + b.padding) <=>
          Good(a, l, caller, P, sum) /\ sum + b.padding <= l.expanded
  BY GoodPadding
<1>4. Clean(w) => w.spent = sum
  BY DEF Tracks, Pictures
<1>5. Clean(v) <=> Good(a, l, caller, P, sum + b.padding) /\ Padded(a, E \cup {i})
  BY <1>1, <1>2, <1>3, <1>4 DEF Tracks
<1>6. Clean(v) => Pictures(a, l, v, P, sum + b.padding)
  <2>1. SUFFICES ASSUME Clean(v) PROVE Pictures(a, l, v, P, sum + b.padding)
    OBVIOUS
  <2>2. v = Charged(w, b.padding) /\ Pictures(a, l, w, P, sum)
    BY <1>1, <2>1 DEF Tracks
  <2>3. /\ v.spent = w.spent + b.padding /\ v.notices = w.notices /\ v.keys = w.keys
        /\ v.containers = w.containers /\ v.layout = w.layout
    BY <2>2 DEF Charged, Walks
  <2> QED
    BY <2>2, <2>3 DEF Pictures
<1>7. Tracks(a, l, caller, v, P, E \cup {i}, sum + b.padding)
  BY <1>5, <1>6 DEF Tracks
<1> QED
  BY <1>7 DEF v

-----------------------------------------------------------------------------
(* One member after the other *)

\* All that a container holds is walked one member at a time.
NestedAll(w, b, l, caller) ==
    FoldLeft(LAMBDA v, m : Nested(v, m, l, caller), w, b.members)

NestedWalk(walk, W, w, b, n, l, caller) ==
    /\ walk \in [0..n -> W]
    /\ walk[0] = w
    /\ \A i \in 1..n : walk[i] = Nested(walk[i - 1], b.members[i], l, caller)
    /\ NestedAll(w, b, l, caller) = walk[n]

\* Any set that a member of a container does not lead out of holds the whole walk.
LEMMA NestedSteps ==
    ASSUME NEW W, NEW w \in W, NEW l, NEW caller, NEW b, NEW n \in Nat,
           DOMAIN b.members = 1..n,
           \A v \in W, i \in 1..n : Nested(v, b.members[i], l, caller) \in W
    PROVE  \E walk : NestedWalk(walk, W, w, b, n, l, caller)
<1> DEFINE Eq(f) == f = [d \in SUBSET (1..n) |->
                          IF d = {} THEN w
                          ELSE Nested(f[d \ {Max(d)}], b.members[Max(d)], l, caller)]
           iter == CHOOSE f : Eq(f)
           walk == [i \in 0..n |-> iter[1..i]]
<1>1. NestedAll(w, b, l, caller) = iter[1..n]
  BY DEF NestedAll, FoldLeft, MapThenFoldSet
<1>2. Eq(iter)
  <2> DEFINE step == [p \in W \X (1..n) |-> Nested(p[1], b.members[p[2]], l, caller)]
  <2>1. step \in [W \X (1..n) -> W]
    OBVIOUS
  <2>2. PICK f \in [SUBSET (1..n) -> W] : IsFold(f, w, n, step)
    <3> HIDE DEF step
    <3> QED
      BY <2>1, FoldExists
  <2>3. ASSUME NEW d \in SUBSET (1..n)
        PROVE  f[d] = IF d = {} THEN w
                      ELSE Nested(f[d \ {Max(d)}], b.members[Max(d)], l, caller)
    <3>1. CASE d = {}
      BY <2>2, <3>1 DEF IsFold
    <3>2. CASE d # {}
      <4>1. Max(d) \in 1..n
        BY <3>2, MaxIsIn
      <4>2. d \ {Max(d)} \in SUBSET (1..n) /\ f[d \ {Max(d)}] \in W
        BY <2>2
      <4>3. f[d] = step[<<f[d \ {Max(d)}], Max(d)>>]
        BY <2>2, <3>2 DEF IsFold
      <4> QED
        BY <3>2, <4>1, <4>2, <4>3
    <3> QED
      BY <3>1, <3>2
  <2>4. Eq(f)
    BY <2>3
  <2> QED
    BY <2>4
<1> HIDE DEF iter
<1>3. walk[0] = w
  <2>1. 1..0 = {} /\ 0 \in 0..n
    OBVIOUS
  <2>2. iter[{}] = w
    BY <1>2
  <2> QED
    BY <2>1, <2>2
<1>4. ASSUME NEW i \in 1..n PROVE walk[i] = Nested(walk[i - 1], b.members[i], l, caller)
  <2>1. /\ 1..i \in SUBSET (1..n) /\ 1..i # {} /\ Max(1..i) = i
        /\ (1..i) \ {i} = 1..i - 1 /\ i - 1 \in 0..n /\ i \in 0..n
    BY LastOfPrefix
  <2>2. iter[1..i] = Nested(iter[(1..i) \ {Max(1..i)}], b.members[Max(1..i)], l, caller)
    BY <1>2, <2>1
  <2>3. iter[1..i] = Nested(iter[1..i - 1], b.members[i], l, caller)
    BY <2>1, <2>2
  <2>4. walk[i] = iter[1..i] /\ walk[i - 1] = iter[1..i - 1]
    BY <2>1
  <2> QED
    BY <2>3, <2>4
<1>5. \A i \in 0..n : walk[i] \in W
  <2> DEFINE T == {i \in 0..n : walk[i] \in W}
  <2>1. 0 \in T
    BY <1>3
  <2>2. ASSUME NEW i \in 1..n, i - 1 \in T PROVE i \in T
    <3> HIDE DEF walk
    <3>1. walk[i - 1] \in W
      BY <2>2
    <3>2. walk[i] \in W
      BY <1>4, <3>1
    <3> QED
      BY <3>2
  <2> HIDE DEF T
  <2>3. \A i \in 0..n : i \in T
    BY <2>1, <2>2, Climb
  <2> QED
    BY <2>3 DEF T
<1>6. NestedAll(w, b, l, caller) = walk[n]
  BY <1>1
<1>7. walk \in [0..n -> W]
  BY <1>5
<1> HIDE DEF walk
<1> QED
  BY <1>3, <1>4, <1>6, <1>7 DEF NestedWalk

\* So is the archive.
MemberAll(w, b, l, caller) ==
    FoldLeft(LAMBDA v, m : Member(v, m, l, caller), w, b.members)

MemberWalk(walk, W, w, b, n, l, caller) ==
    /\ walk \in [0..n -> W]
    /\ walk[0] = w
    /\ \A i \in 1..n : walk[i] = Member(walk[i - 1], b.members[i], l, caller)
    /\ MemberAll(w, b, l, caller) = walk[n]

\* The same of the members of the archive.
LEMMA MemberSteps ==
    ASSUME NEW W, NEW w \in W, NEW l, NEW caller, NEW b, NEW n \in Nat,
           DOMAIN b.members = 1..n,
           \A v \in W, i \in 1..n : Member(v, b.members[i], l, caller) \in W
    PROVE  \E walk : MemberWalk(walk, W, w, b, n, l, caller)
<1> DEFINE Eq(f) == f = [d \in SUBSET (1..n) |->
                          IF d = {} THEN w
                          ELSE Member(f[d \ {Max(d)}], b.members[Max(d)], l, caller)]
           iter == CHOOSE f : Eq(f)
           walk == [i \in 0..n |-> iter[1..i]]
<1>1. MemberAll(w, b, l, caller) = iter[1..n]
  BY DEF MemberAll, FoldLeft, MapThenFoldSet
<1>2. Eq(iter)
  <2> DEFINE step == [p \in W \X (1..n) |-> Member(p[1], b.members[p[2]], l, caller)]
  <2>1. step \in [W \X (1..n) -> W]
    OBVIOUS
  <2>2. PICK f \in [SUBSET (1..n) -> W] : IsFold(f, w, n, step)
    <3> HIDE DEF step
    <3> QED
      BY <2>1, FoldExists
  <2>3. ASSUME NEW d \in SUBSET (1..n)
        PROVE  f[d] = IF d = {} THEN w
                      ELSE Member(f[d \ {Max(d)}], b.members[Max(d)], l, caller)
    <3>1. CASE d = {}
      BY <2>2, <3>1 DEF IsFold
    <3>2. CASE d # {}
      <4>1. Max(d) \in 1..n
        BY <3>2, MaxIsIn
      <4>2. d \ {Max(d)} \in SUBSET (1..n) /\ f[d \ {Max(d)}] \in W
        BY <2>2
      <4>3. f[d] = step[<<f[d \ {Max(d)}], Max(d)>>]
        BY <2>2, <3>2 DEF IsFold
      <4> QED
        BY <3>2, <4>1, <4>2, <4>3
    <3> QED
      BY <3>1, <3>2
  <2>4. Eq(f)
    BY <2>3
  <2> QED
    BY <2>4
<1> HIDE DEF iter
<1>3. walk[0] = w
  <2>1. 1..0 = {} /\ 0 \in 0..n
    OBVIOUS
  <2>2. iter[{}] = w
    BY <1>2
  <2> QED
    BY <2>1, <2>2
<1>4. ASSUME NEW i \in 1..n PROVE walk[i] = Member(walk[i - 1], b.members[i], l, caller)
  <2>1. /\ 1..i \in SUBSET (1..n) /\ 1..i # {} /\ Max(1..i) = i
        /\ (1..i) \ {i} = 1..i - 1 /\ i - 1 \in 0..n /\ i \in 0..n
    BY LastOfPrefix
  <2>2. iter[1..i] = Member(iter[(1..i) \ {Max(1..i)}], b.members[Max(1..i)], l, caller)
    BY <1>2, <2>1
  <2>3. iter[1..i] = Member(iter[1..i - 1], b.members[i], l, caller)
    BY <2>1, <2>2
  <2>4. walk[i] = iter[1..i] /\ walk[i - 1] = iter[1..i - 1]
    BY <2>1
  <2> QED
    BY <2>3, <2>4
<1>5. \A i \in 0..n : walk[i] \in W
  <2> DEFINE T == {i \in 0..n : walk[i] \in W}
  <2>1. 0 \in T
    BY <1>3
  <2>2. ASSUME NEW i \in 1..n, i - 1 \in T PROVE i \in T
    <3> HIDE DEF walk
    <3>1. walk[i - 1] \in W
      BY <2>2
    <3>2. walk[i] \in W
      BY <1>4, <3>1
    <3> QED
      BY <3>2
  <2> HIDE DEF T
  <2>3. \A i \in 0..n : i \in T
    BY <2>1, <2>2, Climb
  <2> QED
    BY <2>3 DEF T
<1>6. MemberAll(w, b, l, caller) = walk[n]
  BY <1>1
<1>7. walk \in [0..n -> W]
  BY <1>5
<1> HIDE DEF walk
<1> QED
  BY <1>3, <1>4, <1>6, <1>7 DEF MemberWalk

-----------------------------------------------------------------------------
(* A whole container *)

\* The walk goes on into a container.
LEMMA OpenTracks ==
    ASSUME NEW a, IsArchive(a), NEW l, IsLimits(l), NEW caller,
           NEW K, NEW w \in Walks(K, caller), NEW P, IsFiniteSet(P), NEW E, NEW sum \in Nat,
           NEW i \in Opened(a, l), <<i, 0>> \notin P, Tracks(a, l, caller, w, P, E, sum),
           NEW p, p = <<i, 0>>, NEW Q, Q = P \cup {p}, NEW m, m = a.members[i], m.size \in Nat
    PROVE  /\ Clean(w) /\ Opens(w, m, l) <=>
                  Good(a, l, caller, Q, sum + Weight(m)) /\ Padded(a, E)
           /\ Clean(w) /\ Opens(w, m, l) => Pictures(a, l, Enters(w, m), Q, sum + Weight(m))
<1>1. CASE Clean(w)
  <2>1. Good(a, l, caller, P, sum) /\ Padded(a, E) /\ Pictures(a, l, w, P, sum)
    BY <1>1 DEF Tracks
  <2>2. /\ Good(a, l, caller, Q, sum + Weight(m)) <=> Opens(w, m, l)
        /\ Opens(w, m, l) => Pictures(a, l, Enters(w, m), Q, sum + Weight(m))
    BY <2>1, OpenGood
  <2> QED
    BY <1>1, <2>1, <2>2
<1>2. CASE ~ Clean(w)
  <2> DEFINE more == sum + Weight(m)
  <2>1. more \in Nat /\ sum <= more
    BY WeightType
  <2>2. IsFiniteSet(Q) /\ P \subseteq Q
    BY FS_AddElement
  <2>3. IsFiniteSet(Opened(a, l))
    BY OpenedIsFinite DEF IsArchive
  <2> HIDE DEF more
  <2>4. Good(a, l, caller, Q, more) => Good(a, l, caller, P, sum)
    BY <2>1, <2>2, <2>3, GoodShrinks
  <2> QED
    BY <1>2, <2>4 DEF Tracks, more
<1> QED
  BY <1>1, <1>2

\* The keys of all that may be read.
KeysIn(a, l, K) == \A p \in Places(a, l) : At(a, p).key \in K

\* What is inside a container is at places of its own.
LEMMA InsideType ==
    ASSUME NEW a, IsArchive(a), NEW l, NEW i \in Opened(a, l)
    PROVE  /\ i \in DOMAIN a.members /\ a.members[i].kind = "container"
           /\ l.container_count > 0
           /\ a.members[i].size \in Nat /\ IsLayer(a.members[i].inside)
           /\ <<i, 0>> \in Places(a, l) /\ At(a, <<i, 0>>) = a.members[i]
<1>1. i \in DOMAIN a.members /\ a.members[i].kind = "container" /\ l.container_count > 0
  BY DEF Opened, IsOpened
<1>2. a.members[i] \in Range(a.members)
  BY <1>1 DEF Range
<1>3. a.members[i].size \in Nat /\ IsLayer(a.members[i].inside)
  BY <1>1, <1>2 DEF IsArchive, IsLayer
<1>4. <<i, 0>> \in Places(a, l) /\ At(a, <<i, 0>>) = a.members[i]
  BY <1>1 DEF Places, At
<1> QED
  BY <1>1, <1>3, <1>4

\* The j-th member inside is at the j-th of them.
LEMMA InsidePlaces ==
    ASSUME NEW a, IsArchive(a), NEW l, NEW i \in Opened(a, l),
           NEW j \in 1..Len(a.members[i].inside.members)
    PROVE  <<i, j>> \in Places(a, l) /\ At(a, <<i, j>>) = a.members[i].inside.members[j]
<1>1. IsLayer(a.members[i].inside)
  BY InsideType
<1>2. j \in DOMAIN a.members[i].inside.members /\ j # 0
  BY <1>1, LayerType
<1>3. <<i, j>> \in {<<i, k>> : k \in DOMAIN a.members[i].inside.members}
  BY <1>2
<1>4. <<i, j>> \in Places(a, l)
  BY <1>3 DEF Places
<1> QED
  BY <1>2, <1>4 DEF At

\* A container is refused at once, or walked from its first member to its end.
Entered(a, l, caller, K, w, i, walk) ==
    LET m == a.members[i]
        n == Len(m.inside.members)
    IN  /\ walk \in [0..n -> Walks(K, caller)]
        /\ Clean(walk[0]) <=> Clean(w) /\ Opens(w, m, l)
        /\ Clean(walk[0]) => walk[0] = Enters(w, m)
        /\ \A j \in 1..n : walk[j] = Nested(walk[j - 1], m.inside.members[j], l, caller)
        /\ Member(w, m, l, caller) = Drain(walk[n], m.inside, l)

\* A container that cannot be opened ends a clean walk.
LEMMA ContainerStep ==
    ASSUME NEW a, IsArchive(a), NEW l, IsLimits(l), NEW caller,
           NEW K, KeysIn(a, l, K), NEW w \in Walks(K, caller), NEW i \in Opened(a, l)
    PROVE  \/ /\ Member(w, a.members[i], l, caller) \in Walks(K, caller)
              /\ ~ Clean(Member(w, a.members[i], l, caller))
              /\ ~ (Clean(w) /\ Opens(w, a.members[i], l))
           \/ \E walk : Entered(a, l, caller, K, w, i, walk)
<1> DEFINE m == a.members[i]
           b == m.inside
           n == Len(b.members)
           headed == Spend(w, 1, l)
           claimed == Claim(headed, "nested")
           opened == [Spend(claimed, m.size, l) EXCEPT !.containers = @ + 1]
           refused == \/ w.fault \/ headed.fault \/ claimed.fault
                      \/ claimed.containers >= l.container_count \/ m.size > l.container
<1>1. /\ m.kind = "container" /\ l.container_count > 0 /\ m.size \in Nat /\ IsLayer(b)
      /\ \A j \in 1..n : <<i, j>> \in Places(a, l) /\ At(a, <<i, j>>) = b.members[j]
  <2>1. m.kind = "container" /\ l.container_count > 0 /\ m.size \in Nat /\ IsLayer(b)
    BY InsideType
  <2>2. \A j \in 1..n : <<i, j>> \in Places(a, l) /\ At(a, <<i, j>>) = b.members[j]
    BY InsidePlaces
  <2> QED
    BY <2>1, <2>2
<1>2. /\ n \in Nat /\ DOMAIN b.members = 1..n /\ b.padding \in Nat
      /\ \A j \in 1..n : b.members[j].size \in Nat
  BY <1>1, LayerType
<1>3. Member(w, m, l, caller) =
        IF w.fault THEN w
        ELSE IF headed.fault THEN Fault(headed)
        ELSE Container(claimed, m, l, caller)
  BY <1>1 DEF Member
<1>4. Container(claimed, m, l, caller) =
        IF claimed.fault \/ claimed.containers >= l.container_count \/ m.size > l.container
        THEN Fault(claimed)
        ELSE Drain(NestedAll(opened, b, l, caller), b, l)
  BY DEF Container, NestedAll
<1>5. headed \in Walks(K, caller)
  BY SpendStep
<1>6. claimed.fault <=> headed.fault \/ headed.layout \notin {"empty", "nested"}
  <2> HIDE DEF headed
  <2> QED
    BY <1>5, ClaimStep
<1>7. /\ claimed \in Walks(K, caller) /\ opened \in Walks(K, caller)
      /\ Clean(opened) => Clean(claimed)
      /\ Clean(opened) /\ claimed.containers < l.container_count /\ m.size <= l.container
             <=> Clean(w) /\ Opens(w, m, l)
      /\ Clean(opened) => opened = Enters(w, m)
  <2> HIDE DEF claimed, opened, m
  <2>1. /\ claimed = Claim(Spend(w, 1, l), "nested")
        /\ opened = [Spend(claimed, m.size, l) EXCEPT !.containers = @ + 1]
    BY DEF claimed, opened
  <2> QED
    BY <1>1, <2>1, OpenStep
<1>8. l.container_count \in Nat /\ l.container \in Nat
  BY DEF IsLimits
<1>9. claimed.containers \in Nat
  BY <1>7 DEF Walks
<1>10. CASE refused
  <2> HIDE DEF m, headed, claimed, opened
  <2>1. ~ (Clean(w) /\ Opens(w, m, l))
    BY <1>1, <1>6, <1>7, <1>8, <1>9, <1>10 DEF Clean
  <2>2. Member(w, m, l, caller) \in Walks(K, caller) /\ ~ Clean(Member(w, m, l, caller))
    <3>1. CASE w.fault
      BY <1>3, <3>1 DEF Clean
    <3>2. CASE ~ w.fault /\ headed.fault
      BY <1>3, <1>5, <3>2, FaultStep
    <3>3. CASE ~ w.fault /\ ~ headed.fault
      <4>1. Member(w, m, l, caller) = Fault(claimed)
        BY <1>3, <1>4, <1>10, <3>3
      <4> QED
        BY <1>7, <4>1, FaultStep
    <3> QED
      BY <3>1, <3>2, <3>3
  <2> QED
    BY <2>1, <2>2 DEF m
<1>11. CASE ~ refused
  <2>1. Member(w, m, l, caller) = Drain(NestedAll(opened, b, l, caller), b, l)
    BY <1>3, <1>4, <1>11
  <2>2. \A v \in Walks(K, caller), j \in 1..n :
          Nested(v, b.members[j], l, caller) \in Walks(K, caller)
    BY <1>1, <1>2, NestedStep DEF KeysIn
  <2> HIDE DEF b, opened, n, claimed, headed, m
  <2>3. PICK walk : NestedWalk(walk, Walks(K, caller), opened, b, n, l, caller)
    BY <1>2, <1>7, <2>2, NestedSteps
  <2>4. claimed.containers < l.container_count /\ m.size <= l.container
    BY <1>1, <1>8, <1>9, <1>11
  <2>5. Clean(walk[0]) <=> Clean(w) /\ Opens(w, m, l)
    BY <1>7, <2>3, <2>4 DEF NestedWalk
  <2>6. Clean(walk[0]) => walk[0] = Enters(w, m)
    BY <1>7, <2>3 DEF NestedWalk
  <2>7. Member(w, m, l, caller) = Drain(walk[n], b, l)
    BY <2>1, <2>3 DEF NestedWalk
  <2>8. Entered(a, l, caller, K, w, i, walk)
    BY <2>3, <2>5, <2>6, <2>7 DEF NestedWalk, Entered, b, n, m
  <2> QED
    BY <2>8
<1> QED
  BY <1>10, <1>11

\* The places of a container and of the first j members inside.
Inside(i, j) == {<<i, k>> : k \in 0..j}

\* They grow one at a time.
LEMMA InsideGrows ==
    ASSUME NEW i, NEW j \in Nat, j # 0
    PROVE  Inside(i, j) = Inside(i, j - 1) \cup {<<i, j>>} /\ <<i, j>> \notin Inside(i, j - 1)
<1>1. 0..j = (0..j - 1) \cup {j} /\ j \notin 0..j - 1
  OBVIOUS
<1>2. \A k : <<i, k>> = <<i, j>> <=> k = j
  OBVIOUS
<1> HIDE DEF Inside
<1>3. Inside(i, j) = Inside(i, j - 1) \cup {<<i, j>>}
  BY <1>1 DEF Inside
<1>4. <<i, j>> \notin Inside(i, j - 1)
  BY <1>1, <1>2 DEF Inside
<1> QED
  BY <1>3, <1>4

\* What is given of a container, of the places before it and of the sizes inside it.
Facing(a, l, K, P, i, m, n, inside) ==
    /\ i \in Opened(a, l) /\ m = a.members[i] /\ n = Len(m.inside.members)
    /\ KeysIn(a, l, K)
    /\ P \subseteq Places(a, l) /\ IsFiniteSet(P) /\ \A k \in Nat : <<i, k>> \notin P
    /\ inside \in [0..n -> Nat] /\ inside[0] = 0
    /\ \A j \in 1..n : inside[j] = inside[j - 1] + Weight(m.inside.members[j])

\* The places that are read after the first j members inside.
Upto(P, i, j) == P \cup Inside(i, j)

\* They are finitely many.
LEMMA InsideIsFinite ==
    ASSUME NEW i, NEW j \in Nat
    PROVE  IsFiniteSet(Inside(i, j))
<1> DEFINE f == [k \in 0..j |-> <<i, k>>]
<1>1. IsFiniteSet(0..j)
  BY FS_Interval
<1>2. f \in Surjection(0..j, Inside(i, j))
  BY DEF Surjection, Inside
<1> HIDE DEF f
<1> QED
  BY <1>1, <1>2, FS_Surjection

\* At first that is the container itself.
LEMMA UptoStarts ==
    ASSUME NEW P, NEW i
    PROVE  Upto(P, i, 0) = P \cup {<<i, 0>>}
<1>1. 0..0 = {0}
  OBVIOUS
<1>2. Inside(i, 0) = {<<i, 0>>}
  BY <1>1 DEF Inside
<1> QED
  BY <1>2 DEF Upto

\* They are places of the archive.
LEMMA UptoType ==
    ASSUME NEW a, IsArchive(a), NEW l, NEW K, NEW P, NEW i, NEW m, NEW n, NEW inside,
           Facing(a, l, K, P, i, m, n, inside), NEW j \in 0..n
    PROVE  IsFiniteSet(Upto(P, i, j)) /\ Upto(P, i, j) \subseteq Places(a, l)
<1>1. i \in Opened(a, l) /\ m = a.members[i] /\ IsFiniteSet(P) /\ P \subseteq Places(a, l)
  BY DEF Facing
<1>2. <<i, 0>> \in Places(a, l) /\ IsLayer(m.inside)
  BY <1>1, InsideType
<1>3. n \in Nat
  BY <1>2, LayerType DEF Facing
<1>4. \A k \in 1..n : <<i, k>> \in Places(a, l)
  BY <1>1, InsidePlaces DEF Facing
<1>5. \A k \in 0..n : <<i, k>> \in Places(a, l)
  <2>1. \A k \in 0..n : k = 0 \/ k \in 1..n
    BY <1>3
  <2> QED
    BY <1>2, <1>4, <2>1
<1>6. Inside(i, j) \subseteq Places(a, l)
  BY <1>3, <1>5 DEF Inside
<1>7. IsFiniteSet(Inside(i, j))
  <2>1. j \in Nat
    BY <1>3
  <2> QED
    BY <2>1, InsideIsFinite
<1> QED
  BY <1>1, <1>6, <1>7, FS_Union DEF Upto

\* One more member of a container.
LEMMA InnerTracks ==
    ASSUME NEW a, IsArchive(a), NEW l, IsLimits(l), NEW caller,
           NEW K, NEW P, NEW i, NEW m, NEW n, NEW inside, NEW sum \in Nat,
           Facing(a, l, K, P, i, m, n, inside), NEW E,
           NEW j \in 1..n, NEW w \in Walks(K, caller),
           Tracks(a, l, caller, w, Upto(P, i, j - 1), E, sum + inside[j - 1])
    PROVE  Tracks(a, l, caller, Nested(w, m.inside.members[j], l, caller), Upto(P, i, j), E,
                  sum + inside[j])
<1> DEFINE p == <<i, j>>
           x == m.inside.members[j]
           v == Nested(w, x, l, caller)
           before == Upto(P, i, j - 1)
           after == Upto(P, i, j)
           outer == FALSE
           had == sum + inside[j - 1]
<1>1. i \in Opened(a, l) /\ m = a.members[i] /\ n = Len(m.inside.members) /\ KeysIn(a, l, K)
  BY DEF Facing
<1>2. IsLayer(m.inside)
  BY <1>1, InsideType
<1>3. n \in Nat
  BY <1>1, <1>2, LayerType
<1>4. j \in Nat /\ j # 0 /\ j - 1 \in 0..n /\ j \in 0..n
  BY <1>3
<1>5. p \in Places(a, l) /\ At(a, p) = x
  BY <1>1, InsidePlaces
<1>6. p[2] = j
  OBVIOUS
<1>7. after = before \cup {p} /\ p \notin before
  <2>1. Inside(i, j) = Inside(i, j - 1) \cup {p} /\ p \notin Inside(i, j - 1)
    BY <1>4, InsideGrows
  <2>2. p \notin P
    BY <1>4 DEF Facing
  <2> QED
    BY <2>1, <2>2 DEF Upto
<1>8. IsFiniteSet(before) /\ before \subseteq Places(a, l)
  BY <1>4, UptoType
<1>9. x.size \in Nat /\ x.key \in K
  BY <1>1, <1>5, PlaceType DEF KeysIn
<1>10. /\ v \in Walks(K, caller)
       /\ Clean(v) <=> Clean(w) /\ Takes(w, x, l, caller, outer)
       /\ Clean(v) => Became(v, w, x, outer)
  <2>1. outer \in BOOLEAN /\ ~ outer /\ v = Nested(w, x, l, caller)
    OBVIOUS
  <2> HIDE DEF x, v, outer
  <2> QED
    BY <1>9, <2>1, NestedStep
<1>11. had \in Nat /\ sum + inside[j] = had + Weight(x)
  <2>1. sum \in Nat /\ inside[j - 1] \in Nat /\ inside[j] = inside[j - 1] + Weight(x)
    BY <1>4 DEF Facing
  <2>2. Weight(x) \in Nat
    BY <1>9, WeightType
  <2> QED
    BY <2>1, <2>2
<1>12. outer \in BOOLEAN /\ (outer <=> p[2] = 0)
  BY <1>4, <1>6
<1>13. Tracks(a, l, caller, w, before, E, had)
  OBVIOUS
<1> HIDE DEF v, before, after, had, outer, x, p
<1>14. Tracks(a, l, caller, v, before \cup {p}, E, had + Weight(At(a, p)))
  <2>1. p[2] = 0 => p[1] \notin Opened(a, l)
    BY <1>4, <1>6
  <2>2. Clean(v) <=> Clean(w) /\ Takes(w, At(a, p), l, caller, outer)
    BY <1>5, <1>10
  <2>3. Clean(v) => Became(v, w, At(a, p), outer)
    BY <1>5, <1>10
  <2> QED
    BY <1>5, <1>7, <1>8, <1>11, <1>12, <1>13, <2>1, <2>2, <2>3, PlainTracks
<1>15. Tracks(a, l, caller, v, after, E, sum + inside[j])
  BY <1>5, <1>7, <1>11, <1>14
<1> QED
  BY <1>15 DEF v, after, x

\* The container itself.
LEMMA EntryTracks ==
    ASSUME NEW a, IsArchive(a), NEW l, IsLimits(l), NEW caller,
           NEW K, NEW P, NEW i, NEW m, NEW n, NEW inside, NEW sum \in Nat,
           Facing(a, l, K, P, i, m, n, inside), NEW E, NEW w \in Walks(K, caller),
           Tracks(a, l, caller, w, P, E, sum)
    PROVE  /\ Clean(w) /\ Opens(w, m, l) <=>
                  Good(a, l, caller, Upto(P, i, 0), sum + Weight(m)) /\ Padded(a, E)
           /\ Clean(w) /\ Opens(w, m, l) =>
                  Pictures(a, l, Enters(w, m), Upto(P, i, 0), sum + Weight(m))
<1> DEFINE p == <<i, 0>>
           Q == Upto(P, i, 0)
<1>1. i \in Opened(a, l) /\ m = a.members[i] /\ IsFiniteSet(P)
  BY DEF Facing
<1>2. m.size \in Nat
  BY <1>1, InsideType
<1>3. Q = P \cup {p}
  BY UptoStarts
<1>4. <<i, 0>> \notin P
  <2>1. 0 \in Nat
    OBVIOUS
  <2> QED
    BY <2>1 DEF Facing
<1>5. p = <<i, 0>>
  OBVIOUS
<1> HIDE DEF Q, p
<1>6. /\ Clean(w) /\ Opens(w, m, l) <=>
             Good(a, l, caller, Q, sum + Weight(m)) /\ Padded(a, E)
      /\ Clean(w) /\ Opens(w, m, l) => Pictures(a, l, Enters(w, m), Q, sum + Weight(m))
  BY <1>1, <1>2, <1>3, <1>4, <1>5, OpenTracks
<1> QED
  BY <1>6 DEF Q

\* The walk goes on over a container, to its end.
LEMMA ContainerTracks ==
    ASSUME NEW a, IsArchive(a), NEW l, IsLimits(l), NEW caller,
           NEW K, NEW P, NEW i, NEW m, NEW n, NEW inside, NEW sum \in Nat,
           Facing(a, l, K, P, i, m, n, inside), NEW E, NEW w \in Walks(K, caller),
           Tracks(a, l, caller, w, P, E, sum),
           NEW v, v = Member(w, m, l, caller), NEW whole,
           whole = ((sum + Weight(m)) + inside[n]) + m.inside.padding
    PROVE  /\ v \in Walks(K, caller)
           /\ Tracks(a, l, caller, v, Upto(P, i, n), E \cup {i}, whole)
<1> DEFINE first == sum + Weight(m)
           b == m.inside
<1>1. /\ i \in Opened(a, l) /\ m = a.members[i] /\ n = Len(b.members) /\ KeysIn(a, l, K)
  BY DEF Facing
<1>2. IsLayer(b) /\ m.size \in Nat
  BY <1>1, InsideType
<1>3. n \in Nat /\ b.padding \in Nat /\ 0 \in 0..n /\ n \in 0..n
  BY <1>1, <1>2, LayerType
<1>4. first \in Nat /\ inside[n] \in Nat /\ inside[0] = 0 /\ inside \in [0..n -> Nat]
  <2>1. inside[0] = 0 /\ inside \in [0..n -> Nat]
    BY DEF Facing
  <2>2. Weight(m) \in Nat
    BY <1>2, WeightType
  <2> QED
    BY <1>3, <2>1, <2>2
<1>5. first + inside[n] \in Nat /\ whole = (first + inside[n]) + b.padding
  BY <1>4
<1>6. /\ Clean(w) /\ Opens(w, m, l) <=>
             Good(a, l, caller, Upto(P, i, 0), first) /\ Padded(a, E)
      /\ Clean(w) /\ Opens(w, m, l) => Pictures(a, l, Enters(w, m), Upto(P, i, 0), first)
  BY EntryTracks
<1> HIDE DEF first, b
<1>7. CASE v \in Walks(K, caller) /\ ~ Clean(v) /\ ~ (Clean(w) /\ Opens(w, m, l))
  <2> DEFINE Q == Upto(P, i, 0)
             R == Upto(P, i, n)
  <2>1. ASSUME Good(a, l, caller, R, whole), Padded(a, E \cup {i}) PROVE FALSE
    <3>1. Q \subseteq R
      <4>1. 0..0 \subseteq 0..n
        BY <1>3
      <4> QED
        BY <4>1 DEF Upto, Inside
    <3>2. IsFiniteSet(R)
      BY <1>3, UptoType
    <3>3. IsFiniteSet(Opened(a, l))
      BY OpenedIsFinite DEF IsArchive
    <3>4. whole \in Nat /\ first <= whole
      BY <1>3, <1>4, <1>5
    <3> HIDE DEF Q, R
    <3>5. Good(a, l, caller, Q, first)
      BY <1>4, <2>1, <3>1, <3>2, <3>3, <3>4, GoodShrinks
    <3>6. Padded(a, E)
      BY <2>1 DEF Padded
    <3> QED
      BY <1>6, <1>7, <3>5, <3>6 DEF Q
  <2> HIDE DEF R
  <2>2. Tracks(a, l, caller, v, R, E \cup {i}, whole)
    BY <1>7, <2>1 DEF Tracks
  <2> QED
    BY <1>7, <2>2 DEF R
<1>8. CASE \E walk : Entered(a, l, caller, K, w, i, walk)
  <2>1. PICK walk : Entered(a, l, caller, K, w, i, walk)
    BY <1>8
  <2>2. /\ walk \in [0..n -> Walks(K, caller)]
        /\ Clean(walk[0]) <=> Clean(w) /\ Opens(w, m, l)
        /\ Clean(walk[0]) => walk[0] = Enters(w, m)
        /\ \A j \in 1..n : walk[j] = Nested(walk[j - 1], b.members[j], l, caller)
        /\ v = Drain(walk[n], b, l)
    BY <1>1, <2>1 DEF Entered, b
  <2> DEFINE Held(j) == Tracks(a, l, caller, walk[j], Upto(P, i, j), E, first + inside[j])
             T == {j \in 0..n : Held(j)}
  <2>3. 0 \in T
    <3>1. first + inside[0] = first
      BY <1>4
    <3>2. Held(0)
      BY <1>6, <2>2, <3>1 DEF Tracks
    <3> QED
      BY <1>3, <3>2
  <2>4. ASSUME NEW j \in 1..n, j - 1 \in T PROVE j \in T
    <3>1. j - 1 \in 0..n /\ j \in 0..n /\ Held(j - 1)
      BY <2>4
    <3> DEFINE u == walk[j - 1]
    <3>2. u \in Walks(K, caller)
      BY <2>2, <3>1
    <3>3. Tracks(a, l, caller, u, Upto(P, i, j - 1), E, first + inside[j - 1])
      BY <3>1
    <3>4. walk[j] = Nested(u, m.inside.members[j], l, caller)
      BY <2>2 DEF b
    <3> HIDE DEF u, T
    <3>5. Tracks(a, l, caller, Nested(u, m.inside.members[j], l, caller), Upto(P, i, j), E,
                 first + inside[j])
      BY <1>4, <3>2, <3>3, InnerTracks
    <3>6. Held(j)
      BY <3>4, <3>5
    <3> HIDE DEF Held
    <3> QED
      BY <3>1, <3>6 DEF T
  <2>5. Held(n)
    <3> HIDE DEF T
    <3>1. n \in T
      BY <1>3, <2>3, <2>4, Climb
    <3> QED
      BY <3>1 DEF T
  <2>6. walk[n] \in Walks(K, caller)
    BY <1>3, <2>2
  <2>7. v \in Walks(K, caller)
    BY <1>3, <2>2, <2>6, DrainStep
  <2> DEFINE u == walk[n]
             Q == Upto(P, i, n)
             had == first + inside[n]
  <2>8. /\ u \in Walks(K, caller) /\ had \in Nat /\ b = a.members[i].inside
        /\ v = Drain(u, b, l) /\ whole = had + b.padding
    BY <1>1, <1>5, <2>2, <2>6 DEF b
  <2>9. Tracks(a, l, caller, u, Q, E, had)
    BY <2>5
  <2> HIDE DEF u, Q, had, Held, T
  <2>10. Tracks(a, l, caller, Drain(u, b, l), Q, E \cup {i}, had + b.padding)
    BY <1>3, <2>8, <2>9, DrainTracks
  <2> QED
    BY <2>7, <2>8, <2>10 DEF Q
<1>9. \/ v \in Walks(K, caller) /\ ~ Clean(v) /\ ~ (Clean(w) /\ Opens(w, m, l))
      \/ \E walk : Entered(a, l, caller, K, w, i, walk)
  BY <1>1, ContainerStep
<1> QED
  BY <1>7, <1>8, <1>9

-----------------------------------------------------------------------------
(* A whole archive *)

\* What a container expands to, one member at a time.
LEMMA ContentSteps ==
    ASSUME NEW b, IsLayer(b), NEW n, n = Len(b.members)
    PROVE  \E inside \in [0..n -> Nat] :
               /\ inside[0] = 0
               /\ \A j \in 1..n : inside[j] = inside[j - 1] + Weight(b.members[j])
               /\ Content(b) = inside[n] + b.padding
<1> DEFINE sizes == [j \in DOMAIN b.members |-> Weight(b.members[j])]
<1>1. n \in Nat /\ DOMAIN b.members = 1..n /\ b.padding \in Nat
  BY LayerType
<1>2. \A j \in 1..n : Weight(b.members[j]) \in Nat
  BY LayerType, WeightType
<1>3. sizes \in [1..n -> Nat]
  BY <1>1, <1>2
<1>4. \A j \in 1..n : sizes[j] = Weight(b.members[j])
  BY <1>1
<1>5. Content(b) = b.padding + Total(sizes)
  BY DEF Content
<1> HIDE DEF sizes
<1>6. PICK inside \in [0..n -> Nat] :
          /\ inside[0] = 0
          /\ \A j \in 1..n : inside[j] = inside[j - 1] + sizes[j]
          /\ Total(sizes) = inside[n]
  BY <1>1, <1>3, TotalSteps
<1>7. \A j \in 1..n : inside[j] = inside[j - 1] + Weight(b.members[j])
  BY <1>4, <1>6
<1>8. Content(b) = inside[n] + b.padding
  <2>1. n \in 0..n
    BY <1>1
  <2>2. inside[n] \in Nat
    BY <1>6, <2>1
  <2> QED
    BY <1>1, <1>5, <1>6, <2>2
<1> QED
  BY <1>6, <1>7, <1>8

\* The places of the first i members of the archive and of what is inside them, and the
\* containers among them.
Before(a, l, i) == {p \in Places(a, l) : p[1] \in 1..i}
OpenedBefore(a, l, i) == {k \in Opened(a, l) : k \in 1..i}

\* A member that is no container adds its own place.
LEMMA PlainBefore ==
    ASSUME NEW a, IsArchive(a), NEW l, NEW i \in DOMAIN a.members, i \notin Opened(a, l)
    PROVE  /\ Before(a, l, i) = Before(a, l, i - 1) \cup {<<i, 0>>}
           /\ OpenedBefore(a, l, i) = OpenedBefore(a, l, i - 1)
<1>1. DOMAIN a.members = 1..Len(a.members) /\ Len(a.members) \in Nat
  BY LayerType DEF IsArchive
<1>2. \A k \in Nat : k \in 1..i <=> k \in 1..i - 1 \/ k = i
  BY <1>1
<1>3. <<i, 0>> \in Places(a, l)
  BY DEF Places
<1>4. ASSUME NEW p \in Places(a, l), p[1] = i PROVE p = <<i, 0>>
  BY <1>4, PlaceType
<1>5. \A p \in Places(a, l) : p[1] \in Nat
  BY <1>1, PlaceType
<1>6. \A k \in Opened(a, l) : k \in Nat
  BY <1>1 DEF Opened
<1>7. <<i, 0>>[1] = i
  OBVIOUS
<1>8. Before(a, l, i) = Before(a, l, i - 1) \cup {<<i, 0>>}
  BY <1>2, <1>3, <1>4, <1>5, <1>7 DEF Before
<1>9. OpenedBefore(a, l, i) = OpenedBefore(a, l, i - 1)
  BY <1>2, <1>6 DEF OpenedBefore
<1> QED
  BY <1>8, <1>9

\* A container adds its own place and all that are inside.
LEMMA ContainerBefore ==
    ASSUME NEW a, IsArchive(a), NEW l, NEW i \in Opened(a, l),
           NEW n, n = Len(a.members[i].inside.members)
    PROVE  /\ Before(a, l, i) = Upto(Before(a, l, i - 1), i, n)
           /\ OpenedBefore(a, l, i) = OpenedBefore(a, l, i - 1) \cup {i}
<1>1. DOMAIN a.members = 1..Len(a.members) /\ Len(a.members) \in Nat
  BY LayerType DEF IsArchive
<1>2. i \in DOMAIN a.members /\ IsLayer(a.members[i].inside) /\ <<i, 0>> \in Places(a, l)
  BY InsideType
<1>3. \A k \in Nat : k \in 1..i <=> k \in 1..i - 1 \/ k = i
  BY <1>1, <1>2
<1>4. n \in Nat /\ DOMAIN a.members[i].inside.members = 1..n
  BY <1>2, LayerType
<1>5. \A k \in 0..n : <<i, k>> \in Places(a, l)
  <2>1. \A k \in 1..n : <<i, k>> \in Places(a, l)
    BY InsidePlaces
  <2>2. \A k \in 0..n : k = 0 \/ k \in 1..n
    BY <1>4
  <2> QED
    BY <1>2, <2>1, <2>2
<1>6. ASSUME NEW p \in Places(a, l), p[1] = i PROVE \E k \in 0..n : p = <<i, k>>
  <2>1. p = <<i, p[2]>> /\ p[2] \in Nat /\ (p[2] # 0 => p[2] \in 1..n)
    BY <1>4, <1>6, PlaceType
  <2>2. p[2] \in 0..n
    BY <1>4, <2>1
  <2> QED
    BY <2>1, <2>2
<1>7. \A p \in Places(a, l) : p[1] \in Nat
  BY <1>1, PlaceType
<1>8. \A k \in Opened(a, l) : k \in Nat
  BY <1>1 DEF Opened
<1>9. \A k : <<i, k>>[1] = i
  OBVIOUS
<1>10. Before(a, l, i) = Upto(Before(a, l, i - 1), i, n)
  BY <1>3, <1>5, <1>6, <1>7, <1>9 DEF Before, Upto, Inside
<1>11. OpenedBefore(a, l, i) = OpenedBefore(a, l, i - 1) \cup {i}
  BY <1>3, <1>8 DEF OpenedBefore
<1> QED
  BY <1>10, <1>11

\* They are finitely many.
LEMMA BeforeType ==
    ASSUME NEW a, IsArchive(a), NEW l, NEW i \in 0..Len(a.members)
    PROVE  IsFiniteSet(Before(a, l, i))
<1> DEFINE n == Len(a.members)
           T == {k \in 0..n : IsFiniteSet(Before(a, l, k))}
<1>1. n \in Nat /\ DOMAIN a.members = 1..n
  BY LayerType DEF IsArchive
<1>2. 0 \in T
  <2>1. 1..0 = {} /\ 0 \in 0..n
    BY <1>1
  <2>2. Before(a, l, 0) = {}
    BY <2>1 DEF Before
  <2> QED
    BY <2>1, <2>2, FS_EmptySet
<1>3. ASSUME NEW k \in 1..n, k - 1 \in T PROVE k \in T
  <2>1. k \in 0..n /\ IsFiniteSet(Before(a, l, k - 1))
    BY <1>1, <1>3
  <2>2. IsFiniteSet(Before(a, l, k))
    <3>1. CASE k \notin Opened(a, l)
      <4>1. Before(a, l, k) = Before(a, l, k - 1) \cup {<<k, 0>>}
        BY <1>1, <3>1, PlainBefore
      <4>2. IsFiniteSet(Before(a, l, k - 1) \cup {<<k, 0>>})
        BY <2>1, FS_AddElement
      <4> QED
        BY <4>1, <4>2
    <3>2. CASE k \in Opened(a, l)
      <4> DEFINE last == Len(a.members[k].inside.members)
                 P == Before(a, l, k - 1)
      <4>1. Before(a, l, k) = Upto(P, k, last)
        BY <3>2, ContainerBefore
      <4>2. last \in Nat
        <5>1. IsLayer(a.members[k].inside)
          BY <3>2, InsideType
        <5> QED
          BY <5>1, LayerType
      <4>3. IsFiniteSet(Inside(k, last))
        BY <4>2, InsideIsFinite
      <4>4. IsFiniteSet(P \cup Inside(k, last))
        BY <2>1, <4>3, FS_Union
      <4> QED
        BY <4>1, <4>4 DEF Upto
    <3> QED
      BY <3>1, <3>2
  <2> QED
    BY <2>1, <2>2
<1> HIDE DEF T
<1>4. i \in T
  BY <1>1, <1>2, <1>3, Climb
<1> QED
  BY <1>4 DEF T

\* A walk stays a walk.
LEMMA MemberType ==
    ASSUME NEW a, IsArchive(a), NEW l, IsLimits(l), NEW caller, NEW K, KeysIn(a, l, K),
           NEW w \in Walks(K, caller), NEW i \in DOMAIN a.members
    PROVE  Member(w, a.members[i], l, caller) \in Walks(K, caller)
<1> DEFINE m == a.members[i]
           v == Member(w, m, l, caller)
<1>1. CASE i \notin Opened(a, l)
  <2> DEFINE outer == TRUE
             p == <<i, 0>>
  <2>1. p \in Places(a, l) /\ At(a, p) = m /\ ~ IsOpened(m, l)
    BY <1>1 DEF Places, At, Opened
  <2>2. m.size \in Nat /\ m.key \in K
    BY <2>1, PlaceType DEF KeysIn
  <2>3. outer \in BOOLEAN /\ outer /\ v = Member(w, m, l, caller)
    OBVIOUS
  <2> HIDE DEF outer, v, m, p
  <2> QED
    BY <2>1, <2>2, <2>3, PlainStep DEF m, v
<1>2. CASE i \in Opened(a, l)
  <2>1. IsLayer(m.inside)
    BY <1>2, InsideType
  <2>2. ASSUME NEW walk, Entered(a, l, caller, K, w, i, walk) PROVE v \in Walks(K, caller)
    <3>1. Len(m.inside.members) \in Nat /\ m.inside.padding \in Nat
      BY <2>1, LayerType
    <3> DEFINE u == walk[Len(m.inside.members)]
    <3>2. u \in Walks(K, caller) /\ v = Drain(u, m.inside, l)
      BY <2>2, <3>1 DEF Entered
    <3> HIDE DEF u
    <3> QED
      BY <3>1, <3>2, DrainStep
  <2>3. v \in Walks(K, caller) \/ \E walk : Entered(a, l, caller, K, w, i, walk)
    BY <1>2, ContainerStep
  <2> QED
    BY <2>2, <2>3
<1> QED
  BY <1>1, <1>2

\* What a member adds to what an archive expands to.
Added(a, l, i) ==
    Weight(a.members[i]) +
    (IF i \in Opened(a, l) THEN Content(a.members[i].inside) ELSE 0)

\* One more member of the archive, and what is inside it.
LEMMA OuterTracks ==
    ASSUME NEW a, IsArchive(a), NEW l, IsLimits(l), NEW caller, NEW K, KeysIn(a, l, K),
           NEW w \in Walks(K, caller), NEW i \in DOMAIN a.members, NEW sum \in Nat,
           Tracks(a, l, caller, w, Before(a, l, i - 1), OpenedBefore(a, l, i - 1), sum)
    PROVE  Tracks(a, l, caller, Member(w, a.members[i], l, caller), Before(a, l, i),
                  OpenedBefore(a, l, i), sum + Added(a, l, i))
<1> DEFINE m == a.members[i]
           v == Member(w, m, l, caller)
           P == Before(a, l, i - 1)
           E == OpenedBefore(a, l, i - 1)
           whole == sum + Added(a, l, i)
<1>1. /\ IsFiniteSet(P) /\ P \subseteq Places(a, l)
      /\ \A k \in Nat : <<i, k>> \notin P
  <2>1. DOMAIN a.members = 1..Len(a.members) /\ Len(a.members) \in Nat
    BY LayerType DEF IsArchive
  <2>2. i - 1 \in 0..Len(a.members) /\ i \notin 1..i - 1
    BY <2>1
  <2>3. \A k : <<i, k>>[1] = i
    OBVIOUS
  <2>4. IsFiniteSet(P)
    BY <2>2, BeforeType
  <2> QED
    BY <2>2, <2>3, <2>4 DEF Before
<1>2. Tracks(a, l, caller, w, P, E, sum)
  OBVIOUS
<1>3. CASE i \notin Opened(a, l)
  <2> DEFINE outer == TRUE
             p == <<i, 0>>
  <2>1. p \in Places(a, l) /\ At(a, p) = m /\ ~ IsOpened(m, l) /\ p[1] = i /\ p[2] = 0
    BY <1>3 DEF Places, At, Opened
  <2>2. m.size \in Nat /\ m.key \in K
    BY <2>1, PlaceType DEF KeysIn
  <2>3. /\ Before(a, l, i) = P \cup {p} /\ OpenedBefore(a, l, i) = E
        /\ whole = sum + Weight(m)
    <3>1. Before(a, l, i) = P \cup {p} /\ OpenedBefore(a, l, i) = E
      BY <1>3, PlainBefore
    <3>2. Weight(m) \in Nat
      BY <2>2, WeightType
    <3> QED
      BY <1>3, <3>1, <3>2 DEF Added
  <2>4. outer \in BOOLEAN /\ outer /\ (outer <=> p[2] = 0) /\ v = Member(w, m, l, caller)
    BY <2>1
  <2>5. p \notin P
    BY <1>1
  <2> HIDE DEF outer, v, m, p, P, E, whole
  <2>6. /\ Clean(v) <=> Clean(w) /\ Takes(w, m, l, caller, outer)
        /\ Clean(v) => Became(v, w, m, outer)
    <3>1. ~ IsOpened(m, l)
      BY <2>1
    <3>2. outer \in BOOLEAN /\ outer /\ v = Member(w, m, l, caller)
      BY <2>4
    <3> QED
      BY <2>2, <3>1, <3>2, PlainStep
  <2>7. /\ Clean(v) <=> Clean(w) /\ Takes(w, At(a, p), l, caller, outer)
        /\ Clean(v) => Became(v, w, At(a, p), outer)
    BY <2>1, <2>6
  <2>8. p[2] = 0 => p[1] \notin Opened(a, l)
    BY <1>3, <2>1
  <2>9. Tracks(a, l, caller, v, P \cup {p}, E, sum + Weight(At(a, p)))
    BY <1>1, <1>2, <2>1, <2>4, <2>5, <2>7, <2>8, PlainTracks
  <2>10. Tracks(a, l, caller, v, Before(a, l, i), OpenedBefore(a, l, i), whole)
    BY <2>1, <2>3, <2>9
  <2> QED
    BY <2>10 DEF v, m, whole
<1>4. CASE i \in Opened(a, l)
  <2> DEFINE b == m.inside
             n == Len(b.members)
  <2>1. IsLayer(b) /\ m.size \in Nat
    BY <1>4, InsideType
  <2>2. n \in Nat /\ b.padding \in Nat
    BY <2>1, LayerType
  <2>3. PICK inside \in [0..n -> Nat] :
            /\ inside[0] = 0
            /\ \A j \in 1..n : inside[j] = inside[j - 1] + Weight(b.members[j])
            /\ Content(b) = inside[n] + b.padding
    BY <2>1, ContentSteps
  <2>4. /\ Before(a, l, i) = Upto(P, i, n) /\ OpenedBefore(a, l, i) = E \cup {i}
    BY <1>4, ContainerBefore
  <2>5. whole = ((sum + Weight(m)) + inside[n]) + b.padding
    <3>1. Weight(m) \in Nat
      BY <2>1, WeightType
    <3>2. n \in 0..n
      BY <2>2
    <3>3. inside[n] \in Nat
      BY <2>3, <3>2
    <3>4. whole = sum + (Weight(m) + (inside[n] + b.padding))
      BY <1>4, <2>3 DEF Added
    <3> QED
      BY <2>2, <3>1, <3>3, <3>4
  <2>6. Facing(a, l, K, P, i, m, n, inside)
    BY <1>1, <1>4, <2>3 DEF Facing
  <2>7. v = Member(w, m, l, caller)
    OBVIOUS
  <2>8. whole = ((sum + Weight(m)) + inside[n]) + m.inside.padding
    BY <2>5
  <2> HIDE DEF v, P, E, whole, n, b, m
  <2>9. Tracks(a, l, caller, v, Upto(P, i, n), E \cup {i}, whole)
    BY <1>2, <2>6, <2>7, <2>8, ContainerTracks
  <2>10. Tracks(a, l, caller, v, Before(a, l, i), OpenedBefore(a, l, i), whole)
    BY <2>4, <2>9
  <2> QED
    BY <2>10 DEF v, m, whole
<1> QED
  BY <1>3, <1>4

\* Before the first member.
LEMMA StartTracks ==
    ASSUME NEW a, NEW l, IsLimits(l), NEW caller, NEW K
    PROVE  /\ Start \in Walks(K, caller)
           /\ Tracks(a, l, caller, Start, {}, {}, 0)
<1>1. Start \in Walks(K, caller) /\ Clean(Start)
  BY DEF Start, Walks, Counted, Clean
<1>2. OpenedIn(a, l, {}) = {} /\ Found(a, l, {}) = {}
  BY DEF OpenedIn, Found
<1>3. Cardinality({}) = 0
  BY FS_EmptySet
<1>4. Good(a, l, caller, {}, 0) /\ Padded(a, {})
  BY <1>2, <1>3 DEF Good, Padded, IsLimits
<1>5. Pictures(a, l, Start, {}, 0)
  BY <1>2, <1>3 DEF Pictures, Start
<1> QED
  BY <1>1, <1>4, <1>5 DEF Tracks

\* What an archive expands to, one member at a time.
LEMMA ExpansionSteps ==
    ASSUME NEW a, IsArchive(a), NEW l, NEW n, n = Len(a.members)
    PROVE  \E sum \in [0..n -> Nat] :
               /\ sum[0] = 0
               /\ \A i \in 1..n : sum[i] = sum[i - 1] + Added(a, l, i)
               /\ Expansion(a, l) = sum[n] + a.padding
<1> DEFINE extra == [i \in DOMAIN a.members |->
                        IF i \in Opened(a, l) THEN Content(a.members[i].inside) ELSE 0]
<1>1. IsLayer(a)
  BY DEF IsArchive
<1>2. n \in Nat /\ DOMAIN a.members = 1..n /\ a.padding \in Nat
  BY <1>1, LayerType
<1>3. PICK own \in [0..n -> Nat] :
          /\ own[0] = 0
          /\ \A i \in 1..n : own[i] = own[i - 1] + Weight(a.members[i])
          /\ Content(a) = own[n] + a.padding
  BY <1>1, ContentSteps
<1>4. ASSUME NEW i \in Opened(a, l) PROVE Content(a.members[i].inside) \in Nat
  <2> DEFINE b == a.members[i].inside
             k == Len(b.members)
  <2>1. IsLayer(b)
    BY InsideType
  <2>2. PICK inside \in [0..k -> Nat] : Content(b) = inside[k] + b.padding
    <3> HIDE DEF b
    <3> QED
      BY <2>1, ContentSteps
  <2>3. k \in 0..k /\ b.padding \in Nat
    BY <2>1, LayerType
  <2>4. inside[k] \in Nat
    BY <2>2, <2>3
  <2>5. Content(b) \in Nat
    <3> HIDE DEF b, k
    <3> QED
      BY <2>2, <2>3, <2>4
  <2> QED
    BY <2>5
<1>5. extra \in [1..n -> Nat]
  BY <1>2, <1>4
<1>6. \A i \in 1..n : Added(a, l, i) = Weight(a.members[i]) + extra[i]
  BY <1>2 DEF Added
<1>7. Expansion(a, l) = Content(a) + Total(extra)
  BY DEF Expansion
<1> HIDE DEF extra
<1>8. PICK inner \in [0..n -> Nat] :
          /\ inner[0] = 0
          /\ \A i \in 1..n : inner[i] = inner[i - 1] + extra[i]
          /\ Total(extra) = inner[n]
  BY <1>2, <1>5, TotalSteps
<1> DEFINE sum == [i \in 0..n |-> own[i] + inner[i]]
<1>9. sum \in [0..n -> Nat]
  BY <1>3, <1>8
<1>10. sum[0] = 0
  <2>1. 0 \in 0..n
    BY <1>2
  <2> QED
    BY <1>3, <1>8, <2>1
<1>11. ASSUME NEW i \in 1..n PROVE sum[i] = sum[i - 1] + Added(a, l, i)
  <2>1. i \in 0..n /\ i - 1 \in 0..n
    BY <1>2
  <2>2. Weight(a.members[i]) \in Nat /\ extra[i] \in Nat
    BY <1>1, <1>2, <1>5, LayerType, WeightType
  <2>3. own[i - 1] \in Nat /\ inner[i - 1] \in Nat
    BY <1>3, <1>8, <2>1
  <2>4. sum[i] = own[i] + inner[i] /\ sum[i - 1] = own[i - 1] + inner[i - 1]
    BY <2>1
  <2>5. /\ own[i] = own[i - 1] + Weight(a.members[i])
        /\ inner[i] = inner[i - 1] + extra[i]
        /\ Added(a, l, i) = Weight(a.members[i]) + extra[i]
    BY <1>3, <1>6, <1>8
  <2> HIDE DEF sum
  <2> QED
    BY <2>2, <2>3, <2>4, <2>5
<1>12. Expansion(a, l) = sum[n] + a.padding
  <2>1. n \in 0..n
    BY <1>2
  <2>2. own[n] \in Nat /\ inner[n] \in Nat /\ sum[n] = own[n] + inner[n]
    BY <1>3, <1>8, <2>1
  <2> HIDE DEF sum
  <2> QED
    BY <1>2, <1>3, <1>7, <1>8, <2>2
<1> HIDE DEF sum
<1> QED
  BY <1>9, <1>10, <1>11, <1>12

\* The walk over all members of an archive, and over its end.
LEMMA WalkTracks ==
    ASSUME NEW a, IsArchive(a), NEW l, IsLimits(l), NEW caller, NEW K, KeysIn(a, l, K),
           NEW v, v = Drain(MemberAll(Start, a, l, caller), a, l)
    PROVE  /\ v \in Walks(K, caller)
           /\ Clean(v) <=> /\ Good(a, l, caller, Places(a, l), Expansion(a, l))
                           /\ Padded(a, Opened(a, l)) /\ a.tail = "padding"
<1> DEFINE n == Len(a.members)
<1>1. n \in Nat /\ DOMAIN a.members = 1..n /\ a.padding \in Nat
  BY LayerType DEF IsArchive
<1> HIDE DEF n
<1>2. Start \in Walks(K, caller) /\ Tracks(a, l, caller, Start, {}, {}, 0)
  BY StartTracks
<1>3. \A u \in Walks(K, caller), i \in 1..n :
          Member(u, a.members[i], l, caller) \in Walks(K, caller)
  BY <1>1, MemberType
<1>4. PICK walk : MemberWalk(walk, Walks(K, caller), Start, a, n, l, caller)
  BY <1>1, <1>2, <1>3, MemberSteps
<1>5. /\ walk \in [0..n -> Walks(K, caller)] /\ walk[0] = Start
      /\ \A i \in 1..n : walk[i] = Member(walk[i - 1], a.members[i], l, caller)
      /\ v = Drain(walk[n], a, l)
  BY <1>4 DEF MemberWalk
<1>6. PICK sum \in [0..n -> Nat] :
          /\ sum[0] = 0
          /\ \A i \in 1..n : sum[i] = sum[i - 1] + Added(a, l, i)
          /\ Expansion(a, l) = sum[n] + a.padding
  BY ExpansionSteps DEF n
<1>7. 0 \in 0..n /\ n \in 0..n
  BY <1>1
<1> DEFINE Held(i) ==
               Tracks(a, l, caller, walk[i], Before(a, l, i), OpenedBefore(a, l, i), sum[i])
           T == {i \in 0..n : Held(i)}
<1>8. 0 \in T
  <2>1. 1..0 = {}
    OBVIOUS
  <2>2. Before(a, l, 0) = {} /\ OpenedBefore(a, l, 0) = {}
    BY <2>1 DEF Before, OpenedBefore
  <2> QED
    BY <1>2, <1>5, <1>6, <1>7, <2>2
<1>9. ASSUME NEW i \in 1..n, i - 1 \in T PROVE i \in T
  <2>1. i \in 0..n /\ i - 1 \in 0..n /\ i \in DOMAIN a.members /\ Held(i - 1)
    BY <1>1, <1>9
  <2> DEFINE u == walk[i - 1]
             had == sum[i - 1]
  <2>2. u \in Walks(K, caller) /\ had \in Nat
    BY <1>5, <1>6, <2>1
  <2>3. Tracks(a, l, caller, u, Before(a, l, i - 1), OpenedBefore(a, l, i - 1), had)
    BY <2>1
  <2>4. walk[i] = Member(u, a.members[i], l, caller) /\ sum[i] = had + Added(a, l, i)
    BY <1>5, <1>6
  <2> HIDE DEF u, had, T
  <2>5. Tracks(a, l, caller, Member(u, a.members[i], l, caller), Before(a, l, i),
               OpenedBefore(a, l, i), had + Added(a, l, i))
    BY <2>1, <2>2, <2>3, OuterTracks
  <2>6. Held(i)
    BY <2>4, <2>5
  <2> HIDE DEF Held
  <2> QED
    BY <2>1, <2>6 DEF T
<1>10. Held(n)
  <2> HIDE DEF T
  <2>1. n \in T
    BY <1>1, <1>7, <1>8, <1>9, Climb
  <2> QED
    BY <2>1 DEF T
<1>11. Before(a, l, n) = Places(a, l) /\ OpenedBefore(a, l, n) = Opened(a, l)
  <2>1. Before(a, l, n) = Places(a, l)
    BY <1>1, PlaceType DEF Before
  <2>2. OpenedBefore(a, l, n) = Opened(a, l)
    BY <1>1 DEF OpenedBefore, Opened
  <2> QED
    BY <2>1, <2>2
<1> DEFINE u == walk[n]
           had == sum[n]
<1>12. u \in Walks(K, caller) /\ had \in Nat
  BY <1>5, <1>6, <1>7
<1>13. Tracks(a, l, caller, u, Places(a, l), Opened(a, l), had)
  BY <1>10, <1>11
<1> HIDE DEF Held, T
<1>14. v = Drain(u, a, l) /\ Expansion(a, l) = had + a.padding
  BY <1>5, <1>6
<1> HIDE DEF u, had
<1>15. /\ v \in Walks(K, caller)
       /\ Clean(v) <=> Clean(u) /\ a.tail = "padding" /\ u.spent + a.padding <= l.expanded
  BY <1>1, <1>12, <1>14, DrainStep
<1>16. Clean(u) => u.spent = had
  BY <1>13 DEF Tracks, Pictures
<1>17. Good(a, l, caller, Places(a, l), Expansion(a, l)) <=>
          Good(a, l, caller, Places(a, l), had) /\ had + a.padding <= l.expanded
  BY <1>1, <1>12, <1>14, GoodPadding
<1>18. Clean(u) <=> Good(a, l, caller, Places(a, l), had) /\ Padded(a, Opened(a, l))
  BY <1>13 DEF Tracks
<1> QED
  BY <1>15, <1>16, <1>17, <1>18

-----------------------------------------------------------------------------
(* The verdicts *)

\* What a caller takes for a package of its own.
Fine(a, l, caller) ==
    /\ SafeArchive(a, l)
    /\ \A p \in Candidates(a, l) : Wanted(At(a, p), caller)
    /\ \A p, q \in Candidates(a, l) : At(a, p).key = At(a, q).key => p = q

\* That is, nothing is wrong with all of its places.
LEMMA GoodIsFine ==
    ASSUME NEW a, NEW l, NEW caller
    PROVE  Fine(a, l, caller) <=>
               /\ a.compressed <= l.compressed /\ a.tail = "padding"
               /\ Good(a, l, caller, Places(a, l), Expansion(a, l))
               /\ Padded(a, Opened(a, l))
<1>1. OpenedIn(a, l, Places(a, l)) = Opened(a, l)
  BY DEF OpenedIn, Opened, Places
<1>2. Found(a, l, Places(a, l)) = Candidates(a, l)
  BY DEF Found, Candidates
<1> QED
  BY <1>1, <1>2 DEF Fine, SafeArchive, Good, Padded

\* The walk is clean exactly over what its caller takes for a package.
LEMMA WalkIsExact ==
    ASSUME NEW a, IsArchive(a), NEW l, IsLimits(l), NEW caller
    PROVE  /\ Clean(Walk(a, l, caller)) <=> Fine(a, l, caller)
           /\ caller # "survey" => (Clean(Walk(a, l, caller)) <=> ~ Walk(a, l, caller).fault)
<1> DEFINE K == {At(a, p).key : p \in Places(a, l)}
           v == Drain(MemberAll(Start, a, l, caller), a, l)
           w == Walk(a, l, caller)
<1>1. KeysIn(a, l, K)
  BY DEF KeysIn
<1>2. a.compressed \in Nat /\ l.compressed \in Nat
  BY DEF IsArchive, IsLimits
<1> HIDE DEF K
<1>3. /\ v \in Walks(K, caller)
      /\ Clean(v) <=> /\ Good(a, l, caller, Places(a, l), Expansion(a, l))
                      /\ Padded(a, Opened(a, l)) /\ a.tail = "padding"
  BY <1>1, WalkTracks
<1>4. w = IF a.compressed > l.compressed THEN Fault(Start) ELSE v
  BY DEF Walk, MemberAll
<1> HIDE DEF v, w
<1>5. Start \in Walks(K, caller)
  BY StartTracks
<1>6. Fault(Start) \in Walks(K, caller) /\ ~ Clean(Fault(Start))
  BY <1>5, FaultStep
<1>7. w \in Walks(K, caller) /\ (Clean(w) <=> Fine(a, l, caller))
  BY <1>2, <1>3, <1>4, <1>6, GoodIsFine
<1>8. caller # "survey" => (Clean(w) <=> ~ w.fault)
  BY <1>7 DEF Walks, Counted, Clean
<1> QED
  BY <1>7, <1>8 DEF w

\* For any archive and any limits the inspector accepts exactly the packages: whatever the
\* order of the members, no budget, layout, count or identity is judged by less than the
\* whole archive (packages.py, inspect_package).
THEOREM InspectorIsExact ==
    ASSUME NEW a, IsArchive(a), NEW l, IsLimits(l)
    PROVE  inspect_package(a, l) <=> IsPackage(a, l)
<1>1. Fine(a, l, "inspect") <=> IsPackage(a, l)
  BY DEF Fine, IsPackage, Wanted
<1>2. Clean(Walk(a, l, "inspect")) <=> Fine(a, l, "inspect")
  BY WalkIsExact
<1>3. Clean(Walk(a, l, "inspect")) <=> ~ Walk(a, l, "inspect").fault
  BY WalkIsExact
<1> QED
  BY <1>1, <1>2, <1>3 DEF inspect_package

\* A loader and a survey take the same for a package.
LEMMA FineIsLoadable ==
    ASSUME NEW a, NEW l, NEW caller, caller # "inspect"
    PROVE  Fine(a, l, caller) <=> IsLoadable(a, l)
  BY DEF Fine, IsLoadable, IsPackage, Wanted

\* The loader accepts exactly the packages every notice of which can be projected
\* (packages.py, stream_notices; projection.py, project_member).
THEOREM LoaderIsExact ==
    ASSUME NEW a, IsArchive(a), NEW l, IsLimits(l)
    PROVE  load_accepts(a, l) <=> IsLoadable(a, l)
<1>1. Fine(a, l, "load") <=> IsLoadable(a, l)
  BY FineIsLoadable
<1>2. Clean(Walk(a, l, "load")) <=> Fine(a, l, "load")
  BY WalkIsExact
<1>3. Clean(Walk(a, l, "load")) <=> ~ Walk(a, l, "load").fault
  BY WalkIsExact
<1> QED
  BY <1>1, <1>2, <1>3 DEF load_accepts

\* The survey, which reads on where a load stops, calls an archive compatible exactly when a
\* load would take it (packages.py, survey_package).
THEOREM SurveyIsExact ==
    ASSUME NEW a, IsArchive(a), NEW l, IsLimits(l)
    PROVE  compatible_for_load(a, l) <=> IsLoadable(a, l)
<1>1. Fine(a, l, "survey") <=> IsLoadable(a, l)
  BY FineIsLoadable
<1>2. Clean(Walk(a, l, "survey")) <=> Fine(a, l, "survey")
  BY WalkIsExact
<1>3. compatible_for_load(a, l) <=> Clean(Walk(a, l, "survey"))
  BY DEF compatible_for_load, Clean
<1> QED
  BY <1>1, <1>2, <1>3

\* What the narrower limits accept holds no container unless they allow for some.
LEMMA SameOpened ==
    ASSUME NEW a, IsArchive(a), NEW lo, IsLimits(lo), NEW hi, IsLimits(hi),
           lo.container_count <= hi.container_count, IsLoadable(a, lo)
    PROVE  Opened(a, hi) = Opened(a, lo)
<1>1. lo.container_count \in Nat /\ hi.container_count \in Nat
  BY DEF IsLimits
<1>2. CASE lo.container_count > 0
  <2>1. hi.container_count > 0
    BY <1>1, <1>2
  <2> QED
    BY <1>2, <2>1 DEF Opened, IsOpened
<1>3. CASE ~ (lo.container_count > 0)
  <2>1. Opened(a, lo) = {}
    BY <1>3 DEF Opened, IsOpened
  <2>2. ASSUME NEW i \in DOMAIN a.members, a.members[i].kind = "container" PROVE FALSE
    <3> DEFINE p == <<i, 0>>
    <3>1. p \in Places(a, lo) /\ At(a, p) = a.members[i]
      BY DEF Places, At
    <3>2. Regular(a.members[i])
      BY <2>2 DEF Regular
    <3>3. p \in Candidates(a, lo)
      BY <2>1, <3>1, <3>2 DEF Candidates
    <3>4. At(a, p).kind = "xml"
      BY <3>3 DEF IsLoadable, IsPackage
    <3> QED
      BY <2>2, <3>1, <3>4
  <2>3. Opened(a, hi) = {}
    BY <2>2 DEF Opened, IsOpened
  <2> QED
    BY <2>1, <2>3
<1> QED
  BY <1>2, <1>3

\* A loader accepts under wider limits what it accepts under narrower ones, although where
\* containers are allowed some other members may not be (packages.py, _PackageArchive).
THEOREM WiderLimitsLoadMore ==
    ASSUME NEW a, IsArchive(a), NEW lo, IsLimits(lo), NEW hi, IsLimits(hi),
           \A limit \in DOMAIN hi : lo[limit] <= hi[limit], load_accepts(a, lo)
    PROVE  load_accepts(a, hi)
<1>1. IsLoadable(a, lo)
  BY LoaderIsExact
<1>2. /\ lo.compressed <= hi.compressed /\ lo.expanded <= hi.expanded
      /\ lo.member <= hi.member /\ lo.notices <= hi.notices
      /\ lo.container_count <= hi.container_count /\ lo.container <= hi.container
  BY DEF IsLimits
<1>3. Opened(a, hi) = Opened(a, lo)
  BY <1>1, <1>2, SameOpened
<1>4. Places(a, hi) = Places(a, lo)
  BY <1>3 DEF Places
<1>5. Candidates(a, hi) = Candidates(a, lo)
  BY <1>3, <1>4 DEF Candidates
<1>6. Expansion(a, hi) = Expansion(a, lo)
  BY <1>3 DEF Expansion
<1>7. Expansion(a, lo) \in Nat /\ a.compressed \in Nat
  <2> DEFINE n == Len(a.members)
  <2>1. n \in Nat /\ a.padding \in Nat
    BY LayerType DEF IsArchive
  <2>2. PICK sum \in [0..n -> Nat] : Expansion(a, lo) = sum[n] + a.padding
    BY ExpansionSteps
  <2>3. n \in 0..n
    BY <2>1
  <2>4. sum[n] \in Nat
    BY <2>3
  <2> HIDE DEF n
  <2> QED
    BY <2>1, <2>2, <2>4 DEF IsArchive
<1>8. Cardinality(Opened(a, lo)) \in Nat
  BY OpenedIsFinite, FS_CardinalityType DEF IsArchive
<1>9. Cardinality(Candidates(a, lo)) \in Nat
  <2>1. Len(a.members) \in Nat /\ DOMAIN a.members = 1..Len(a.members)
    BY LayerType DEF IsArchive
  <2>2. Before(a, lo, Len(a.members)) = Places(a, lo)
    BY <2>1, PlaceType DEF Before
  <2>3. Len(a.members) \in 0..Len(a.members)
    BY <2>1
  <2>4. IsFiniteSet(Places(a, lo))
    BY <2>2, <2>3, BeforeType
  <2>5. Candidates(a, lo) \in SUBSET Places(a, lo)
    BY DEF Candidates
  <2>6. IsFiniteSet(Candidates(a, lo))
    BY <2>4, <2>5, FS_Subset
  <2> QED
    BY <2>6, FS_CardinalityType
<1>10. \A p \in Candidates(a, lo) : At(a, p).size \in Nat
  BY PlaceType DEF Candidates
<1>11. \A i \in Opened(a, lo) : a.members[i].size \in Nat
  BY InsideType
<1>12. SafeArchive(a, lo)
  BY <1>1 DEF IsLoadable, IsPackage
<1>13. SafeArchive(a, hi)
  <2>1. a.compressed <= hi.compressed /\ a.tail = "padding" /\ Expansion(a, hi) <= hi.expanded
    BY <1>2, <1>6, <1>7, <1>12 DEF SafeArchive, IsLimits
  <2>2. /\ Cardinality(Opened(a, hi)) <= hi.container_count
        /\ Cardinality(Candidates(a, hi)) <= hi.notices
    BY <1>2, <1>3, <1>5, <1>8, <1>9, <1>12 DEF SafeArchive, IsLimits
  <2>3. \A i \in Opened(a, hi) :
          a.members[i].size <= hi.container /\ a.members[i].inside.tail = "padding"
    BY <1>2, <1>3, <1>11, <1>12 DEF SafeArchive, IsLimits
  <2>4. \A p \in Candidates(a, hi) : At(a, p).size <= hi.member
    BY <1>2, <1>5, <1>10, <1>12 DEF SafeArchive, IsLimits
  <2> QED
    BY <1>3, <1>4, <1>12, <2>1, <2>2, <2>3, <2>4 DEF SafeArchive
<1>14. IsLoadable(a, hi)
  BY <1>1, <1>5, <1>13 DEF IsLoadable, IsPackage
<1> QED
  BY <1>14, LoaderIsExact

-----------------------------------------------------------------------------
(* What a walk costs, whatever it meets *)

\* What was read stays within the limits, and each notice that was read was told apart or,
\* by a survey, counted for what is wrong with it.  Only the one that ends the walk may not.
Settled(w) == Cardinality(w.keys) + w.rejected + w.duplicates

Kept(w, l) ==
    /\ w.spent <= l.expanded + 1 /\ w.notices <= l.notices
    /\ w.containers <= l.container_count
    /\ IsFiniteSet(w.keys)
    /\ Settled(w) <= w.notices
    /\ ~ w.fault => Settled(w) = w.notices

\* The figures are numbers.
LEMMA KeptType ==
    ASSUME NEW K, NEW caller, NEW w \in Walks(K, caller), IsFiniteSet(w.keys)
    PROVE  /\ Cardinality(w.keys) \in Nat /\ w.rejected \in Nat /\ w.duplicates \in Nat
           /\ w.notices \in Nat /\ w.containers \in Nat /\ w.fault \in BOOLEAN
           /\ Settled(w) \in Nat
<1>1. w.rejected \in Nat /\ w.duplicates \in Nat
  BY DEF Walks, Counted
<1>2. Cardinality(w.keys) \in Nat
  BY FS_CardinalityType
<1> QED
  BY <1>1, <1>2 DEF Walks, Settled

\* A walk that stops keeps its figures.
LEMMA FaultKeeps ==
    ASSUME NEW K, NEW caller, NEW w \in Walks(K, caller), NEW l, Kept(w, l)
    PROVE  Kept(Fault(w), l)
<1>1. /\ Fault(w).spent = w.spent /\ Fault(w).notices = w.notices /\ Fault(w).fault
      /\ Fault(w).containers = w.containers /\ Fault(w).keys = w.keys
      /\ Fault(w).rejected = w.rejected /\ Fault(w).duplicates = w.duplicates
  BY DEF Fault, Walks
<1>2. Settled(Fault(w)) = Settled(w)
  BY <1>1 DEF Settled
<1> QED
  BY <1>1, <1>2 DEF Kept

\* Charging the budget changes no other figure.
LEMMA SpendKeeps ==
    ASSUME NEW K, NEW caller, NEW w \in Walks(K, caller), NEW l, IsLimits(l), NEW n \in Nat,
           Kept(w, l)
    PROVE  Kept(Spend(w, n, l), l)
<1> DEFINE v == Spend(w, n, l)
<1>1. v.spent = Min({w.spent + n, l.expanded + 1})
  BY DEF Spend, Walks
<1>2. v.spent <= l.expanded + 1
  <2>1. w.spent + n \in Nat /\ l.expanded + 1 \in Nat
    BY DEF Walks, IsLimits
  <2> DEFINE more == w.spent + n
             most == l.expanded + 1
  <2>2. v.spent = Min({more, most})
    BY <1>1
  <2> HIDE DEF more, most, v
  <2>3. more \in Nat /\ most \in Nat
    BY <2>1 DEF more, most
  <2>4. Min({more, most}) = IF more <= most THEN more ELSE most
    BY <2>3 DEF Min
  <2>5. v.spent <= most
    BY <2>2, <2>3, <2>4
  <2> QED
    BY <2>5 DEF most
<1>3. /\ v.notices = w.notices /\ v.containers = w.containers /\ v.keys = w.keys
      /\ v.rejected = w.rejected /\ v.duplicates = w.duplicates
  BY DEF Spend, Walks
<1>4. v.fault <=> w.fault \/ w.spent + n > l.expanded
  BY SpendStep
<1> HIDE DEF v
<1>5. Settled(v) = Settled(w)
  BY <1>3 DEF Settled
<1>6. Kept(v, l)
  BY <1>2, <1>3, <1>4, <1>5 DEF Kept
<1> QED
  BY <1>6 DEF v

\* So does claiming a layout.
LEMMA ClaimKeeps ==
    ASSUME NEW K, NEW caller, NEW w \in Walks(K, caller), NEW l, NEW layout, Kept(w, l)
    PROVE  Kept(Claim(w, layout), l)
<1>1. CASE w.layout \in {"empty", layout}
  <2> DEFINE v == [w EXCEPT !.layout = layout]
  <2>1. Claim(w, layout) = v
    BY <1>1 DEF Claim
  <2>2. /\ v.spent = w.spent /\ v.notices = w.notices /\ v.fault = w.fault
        /\ v.containers = w.containers /\ v.keys = w.keys
        /\ v.rejected = w.rejected /\ v.duplicates = w.duplicates
    BY DEF Walks
  <2> HIDE DEF v
  <2>3. Settled(v) = Settled(w)
    BY <2>2 DEF Settled
  <2> QED
    BY <2>1, <2>2, <2>3 DEF Kept
<1>2. CASE w.layout \notin {"empty", layout}
  BY <1>2, FaultKeeps DEF Claim
<1> QED
  BY <1>1, <1>2

\* One notice was read and is not settled yet.
Pending(w, l) ==
    /\ w.spent <= l.expanded + 1 /\ w.notices <= l.notices
    /\ w.containers <= l.container_count
    /\ IsFiniteSet(w.keys)
    /\ Settled(w) + 1 <= w.notices
    /\ ~ w.fault => Settled(w) + 1 = w.notices

\* Rejecting it settles it, or ends the walk.
LEMMA RejectSettles ==
    ASSUME NEW K, NEW caller, NEW w \in Walks(K, caller), NEW l, Pending(w, l)
    PROVE  Kept(Reject(w, caller), l)
<1>1. /\ Settled(w) \in Nat /\ w.notices \in Nat /\ w.rejected \in Nat /\ w.duplicates \in Nat
      /\ Cardinality(w.keys) \in Nat
  BY KeptType DEF Pending
<1>2. CASE caller = "survey"
  <2> DEFINE v == [w EXCEPT !.rejected = w.rejected + 1]
  <2>1. Reject(w, caller) = v
    BY <1>2 DEF Reject
  <2>2. /\ v.spent = w.spent /\ v.notices = w.notices /\ v.fault = w.fault
        /\ v.containers = w.containers /\ v.keys = w.keys
        /\ v.rejected = w.rejected + 1 /\ v.duplicates = w.duplicates
    BY DEF Walks
  <2> HIDE DEF v
  <2>3. Settled(v) = Settled(w) + 1
    BY <1>1, <2>2 DEF Settled
  <2> QED
    BY <2>1, <2>2, <2>3 DEF Kept, Pending
<1>3. CASE caller # "survey"
  <2> DEFINE v == Fault(w)
  <2>1. Reject(w, caller) = v
    BY <1>3 DEF Reject
  <2>2. /\ v.spent = w.spent /\ v.notices = w.notices /\ v.fault
        /\ v.containers = w.containers /\ v.keys = w.keys
        /\ v.rejected = w.rejected /\ v.duplicates = w.duplicates
    BY DEF Fault, Walks
  <2> HIDE DEF v
  <2>3. Settled(v) = Settled(w)
    BY <2>2 DEF Settled
  <2> QED
    BY <1>1, <2>1, <2>2, <2>3 DEF Kept, Pending
<1> QED
  BY <1>2, <1>3

\* So does taking it.
LEMMA ReceiveSettles ==
    ASSUME NEW K, NEW caller, NEW w \in Walks(K, caller), NEW l, NEW m, Pending(w, l)
    PROVE  Kept(Receive(w, m, caller), l)
<1>1. /\ Settled(w) \in Nat /\ w.notices \in Nat /\ w.rejected \in Nat /\ w.duplicates \in Nat
      /\ Cardinality(w.keys) \in Nat /\ IsFiniteSet(w.keys)
  BY KeptType DEF Pending
<1>2. CASE caller # "inspect" /\ ~ Projects(m)
  BY <1>2, RejectSettles DEF Receive
<1>3. CASE (caller # "inspect" => Projects(m)) /\ m.key \notin w.keys
  <2> DEFINE v == [w EXCEPT !.keys = w.keys \cup {m.key}]
  <2>1. Receive(w, m, caller) = v
    BY <1>3 DEF Receive
  <2>2. /\ v.spent = w.spent /\ v.notices = w.notices /\ v.fault = w.fault
        /\ v.containers = w.containers /\ v.keys = w.keys \cup {m.key}
        /\ v.rejected = w.rejected /\ v.duplicates = w.duplicates
    BY DEF Walks
  <2> HIDE DEF v
  <2>3. /\ IsFiniteSet(w.keys \cup {m.key})
        /\ Cardinality(w.keys \cup {m.key}) = Cardinality(w.keys) + 1
    BY <1>1, <1>3, FS_AddElement
  <2>4. Settled(v) = Settled(w) + 1
    BY <1>1, <2>2, <2>3 DEF Settled
  <2> QED
    BY <2>1, <2>2, <2>3, <2>4 DEF Kept, Pending
<1>4. CASE (caller # "inspect" => Projects(m)) /\ m.key \in w.keys /\ caller = "survey"
  <2> DEFINE v == [w EXCEPT !.duplicates = w.duplicates + 1]
  <2>1. Receive(w, m, caller) = v
    BY <1>4 DEF Receive
  <2>2. /\ v.spent = w.spent /\ v.notices = w.notices /\ v.fault = w.fault
        /\ v.containers = w.containers /\ v.keys = w.keys
        /\ v.rejected = w.rejected /\ v.duplicates = w.duplicates + 1
    BY DEF Walks
  <2> HIDE DEF v
  <2>3. Settled(v) = Settled(w) + 1
    BY <1>1, <2>2 DEF Settled
  <2> QED
    BY <2>1, <2>2, <2>3 DEF Kept, Pending
<1>5. CASE (caller # "inspect" => Projects(m)) /\ m.key \in w.keys /\ caller # "survey"
  BY <1>5, RejectSettles DEF Receive, Reject
<1> QED
  BY <1>2, <1>3, <1>4, <1>5

\* A notice is read within the limits and settled, or it ends the walk.
LEMMA NoticeKeeps ==
    ASSUME NEW K, NEW caller, NEW w \in Walks(K, caller), NEW l, IsLimits(l),
           NEW m, m.size \in Nat, NEW outer, Kept(w, l), ~ w.fault
    PROVE  Kept(Notice(w, m, l, caller, outer), l)
<1> DEFINE charged == Spend(w, m.size, l)
           read == [charged EXCEPT !.notices = charged.notices + 1]
           placed == IF m.kind = "xml" /\ outer THEN Claim(read, "flat") ELSE read
           notice == Notice(w, m, l, caller, outer)
<1>1. CASE m.size > l.member \/ w.notices >= l.notices
  BY <1>1, FaultKeeps DEF Notice
<1>2. CASE ~ (m.size > l.member \/ w.notices >= l.notices)
  <2>1. notice = IF read.fault \/ placed.fault THEN Fault(placed)
                 ELSE IF m.kind # "xml" \/ ~ Parses(m) THEN Reject(placed, caller)
                 ELSE Receive(placed, m, caller)
    BY <1>2 DEF Notice
  <2>2. charged \in Walks(K, caller) /\ Kept(charged, l) /\ charged.notices = w.notices
    <3>1. charged.notices = w.notices
      BY DEF Spend, Walks
    <3> QED
      BY <3>1, SpendStep, SpendKeeps
  <2> HIDE DEF charged
  <2>3. /\ read \in Walks(K, caller)
        /\ read.spent = charged.spent /\ read.notices = charged.notices + 1
        /\ read.fault = charged.fault /\ read.containers = charged.containers
        /\ read.keys = charged.keys /\ read.rejected = charged.rejected
        /\ read.duplicates = charged.duplicates
    BY <2>2 DEF Walks
  <2> HIDE DEF read
  <2>4. Settled(read) = Settled(charged) /\ Settled(charged) \in Nat
    BY <2>2, <2>3, KeptType DEF Settled, Kept
  <2>5. w.notices < l.notices /\ w.notices \in Nat
    BY <1>2 DEF Walks, IsLimits
  <2>6. Pending(read, l)
    BY <2>2, <2>3, <2>4, <2>5 DEF Kept, Pending, IsLimits
  <2>7. placed \in Walks(K, caller) /\ Pending(placed, l)
    <3>1. CASE m.kind = "xml" /\ outer
      <4>1. placed = Claim(read, "flat")
        BY <3>1
      <4> HIDE DEF placed
      <4>2. placed \in Walks(K, caller)
        BY <2>3, <4>1, ClaimStep
      <4>3. /\ placed.spent = read.spent /\ placed.notices = read.notices
            /\ placed.containers = read.containers /\ placed.keys = read.keys
            /\ placed.rejected = read.rejected /\ placed.duplicates = read.duplicates
            /\ ~ placed.fault => ~ read.fault
        BY <2>3, <4>1 DEF Claim, Fault, Walks
      <4>4. Settled(placed) = Settled(read)
        BY <4>3 DEF Settled
      <4> QED
        BY <2>6, <4>2, <4>3, <4>4 DEF Pending
    <3>2. CASE ~ (m.kind = "xml" /\ outer)
      BY <2>3, <2>6, <3>2
    <3> QED
      BY <3>1, <3>2
  <2> HIDE DEF placed, notice
  <2>8. CASE read.fault \/ placed.fault
    <3> DEFINE v == Fault(placed)
    <3>1. notice = v
      BY <2>1, <2>8
    <3>2. /\ v.spent = placed.spent /\ v.notices = placed.notices /\ v.fault
          /\ v.containers = placed.containers /\ v.keys = placed.keys
          /\ v.rejected = placed.rejected /\ v.duplicates = placed.duplicates
      BY <2>7 DEF Fault, Walks
    <3> HIDE DEF v
    <3>3. Settled(v) = Settled(placed)
      BY <3>2 DEF Settled
    <3>4. Settled(placed) \in Nat /\ placed.notices \in Nat
      BY <2>7, KeptType DEF Pending
    <3>5. Kept(v, l)
      BY <2>7, <3>2, <3>3, <3>4 DEF Pending, Kept
    <3> QED
      BY <3>1, <3>5 DEF notice
  <2>9. CASE ~ (read.fault \/ placed.fault)
    <3>1. notice = Reject(placed, caller) \/ notice = Receive(placed, m, caller)
      BY <2>1, <2>9
    <3>2. Kept(Reject(placed, caller), l) /\ Kept(Receive(placed, m, caller), l)
      BY <2>7, RejectSettles, ReceiveSettles
    <3> QED
      BY <3>1, <3>2 DEF notice
  <2> QED
    BY <2>8, <2>9
<1> QED
  BY <1>1, <1>2

\* A member of a container.
LEMMA NestedKeeps ==
    ASSUME NEW K, NEW caller, NEW w \in Walks(K, caller), NEW l, IsLimits(l),
           NEW m, m.size \in Nat, Kept(w, l)
    PROVE  Kept(Nested(w, m, l, caller), l)
<1> DEFINE headed == Spend(w, 1, l)
<1>1. headed \in Walks(K, caller) /\ Kept(headed, l)
  BY SpendStep, SpendKeeps
<1>2. Nested(w, m, l, caller) =
        IF w.fault THEN w
        ELSE IF headed.fault \/ m.kind \in {"unsafe", "special", "container"} THEN Fault(headed)
        ELSE IF m.kind = "directory" THEN headed
        ELSE Notice(headed, m, l, caller, FALSE)
  BY DEF Nested
<1> HIDE DEF headed
<1>3. Kept(Fault(headed), l)
  BY <1>1, FaultKeeps
<1>4. ~ headed.fault => Kept(Notice(headed, m, l, caller, FALSE), l)
  BY <1>1, NoticeKeeps
<1> QED
  BY <1>1, <1>2, <1>3, <1>4

\* The end of a stream.
LEMMA DrainKeeps ==
    ASSUME NEW K, NEW caller, NEW w \in Walks(K, caller), NEW l, IsLimits(l),
           NEW b, b.padding \in Nat, Kept(w, l)
    PROVE  Kept(Drain(w, b, l), l)
  BY FaultKeeps, SpendKeeps DEF Drain

\* A container of the archive, and all that is inside.
LEMMA ContainerKeeps ==
    ASSUME NEW a, IsArchive(a), NEW l, IsLimits(l), NEW caller, NEW K, KeysIn(a, l, K),
           NEW w \in Walks(K, caller), Kept(w, l), NEW i \in Opened(a, l)
    PROVE  Kept(Container(w, a.members[i], l, caller), l)
<1> DEFINE m == a.members[i]
           b == m.inside
           n == Len(b.members)
           charged == Spend(w, m.size, l)
           opened == [charged EXCEPT !.containers = charged.containers + 1]
           W == {u \in Walks(K, caller) : Kept(u, l)}
<1>1. m.size \in Nat /\ IsLayer(b)
  BY InsideType
<1>2. /\ n \in Nat /\ DOMAIN b.members = 1..n /\ b.padding \in Nat
      /\ \A j \in 1..n : b.members[j].size \in Nat
  BY <1>1, LayerType
<1>3. \A j \in 1..n : b.members[j].key \in K
  <2>1. \A j \in 1..n : <<i, j>> \in Places(a, l) /\ At(a, <<i, j>>) = b.members[j]
    BY InsidePlaces
  <2> HIDE DEF b, n
  <2> QED
    BY <2>1 DEF KeysIn
<1>4. Container(w, m, l, caller) =
        IF w.fault \/ w.containers >= l.container_count \/ m.size > l.container
        THEN Fault(w)
        ELSE Drain(NestedAll(opened, b, l, caller), b, l)
  BY DEF Container, NestedAll
<1>5. CASE w.fault \/ w.containers >= l.container_count \/ m.size > l.container
  BY <1>4, <1>5, FaultKeeps
<1>6. CASE ~ (w.fault \/ w.containers >= l.container_count \/ m.size > l.container)
  <2>1. charged \in Walks(K, caller) /\ Kept(charged, l) /\ charged.containers = w.containers
    <3>1. charged.containers = w.containers
      BY DEF Spend, Walks
    <3> QED
      BY <1>1, <3>1, SpendStep, SpendKeeps
  <2> HIDE DEF charged
  <2>2. /\ opened \in Walks(K, caller)
        /\ opened.spent = charged.spent /\ opened.notices = charged.notices
        /\ opened.fault = charged.fault /\ opened.containers = w.containers + 1
        /\ opened.keys = charged.keys /\ opened.rejected = charged.rejected
        /\ opened.duplicates = charged.duplicates
    BY <2>1 DEF Walks
  <2> HIDE DEF opened
  <2>3. Settled(opened) = Settled(charged)
    BY <2>2 DEF Settled
  <2>4. w.containers + 1 <= l.container_count
    BY <1>6 DEF Walks, IsLimits
  <2>5. opened \in W
    BY <2>1, <2>2, <2>3, <2>4 DEF Kept
  <2>6. ASSUME NEW u \in W, NEW j \in 1..n PROVE Nested(u, b.members[j], l, caller) \in W
    <3> DEFINE x == b.members[j]
               outer == FALSE
               v == Nested(u, x, l, caller)
    <3>1. u \in Walks(K, caller) /\ Kept(u, l)
      OBVIOUS
    <3>2. x.size \in Nat /\ x.key \in K
      BY <1>2, <1>3
    <3>3. outer \in BOOLEAN /\ ~ outer /\ v = Nested(u, x, l, caller)
      OBVIOUS
    <3> HIDE DEF x, v, outer, W
    <3>4. v \in Walks(K, caller)
      BY <3>1, <3>2, <3>3, NestedStep
    <3>5. Kept(v, l)
      BY <3>1, <3>2, <3>3, NestedKeeps
    <3> QED
      BY <3>4, <3>5 DEF W, v, x
  <2> HIDE DEF W, b, n
  <2>7. PICK walk : NestedWalk(walk, W, opened, b, n, l, caller)
    BY <1>2, <2>5, <2>6, NestedSteps
  <2> DEFINE u == walk[n]
  <2>8. u \in W /\ NestedAll(opened, b, l, caller) = u
    <3>1. n \in 0..n
      BY <1>2
    <3> QED
      BY <2>7, <3>1 DEF NestedWalk
  <2> HIDE DEF u
  <2>9. u \in Walks(K, caller) /\ Kept(u, l)
    BY <2>8 DEF W
  <2>10. Kept(Drain(u, b, l), l)
    BY <1>2, <2>9, DrainKeeps
  <2> QED
    BY <1>4, <1>6, <2>8, <2>10
<1> QED
  BY <1>5, <1>6

\* A member of the archive.
LEMMA MemberKeeps ==
    ASSUME NEW a, IsArchive(a), NEW l, IsLimits(l), NEW caller, NEW K, KeysIn(a, l, K),
           NEW w \in Walks(K, caller), Kept(w, l), NEW i \in DOMAIN a.members
    PROVE  Kept(Member(w, a.members[i], l, caller), l)
<1> DEFINE m == a.members[i]
           headed == Spend(w, 1, l)
           claimed == Claim(headed, "nested")
<1>1. m.size \in Nat
  BY LayerType DEF IsArchive
<1>2. headed \in Walks(K, caller) /\ Kept(headed, l)
  BY SpendStep, SpendKeeps
<1>3. Member(w, m, l, caller) =
        IF w.fault THEN w
        ELSE IF headed.fault \/ m.kind \in {"unsafe", "special"} THEN Fault(headed)
        ELSE IF m.kind = "directory" THEN headed
        ELSE IF IsOpened(m, l) THEN Container(claimed, m, l, caller)
        ELSE Notice(headed, m, l, caller, TRUE)
  BY DEF Member, IsOpened
<1> HIDE DEF headed
<1>4. claimed \in Walks(K, caller) /\ Kept(claimed, l)
  BY <1>2, ClaimStep, ClaimKeeps
<1> HIDE DEF claimed
<1>5. Kept(Fault(headed), l)
  BY <1>2, FaultKeeps
<1>6. ~ headed.fault => Kept(Notice(headed, m, l, caller, TRUE), l)
  BY <1>1, <1>2, NoticeKeeps
<1>7. IsOpened(m, l) => Kept(Container(claimed, m, l, caller), l)
  <2>1. IsOpened(m, l) => i \in Opened(a, l)
    BY DEF Opened
  <2> QED
    BY <1>4, <2>1, ContainerKeeps
<1> HIDE DEF m
<1>8. Kept(Member(w, m, l, caller), l)
  BY <1>2, <1>3, <1>5, <1>6, <1>7
<1> QED
  BY <1>8 DEF m

\* The whole walk.
LEMMA WalkKeeps ==
    ASSUME NEW a, IsArchive(a), NEW l, IsLimits(l), NEW caller, NEW K, KeysIn(a, l, K)
    PROVE  Walk(a, l, caller) \in Walks(K, caller) /\ Kept(Walk(a, l, caller), l)
<1> DEFINE n == Len(a.members)
           W == {u \in Walks(K, caller) : Kept(u, l)}
<1>1. n \in Nat /\ DOMAIN a.members = 1..n /\ a.padding \in Nat
  BY LayerType DEF IsArchive
<1>2. Start \in Walks(K, caller) /\ Kept(Start, l)
  <2>1. Start \in Walks(K, caller)
    BY StartTracks
  <2>2. IsFiniteSet({}) /\ Cardinality({}) = 0
    BY FS_EmptySet
  <2>3. Settled(Start) = 0
    BY <2>2 DEF Start, Settled
  <2> QED
    BY <2>1, <2>2, <2>3 DEF Start, Kept, IsLimits
<1>3. ASSUME NEW u \in W, NEW i \in 1..n PROVE Member(u, a.members[i], l, caller) \in W
  <2>1. u \in Walks(K, caller) /\ Kept(u, l) /\ i \in DOMAIN a.members
    BY <1>1
  <2> HIDE DEF W
  <2> QED
    BY <2>1, MemberType, MemberKeeps DEF W
<1>4. Start \in W
  BY <1>2
<1> HIDE DEF W, n
<1>5. PICK walk : MemberWalk(walk, W, Start, a, n, l, caller)
  BY <1>1, <1>3, <1>4, MemberSteps
<1> DEFINE u == walk[n]
<1>6. u \in W /\ MemberAll(Start, a, l, caller) = u
  <2>1. n \in 0..n
    BY <1>1
  <2> QED
    BY <1>5, <2>1 DEF MemberWalk
<1> HIDE DEF u
<1>7. u \in Walks(K, caller) /\ Kept(u, l)
  BY <1>6 DEF W
<1>8. Drain(u, a, l) \in Walks(K, caller) /\ Kept(Drain(u, a, l), l)
  BY <1>1, <1>7, DrainStep, DrainKeeps
<1>9. Fault(Start) \in Walks(K, caller) /\ Kept(Fault(Start), l)
  BY <1>2, FaultStep, FaultKeeps
<1>10. Walk(a, l, caller) = IF a.compressed > l.compressed THEN Fault(Start) ELSE Drain(u, a, l)
  BY <1>6 DEF Walk, MemberAll
<1> QED
  BY <1>8, <1>9, <1>10

\* Whatever the archive, a walk stops within its policy: it reads at most one unit past the
\* budget, and no more notices and containers than it may (packages.py, _ExpandedReader and
\* the checks of _notice and _container).
THEOREM WalksAreBounded ==
    ASSUME NEW a, IsArchive(a), NEW l, IsLimits(l), NEW caller, NEW w, w = Walk(a, l, caller)
    PROVE  /\ w.spent <= l.expanded + 1 /\ w.notices <= l.notices
           /\ w.containers <= l.container_count
<1> DEFINE K == {At(a, p).key : p \in Places(a, l)}
<1>1. KeysIn(a, l, K)
  BY DEF KeysIn
<1> HIDE DEF K
<1> QED
  BY <1>1, WalkKeeps DEF Kept

\* The figures that a survey reports add up: each notice that it read has an identity of its
\* own, repeats one, or is incompatible, and is counted once (packages.py, survey_package).
THEOREM SurveysAddUp ==
    ASSUME NEW a, IsArchive(a), NEW l, IsLimits(l), NEW w, w = Walk(a, l, "survey"), ~ w.fault
    PROVE  w.notices = Cardinality(w.keys) + w.rejected + w.duplicates
<1> DEFINE K == {At(a, p).key : p \in Places(a, l)}
<1>1. KeysIn(a, l, K)
  BY DEF KeysIn
<1> HIDE DEF K
<1> QED
  BY <1>1, WalkKeeps DEF Kept, Settled

-----------------------------------------------------------------------------
(* What a label may cost *)

\* Policies count in MiB, a walk in units: what a policy allows the walk, when a MiB is u of
\* them.
limits_in(u, policy) ==
    LET l == limits_from(policy) IN
    [compressed |-> u * l.compressed, expanded |-> u * l.expanded, member |-> u * l.member,
     notices |-> l.notices, container_count |-> l.container_count,
     container |-> u * l.container]

\* The limits of the two policies.
LEMMA LimitsOfPolicies ==
    ASSUME NEW u \in Nat
    PROVE  /\ limits_in(u, DAILY_POLICY) =
                [compressed |-> u * 64, expanded |-> u * 512, member |-> u * 8, notices |-> 10000,
                 container_count |-> 0, container |-> u * 64]
           /\ limits_in(u, MONTHLY_POLICY) =
                [compressed |-> u * 512, expanded |-> u * 8192, member |-> u * 32,
                 notices |-> 150000, container_count |-> 64, container |-> u * 64]
<1>1. limits_from(DAILY_POLICY) =
        [compressed |-> 64, expanded |-> 512, member |-> 8, notices |-> 10000,
         container_count |-> 0, container |-> 64]
  BY DEF limits_from, DAILY_POLICY
<1>2. limits_from(MONTHLY_POLICY) =
        [compressed |-> 512, expanded |-> 8192, member |-> 32, notices |-> 150000,
         container_count |-> 64, container |-> 64]
  <2>1. /\ MONTHLY_POLICY.compressed_bytes = 512 /\ MONTHLY_POLICY.expanded_bytes = 8192
        /\ MONTHLY_POLICY.member_bytes = 32 /\ MONTHLY_POLICY.notices = 150000
        /\ MONTHLY_POLICY.container_count = 64 /\ MONTHLY_POLICY.container_bytes = 64
    BY DEF MONTHLY_POLICY, DAILY_POLICY
  <2> QED
    BY <2>1 DEF limits_from
<1> QED
  BY <1>1, <1>2 DEF limits_in

\* The narrowest policy allows no more than any other.
LEMMA NarrowestPolicy ==
    ASSUME NEW u \in Nat, NEW label, ~ Supported(label), NEW id,
           NEW lo, lo = limits_in(u, policy_for(label)), NEW hi, hi = limits_in(u, policy_for(id))
    PROVE  IsLimits(lo) /\ IsLimits(hi) /\ \A limit \in DOMAIN hi : lo[limit] <= hi[limit]
<1>1. policy_for(label) = DAILY_POLICY
  BY DEF policy_for
<1>2. policy_for(id) = DAILY_POLICY \/ policy_for(id) = MONTHLY_POLICY
  BY DEF policy_for
<1>3. \A n \in {8, 32, 64, 512, 8192} : u * n \in Nat
  OBVIOUS
<1>4. lo = [compressed |-> u * 64, expanded |-> u * 512, member |-> u * 8, notices |-> 10000,
            container_count |-> 0, container |-> u * 64]
  BY <1>1, LimitsOfPolicies
<1>5. IsLimits(lo)
  BY <1>3, <1>4 DEF IsLimits
<1>6. CASE policy_for(id) = DAILY_POLICY
  <2>1. hi = lo
    BY <1>1, <1>6
  <2> QED
    BY <1>3, <1>4, <1>5, <2>1
<1>7. CASE policy_for(id) = MONTHLY_POLICY
  <2>1. hi = [compressed |-> u * 512, expanded |-> u * 8192, member |-> u * 32,
              notices |-> 150000, container_count |-> 64, container |-> u * 64]
    BY <1>7, LimitsOfPolicies
  <2>2. IsLimits(hi)
    BY <1>3, <2>1 DEF IsLimits
  <2>3. u * 64 <= u * 512 /\ u * 512 <= u * 8192 /\ u * 8 <= u * 32
    OBVIOUS
  <2> QED
    BY <1>3, <1>4, <1>5, <2>1, <2>2, <2>3
<1> QED
  BY <1>2, <1>6, <1>7

\* A label that is no identity can only have work refused: what the loader accepts under its
\* policy it accepts under that of any identity (package_contract.py, policy_for).
THEOREM LabelsGainNothing ==
    ASSUME NEW a, IsArchive(a), NEW u \in Nat, NEW label, ~ Supported(label), NEW id,
           load_accepts(a, limits_in(u, policy_for(label)))
    PROVE  load_accepts(a, limits_in(u, policy_for(id)))
<1> DEFINE lo == limits_in(u, policy_for(label))
           hi == limits_in(u, policy_for(id))
<1>1. lo = limits_in(u, policy_for(label)) /\ hi = limits_in(u, policy_for(id))
  OBVIOUS
<1> HIDE DEF lo, hi
<1>2. IsLimits(lo) /\ IsLimits(hi) /\ \A limit \in DOMAIN hi : lo[limit] <= hi[limit]
  BY <1>1, NarrowestPolicy
<1>3. load_accepts(a, lo)
  BY DEF lo
<1> QED
  BY <1>2, <1>3, WiderLimitsLoadMore DEF hi
=============================================================================
