------------------------------ MODULE TreeProofs ------------------------------
(***************************************************************************)
(* What one workspace shows, for every size of it.                         *)
(***************************************************************************)
EXTENDS MCTree, FiniteSetTheorems, FunctionTheorems, TLAPS

-----------------------------------------------------------------------------
(* The places of a sequence, counted.                                       *)
Rank(places, i) == Cardinality({j \in places : j < i})

(* Each place has a rank of its own, and each rank a place. *)
LEMMA Ranks ==
  ASSUME NEW n \in Nat, NEW K \in SUBSET (1 .. n)
  PROVE  /\ IsFiniteSet(K) /\ Cardinality(K) \in Nat
         /\ \A i \in K : Rank(K, i) \in 0 .. Cardinality(K) - 1
         /\ \A i \in K, h \in K : i < h => Rank(K, i) < Rank(K, h)
         /\ \A k \in 1 .. Cardinality(K) : \E i \in K : Rank(K, i) = k - 1
<1>1. IsFiniteSet(1 .. n) BY FS_Interval
<1>2. IsFiniteSet(K) /\ Cardinality(K) \in Nat BY <1>1, FS_Subset, FS_CardinalityType
<1>3. ASSUME NEW i \in K, NEW T \in SUBSET K, \A j \in K : j < i => j \in T, i \in T
      PROVE  Rank(K, i) < Cardinality(T) /\ Rank(K, i) \in Nat
  <2> DEFINE B == {j \in K : j < i}
  <2>1. IsFiniteSet(T) /\ Cardinality(T) \in Nat BY <1>2, FS_Subset, FS_CardinalityType
  <2>2. i \in 1 .. n OBVIOUS
  <2>3. i \notin B BY <2>2
  <2>4. B \subseteq T /\ B # T BY <1>3, <2>3
  <2>5. IsFiniteSet(B) /\ Cardinality(B) <= Cardinality(T) /\ Cardinality(B) # Cardinality(T) /\ Cardinality(B) \in Nat
    BY <2>1, <2>4, FS_Subset, FS_CardinalityType
  <2> QED BY <2>1, <2>5 DEF Rank
<1>4. \A i \in K : Rank(K, i) \in 0 .. Cardinality(K) - 1
  BY <1>2, <1>3
<1>5. ASSUME NEW i \in K, NEW h \in K, i < h PROVE Rank(K, i) < Rank(K, h)
  <2> DEFINE T == {j \in K : j < h}
  <2>1. T \in SUBSET K /\ i \in T /\ \A j \in K : j < i => j \in T BY <1>5
  <2>2. Rank(K, i) < Cardinality(T) BY <1>3, <2>1
  <2> QED BY <2>2 DEF Rank
<1>6. ASSUME NEW k \in 1 .. Cardinality(K) PROVE \E i \in K : Rank(K, i) = k - 1
  <2> DEFINE T == 0 .. Cardinality(K) - 1
             f == [i \in K |-> Rank(K, i)]
  <2> DEFINE c == Cardinality(K) - 1
  <2>0. c \in Int /\ 0 \in Int /\ c >= -1 /\ T = 0 .. c BY <1>2
  <2> HIDE DEF c
  <2>3. IsFiniteSet(0 .. c) /\ Cardinality(0 .. c) = IF 0 > c THEN 0 ELSE c - 0 + 1 BY <2>0, FS_Interval
  <2>1. IsFiniteSet(T) /\ Cardinality(T) = Cardinality(K) BY <2>0, <2>3, <1>2 DEF c
  <2>2. f \in [K -> T] BY <1>4
  <2>8. \A i, h \in K : f[i] = f[h] => i = h
    <3> SUFFICES ASSUME NEW i \in K, NEW h \in K, f[i] = f[h], i # h PROVE FALSE OBVIOUS
    <3>1. i < h \/ h < i OBVIOUS
    <3>2. Rank(K, i) = Rank(K, h) /\ Rank(K, i) \in Nat /\ Rank(K, h) \in Nat BY <1>4, <1>2
    <3> QED BY <3>1, <3>2, <1>5
  <2>4. f \in Injection(K, T) BY <2>2, <2>8 DEF Injection, IsInjective
  <2>5. f \in Surjection(K, T) BY <2>1, <2>4, FS_Injection
  <2>6. k - 1 \in T BY <1>2
  <2>7. \E i \in K : f[i] = k - 1 BY <2>5, <2>6 DEF Surjection
  <2> QED BY <2>7
<1> QED BY <1>2, <1>4, <1>5, <1>6

(* The parts count as this module does. *)
LEMMA QuickSearchCounts == \A X : Q!Cardinality(X) = Cardinality(X)
  BY DEF Q!Cardinality, Cardinality
LEMMA SignalsCounts == \A X : S!Cardinality(X) = Cardinality(X)
  BY DEF S!Cardinality, Cardinality

(* The k-th place. *)
LEMMA Placed ==
  ASSUME NEW n \in Nat, NEW K \in SUBSET (1 .. n), NEW k \in 1 .. Cardinality(K)
  PROVE  Q!Place(K, k) \in K /\ Rank(K, Q!Place(K, k)) = k - 1
<1>1. \E i \in K : Rank(K, i) = k - 1 BY Ranks
<1> DEFINE R(i) == Cardinality({j \in K : j < i}) = k - 1
<1>2. \E i \in K : R(i) BY <1>1 DEF Rank
<1>3. Q!Place(K, k) = CHOOSE i \in K : R(i) BY QuickSearchCounts DEF Q!Place
<1>4. (CHOOSE i \in K : R(i)) \in K /\ R(CHOOSE i \in K : R(i)) BY <1>2
<1>5. Q!Place(K, k) \in K /\ R(Q!Place(K, k)) BY <1>3, <1>4
<1> QED BY <1>5 DEF Rank

(* A subset of what is kept, counted in the whole: the places where the    *)
(* elements of a kept sequence came from are as many, in the same order.    *)
LEMMA KeptTwice ==
  ASSUME NEW n \in Nat, NEW A \in SUBSET (1 .. n), NEW B \in SUBSET (1 .. Cardinality(A))
  PROVE  \A M : (\A i : i \in M <=> \E b \in B : i = Q!Place(A, b)) =>
           /\ M \in SUBSET A
           /\ Cardinality(M) = Cardinality(B)
           /\ \A b \in B : Rank(M, Q!Place(A, b)) = Rank(B, b)
<1> SUFFICES ASSUME NEW M, \A i : i \in M <=> \E b \in B : i = Q!Place(A, b)
             PROVE  /\ M \in SUBSET A
                    /\ Cardinality(M) = Cardinality(B)
                    /\ \A b \in B : Rank(M, Q!Place(A, b)) = Rank(B, b)
  OBVIOUS
<1> DEFINE p(b) == Q!Place(A, b)
<1>8. M = {p(b) : b \in B} OBVIOUS
<1>0. Cardinality(A) \in Nat BY Ranks
<1>1. \A b \in B : p(b) \in A /\ Rank(A, p(b)) = b - 1 BY Placed
<1>9. \A b \in B : b \in Nat /\ p(b) \in Nat
  <2>1. A \subseteq Nat /\ B \subseteq Nat BY <1>0
  <2> HIDE DEF p
  <2> QED BY <2>1, <1>1
<1>2. M \in SUBSET A BY <1>1, <1>8
<1>3. \A b, c \in B : b < c => p(b) < p(c)
  <2> SUFFICES ASSUME NEW b \in B, NEW c \in B, b < c, ~(p(b) < p(c)) PROVE FALSE OBVIOUS
  <2>0. p(b) \in A /\ p(c) \in A BY <1>1
  <2>1. p(b) \in A /\ p(c) \in A /\ p(b) \in Nat /\ p(c) \in Nat BY <2>0, <1>9
  <2>2. b \in Nat /\ c \in Nat /\ Rank(A, p(b)) = b - 1 /\ Rank(A, p(c)) = c - 1 BY <1>1, <1>0
  <2>3. CASE p(c) < p(b)
    <3>1. Rank(A, p(c)) < Rank(A, p(b)) BY <2>1, <2>3, Ranks
    <3> QED BY <3>1, <2>2
  <2>4. CASE p(c) = p(b) BY <2>4, <2>2
  <2> QED BY <2>1, <2>3, <2>4
<1>4. IsFiniteSet(B) /\ Cardinality(B) \in Nat BY <1>0, Ranks
<1>5. ASSUME NEW C \in SUBSET B, NEW D, D = {p(b) : b \in C} PROVE Cardinality(D) = Cardinality(C)
  <2> DEFINE f == [b \in C |-> p(b)]
  <2>1. f \in [C -> D] BY <1>5
  <2>2. \A b, c \in C : f[b] = f[c] => b = c
    <3> SUFFICES ASSUME NEW b \in C, NEW c \in C, f[b] = f[c], b # c PROVE FALSE OBVIOUS
    <3>1. b \in Nat /\ c \in Nat /\ p(b) = p(c) /\ p(b) \in Nat BY <1>1, <1>0
    <3>2. b < c \/ c < b BY <3>1
    <3> QED BY <3>1, <3>2, <1>3
  <2>3. \A d \in D : \E b \in C : f[b] = d BY <1>5
  <2>4. f \in Injection(C, D) BY <2>1, <2>2 DEF Injection, IsInjective
  <2>5. f \in Surjection(C, D) BY <2>1, <2>3 DEF Surjection
  <2>6. f \in Bijection(C, D) BY <2>4, <2>5 DEF Bijection
  <2>7. IsFiniteSet(C) BY <1>4, FS_Subset
  <2>8. ExistsBijection(C, D) BY <2>6 DEF ExistsBijection
  <2> QED BY <2>7, <2>8, FS_Bijection
<1>6. Cardinality(M) = Cardinality(B) BY <1>5, <1>8
<1>7. ASSUME NEW b \in B PROVE Rank(M, p(b)) = Rank(B, b)
  <2> DEFINE C == {c \in B : c < b}
             D == {j \in M : j < p(b)}
  <2>1. D = {p(c) : c \in C}
    <3>1. ASSUME NEW c \in B PROVE (p(c) < p(b)) = (c < b)
      <4>1. p(b) \in Nat /\ p(c) \in Nat /\ b \in Nat /\ c \in Nat BY <1>9
      <4>2. c < b \/ c = b \/ b < c BY <4>1
      <4> QED BY <4>1, <4>2, <1>3
    <3> QED BY <3>1, <1>8
  <2>2. Cardinality(D) = Cardinality(C) BY <2>1, <1>5
  <2> QED BY <2>2 DEF Rank
<1> QED BY <1>2, <1>6, <1>7

-----------------------------------------------------------------------------
(* The pipeline of a search: the first Cap of the nodes in scope, in their  *)
(* order.                                                                   *)
LEMMA KeepKeeps ==
  ASSUME NEW T, NEW s \in Seq(T), NEW A \in SUBSET DOMAIN s
  PROVE  /\ Q!Keep(s, A) \in Seq(T) /\ Len(Q!Keep(s, A)) = Cardinality(A)
         /\ Cardinality(A) \in Nat
         /\ \A k \in 1 .. Cardinality(A) : Q!Keep(s, A)[k] = s[Q!Place(A, k)]
<1>1. Len(s) \in Nat /\ DOMAIN s = 1 .. Len(s) /\ A \in SUBSET (1 .. Len(s)) OBVIOUS
<1>2. Cardinality(A) \in Nat BY <1>1, Ranks
<1>3. \A k \in 1 .. Cardinality(A) : Q!Place(A, k) \in A BY <1>1, Placed
<1>4. Q!Keep(s, A) = [k \in 1 .. Cardinality(A) |-> s[Q!Place(A, k)]]
  BY QuickSearchCounts DEF Q!Keep
<1>5. \A k \in 1 .. Cardinality(A) : s[Q!Place(A, k)] \in T BY <1>1, <1>3
<1>6. [k \in 1 .. Cardinality(A) |-> s[Q!Place(A, k)]] \in Seq(T) BY <1>2, <1>5
<1> QED BY <1>2, <1>4, <1>6

Selects(r, s, M) ==
  /\ Len(r) = Cardinality(M)
  /\ \A k \in 1 .. Len(r) : \E i \in M : s[i] = r[k] /\ Rank(M, i) = k - 1

InForce(s, effective, ids) ==
  {i \in DOMAIN s : s[i] \notin SearchFolders /\ (effective # "global" => s[i] \in ids)}

LEMMA FiltersSelect ==
  ASSUME NEW T, NEW s \in Seq(T), NEW effective, NEW ids
  PROVE  /\ Q!filterByScope(Q!toResultViews(s), effective, ids) \in Seq(T)
         /\ Selects(Q!filterByScope(Q!toResultViews(s), effective, ids), s, InForce(s, effective, ids))
<1> DEFINE A == {i \in DOMAIN s : s[i] \notin SearchFolders}
           v == Q!Keep(s, A)
           B == {b \in DOMAIN v : v[b] \in ids}
           M == InForce(s, effective, ids)
           p(b) == Q!Place(A, b)
<1>1. Len(s) \in Nat /\ DOMAIN s = 1 .. Len(s) /\ A \in SUBSET (1 .. Len(s)) OBVIOUS
<1>2. Q!toResultViews(s) = v BY DEF Q!toResultViews
<1>3. /\ v \in Seq(T) /\ Len(v) = Cardinality(A) /\ Cardinality(A) \in Nat
      /\ \A k \in 1 .. Cardinality(A) : v[k] = s[p(k)]
  BY <1>1, KeepKeeps
<1>4. \A k \in 1 .. Cardinality(A) : p(k) \in A /\ Rank(A, p(k)) = k - 1 BY <1>1, Placed
<1>7. M = IF effective = "global" THEN A ELSE {i \in A : s[i] \in ids} BY DEF InForce
<1>8. \A i \in A : Rank(A, i) \in 0 .. Cardinality(A) - 1 BY <1>1, Ranks
<1>9. \A i \in A, h \in A : i < h => Rank(A, i) < Rank(A, h) BY <1>1, Ranks
<1>10. A \in SUBSET (1 .. Len(s)) /\ Len(s) \in Nat BY <1>1
<1>11. B = {b \in DOMAIN v : v[b] \in ids} /\ Q!filterByScope(v, effective, ids) = IF effective = "global" THEN v ELSE Q!Keep(v, B)
  BY DEF Q!filterByScope
<1> HIDE DEF A, v, B, M
<1>5. CASE effective = "global"
  <2>1. Q!filterByScope(v, effective, ids) = v BY <1>5, <1>11
  <2>2. M = A BY <1>5, <1>7
  <2>3. \A k \in 1 .. Len(v) : p(k) \in A /\ s[p(k)] = v[k] /\ Rank(A, p(k)) = k - 1 BY <1>3, <1>4
  <2>4. Selects(v, s, A) BY <1>3, <2>3 DEF Selects
  <2> QED BY <1>2, <1>3, <2>1, <2>2, <2>4 DEF M
<1>6. CASE effective # "global"
  <2> DEFINE u == Q!Keep(v, B)
  <2>1. Q!filterByScope(v, effective, ids) = u BY <1>6, <1>11
  <2>2. DOMAIN v = 1 .. Cardinality(A) /\ B \in SUBSET (1 .. Cardinality(A)) /\ B \in SUBSET DOMAIN v BY <1>3, <1>11
  <2>3. M = {p(b) : b \in B}
    <3>1. \A b \in B : p(b) \in M BY <1>3, <1>4, <1>6, <1>7, <1>11, <2>2
    <3>2. ASSUME NEW i \in M PROVE \E b \in B : p(b) = i
      <4>1. i \in A /\ s[i] \in ids BY <1>6, <1>7
      <4> DEFINE b == Rank(A, i) + 1
      <4>2. b \in 1 .. Cardinality(A) BY <1>3, <1>8, <4>1
      <4>3. p(b) \in A /\ Rank(A, p(b)) = Rank(A, i) BY <1>4, <4>2, <1>3, <1>8, <4>1
      <4>4. p(b) = i
        <5>0. Rank(A, i) \in Nat BY <1>3, <1>8, <4>1
        <5>3. A \subseteq Nat BY <1>10
        <5>1. p(b) \in Nat /\ i \in Nat BY <4>1, <4>3, <5>3
        <5>2. ~(p(b) < i) /\ ~(i < p(b)) BY <1>9, <4>1, <4>3, <5>0
        <5> QED BY <5>1, <5>2
      <4>5. b \in B BY <1>3, <1>11, <4>1, <4>2, <4>4
      <4> QED BY <4>4, <4>5
    <3> QED BY <3>1, <3>2
  <2>4. /\ u \in Seq(T) /\ Len(u) = Cardinality(B) /\ Cardinality(B) \in Nat
        /\ \A k \in 1 .. Cardinality(B) : u[k] = v[Q!Place(B, k)]
    BY <1>3, <2>2, KeepKeeps
  <2>5. M \in SUBSET A /\ Cardinality(M) = Cardinality(B) /\ \A b \in B : Rank(M, p(b)) = Rank(B, b)
    <3>1. B \in SUBSET (1 .. Cardinality(A)) /\ \A i : i \in M <=> \E b \in B : i = Q!Place(A, b) BY <2>2, <2>3
    <3>2. \A R : (\A i : i \in R <=> \E b \in B : i = Q!Place(A, b)) =>
             /\ R \in SUBSET A
             /\ Cardinality(R) = Cardinality(B)
             /\ \A b \in B : Rank(R, Q!Place(A, b)) = Rank(B, b)
      BY <1>10, <3>1, KeptTwice
    <3> QED BY <3>1, <3>2
  <2>6. ASSUME NEW k \in 1 .. Len(u) PROVE \E i \in M : s[i] = u[k] /\ Rank(M, i) = k - 1
    <3> DEFINE b == Q!Place(B, k)
    <3>1. k \in 1 .. Cardinality(B) BY <2>4
    <3>2. b \in B /\ Rank(B, b) = k - 1 BY <1>3, <2>2, <3>1, Placed
    <3>3. p(b) \in M /\ Rank(M, p(b)) = k - 1 BY <2>3, <2>5, <3>2
    <3>4. s[p(b)] = u[k] BY <1>3, <2>2, <2>4, <3>1, <3>2
    <3> QED BY <3>3, <3>4
  <2>7. Selects(u, s, M) BY <2>4, <2>5, <2>6 DEF Selects
  <2> QED BY <1>2, <2>1, <2>4, <2>7 DEF M
<1> QED BY <1>5, <1>6 DEF M

LEMMA PipelineSelects ==
  ASSUME NEW T, NEW s \in Seq(T), NEW effective, NEW ids,
         NEW M, M = InForce(s, effective, ids)
  PROVE  /\ Q!pipeline(s, effective, ids) \in Seq(T)
         /\ Cardinality(M) \in Nat
         /\ Len(Q!pipeline(s, effective, ids)) = IF Cardinality(M) < Cap THEN Cardinality(M) ELSE Cap
         /\ \A k \in DOMAIN Q!pipeline(s, effective, ids) :
              \E i \in M : s[i] = Q!pipeline(s, effective, ids)[k] /\ Rank(M, i) = k - 1
<1> DEFINE u == Q!filterByScope(Q!toResultViews(s), effective, ids)
           r == Q!pipeline(s, effective, ids)
<1>1. u \in Seq(T) /\ Selects(u, s, M) BY FiltersSelect
<1>2. r = IF Len(u) <= Cap THEN u ELSE SubSeq(u, 1, Cap) BY DEF Q!pipeline, Q!capResults
<1>3. Len(u) \in Nat /\ Cap \in Nat /\ Cap > 0 /\ Len(u) = Cardinality(M) BY <1>1, TreeAssumption DEF Selects
<1> HIDE DEF u, r
<1>4. CASE Len(u) <= Cap
  <2>1. r = u BY <1>2, <1>4
  <2>2. DOMAIN r = 1 .. Len(u) BY <2>1, <1>1
  <2>3. Len(r) = IF Cardinality(M) < Cap THEN Cardinality(M) ELSE Cap BY <2>1, <1>3, <1>4
  <2> QED BY <1>1, <1>3, <2>1, <2>2, <2>3 DEF Selects, r
<1>5. CASE ~(Len(u) <= Cap)
  <2>1. r = SubSeq(u, 1, Cap) BY <1>2, <1>5
  <2>2. r \in Seq(T) /\ Len(r) = Cap /\ DOMAIN r = 1 .. Cap /\ \A k \in 1 .. Cap : r[k] = u[k]
    BY <2>1, <1>1, <1>3, <1>5
  <2>3. Len(r) = IF Cardinality(M) < Cap THEN Cardinality(M) ELSE Cap BY <2>2, <1>3, <1>5
  <2>4. 1 .. Cap \subseteq 1 .. Len(u) BY <1>3, <1>5
  <2> QED BY <1>1, <1>3, <2>2, <2>3, <2>4 DEF Selects, r
<1> QED BY <1>4, <1>5

-----------------------------------------------------------------------------
(* The search.  The list belongs to what was typed last: a search that may  *)
(* still answer asks for the input, and once none may the list is what the  *)
(* pipeline makes of the answer in the scope in force.                      *)
Effective == Q!resolveScopeAvailability(workspaceEnabled, persistedScope)
Found == UNION {Range(Answer[q]) : q \in Queries}

SearchesAsk ==
  /\ latest \in Nat /\ input \in Queries \union {Nothing}
  /\ \A s \in searches : s.token \in Nat /\ s.token <= latest /\ (s.token = latest => s.query = input /\ input \in Queries)
  /\ timer # None => timer = [query |-> input, token |-> latest] /\ input \in Queries

ScopeKnown ==
  /\ preferred \in Q!Scopes /\ persistedScope \in Q!Scopes /\ messages \in Seq(Q!Scopes)
  /\ signedIn \in BOOLEAN /\ boot \in {"asked", "answered", "failed"}
  /\ boot = "answered" =>
       workspaceEnabled = (signedIn /\ selected # {}) /\ managedChromeIds = Q!collectManagedChromeIds
  /\ boot # "answered" => workspaceEnabled = FALSE
  /\ boot = "asked" /\ ~early => input = Nothing

Highlighted ==
  /\ shown.results \in Seq(Found)
  /\ highlightIndex \in IF shown.results = <<>> THEN {0} ELSE 1 .. Len(shown.results)

Listed ==
  (Q!Rest /\ ~early) =>
    /\ shown.query = input
    /\ input # Nothing => shown.failed \/ shown.results = Q!pipeline(Answer[input], Effective, managedChromeIds)

SearchInv == SearchesAsk /\ ScopeKnown /\ Highlighted /\ Listed

LEMMA SearchStarts == Q!Init => SearchInv
<1> SUFFICES ASSUME Q!Init PROVE SearchInv OBVIOUS
<1>1. SearchesAsk BY DEF Q!Init, SearchesAsk
<1>2. ScopeKnown BY DEF Q!Init, ScopeKnown, Q!Scopes
<1>3. Highlighted BY DEF Q!Init, Highlighted
<1>4. Listed BY DEF Q!Init, Listed
<1> QED BY <1>1, <1>2, <1>3, <1>4 DEF SearchInv

(* What is rendered is well-formed. *)
LEMMA Renders ==
  ASSUME NEW q, NEW results, NEW failed, results \in Seq(Found), Q!render(q, results, failed)
  PROVE  /\ Highlighted'
         /\ shown'.query = q /\ shown'.results = results /\ shown'.failed = failed
<1>1. shown' = [query |-> q, results |-> results, failed |-> failed]
      /\ highlightIndex' = IF Len(results) > 0 THEN 1 ELSE 0 BY DEF Q!render
<1>2. Len(results) \in Nat OBVIOUS
<1>3. CASE results = <<>> BY <1>1, <1>3 DEF Highlighted
<1>4. CASE results # <<>>
  <2>1. Len(results) > 0 BY <1>4, <1>2
  <2> QED BY <1>1, <1>2, <1>4, <2>1 DEF Highlighted
<1> QED BY <1>1, <1>3, <1>4

LEMMA SearchTypes ==
  ASSUME NEW q \in Queries
  PROVE  /\ Answer[q] \in Seq(Found)
         /\ \A e, ids : Q!pipeline(Answer[q], e, ids) \in Seq(Found)
         /\ \A e, ids : Q!pipeline(<<>>, e, ids) \in Seq(Found)
<1>1. Answer[q] \in Seq(Found) BY TreeAssumption DEF Found
<1>2. <<>> \in Seq(Found) OBVIOUS
<1> QED BY <1>1, <1>2, PipelineSelects

LEMMA SearchSteps == SearchInv /\ (Q!Next \/ UNCHANGED searchVars) => SearchInv'
<1> SUFFICES ASSUME SearchInv, Q!Next \/ UNCHANGED searchVars PROVE SearchInv' OBVIOUS
<1> USE DEF SearchInv
<1>0. <<>> \in Seq(Found) OBVIOUS
<1>1. ASSUME NEW q \in Queries \union {Nothing}, Q!onInput(q) PROVE SearchInv'
  <2> USE DEF Q!onInput, Q!worker, Q!scope, Q!list
  <2>1. SearchesAsk' BY <1>1 DEF SearchesAsk
  <2>2. ScopeKnown'
    <3>1. UNCHANGED <<preferred, persistedScope, messages, signedIn, boot, selected, workspaceEnabled, managedChromeIds>>
      BY <1>1
    <3>2. boot = "asked" /\ ~early' => input' = Nothing BY <1>1
    <3> QED BY <3>1, <3>2 DEF ScopeKnown, Q!collectManagedChromeIds
  <2>3. CASE q = Nothing
    <3>1. Q!render(Nothing, <<>>, FALSE) /\ input' = Nothing BY <1>1, <2>3 DEF Q!renderEmpty
    <3>2. Highlighted' /\ shown'.query = Nothing BY <3>1, <1>0, Renders
    <3>3. Listed' BY <3>1, <3>2 DEF Listed
    <3> QED BY <2>1, <2>2, <3>2, <3>3
  <2>4. CASE q # Nothing
    <3>1. timer' = [query |-> q, token |-> latest + 1] /\ UNCHANGED <<shown, highlightIndex>> /\ q \in Queries BY <1>1, <2>4
    <3>2. Highlighted' BY <3>1 DEF Highlighted
    <3>3. timer' # None
      <4>1. timer' \in [query : Queries, token : Nat] BY <3>1 DEF SearchesAsk
      <4> QED BY <4>1, TreeAssumption
    <3>4. Listed' BY <3>3 DEF Listed, Q!Rest
    <3> QED BY <2>1, <2>2, <3>2, <3>4
  <2> QED BY <2>3, <2>4
<1>2. ASSUME Q!debounceElapses PROVE SearchInv'
  <2> USE DEF Q!debounceElapses, Q!worker, Q!scope, Q!list, Q!runSearch
  <2>1. /\ timer # None /\ timer' = None /\ searches' = searches \union {timer}
        /\ UNCHANGED <<preferred, persistedScope, messages, signedIn, boot, selected, workspaceEnabled, managedChromeIds,
                       shown, highlightIndex, input, latest, early>>
    BY <1>2
  <2>2. timer = [query |-> input, token |-> latest] /\ input \in Queries BY <2>1 DEF SearchesAsk
  <2>3. SearchesAsk' BY <2>1, <2>2 DEF SearchesAsk
  <2>4. ScopeKnown' BY <2>1 DEF ScopeKnown, Q!collectManagedChromeIds
  <2>5. Highlighted' BY <2>1 DEF Highlighted
  <2>6. ~Q!Rest' BY <2>1, <2>2 DEF Q!Rest
  <2> QED BY <2>3, <2>4, <2>5, <2>6 DEF Listed
<1>3. ASSUME NEW s \in searches, Q!searchAnswers(s) PROVE SearchInv'
  <2> USE DEF Q!searchAnswers, Q!worker, Q!scope, Q!list
  <2>1. /\ searches' = searches \ {s}
        /\ UNCHANGED <<preferred, persistedScope, messages, signedIn, boot, selected, workspaceEnabled, managedChromeIds,
                       input, latest, timer, early>>
    BY <1>3
  <2>2. SearchesAsk' BY <2>1 DEF SearchesAsk
  <2>3. ScopeKnown' BY <2>1 DEF ScopeKnown, Q!collectManagedChromeIds
  <2>4. CASE s.token = latest
    <3>1. s.query = input /\ input \in Queries BY <2>4 DEF SearchesAsk
    <3>2. PICK failed \in BOOLEAN :
            Q!render(s.query, Q!pipeline(IF failed THEN <<>> ELSE Answer[s.query], Effective, managedChromeIds), failed)
      BY <1>3, <2>4 DEF Effective
    <3> DEFINE r == Q!pipeline(IF failed THEN <<>> ELSE Answer[input], Effective, managedChromeIds)
    <3>3. r \in Seq(Found) BY <3>1, SearchTypes
    <3>4. Q!render(input, r, failed) BY <3>1, <3>2
    <3> HIDE DEF r
    <3>5. Highlighted' /\ shown'.query = input /\ shown'.results = r /\ shown'.failed = failed
      BY <3>3, <3>4, Renders
    <3>6. failed \/ r = Q!pipeline(Answer[input], Effective, managedChromeIds) BY DEF r
    <3>7. Effective' = Effective BY <2>1 DEF Effective, Q!resolveScopeAvailability
    <3>8. shown'.failed \/ shown'.results = Q!pipeline(Answer[input'], Effective', managedChromeIds')
      BY <2>1, <3>5, <3>6, <3>7
    <3>9. Listed' BY <2>1, <3>5, <3>8 DEF Listed
    <3> QED BY <2>2, <2>3, <3>5, <3>9
  <2>5. CASE s.token # latest
    <3>1. UNCHANGED <<shown, highlightIndex>> BY <1>3, <2>5
    <3>2. Highlighted' BY <3>1 DEF Highlighted
    <3>3. Q!Rest' => Q!Rest BY <2>1, <2>5 DEF Q!Rest
    <3>4. Effective' = Effective BY <2>1 DEF Effective, Q!resolveScopeAvailability
    <3>5. Listed' BY <2>1, <3>1, <3>3, <3>4 DEF Listed
    <3> QED BY <2>2, <2>3, <3>2, <3>5
  <2> QED BY <2>4, <2>5
<1>4. ASSUME NEW s \in Q!Scopes, Q!selectScope(s) PROVE SearchInv'
  <2> USE DEF Q!selectScope, Q!rerunCurrentSearch, Q!list
  <2>1. /\ timer' = None /\ latest' = latest + 1 /\ input' = input /\ persistedScope' = s /\ messages' = Append(messages, s)
        /\ s = "workspace" => workspaceEnabled
        /\ early' = (early \/ boot = "asked")
        /\ UNCHANGED <<preferred, signedIn, boot, selected, workspaceEnabled, managedChromeIds>>
    BY <1>4
  <2>5. messages' \in Seq(Q!Scopes) /\ persistedScope' \in Q!Scopes BY <2>1 DEF ScopeKnown
  <2>6. UNCHANGED Q!collectManagedChromeIds BY <2>1 DEF Q!collectManagedChromeIds
  <2>7. boot = "asked" => early' BY <2>1
  <2>2. ScopeKnown' BY <2>1, <2>5, <2>6, <2>7 DEF ScopeKnown
  <2>3. CASE input = Nothing
    <3>1. Q!render(Nothing, <<>>, FALSE) /\ searches' = searches BY <1>4, <2>3 DEF Q!renderEmpty
    <3>2. Highlighted' /\ shown'.query = Nothing BY <3>1, <1>0, Renders
    <3>3. SearchesAsk' BY <2>1, <3>1 DEF SearchesAsk
    <3>4. Listed' BY <2>1, <2>3, <3>2 DEF Listed
    <3> QED BY <2>2, <3>2, <3>3, <3>4
  <2>4. CASE input # Nothing
    <3>1. searches' = searches \union {[query |-> input, token |-> latest + 1]} /\ UNCHANGED <<shown, highlightIndex>>
      BY <1>4, <2>4 DEF Q!runSearch
    <3>2. Highlighted' BY <3>1 DEF Highlighted
    <3>3. SearchesAsk' BY <2>1, <2>4, <3>1 DEF SearchesAsk
    <3>5. [query |-> input, token |-> latest + 1] \in searches' BY <3>1
    <3>4. ~Q!Rest' BY <2>1, <3>5 DEF Q!Rest
    <3> QED BY <2>2, <3>2, <3>3, <3>4 DEF Listed
  <2> QED BY <2>3, <2>4
<1>5. ASSUME Q!setQuickSearchScope PROVE SearchInv'
  <2>1. /\ messages # <<>> /\ preferred' = Head(messages) /\ messages' = Tail(messages)
        /\ UNCHANGED <<persistedScope, signedIn, boot, selected, workspaceEnabled, managedChromeIds,
                       input, latest, timer, early, searches, shown, highlightIndex>>
    BY <1>5 DEF Q!setQuickSearchScope, Q!typing, Q!scope, Q!list
  <2>2. ScopeKnown'
    <3>1. messages \in Seq(Q!Scopes) BY DEF ScopeKnown
    <3>2. Head(messages) \in Q!Scopes /\ Tail(messages) \in Seq(Q!Scopes) BY <2>1, <3>1
    <3> QED BY <2>1, <3>2 DEF ScopeKnown, Q!collectManagedChromeIds
  <2>3. SearchesAsk' BY <2>1 DEF SearchesAsk
  <2>4. Highlighted' BY <2>1 DEF Highlighted
  <2>5. Listed' BY <2>1 DEF Listed, Q!Rest, Effective, Q!resolveScopeAvailability
  <2> QED BY <2>2, <2>3, <2>4, <2>5
<1>6. ASSUME Q!bootstrap PROVE SearchInv'
  <2>1. /\ boot = "asked"
        /\ UNCHANGED <<preferred, messages, signedIn, selected, input, latest, timer, early, searches, shown, highlightIndex>>
        /\ \/ /\ boot' = "answered" /\ persistedScope' = preferred
              /\ workspaceEnabled' = (signedIn /\ selected # {}) /\ managedChromeIds' = Q!collectManagedChromeIds
           \/ boot' = "failed" /\ UNCHANGED <<persistedScope, workspaceEnabled, managedChromeIds>>
    BY <1>6 DEF Q!bootstrap, Q!worker, Q!typing, Q!list
  <2>2. ScopeKnown' BY <2>1 DEF ScopeKnown, Q!collectManagedChromeIds
  <2>3. SearchesAsk' BY <2>1 DEF SearchesAsk
  <2>4. Highlighted' BY <2>1 DEF Highlighted
  <2>5. ~early => input = Nothing BY <2>1 DEF ScopeKnown
  <2>6. Q!Rest' = Q!Rest BY <2>1 DEF Q!Rest
  <2>7. Listed' BY <2>1, <2>5, <2>6 DEF Listed
  <2> QED BY <2>2, <2>3, <2>4, <2>7
<1>7. ASSUME NEW k \in {"ArrowUp", "ArrowDown"}, Q!moveHighlight(k) PROVE SearchInv'
  <2>1. /\ shown.results # <<>> /\ highlightIndex' = Q!nextHighlightIndex(highlightIndex, k, Len(shown.results))
        /\ UNCHANGED <<preferred, messages, signedIn, selected, input, latest, timer, early, searches, shown,
                       boot, persistedScope, workspaceEnabled, managedChromeIds>>
    BY <1>7 DEF Q!moveHighlight, Q!worker, Q!typing, Q!scope
  <2>2. ScopeKnown' BY <2>1 DEF ScopeKnown, Q!collectManagedChromeIds
  <2>3. SearchesAsk' BY <2>1 DEF SearchesAsk
  <2>4. Highlighted'
    <3> DEFINE n == Len(shown.results)
    <3>1. n \in Nat /\ n > 0 /\ highlightIndex \in 1 .. n
      <4>1. shown.results \in Seq(Found) /\ highlightIndex \in 1 .. n BY <2>1 DEF Highlighted
      <4>2. n \in Nat BY <4>1
      <4> QED BY <4>1, <4>2
    <3> HIDE DEF n
    <3>2. highlightIndex % n \in 0 .. n - 1 BY <3>1
    <3>3. (highlightIndex - 2 + n) % n \in 0 .. n - 1 BY <3>1
    <3>4. highlightIndex' = (highlightIndex % n) + 1 \/ highlightIndex' = ((highlightIndex - 2 + n) % n) + 1
      BY <2>1 DEF Q!nextHighlightIndex, n
    <3>5. highlightIndex' \in 1 .. n BY <3>1, <3>2, <3>3, <3>4
    <3> QED BY <2>1, <3>5 DEF Highlighted, n
  <2>5. Listed' BY <2>1 DEF Listed, Q!Rest, Effective, Q!resolveScopeAvailability
  <2> QED BY <2>2, <2>3, <2>4, <2>5
<1>8. ASSUME UNCHANGED <<preferred, messages, signedIn, selected, input, latest, timer, early, searches, shown, highlightIndex,
                         boot, persistedScope, workspaceEnabled, managedChromeIds>>
      PROVE  SearchInv'
  <2>2. ScopeKnown' BY <1>8 DEF ScopeKnown, Q!collectManagedChromeIds
  <2>3. SearchesAsk' BY <1>8 DEF SearchesAsk
  <2>4. Highlighted' BY <1>8 DEF Highlighted
  <2>5. Listed' BY <1>8 DEF Listed, Q!Rest, Effective, Q!resolveScopeAvailability
  <2> QED BY <2>2, <2>3, <2>4, <2>5
<1>9. ASSUME NEW i \in 1 .. Cap, Q!openResult(i) PROVE SearchInv'
  BY <1>8, <1>9 DEF Q!openResult, Q!worker, Q!typing, Q!scope, Q!list
<1>10. ASSUME NEW o \in opening, Q!resultOpens(o) PROVE SearchInv'
  BY <1>8, <1>10 DEF Q!resultOpens, Q!worker, Q!typing, Q!scope, Q!list
<1>11. ASSUME Q!escape PROVE SearchInv'
  BY <1>8, <1>11 DEF Q!escape, Q!worker, Q!typing, Q!scope, Q!list
<1>12. ASSUME UNCHANGED searchVars PROVE SearchInv'
  BY <1>8, <1>12 DEF searchVars
<1> QED BY <1>1, <1>2, <1>3, <1>4, <1>5, <1>6, <1>7, <1>9, <1>10, <1>11, <1>12 DEF Q!Next

LEMMA SearchAnswers == SearchInv => Q!RestIsAnswer
<1> SUFFICES ASSUME SearchInv, Q!Rest, ~early
             PROVE  /\ shown.query = input
                    /\ input # Nothing => shown.failed \/ Q!IsAnswer(shown.results)
                    /\ (shown.results # <<>>) = (highlightIndex \in 1 .. Len(shown.results))
  BY DEF Q!RestIsAnswer
<1>1. shown.query = input BY DEF SearchInv, Listed
<1>2. ASSUME input # Nothing, ~shown.failed PROVE Q!IsAnswer(shown.results)
  <2> DEFINE ids == managedChromeIds
             nodeList == Answer[input]
             M == InForce(nodeList, Effective, ids)
  <2>1. input \in Queries /\ shown.results = Q!pipeline(nodeList, Effective, ids)
    BY <1>2 DEF SearchInv, Listed, SearchesAsk
  <2>2. nodeList \in Seq(Found) BY <2>1, SearchTypes
  <2>3. M = Q!Matches
    <3>1. ScopeKnown BY DEF SearchInv
    <3>2. Effective = Q!ScopeInForce /\ Effective \in {"workspace", "global"}
      BY <3>1 DEF Effective, Q!resolveScopeAvailability, Q!ScopeInForce, ScopeKnown, Q!Scopes
    <3>3. Q!ScopeInForce = "workspace" => ids = UNION {Managed[w] : w \in selected}
      BY <3>1 DEF Q!ScopeInForce, ScopeKnown, Q!collectManagedChromeIds
    <3>4. \A x : (Q!ScopeInForce = "workspace" => x \in ids) = (Q!ScopeInForce = "workspace" => \E w \in selected : x \in Managed[w])
      BY <3>3
    <3>5. Q!Matches = {i \in DOMAIN nodeList : Q!InScope(nodeList[i])} BY DEF Q!Matches
    <3>6. \A i \in DOMAIN nodeList :
            Q!InScope(nodeList[i]) = (nodeList[i] \notin SearchFolders /\ (Effective # "global" => nodeList[i] \in ids))
      BY <3>2, <3>4 DEF Q!InScope
    <3> QED BY <3>5, <3>6 DEF InForce
  <2> HIDE DEF M, nodeList, ids
  <2>4. /\ Cardinality(M) \in Nat
        /\ Len(shown.results) = IF Cardinality(M) < Cap THEN Cardinality(M) ELSE Cap
        /\ \A k \in DOMAIN shown.results : \E i \in M : nodeList[i] = shown.results[k] /\ Rank(M, i) = k - 1
    BY <2>1, <2>2, PipelineSelects DEF M
  <2>5. Len(shown.results) = IF Q!Cardinality(Q!Matches) < Cap THEN Q!Cardinality(Q!Matches) ELSE Cap
    BY <2>3, <2>4, QuickSearchCounts
  <2>6. \A k \in DOMAIN shown.results :
          \E i \in Q!Matches : Answer[input][i] = shown.results[k] /\ Q!Cardinality({j \in Q!Matches : j < i}) = k - 1
    BY <2>3, <2>4, QuickSearchCounts DEF Rank, nodeList
  <2> QED BY <2>5, <2>6 DEF Q!IsAnswer
<1>3. (shown.results # <<>>) = (highlightIndex \in 1 .. Len(shown.results))
  BY DEF SearchInv, Highlighted
<1> QED BY <1>1, <1>2, <1>3

-----------------------------------------------------------------------------
(* The badge.  A refresh reads the state after the change that started it,  *)
(* and chrome.action answers in order: once no refresh waits for the state, *)
(* the last text on its way is that of the stored state, and the colour     *)
(* comes after it.                                                          *)
Model == S!getToolbarBadgeModel
Models == [text : {"dot", ""}, backgroundColor : {"red", "blue", None}, title : {"degraded", "activity", "default"}]
Calls == [op : {"text", "colour", "title"}, model : Models, goesOn : BOOLEAN]
Signal == [revision : Nat, lastSeenRevision : Nat]

Latest(calls, i) == \A j \in DOMAIN calls : j > i => calls[j].op # calls[i].op
Lacks(calls, op) == \A i \in DOMAIN calls : calls[i].op # op

TextComes(calls) ==
  \E i \in DOMAIN calls : calls[i].op = "text" /\ calls[i].goesOn /\ calls[i].model = Model /\ Latest(calls, i)
ColourComes(calls) ==
  \E i \in DOMAIN calls : calls[i].op = "colour" /\ calls[i].model.backgroundColor = Model.backgroundColor /\ Latest(calls, i)

SignalTypes ==
  /\ projected \subseteq Workspaces /\ reads \in Nat /\ action \in Seq(Calls)
  /\ activityRevision \in [Workspaces -> Nat]
  /\ activitySignal \in Signal /\ badge \in Models

RevisionsKnown == \A w \in Workspaces : activityRevision[w] <= activitySignal.revision

TextFollows == TextComes(action) \/ (Lacks(action, "text") /\ badge.text = Model.text)
ColourFollows ==
  \/ TextComes(action)
  \/ /\ Lacks(action, "text")
     /\ ColourComes(action) \/ (Lacks(action, "colour") /\ badge.backgroundColor = Model.backgroundColor)
BadgeFollows == reads = 0 => TextFollows /\ (Model.backgroundColor # None => ColourFollows)

SignalInv == SignalTypes /\ RevisionsKnown /\ BadgeFollows

LEMMA ModelTypes == Model \in Models
  BY DEF Model, Models, S!getToolbarBadgeModel

LEMMA SignalsStart == S!Init => SignalInv
<1> SUFFICES ASSUME S!Init PROVE SignalInv OBVIOUS
<1>1. SignalTypes
  <2>1. projected \subseteq Workspaces BY DEF S!Init
  <2>2. activitySignal = [revision |-> 0, lastSeenRevision |-> 0] BY DEF S!Init, S!Zero
  <2>3. reads = 1 /\ action = <<>> /\ badge = [text |-> "", backgroundColor |-> None, title |-> "default"]
        /\ activityRevision = [w \in Workspaces |-> 0]
    BY DEF S!Init
  <2>4. badge \in Models BY <2>3 DEF Models
  <2>5. activitySignal \in Signal BY <2>2 DEF Signal
  <2>7. <<>> \in Seq(Calls) OBVIOUS
  <2>6. action \in Seq(Calls) BY <2>3, <2>7
  <2> QED BY <2>1, <2>3, <2>4, <2>5, <2>6 DEF SignalTypes
<1>2. RevisionsKnown
  <2>1. activitySignal.revision = 0 /\ activityRevision = [w \in Workspaces |-> 0] BY DEF S!Init, S!Zero
  <2> QED BY <2>1 DEF RevisionsKnown
<1>3. reads = 1 BY DEF S!Init
<1>4. BadgeFollows BY <1>3 DEF BadgeFollows
<1> QED BY <1>1, <1>2, <1>4 DEF SignalInv

LEMMA StoredModel ==
  ASSUME UNCHANGED <<projected, health, activitySignal>> PROVE Model' = Model
  BY DEF Model, S!getToolbarBadgeModel, S!degradedWorkspaceCount, S!hasUnseenActivity

(* A call is answered. *)
LEMMA CallsAnswered == SignalInv /\ S!actionAnswers => SignalInv'
<1> SUFFICES ASSUME SignalInv, S!actionAnswers PROVE SignalInv' OBVIOUS
<1> DEFINE a == Head(action)
           n == Len(action)
           next == IF a.op = "title" \/ ~a.goesOn THEN <<>>
                   ELSE <<[op |-> IF a.op = "text" /\ a.model.backgroundColor # None THEN "colour" ELSE "title",
                           model |-> a.model, goesOn |-> TRUE]>>
<1>1. /\ action # <<>> /\ action' = Tail(action) \o next
      /\ badge' = CASE a.op = "text" -> [badge EXCEPT !.text = a.model.text]
                    [] a.op = "colour" -> [badge EXCEPT !.backgroundColor = a.model.backgroundColor]
                    [] a.op = "title" -> [badge EXCEPT !.title = a.model.title]
      /\ UNCHANGED <<projected, health, activityRevision, activitySignal, reads>>
  BY DEF S!actionAnswers, S!stored
<1>2. SignalTypes BY DEF SignalInv
<1>3. action \in Seq(Calls) /\ n \in Nat /\ n >= 1 /\ DOMAIN action = 1 .. n /\ a = action[1] /\ a \in Calls
  BY <1>1, <1>2 DEF SignalTypes
<1>4. /\ Tail(action) \in Seq(Calls) /\ Len(Tail(action)) = n - 1
      /\ \A i \in 1 .. n - 1 : Tail(action)[i] = action[i + 1]
  BY <1>1, <1>3
<1>5. a.op \in {"text", "colour", "title"} /\ a.goesOn \in BOOLEAN /\ a.model \in Models BY <1>3 DEF Calls, Models
<1>26. /\ <<>> \in Seq(Calls)
       /\ \A x \in Calls : <<x>> \in Seq(Calls) /\ Len(<<x>>) = 1 /\ <<x>>[1] = x /\ <<x>> # <<>>
  OBVIOUS
<1>27. /\ [op |-> "colour", model |-> a.model, goesOn |-> TRUE] \in Calls
       /\ [op |-> "title", model |-> a.model, goesOn |-> TRUE] \in Calls
  BY <1>5 DEF Calls
<1>6. /\ next \in Seq(Calls)
      /\ next = <<>> \/ (Len(next) = 1 /\ next[1].op = (IF a.op = "text" /\ a.model.backgroundColor # None THEN "colour" ELSE "title")
                          /\ next[1].model = a.model /\ a.op # "title")
      /\ a.op = "text" /\ a.goesOn => next # <<>>
  BY <1>5, <1>26, <1>27
<1> HIDE DEF next, a, n
<1>7. action' \in Seq(Calls) /\ Len(action') = n - 1 + Len(next) BY <1>1, <1>3, <1>4, <1>6
<1>8. Len(next) \in {0, 1} /\ (next = <<>>) = (Len(next) = 0) BY <1>6
<1>9. DOMAIN action' = 1 .. n - 1 + Len(next) BY <1>7
<1>10. \A i \in 1 .. n - 1 : action'[i] = action[i + 1] BY <1>1, <1>3, <1>4, <1>6
<1>11. next # <<>> => action'[n] = next[1] BY <1>1, <1>3, <1>4, <1>6, <1>8
<1>28. next # <<>> => DOMAIN action' = 1 .. n
  <2> SUFFICES ASSUME next # <<>> PROVE DOMAIN action' = 1 .. n OBVIOUS
  <2>2. Len(next) = 1 BY <1>6
  <2>1. n - 1 + Len(next) = n BY <1>3, <2>2
  <2> QED BY <1>9, <2>1
<1>12. \A i \in DOMAIN action' : (i \in 1 .. n - 1) \/ (i = n /\ next # <<>>)
  <2>1. CASE next = <<>> BY <2>1, <1>3, <1>8, <1>9
  <2>2. CASE next # <<>>
    <3>1. DOMAIN action' = 1 .. n BY <2>2, <1>28
    <3> QED BY <3>1, <2>2, <1>3
  <2> QED BY <2>1, <2>2
<1>13. \A i \in DOMAIN action : i = 1 \/ (i - 1 \in DOMAIN action' /\ i - 1 \in 1 .. n - 1 /\ action'[i - 1] = action[i])
  BY <1>3, <1>8, <1>9, <1>10
<1>14. Model' = Model BY <1>1, StoredModel
<1>15. badge' \in Models
  BY <1>1, <1>2, <1>5 DEF SignalTypes, Models
<1>16. SignalTypes' BY <1>1, <1>2, <1>7, <1>15 DEF SignalTypes
<1>17. RevisionsKnown' BY <1>1 DEF SignalInv, RevisionsKnown
<1>18. badge'.text = (IF a.op = "text" THEN a.model.text ELSE badge.text)
       /\ badge'.backgroundColor = (IF a.op = "colour" THEN a.model.backgroundColor ELSE badge.backgroundColor)
  BY <1>1, <1>2, <1>5 DEF SignalTypes
<1>19. ASSUME NEW i \in DOMAIN action, i # 1, Latest(action, i),
              next = <<>> \/ next[1].op # action[i].op
       PROVE  i - 1 \in DOMAIN action' /\ action'[i - 1] = action[i] /\ Latest(action', i - 1)
  <2>1. i - 1 \in DOMAIN action' /\ i - 1 \in 1 .. n - 1 /\ action'[i - 1] = action[i] BY <1>13, <1>19
  <2>2. ASSUME NEW j \in DOMAIN action', j > i - 1 PROVE action'[j].op # action'[i - 1].op
    <3>1. CASE j \in 1 .. n - 1
      <4>1. j + 1 \in DOMAIN action /\ j + 1 > i /\ action'[j] = action[j + 1] BY <1>3, <1>10, <2>2, <3>1
      <4> QED BY <4>1, <2>1, <1>19 DEF Latest
    <3>2. CASE j = n /\ next # <<>> BY <3>2, <1>11, <1>19, <2>1
    <3> QED BY <3>1, <3>2, <1>12
  <2> QED BY <2>1, <2>2 DEF Latest
<1>20. ASSUME Latest(action, 1), NEW op, op = a.op, next = <<>> \/ next[1].op # op
       PROVE  Lacks(action', op)
  <2>1. ASSUME NEW j \in DOMAIN action' PROVE action'[j].op # op
    <3>1. CASE j \in 1 .. n - 1
      <4>1. j + 1 \in DOMAIN action /\ j + 1 > 1 /\ action'[j] = action[j + 1] BY <1>3, <1>10, <3>1
      <4> QED BY <4>1, <1>3, <1>20 DEF Latest
    <3>2. CASE j = n /\ next # <<>> BY <3>2, <1>11, <1>20
    <3> QED BY <3>1, <3>2, <1>12
  <2> QED BY <2>1 DEF Lacks
<1>21. ASSUME NEW op, Lacks(action, op), next = <<>> \/ next[1].op # op PROVE Lacks(action', op)
  <2>1. ASSUME NEW j \in DOMAIN action' PROVE action'[j].op # op
    <3>1. CASE j \in 1 .. n - 1
      <4>1. j + 1 \in DOMAIN action /\ action'[j] = action[j + 1] BY <1>3, <1>10, <3>1
      <4> QED BY <4>1, <1>21 DEF Lacks
    <3>2. CASE j = n /\ next # <<>> BY <3>2, <1>11, <1>21
    <3> QED BY <3>1, <3>2, <1>12
  <2> QED BY <2>1 DEF Lacks
<1>22. next = <<>> \/ next[1].op # "text" BY <1>6
<1>23. 1 \in DOMAIN action BY <1>3
<1>24. ASSUME reads' = 0 PROVE TextFollows' /\ (Model'.backgroundColor # None => ColourFollows')
  <2>0. TextFollows /\ (Model.backgroundColor # None => ColourFollows)
    BY <1>24, <1>1 DEF SignalInv, BadgeFollows
  <2>1. CASE TextComes(action)
    <3>1. PICK i \in DOMAIN action : action[i].op = "text" /\ action[i].goesOn /\ action[i].model = Model /\ Latest(action, i)
      BY <2>1 DEF TextComes
    <3>2. CASE i # 1
      <4>1. i - 1 \in DOMAIN action' /\ action'[i - 1] = action[i] /\ Latest(action', i - 1) BY <3>1, <3>2, <1>19, <1>22
      <4>2. TextComes(action)' BY <4>1, <3>1, <1>14 DEF TextComes
      <4> QED BY <4>2 DEF TextFollows, ColourFollows
    <3>3. CASE i = 1
      <4>1. a.op = "text" /\ a.goesOn /\ a.model = Model /\ Latest(action, 1) BY <3>1, <3>3, <1>3
      <4>2. Lacks(action', "text") BY <4>1, <1>20, <1>22
      <4>3. badge'.text = Model'.text BY <4>1, <1>18, <1>14
      <4>4. ASSUME Model'.backgroundColor # None PROVE ColourComes(action)'
        <5>1. next # <<>> /\ next[1].op = "colour" /\ next[1].model = Model BY <4>1, <4>4, <1>6, <1>14
        <5>2. n \in DOMAIN action' /\ action'[n] = next[1] /\ \A j \in DOMAIN action' : j <= n
          <6>1. DOMAIN action' = 1 .. n BY <5>1, <1>28
          <6> QED BY <6>1, <5>1, <1>3, <1>11
        <5>3. Latest(action', n) BY <5>2, <1>3, <1>9 DEF Latest
        <5> QED BY <5>1, <5>2, <5>3, <1>14 DEF ColourComes
      <4> QED BY <4>2, <4>3, <4>4 DEF TextFollows, ColourFollows
    <3> QED BY <3>2, <3>3
  <2>2. CASE ~TextComes(action)
    <3>1. Lacks(action, "text") /\ badge.text = Model.text BY <2>0, <2>2 DEF TextFollows
    <3>2. a.op # "text" BY <3>1, <1>3, <1>23 DEF Lacks
    <3>3. Lacks(action', "text") BY <3>1, <1>21, <1>22
    <3>4. badge'.text = Model'.text BY <3>1, <3>2, <1>18, <1>14
    <3>5. next = <<>> \/ next[1].op # "colour" BY <3>2, <1>6
    <3>6. ASSUME Model'.backgroundColor # None
          PROVE  ColourComes(action)' \/ (Lacks(action', "colour") /\ badge'.backgroundColor = Model'.backgroundColor)
      <4>1. ColourComes(action) \/ (Lacks(action, "colour") /\ badge.backgroundColor = Model.backgroundColor)
        BY <3>6, <2>0, <2>2, <1>14 DEF ColourFollows
      <4>2. CASE ColourComes(action)
        <5>1. PICK i \in DOMAIN action : action[i].op = "colour" /\ action[i].model.backgroundColor = Model.backgroundColor
                                         /\ Latest(action, i)
          BY <4>2 DEF ColourComes
        <5>2. CASE i # 1
          <6>1. i - 1 \in DOMAIN action' /\ action'[i - 1] = action[i] /\ Latest(action', i - 1) BY <5>1, <5>2, <1>19, <3>5
          <6> QED BY <6>1, <5>1, <1>14 DEF ColourComes
        <5>3. CASE i = 1
          <6>1. a.op = "colour" /\ a.model.backgroundColor = Model.backgroundColor /\ Latest(action, 1) BY <5>1, <5>3, <1>3
          <6>2. Lacks(action', "colour") BY <6>1, <3>5, <1>20
          <6>3. badge'.backgroundColor = Model'.backgroundColor BY <6>1, <1>18, <1>14
          <6> QED BY <6>2, <6>3
        <5> QED BY <5>2, <5>3
      <4>3. CASE Lacks(action, "colour") /\ badge.backgroundColor = Model.backgroundColor
        <5>1. a.op # "colour" BY <4>3, <1>3, <1>23 DEF Lacks
        <5> QED BY <5>1, <4>3, <3>5, <1>21, <1>18, <1>14
      <4> QED BY <4>1, <4>2, <4>3
    <3> QED BY <3>3, <3>4, <3>6 DEF TextFollows, ColourFollows
  <2> QED BY <2>1, <2>2
<1>25. BadgeFollows' BY <1>24 DEF BadgeFollows
<1> QED BY <1>16, <1>17, <1>25 DEF SignalInv

LEMMA SignalSteps == SignalInv /\ (S!Next \/ UNCHANGED signalVars) => SignalInv'
<1> SUFFICES ASSUME SignalInv, S!Next \/ UNCHANGED signalVars PROVE SignalInv' OBVIOUS
<1>0. SignalTypes /\ RevisionsKnown /\ BadgeFollows BY DEF SignalInv
<1>1. ASSUME reads' = reads + 1, UNCHANGED <<action, badge>>, projected' \subseteq Workspaces,
             activityRevision' \in [Workspaces -> Nat], activitySignal' \in Signal,
             RevisionsKnown'
      PROVE  SignalInv'
  <2>1. SignalTypes' BY <1>0, <1>1 DEF SignalTypes
  <2>2. reads' # 0 BY <1>0, <1>1 DEF SignalTypes
  <2> QED BY <1>1, <2>1, <2>2 DEF SignalInv, BadgeFollows
<1> USE DEF S!Changed, S!onChanged
<1>2. ASSUME UNCHANGED <<projected, activityRevision, activitySignal, action, badge>>, reads' = reads + 1 PROVE SignalInv'
  BY <1>0, <1>1, <1>2 DEF SignalTypes, RevisionsKnown
<1>3. CASE S!login BY <1>3, <1>2 DEF S!login
<1>4. CASE S!logout
  <2>1. /\ projected' = {} /\ activityRevision' = [w \in Workspaces |-> 0]
        /\ activitySignal' = [revision |-> 0, lastSeenRevision |-> 0] /\ reads' = reads + 1 /\ UNCHANGED <<action, badge>>
    BY <1>4 DEF S!logout, S!Zero
  <2> QED BY <2>1, <1>1 DEF RevisionsKnown, Signal
<1>5. ASSUME NEW w \in Workspaces, NEW h \in {"live", "degraded"}, S!updateProjectionState(w, h) PROVE SignalInv'
  <2>1. /\ projected' = projected \union {w} /\ reads' = reads + 1
        /\ UNCHANGED <<action, badge, activityRevision, activitySignal>>
    BY <1>5 DEF S!updateProjectionState
  <2> QED BY <2>1, <1>0, <1>1 DEF SignalTypes, RevisionsKnown
<1>6. ASSUME NEW w \in Workspaces, S!removeWorkspaceProjection(w) PROVE SignalInv'
  <2>1. /\ projected' = projected \ {w} /\ reads' = reads + 1 /\ activityRevision' = [activityRevision EXCEPT ![w] = 0]
        /\ UNCHANGED <<action, badge, activitySignal>>
    BY <1>6 DEF S!removeWorkspaceProjection
  <2>2. RevisionsKnown' BY <2>1, <1>0 DEF SignalTypes, RevisionsKnown, Signal
  <2> QED BY <2>1, <2>2, <1>0, <1>1 DEF SignalTypes, Signal
<1>7. ASSUME NEW w \in Workspaces, S!recordActivity(w) PROVE SignalInv'
  <2>1. /\ reads' = reads + 1 /\ activityRevision' = [activityRevision EXCEPT ![w] = activitySignal.revision + 1]
        /\ activitySignal' = [activitySignal EXCEPT !.revision = @ + 1]
        /\ UNCHANGED <<action, badge, projected>>
    BY <1>7 DEF S!recordActivity
  <2>2. RevisionsKnown' BY <2>1, <1>0 DEF SignalTypes, RevisionsKnown, Signal
  <2> QED BY <2>1, <2>2, <1>0, <1>1 DEF SignalTypes, Signal
<1>8. CASE S!recordSecretRead BY <1>8, <1>2 DEF S!recordSecretRead
<1>9. CASE S!refreshToolbarBadge
  <2> DEFINE c == [op |-> "text", model |-> Model, goesOn |-> TRUE]
             n == Len(action)
  <2>1. /\ reads > 0 /\ reads' = reads - 1 /\ action' = Append(action, c)
        /\ UNCHANGED <<projected, health, activityRevision, activitySignal, badge>>
    BY <1>9 DEF S!refreshToolbarBadge, S!stored, Model
  <2>2. Model' = Model BY <2>1, StoredModel
  <2>3. action \in Seq(Calls) /\ n \in Nat BY <1>0 DEF SignalTypes
  <2>4. c \in Calls BY ModelTypes DEF Calls, Models
  <2>5. c.op = "text" /\ c.goesOn /\ c.model = Model OBVIOUS
  <2> HIDE DEF c, n
  <2>6. action' \in Seq(Calls) /\ DOMAIN action' = 1 .. n + 1 /\ action'[n + 1] = c BY <2>1, <2>3, <2>4 DEF n
  <2>7. Latest(action', n + 1) /\ n + 1 \in DOMAIN action' BY <2>3, <2>6 DEF Latest
  <2>8. TextComes(action)' BY <2>2, <2>5, <2>6, <2>7 DEF TextComes
  <2>9. SignalTypes' BY <2>1, <2>6, <1>0 DEF SignalTypes
  <2>10. RevisionsKnown' BY <2>1, <1>0 DEF RevisionsKnown
  <2> QED BY <2>8, <2>9, <2>10 DEF SignalInv, BadgeFollows, TextFollows, ColourFollows
<1>10. CASE S!actionAnswers BY <1>10, CallsAnswered
<1>11. CASE S!evicted
  <2>1. /\ reads' = 1 /\ action' = [i \in DOMAIN action |-> [action[i] EXCEPT !.goesOn = FALSE]]
        /\ UNCHANGED <<projected, health, activityRevision, activitySignal, badge>>
    BY <1>11 DEF S!evicted, S!stored
  <2>2. action \in Seq(Calls) BY <1>0 DEF SignalTypes
  <2>3. \A i \in DOMAIN action : [action[i] EXCEPT !.goesOn = FALSE] \in Calls
    <3>1. \A x \in Calls : [x EXCEPT !.goesOn = FALSE] \in Calls BY DEF Calls
    <3>2. \A i \in DOMAIN action : action[i] \in Calls BY <2>2
    <3> QED BY <3>1, <3>2
  <2>4. action' \in Seq(Calls) BY <2>1, <2>2, <2>3
  <2>5. SignalTypes' BY <2>1, <2>4, <1>0 DEF SignalTypes
  <2>6. RevisionsKnown' BY <2>1, <1>0 DEF RevisionsKnown
  <2> QED BY <2>1, <2>5, <2>6 DEF SignalInv, BadgeFollows
<1>12. ASSUME UNCHANGED <<projected, health, activityRevision, activitySignal, reads, action, badge>> PROVE SignalInv'
  <2>1. Model' = Model BY <1>12, StoredModel
  <2> QED BY <2>1, <1>12, <1>0
          DEF SignalInv, SignalTypes, RevisionsKnown, BadgeFollows, TextFollows, ColourFollows, TextComes, ColourComes,
              Lacks, Latest
<1> USE DEF S!stored, S!toolbar
<1>13. ASSUME NEW p \in Pages, S!load(p) PROVE SignalInv' BY <1>12, <1>13 DEF S!load
<1>14. ASSUME NEW p \in Pages, S!render(p) PROVE SignalInv' BY <1>12, <1>14 DEF S!render
<1>15. ASSUME NEW p \in Pages, S!close(p) PROVE SignalInv' BY <1>12, <1>15 DEF S!close
<1>16. ASSUME NEW m \in marks, S!markActivitySeen(m) PROVE SignalInv'
  <2>1. /\ activitySignal' = [activitySignal EXCEPT !.lastSeenRevision = activitySignal.revision] /\ reads' = reads + 1
        /\ UNCHANGED <<action, badge, projected, activityRevision>>
    BY <1>16 DEF S!markActivitySeen
  <2>2. activitySignal' \in Signal /\ activitySignal'.revision = activitySignal.revision
    BY <2>1, <1>0 DEF SignalTypes, Signal
  <2>3. RevisionsKnown' BY <2>1, <2>2, <1>0 DEF RevisionsKnown
  <2> QED BY <2>1, <2>2, <2>3, <1>0, <1>1 DEF SignalTypes
<1>17. ASSUME NEW m \in marks, S!markSecretReadSeen(m) PROVE SignalInv' BY <1>2, <1>17 DEF S!markSecretReadSeen
<1>18. ASSUME NEW m \in marks, S!markFails(m) PROVE SignalInv' BY <1>12, <1>18 DEF S!markFails
<1>19. ASSUME UNCHANGED signalVars PROVE SignalInv' BY <1>12, <1>19 DEF signalVars
<1> QED BY <1>3, <1>4, <1>5, <1>6, <1>7, <1>8, <1>9, <1>10, <1>11, <1>13, <1>14, <1>15, <1>16, <1>17, <1>18, <1>19 DEF S!Next

LEMMA SignalsTell == SignalInv => S!BadgeTells
<1> SUFFICES ASSUME SignalInv, reads = 0, action = <<>> PROVE S!BadgeTells BY DEF S!BadgeTells
<1> DEFINE d == S!degradedWorkspaceCount
           m == S!getPopupStatusModel(S!Snapshot)
<1>1. SignalTypes /\ RevisionsKnown /\ BadgeFollows BY DEF SignalInv
<1>2. badge.text = Model.text /\ (Model.backgroundColor # None => badge.backgroundColor = Model.backgroundColor)
  BY <1>1 DEF BadgeFollows, TextFollows, ColourFollows, TextComes, ColourComes
<1>3. d \in Nat
  <2>1. IsFiniteSet(Workspaces) BY TreeAssumption
  <2>2. {w \in projected : health[w] = "degraded"} \in SUBSET Workspaces BY <1>1 DEF SignalTypes
  <2>3. Cardinality({w \in projected : health[w] = "degraded"}) \in Nat BY <2>1, <2>2, FS_Subset, FS_CardinalityType
  <2> QED BY <2>3, SignalsCounts DEF S!degradedWorkspaceCount
<1>4. S!Snapshot.overview.degraded = d /\ S!Snapshot.fresh = S!getFreshWorkspaceActivity /\ S!Snapshot.activity = activitySignal
  BY DEF S!Snapshot, S!getStatusOverview
<1>5. S!getFreshWorkspaceActivity # {} => S!hasUnseenActivity(activitySignal)
  <2> SUFFICES ASSUME NEW w \in projected, activityRevision[w] > activitySignal.lastSeenRevision
               PROVE  S!hasUnseenActivity(activitySignal)
    BY DEF S!getFreshWorkspaceActivity, S!hasProjectionFreshActivity
  <2>1. w \in Workspaces /\ activityRevision[w] \in Nat /\ activityRevision[w] <= activitySignal.revision
        /\ activitySignal.revision \in Nat /\ activitySignal.lastSeenRevision \in Nat
    BY <1>1 DEF SignalTypes, RevisionsKnown, Signal
  <2> QED BY <2>1 DEF S!hasUnseenActivity
<1>6. Model = IF d > 0 THEN [text |-> "dot", backgroundColor |-> "red", title |-> "degraded"]
              ELSE IF S!hasUnseenActivity(activitySignal) THEN [text |-> "dot", backgroundColor |-> "blue", title |-> "activity"]
              ELSE [text |-> "", backgroundColor |-> None, title |-> "default"]
  BY DEF Model, S!getToolbarBadgeModel
<1>7. (m.tone = "attention") = (d > 0)
  BY <1>3, <1>4 DEF S!getPopupStatusModel
<1>8. m.recentActivity # {} => S!getFreshWorkspaceActivity # {} /\ m.showNewActivity
  BY <1>4, <1>5 DEF S!getPopupStatusModel
<1> HIDE DEF d, m
<1>9. None # "red" /\ None # "blue" BY TreeAssumption
<1>10. badge.text = "dot" => badge.backgroundColor = Model.backgroundColor
  BY <1>2, <1>6, <1>9
<1>11. (m.tone = "attention") = (badge.text = "dot" /\ badge.backgroundColor = "red")
  BY <1>2, <1>6, <1>7, <1>10
<1>12. m.recentActivity # {} => m.showNewActivity /\ badge.text = "dot"
  BY <1>2, <1>5, <1>6, <1>8
<1> QED BY <1>2, <1>10, <1>11, <1>12 DEF S!BadgeTells, Model, m

-----------------------------------------------------------------------------
treeVars == <<part, steps, vars, searchVars, signalVars, panelVars>>

(* Both, of every behaviour: once nothing of the latest query is under way *)
(* the quick search lists its first matches in the scope the toggle shows, *)
(* and once no refresh is under way the badge and the popup tell what is   *)
(* stored (quick-search.ts, service-worker.ts, status.ts).                 *)
THEOREM PagesAreTrue == TreeSpec => []PagesTell
<1>1. TreeInit => SearchInv /\ SignalInv
  BY SearchStarts, SignalsStart DEF TreeInit
<1>2. SearchInv /\ SignalInv /\ [TreeNext]_treeVars => (SearchInv /\ SignalInv)'
  <2> SUFFICES ASSUME SearchInv, SignalInv, [TreeNext]_treeVars PROVE SearchInv' /\ SignalInv' OBVIOUS
  <2>1. Q!Next \/ UNCHANGED searchVars BY DEF TreeNext, treeVars
  <2>2. S!Next \/ UNCHANGED signalVars BY DEF TreeNext, treeVars
  <2> QED BY <2>1, <2>2, SearchSteps, SignalSteps
<1>3. SearchInv /\ SignalInv => PagesTell BY SearchAnswers, SignalsTell DEF PagesTell
<1> QED BY <1>1, <1>2, <1>3, PTL DEF TreeSpec, treeVars

-----------------------------------------------------------------------------
(* The tree.  A subtree of Chrome is all that is below a node, and no more. *)
LEMMA UnderIs ==
  ASSUME NEW id
  PROVE  /\ Under(id) \subseteq Ids
         /\ id \in Ids => id \in Under(id)
         /\ \A m \in Ids : nodes[m].parent \in Under(id) => m \in Under(id)
         /\ \A m \in Under(id) : m = id \/ nodes[m].parent \in Under(id)
<1> DEFINE U == Under(id)
           Closed(X) == \A m \in Ids : m = id \/ nodes[m].parent \in X => m \in X
<1>1. \A n : n \in U <=> n \in Ids /\ \A X \in SUBSET Ids : Closed(X) => n \in X
  BY DEF Under
<1> HIDE DEF U
<1>2. U \subseteq Ids BY <1>1
<1>3. Closed(U) BY <1>1
<1>4. \A m \in U : m = id \/ nodes[m].parent \in U
  <2> DEFINE Y == {n \in U : n = id \/ nodes[n].parent \in U}
  <2>1. Y \in SUBSET Ids BY <1>2
  <2>2. Closed(Y) BY <1>3
  <2>3. \A n \in U : n \in Y
    <3> HIDE DEF Y
    <3> QED BY <1>1, <2>1, <2>2
  <2> QED BY <2>3
<1> QED BY <1>2, <1>3, <1>4 DEF U

(* Chrome gives ids that nothing knows, as many as are asked for. *)
LEMMA FreshAre ==
  ASSUME IsFiniteSet(Used), Used \subseteq Nat, NEW count \in Nat
  PROVE  /\ IsFiniteSet(FreshIds(count)) /\ Cardinality(FreshIds(count)) = count
         /\ \A n \in FreshIds(count) : n \in Nat \ {0, 1} /\ n \notin Used
<1> DEFINE N == Home + Cardinality(Used) + count
           I == Home + 1 .. N
           W == I \ Used
           F == FreshIds(count)
<1>1. Cardinality(Used) \in Nat BY FS_CardinalityType
<1>2. Home = 1 /\ N \in Nat /\ N = 1 + Cardinality(Used) + count /\ I = 2 .. N BY <1>1 DEF Home
<1>3. F = {n \in W : Rank(W, n) < count} BY DEF FreshIds, Rank
<1>4. IsFiniteSet(I) /\ Cardinality(I) = Cardinality(Used) + count
  <2>0. 2 \in Int /\ N \in Int BY <1>2
  <2>1. IsFiniteSet(2 .. N) /\ Cardinality(2 .. N) = IF 2 > N THEN 0 ELSE N - 2 + 1 BY <2>0, FS_Interval
  <2> QED BY <2>1, <1>1, <1>2
<1> HIDE DEF N, F
<1>5. W \in SUBSET (1 .. N) /\ IsFiniteSet(W) /\ Cardinality(W) \in Nat
  <2>1. W \in SUBSET (1 .. N) BY <1>2
  <2> QED BY <2>1, <1>2, Ranks
<1>6. Cardinality(W) >= count
  <2>1. IsFiniteSet(I \intersect Used) /\ Cardinality(I \intersect Used) <= Cardinality(Used)
        /\ Cardinality(I \intersect Used) \in Nat
    BY FS_Subset, FS_CardinalityType
  <2>2. Cardinality(W) = Cardinality(I) - Cardinality(I \intersect Used) BY <1>4, FS_Difference
  <2> QED BY <2>1, <2>2, <1>1, <1>4
<1> HIDE DEF I
<1>7. W \subseteq Nat BY <1>5
<1>8. \A n \in W : n \in Nat \ {0, 1} /\ n \notin Used BY <1>2 DEF I
<1>9. /\ \A i \in W : Rank(W, i) \in 0 .. Cardinality(W) - 1
      /\ \A i \in W, h \in W : i < h => Rank(W, i) < Rank(W, h)
      /\ \A k \in 1 .. Cardinality(W) : \E i \in W : Rank(W, i) = k - 1
  BY <1>2, <1>5, Ranks
<1> HIDE DEF W
<1>10. F \subseteq W BY <1>3
<1>11. IsFiniteSet(F) BY <1>5, <1>10, FS_Subset
<1>12. Cardinality(F) = count
  <2> DEFINE f == [k \in 1 .. count |-> CHOOSE i \in W : Rank(W, i) = k - 1]
  <2>1. \A k \in 1 .. count : k \in 1 .. Cardinality(W) BY <1>5, <1>6
  <2>2. \A k \in 1 .. count : f[k] \in W /\ Rank(W, f[k]) = k - 1 BY <1>9, <2>1
  <2>3. f \in [1 .. count -> F] BY <2>2, <1>3
  <2>4. \A j, k \in 1 .. count : f[j] = f[k] => j = k BY <2>2
  <2>5. ASSUME NEW n \in F PROVE \E k \in 1 .. count : f[k] = n
    <3> DEFINE k == Rank(W, n) + 1
    <3>1. n \in W /\ Rank(W, n) \in Nat /\ k \in 1 .. count BY <1>3, <1>5, <1>9
    <3>2. f[k] \in W /\ Rank(W, f[k]) = Rank(W, n) BY <2>2, <3>1
    <3>3. n \in Nat /\ f[k] \in Nat BY <3>1, <3>2, <1>7
    <3>4. ~(n < f[k]) /\ ~(f[k] < n) BY <1>9, <3>1, <3>2
    <3>5. f[k] = n BY <3>3, <3>4
    <3> QED BY <3>1, <3>5
  <2> HIDE DEF f
  <2>6. f \in Injection(1 .. count, F) BY <2>3, <2>4 DEF Injection, IsInjective
  <2>7. f \in Surjection(1 .. count, F) BY <2>3, <2>5 DEF Surjection
  <2>8. ExistsBijection(1 .. count, F) BY <2>6, <2>7 DEF Bijection, ExistsBijection
  <2> QED BY <2>8, FS_CountingElements
<1> QED BY <1>8, <1>10, <1>11, <1>12 DEF F

LEMMA FreshIs ==
  ASSUME IsFiniteSet(Used), Used \subseteq Nat
  PROVE  Fresh \in Nat \ {0, 1} /\ Fresh \notin Used
<1>1. IsFiniteSet(FreshIds(1)) /\ Cardinality(FreshIds(1)) = 1 BY FreshAre
<1>2. FreshIds(1) # {}
  <2> SUFFICES ASSUME FreshIds(1) = {} PROVE FALSE OBVIOUS
  <2>1. Cardinality(FreshIds(1)) = 0 BY FS_EmptySet
  <2> QED BY <1>1, <2>1
<1>3. Fresh \in FreshIds(1) BY <1>2 DEF Fresh
<1> QED BY <1>3, FreshAre

-----------------------------------------------------------------------------
(* What a node is, and what is known of it: an id that is mapped shows its  *)
(* entity, and the local-only folder that is known is one, and the only one *)
(* unless two were made.                                                    *)
Node == [parent : Nat, shows : Entities \union {"mine", "local only"}]
Relocations == [pc : {"idle", "find", "move", "make"}, id : Nat]

NodesOk == IsFiniteSet(Ids) /\ Ids \subseteq Nat \ {NoNode, Home} /\ nodes \in [Ids -> Node]
KnownOk ==
  /\ map \in [Entities -> Nat] /\ localOnly \in Nat \ {Home} /\ relocation \in Relocations
  /\ IsFiniteSet(removed) /\ removed \subseteq Nat
MapShows == \A e \in Entities : map[e] \in Ids => nodes[map[e]].shows = e
LocalShows ==
  /\ localOnly \in Ids => nodes[localOnly].shows = "local only"
  /\ \A id \in Ids : nodes[id].shows = "local only" => nodes[id].parent = Home
  /\ \A id \in Ids : nodes[id].shows = "local only" => id = localOnly \/ twice
MovesMine == relocation.id \in Ids => nodes[relocation.id].shows = "mine"

NodeInv == NodesOk /\ KnownOk /\ MapShows /\ LocalShows /\ MovesMine

(* A bookmark in the local-only folder is below the two of them only. *)
Kept(id) ==
  id \in Ids /\ nodes[id].shows = "mine" /\ nodes[id].parent \in Ids /\ nodes[nodes[id].parent].shows = "local only"
KeepsMine == \A id \in Ids : Kept(id) => id \in DOMAIN nodes'

LEMMA NamesDiffer ==
  /\ "mine" \notin Entities /\ "local only" \notin Entities /\ "mine" # "local only" /\ IsFiniteSet(Entities)
  /\ Root \notin Entities /\ Nowhere \notin Entities /\ Root # Nowhere /\ Folders \subseteq Entities /\ Home = 1 /\ NoNode = 0
<1>1. IsFiniteSet(Entities) BY EntitiesAssumption, FS_Union DEF Entities
<1> QED BY <1>1, EntitiesAssumption DEF Entities, Root, Nowhere, Home, NoNode

LEMMA UsedOk == NodeInv => IsFiniteSet(Used) /\ Used \subseteq Nat
<1> SUFFICES ASSUME NodeInv PROVE IsFiniteSet(Used) /\ Used \subseteq Nat OBVIOUS
<1> DEFINE M == {map[e] : e \in Entities}
           K == {Home, localOnly, relocation.id}
<1>1. map \in [Entities -> Nat] /\ localOnly \in Nat /\ relocation.id \in Nat /\ IsFiniteSet(removed) /\ removed \subseteq Nat
      /\ IsFiniteSet(Ids) /\ Ids \subseteq Nat
  BY DEF NodeInv, NodesOk, KnownOk, Relocations
<1>2. IsFiniteSet(M)
  <2>1. map \in [Entities -> M] BY <1>1
  <2>2. \A x \in M : \E e \in Entities : map[e] = x OBVIOUS
  <2>3. map \in Surjection(Entities, M) BY <2>1, <2>2 DEF Surjection
  <2> QED BY <2>3, NamesDiffer, FS_Surjection
<1>3. IsFiniteSet(K)
  <2>1. IsFiniteSet({}) BY FS_EmptySet
  <2>2. IsFiniteSet({} \union {Home}) BY <2>1, FS_AddElement
  <2>3. IsFiniteSet(({} \union {Home}) \union {localOnly}) BY <2>2, FS_AddElement
  <2>4. IsFiniteSet((({} \union {Home}) \union {localOnly}) \union {relocation.id}) BY <2>3, FS_AddElement
  <2>5. K = (({} \union {Home}) \union {localOnly}) \union {relocation.id} OBVIOUS
  <2> QED BY <2>4, <2>5
<1>4. IsFiniteSet(Ids \union K) BY <1>1, <1>3, FS_Union
<1>5. IsFiniteSet((Ids \union K) \union removed) BY <1>1, <1>4, FS_Union
<1>6. IsFiniteSet(((Ids \union K) \union removed) \union M) BY <1>2, <1>5, FS_Union
<1>7. Used = ((Ids \union K) \union removed) \union M BY DEF Used
<1>8. M \subseteq Nat /\ K \subseteq Nat BY <1>1 DEF Home
<1> QED BY <1>1, <1>6, <1>7, <1>8

(* What is below a node of the mapping, or below another child of the       *)
(* workspace's folder, is not kept there.                                   *)
LEMMA KeptIsBelow ==
  ASSUME NodeInv, NEW m, Kept(m), NEW x, m \in Under(x)
  PROVE  x = m \/ (x \in Ids /\ nodes[x].shows = "local only" /\ nodes[x].parent = Home)
<1>1. m = x \/ nodes[m].parent \in Under(x) BY UnderIs
<1>2. ASSUME nodes[m].parent \in Under(x)
      PROVE  x \in Ids /\ nodes[x].shows = "local only" /\ nodes[x].parent = Home
  <2> DEFINE p == nodes[m].parent
  <2>1. p \in Ids /\ nodes[p].shows = "local only" /\ nodes[p].parent = Home BY DEF Kept, NodeInv, LocalShows
  <2>2. p = x \/ Home \in Under(x) BY <1>2, <2>1, UnderIs
  <2>3. Home \notin Under(x) BY UnderIs DEF NodeInv, NodesOk
  <2> QED BY <2>1, <2>2, <2>3
<1> QED BY <1>1, <1>2

(* Nodes go: a subtree of something shared, or of the workspace's folder.   *)
Shared(x) == x \in Ids => nodes[x].shows \in Entities

LEMMA SharedGoes ==
  ASSUME NodeInv, NEW x, Shared(x), NEW m, Kept(m)
  PROVE  m \notin Under(x)
<1> SUFFICES ASSUME m \in Under(x) PROVE FALSE OBVIOUS
<1>1. x = m \/ (x \in Ids /\ nodes[x].shows = "local only") BY KeptIsBelow
<1> QED BY <1>1, NamesDiffer DEF Kept, Shared

LEMMA NodesGo ==
  ASSUME NodeInv, NEW gone, NEW ns, ns = Without(gone)
  PROVE  /\ DOMAIN ns = Ids \ gone /\ IsFiniteSet(DOMAIN ns) /\ DOMAIN ns \subseteq Nat \ {NoNode, Home}
         /\ ns \in [DOMAIN ns -> Node]
         /\ \A n \in DOMAIN ns : n \in Ids /\ ns[n] = nodes[n]
<1>1. ns = [n \in Ids \ gone |-> nodes[n]] BY DEF Without
<1>2. IsFiniteSet(Ids \ gone) BY FS_Difference DEF NodeInv, NodesOk
<1> QED BY <1>1, <1>2 DEF NodeInv, NodesOk

LEMMA GoKeeps ==
  ASSUME NodeInv, NEW gone, nodes' = Without(gone),
         \A e \in Entities : map'[e] = map[e] \/ map'[e] = NoNode, map' \in [Entities -> Nat],
         UNCHANGED <<localOnly, relocation, twice>>, IsFiniteSet(removed'), removed' \subseteq Nat
  PROVE  NodeInv'
<1>1. /\ DOMAIN nodes' = Ids \ gone /\ IsFiniteSet(DOMAIN nodes') /\ DOMAIN nodes' \subseteq Nat \ {NoNode, Home}
      /\ nodes' \in [DOMAIN nodes' -> Node]
      /\ \A n \in DOMAIN nodes' : n \in Ids /\ nodes'[n] = nodes[n]
  BY NodesGo
<1>0. Ids' = DOMAIN nodes' BY DEF Ids
<1>2. NodesOk' BY <1>0, <1>1 DEF NodesOk
<1>3. KnownOk' BY DEF NodeInv, KnownOk
<1>4. MapShows' BY <1>0, <1>1 DEF NodeInv, MapShows
<1>5. LocalShows' BY <1>0, <1>1 DEF NodeInv, LocalShows
<1>6. MovesMine' BY <1>0, <1>1 DEF NodeInv, MovesMine
<1> QED BY <1>2, <1>3, <1>4, <1>5, <1>6 DEF NodeInv

(* A node comes. *)
LEMMA GrowKeeps ==
  ASSUME NodeInv, NEW at \in Nat, NEW what \in Entities \union {"mine", "local only"}, nodes' = Grow(nodes, Fresh, at, what)
  PROVE  /\ NodesOk' /\ Fresh \in Ids' /\ Fresh \notin Ids /\ Fresh \notin Used /\ Fresh \in Nat \ {NoNode, Home}
         /\ nodes'[Fresh].parent = at /\ nodes'[Fresh].shows = what
         /\ Ids' = Ids \union {Fresh}
         /\ \A n \in Ids : n \in Ids' /\ nodes'[n] = nodes[n]
<1> DEFINE k == Fresh
<1>1. k \in Nat \ {0, 1} /\ k \notin Used BY UsedOk, FreshIs
<1>2. k \notin Ids BY <1>1 DEF Used
<1>3. nodes' = [n \in Ids \union {k} |-> IF n = k THEN [parent |-> at, shows |-> what] ELSE nodes[n]] BY DEF Grow, Ids
<1> HIDE DEF k
<1>4. Ids' = Ids \union {k} /\ nodes'[k] = [parent |-> at, shows |-> what] /\ \A n \in Ids : n \in Ids' /\ nodes'[n] = nodes[n]
  BY <1>2, <1>3 DEF Ids
<1>10. nodes'[k].parent = at /\ nodes'[k].shows = what
  <2> DEFINE new == [parent |-> at, shows |-> what]
  <2>1. new.parent = at /\ new.shows = what OBVIOUS
  <2>2. nodes'[k] = new BY <1>4
  <2> HIDE DEF new
  <2> QED BY <2>1, <2>2
<1>5. IsFiniteSet(Ids \union {k}) BY FS_AddElement DEF NodeInv, NodesOk
<1>6. [parent |-> at, shows |-> what] \in Node BY DEF Node
<1>7. Ids' \subseteq Nat \ {NoNode, Home} BY <1>1, <1>4 DEF NodeInv, NodesOk, NoNode, Home
<1>8. nodes' \in [Ids' -> Node] BY <1>3, <1>4, <1>6 DEF NodeInv, NodesOk
<1>9. NodesOk' BY <1>4, <1>5, <1>7, <1>8 DEF NodesOk
<1> QED BY <1>1, <1>2, <1>4, <1>9, <1>10 DEF k, NoNode, Home

(* A part of the tree is built over nodes that stay. *)
LEMMA MaterializeKeeps ==
  ASSUME NodeInv, NEW gone, NEW es \in SUBSET Entities, NEW t, NEW at \in Nat, Materialize(Without(gone), es, t, at),
         UNCHANGED <<localOnly, relocation, twice, removed>>
  PROVE  NodeInv' /\ \A n \in Ids \ gone : n \in DOMAIN nodes'
<1> DEFINE ns == Without(gone)
           c == Cardinality(es)
           idOf == CHOOSE f \in [es -> FreshIds(c)] : IsInjective(f)
<1>1. IsFiniteSet(es) /\ c \in Nat BY NamesDiffer, FS_Subset, FS_CardinalityType
<1>2. /\ IsFiniteSet(FreshIds(c)) /\ Cardinality(FreshIds(c)) = c
      /\ \A n \in FreshIds(c) : n \in Nat \ {0, 1} /\ n \notin Used
  BY <1>1, UsedOk, FreshAre
<1>3. \E f \in [es -> FreshIds(c)] : IsInjective(f)
  <2>1. ExistsBijection(es, FreshIds(c)) BY <1>1, <1>2, FS_SameCardinalityBij
  <2>2. PICK f \in Bijection(es, FreshIds(c)) : TRUE BY <2>1 DEF ExistsBijection
  <2>3. f \in [es -> FreshIds(c)] /\ IsInjective(f) BY <2>2 DEF Bijection, Injection
  <2> QED BY <2>3
<1>4. idOf \in [es -> FreshIds(c)] /\ IsInjective(idOf) BY <1>3
<1>5. \A e, x \in es : idOf[e] = idOf[x] => e = x BY <1>4 DEF IsInjective
<1>6. /\ nodes' = [n \in DOMAIN ns \union {idOf[e] : e \in es} |->
                     IF n \in DOMAIN ns THEN ns[n]
                     ELSE LET e == CHOOSE x \in es : idOf[x] = n IN
                          [parent |-> IF t[e] \in es THEN idOf[t[e]] ELSE at, shows |-> e]]
      /\ map' = [e \in Entities |-> IF e \in es THEN idOf[e] ELSE IF map[e] \in DOMAIN ns THEN map[e] ELSE NoNode]
  BY DEF Materialize
<1>7. /\ DOMAIN ns = Ids \ gone /\ IsFiniteSet(DOMAIN ns) /\ DOMAIN ns \subseteq Nat \ {NoNode, Home}
      /\ ns \in [DOMAIN ns -> Node]
      /\ \A n \in DOMAIN ns : n \in Ids /\ ns[n] = nodes[n]
  BY NodesGo
<1> HIDE DEF ns, idOf, c
<1>8. \A e \in es : idOf[e] \in Nat \ {0, 1} /\ idOf[e] \notin Used BY <1>2, <1>4
<1>9. \A e \in es : idOf[e] \notin Ids /\ idOf[e] # localOnly /\ idOf[e] # relocation.id /\ \A x \in Entities : idOf[e] # map[x]
  BY <1>8 DEF Used
<1> DEFINE New == {idOf[e] : e \in es}
<1>10. Ids' = DOMAIN ns \union New /\ \A n \in DOMAIN ns : nodes'[n] = nodes[n] BY <1>6, <1>7 DEF Ids
<1>11. \A e \in es : nodes'[idOf[e]] \in Node /\ nodes'[idOf[e]].shows = e
  <2> TAKE e \in es
  <2> DEFINE above == IF t[e] \in es THEN idOf[t[e]] ELSE at
             k == idOf[e]
  <2>1. k \notin DOMAIN ns /\ k \in New BY <1>7, <1>9
  <2>2. (CHOOSE x \in es : idOf[x] = k) = e BY <1>5
  <2>3. nodes'[k] = [parent |-> above, shows |-> e] BY <1>6, <2>1, <2>2
  <2>4. above \in Nat BY <1>8
  <2> HIDE DEF above, k
  <2>5. nodes'[k].shows = e BY <2>3
  <2>6. e \in Entities OBVIOUS
  <2>7. [parent |-> above, shows |-> e] \in Node BY <2>4, <2>6 DEF Node
  <2> QED BY <2>3, <2>5, <2>7 DEF k
<1>12. IsFiniteSet(Ids')
  <2>1. New \subseteq FreshIds(c) BY <1>4
  <2>2. IsFiniteSet(New) BY <2>1, <1>2, FS_Subset
  <2> QED BY <2>2, <1>7, <1>10, FS_Union
<1>13. Ids' \subseteq Nat \ {NoNode, Home} BY <1>7, <1>8, <1>10 DEF NoNode, Home
<1>15. nodes' \in [Ids' -> Node]
  <2>1. \A n \in Ids' : nodes'[n] \in Node BY <1>7, <1>10, <1>11
  <2>2. nodes' = [n \in Ids' |-> nodes'[n]] BY <1>6, <1>10
  <2> QED BY <2>1, <2>2
<1>16. NodesOk' BY <1>12, <1>13, <1>15 DEF NodesOk
<1>17. map' \in [Entities -> Nat] BY <1>6, <1>8 DEF NodeInv, KnownOk, NoNode
<1>18. KnownOk' BY <1>17 DEF NodeInv, KnownOk
<1>19. MapShows'
  <2> SUFFICES ASSUME NEW e \in Entities, map'[e] \in Ids' PROVE nodes'[map'[e]].shows = e BY DEF MapShows
  <2>1. CASE e \in es
    <3>1. map'[e] = idOf[e] BY <2>1, <1>6
    <3>2. nodes'[idOf[e]].shows = e BY <2>1, <1>11
    <3> QED BY <3>1, <3>2
  <2>2. CASE e \notin es /\ map[e] \in DOMAIN ns
    <3>1. map'[e] = map[e] /\ nodes'[map[e]] = nodes[map[e]] /\ map[e] \in Ids BY <2>2, <1>6, <1>7, <1>10
    <3> QED BY <3>1 DEF NodeInv, MapShows
  <2>3. CASE e \notin es /\ map[e] \notin DOMAIN ns
    <3>1. map'[e] = NoNode BY <2>3, <1>6
    <3> QED BY <3>1, <1>13
  <2> QED BY <2>1, <2>2, <2>3
<1>20. \A n \in Ids' : \/ n \in DOMAIN ns /\ n \in Ids /\ nodes'[n] = nodes[n]
                       \/ n \notin Ids /\ n # localOnly /\ n # relocation.id /\ nodes'[n].shows \in Entities
  <2>1. ASSUME NEW e \in es PROVE nodes'[idOf[e]].shows \in Entities BY <1>11
  <2> QED BY <2>1, <1>7, <1>9, <1>10
<1>21. LocalShows'
  <2>1. localOnly' \in Ids' => nodes'[localOnly'].shows = "local only" BY <1>20 DEF NodeInv, LocalShows
  <2>2. \A n \in Ids' : nodes'[n].shows = "local only" => n \in Ids /\ nodes'[n] = nodes[n] BY <1>20, NamesDiffer
  <2> QED BY <2>1, <2>2 DEF NodeInv, LocalShows
<1>22. MovesMine' BY <1>20 DEF NodeInv, MovesMine
<1> QED BY <1>7, <1>10, <1>16, <1>18, <1>19, <1>21, <1>22 DEF NodeInv, Ids

-----------------------------------------------------------------------------
(* Every step of the tree. *)
Event == [kind : {"upsert", "delete"}, entity : Entities, parent : Entities \union {Root, Nowhere}]
LogOk ==
  /\ tree \in [Entities -> Entities \union {Root, Nowhere}]
  /\ log \in Seq(Event) /\ cursor \in Nat /\ recovering \in Nat
TreeInv == LogOk /\ NodeInv

LEMMA MaxOfTwo == ASSUME NEW a \in Nat, NEW b \in Nat PROVE Max({a, b}) \in Nat
<1>1. \E x \in {a, b} : \A y \in {a, b} : x >= y OBVIOUS
<1>2. Max({a, b}) \in {a, b} BY <1>1 DEF Max
<1> QED BY <1>2

LEMMA ReadyEvent == TreeInv /\ Ready => E \in Entities /\ P \in Entities \union {Root, Nowhere} /\ cursor + 1 \in Nat
<1> SUFFICES ASSUME TreeInv, Ready PROVE E \in Entities /\ P \in Entities \union {Root, Nowhere} /\ cursor + 1 \in Nat OBVIOUS
<1>1. cursor \in Nat /\ log \in Seq(Event) /\ cursor < Len(log) BY DEF TreeInv, LogOk, Ready
<1>2. cursor + 1 \in 1 .. Len(log) BY <1>1
<1>3. log[cursor + 1] \in Event BY <1>1, <1>2
<1> QED BY <1>1, <1>3 DEF E, P, Event

(* Chrome and what is known of it stay: only entities are forgotten. *)
LEMMA Forgets ==
  ASSUME NodeInv, UNCHANGED <<nodes, localOnly, relocation, twice>>, map' \in [Entities -> Nat],
         \A e \in Entities : map'[e] = map[e] \/ map'[e] = NoNode, IsFiniteSet(removed'), removed' \subseteq Nat
  PROVE  NodeInv' /\ KeepsMine
<1>1. Ids' = Ids BY DEF Ids
<1>2. NodesOk' BY <1>1 DEF NodeInv, NodesOk
<1>3. KnownOk' BY DEF NodeInv, KnownOk
<1>4. MapShows' BY <1>1 DEF NodeInv, NodesOk, MapShows
<1>5. LocalShows' BY <1>1 DEF NodeInv, LocalShows
<1>6. MovesMine' BY <1>1 DEF NodeInv, MovesMine
<1>7. KeepsMine BY DEF KeepsMine, Kept, Ids
<1> QED BY <1>2, <1>3, <1>4, <1>5, <1>6, <1>7 DEF NodeInv

LEMMA UnmapIs ==
  ASSUME NodeInv, NEW es, map' = Unmap(es)
  PROVE  map' \in [Entities -> Nat] /\ \A e \in Entities : map'[e] = map[e] \/ map'[e] = NoNode
BY DEF Unmap, NodeInv, KnownOk, NoNode

(* What a step leaves: the invariant, and the bookmarks that are kept.      *)
Step == NodeInv' /\ (~twice' => KeepsMine)

(* The subtree of a shared node goes. *)
LEMMA SubtreeGoes ==
  ASSUME NodeInv, NEW x, Shared(x), nodes' = Without(Under(x)), map' \in [Entities -> Nat],
         \A e \in Entities : map'[e] = map[e] \/ map'[e] = NoNode,
         UNCHANGED <<localOnly, relocation, twice>>, IsFiniteSet(removed'), removed' \subseteq Nat
  PROVE  Step
<1>1. NodeInv' BY GoKeeps
<1>2. KeepsMine
  <2> SUFFICES ASSUME NEW id \in Ids, Kept(id) PROVE id \in DOMAIN nodes' BY DEF KeepsMine
  <2>1. id \notin Under(x) BY SharedGoes
  <2>2. DOMAIN nodes' = Ids \ Under(x) BY NodesGo
  <2> QED BY <2>1, <2>2
<1> QED BY <1>1, <1>2 DEF Step

(* All goes that is below the workspace's folder or a shared one, but what  *)
(* is below the local-only folder.                                          *)
LEMMA ChildrenGo ==
  ASSUME NodeInv, ~twice, NEW at, at = Home \/ (at \in Ids /\ nodes[at].shows \in Entities), NEW m, Kept(m)
  PROVE  m \notin UNION {Under(n) : n \in Children(at) \ {localOnly}}
<1> SUFFICES ASSUME NEW n \in Children(at) \ {localOnly}, m \in Under(n) PROVE FALSE OBVIOUS
<1>1. n \in Ids /\ n # localOnly /\ nodes[n].parent = at BY DEF Children
<1>2. n = m \/ (n \in Ids /\ nodes[n].shows = "local only") BY KeptIsBelow
<1>3. CASE n = m
  <2>1. at \in Ids /\ nodes[at].shows = "local only" BY <1>1, <1>3 DEF Kept
  <2>2. Home \notin Ids BY DEF NodeInv, NodesOk
  <2> QED BY <2>1, <2>2, NamesDiffer
<1>4. CASE nodes[n].shows = "local only"
  BY <1>1, <1>4 DEF NodeInv, LocalShows
<1> QED BY <1>2, <1>3, <1>4

LEMMA MappedIsShared ==
  ASSUME NodeInv, NEW e \in Entities
  PROVE  Shared(map[e]) /\ map[e] \in Nat
BY DEF NodeInv, MapShows, KnownOk, Shared

LEMMA AnchorsAre ==
  ASSUME NEW lost, NEW f \in Anchors(lost)
  PROVE  f = Root \/ (f \in Entities /\ map[f] \in Ids)
<1> DEFINE good(e) == e \in Alive(tree) \intersect Folders /\ e \notin lost /\ map[e] \in Ids
           start == {c \in ({P} \union IF E \in Folders THEN {E} ELSE {}) \ {Root} : c \in Alive(tree)}
           above(c) == {x \in Line(tree, c) : good(x)}
           first == IF P \in start /\ above(P) # {} THEN above(P) ELSE UNION {above(c) : c \in start}
<1>1. f \in IF first = {} THEN {Root} ELSE {x \in first : first \subseteq Line(tree, x)} BY DEF Anchors
<1>2. \A x : good(x) => x \in Entities /\ map[x] \in Ids BY DEF Alive
<1> HIDE DEF good
<1>3. \A c : \A x \in above(c) : good(x) OBVIOUS
<1> HIDE DEF above, start
<1>4. \A x \in first : good(x) BY <1>3
<1> HIDE DEF first
<1> QED BY <1>1, <1>2, <1>4

(* A folder of the tree is cleared and built again. *)
LEMMA RecoverSteps ==
  ASSUME NodeInv, NEW lost, NEW prunes \in BOOLEAN, Recover(lost, prunes), UNCHANGED <<localOnly, relocation, twice, removed>>
  PROVE  Step
<1>1. NodeInv /\ IsFiniteSet(removed') /\ removed' \subseteq Nat BY DEF NodeInv, KnownOk
<1>2. CASE \E f \in Anchors(lost) :
             LET at == IF f = Root THEN Home ELSE map[f]
                 cleared == UNION {Under(n) : n \in Children(at) \ {localOnly}} IN
             Materialize(Without(cleared), Visible(tree, f), tree, at)
  <2>1. PICK f \in Anchors(lost) :
             LET at == IF f = Root THEN Home ELSE map[f]
                 cleared == UNION {Under(n) : n \in Children(at) \ {localOnly}} IN
             Materialize(Without(cleared), Visible(tree, f), tree, at)
    BY <1>2
  <2> DEFINE at == IF f = Root THEN Home ELSE map[f]
             cleared == UNION {Under(n) : n \in Children(at) \ {localOnly}}
             es == Visible(tree, f)
  <2>2. f = Root \/ (f \in Entities /\ map[f] \in Ids) BY <2>1, AnchorsAre
  <2>3. at = Home \/ (at \in Ids /\ nodes[at].shows \in Entities) BY <2>2 DEF NodeInv, MapShows
  <2>4. at \in Nat 
    <3>1. Ids \subseteq Nat BY DEF NodeInv, NodesOk
    <3>2. Home \in Nat BY DEF Home
    <3>3. at = Home \/ at \in Ids BY <2>3
    <3> HIDE DEF at
    <3> QED BY <3>1, <3>2, <3>3
  <2>5. es \in SUBSET Entities BY DEF Visible, Below, Alive
  <2>6. Materialize(Without(cleared), es, tree, at) BY <2>1
  <2> HIDE DEF at, es
  <2>7. ASSUME ~twice, NEW id \in Ids, Kept(id) PROVE id \notin cleared BY <2>3, <2>7, ChildrenGo
  <2> HIDE DEF cleared
  <2>8. NodeInv' /\ \A n \in Ids \ cleared : n \in DOMAIN nodes' BY <2>4, <2>5, <2>6, MaterializeKeeps
  <2> QED BY <2>7, <2>8 DEF Step, KeepsMine
<1>3. CASE nodes' = nodes /\ (map' = Unmap(lost) \/ map' = map)
  <2>1. map' \in [Entities -> Nat] /\ \A e \in Entities : map'[e] = map[e] \/ map'[e] = NoNode
    <3>1. CASE map' = Unmap(lost) BY <3>1, UnmapIs
    <3>2. CASE map' = map BY <3>2 DEF NodeInv, KnownOk
    <3> QED BY <1>3, <3>1, <3>2
  <2> QED BY <1>1, <1>3, <2>1, Forgets DEF Step
<1>4. (\E f \in Anchors(lost) :
             LET at == IF f = Root THEN Home ELSE map[f]
                 cleared == UNION {Under(n) : n \in Children(at) \ {localOnly}} IN
             Materialize(Without(cleared), Visible(tree, f), tree, at))
      \/ (nodes' = nodes /\ (map' = Unmap(lost) \/ map' = map))
  BY DEF Recover, projectionVars
<1> QED BY <1>2, <1>3, <1>4

(* A node goes to another folder: no local-only one. *)
LEMMA MoveKeeps ==
  ASSUME NodeInv, NEW k \in Ids, nodes[k].shows # "local only", NEW q \in Nat, nodes' = [nodes EXCEPT ![k].parent = q],
         UNCHANGED <<map, localOnly, twice, removed>>, relocation' = relocation \/ relocation' = NoRelocation
  PROVE  NodeInv' /\ KeepsMine
<1>1. Ids' = Ids BY DEF Ids
<1>2. nodes \in [Ids -> Node] BY DEF NodeInv, NodesOk
<1>3. \A n \in Ids : /\ nodes'[n] \in Node /\ nodes'[n].shows = nodes[n].shows
                     /\ n # k => nodes'[n] = nodes[n]
  <2> TAKE n \in Ids
  <2>1. CASE n = k
    <3>1. nodes'[n] = [nodes[n] EXCEPT !.parent = q] BY <1>2, <2>1
    <3>2. nodes[n] \in Node BY <1>2
    <3> QED BY <2>1, <3>1, <3>2 DEF Node
  <2>2. CASE n # k BY <1>2, <2>2
  <2> QED BY <2>1, <2>2
<1>4. nodes' \in [Ids' -> Node]
  <2>1. nodes' = [n \in Ids |-> nodes'[n]] BY DEF Ids
  <2> QED BY <2>1, <1>1, <1>3
<1>5. NodesOk' BY <1>1, <1>4 DEF NodeInv, NodesOk
<1>6. KnownOk'
  <2>1. NoRelocation \in Relocations BY DEF NoRelocation, Relocations, NoNode
  <2> QED BY <2>1 DEF NodeInv, KnownOk
<1>7. MapShows' BY <1>1, <1>3 DEF NodeInv, MapShows
<1>8. LocalShows' BY <1>1, <1>3 DEF NodeInv, LocalShows
<1>9. MovesMine'
  <2>1. NoRelocation.id \notin Ids BY DEF NoRelocation, NodeInv, NodesOk
  <2> QED BY <2>1, <1>1, <1>3 DEF NodeInv, MovesMine
<1>10. KeepsMine BY <1>1 DEF KeepsMine, Ids
<1> QED BY <1>5, <1>6, <1>7, <1>8, <1>9, <1>10 DEF NodeInv

LEMMA ApplySteps ==
  ASSUME TreeInv, Apply
  PROVE  Step
<1>1. NodeInv /\ IsFiniteSet(removed) /\ removed \subseteq Nat /\ map \in [Entities -> Nat]
  BY DEF TreeInv, NodeInv, KnownOk
<1>2. ASSUME Ready
      PROVE  /\ E \in Entities /\ Shared(map[E])
             /\ ParentOk => ParentAt \in Nat
  <2>1. E \in Entities BY <1>2, ReadyEvent
  <2>2. ParentOk => ParentAt = Home \/ ParentAt \in Ids BY DEF ParentOk, Exists
  <2>3. ParentOk => ParentAt \in Nat
    <3>1. Ids \subseteq Nat /\ Home \in Nat BY <1>1 DEF NodeInv, NodesOk, Home
    <3> QED BY <2>2, <3>1
  <2> QED BY <2>1, <2>3, <1>1, MappedIsShared
<1>3. CASE ApplyHidden
  <2>1. Ready /\ UNCHANGED <<localOnly, relocation, twice, removed>> BY <1>3 DEF ApplyHidden, ApplyRest
  <2>2. CASE map[E] \in Ids
    <3>1. nodes' = Without(Under(map[E])) /\ map' = Unmap(EntitiesAt(Under(map[E]))) BY <1>3, <2>2 DEF ApplyHidden
    <3> QED BY <1>1, <1>2, <2>1, <3>1, UnmapIs, SubtreeGoes
  <2>3. CASE map[E] \notin Ids
    <3>1. UNCHANGED <<nodes, map>> BY <1>3, <2>3 DEF ApplyHidden
    <3> QED BY <1>1, <2>1, <3>1, Forgets DEF Step
  <2> QED BY <2>2, <2>3
<1>4. CASE ApplyNew
  <2>1. /\ Ready /\ ParentOk /\ map[E] = NoNode
        /\ UNCHANGED <<localOnly, relocation, twice, removed>>
    BY <1>4 DEF ApplyNew, ApplyRest
  <2>2. E \in Entities /\ ParentAt \in Nat BY <1>2, <2>1
  <2>3. CASE nodes' = nodes /\ \E n \in Reusable : map' = [map EXCEPT ![E] = n]
    <3>1. PICK n \in Reusable : map' = [map EXCEPT ![E] = n] BY <2>3
    <3>2. n \in Ids /\ nodes[n].shows = E BY DEF Reusable, Children
    <3>3. n \in Nat BY <1>1, <3>2 DEF NodeInv, NodesOk
    <3>4. map' \in [Entities -> Nat] BY <1>1, <3>1, <3>3
    <3>5. Ids' = Ids BY <2>3 DEF Ids
    <3>6. MapShows'
      <4> SUFFICES ASSUME NEW e \in Entities, map'[e] \in Ids PROVE nodes[map'[e]].shows = e BY <2>3, <3>5 DEF MapShows
      <4>1. CASE e = E BY <4>1, <1>1, <2>2, <3>1, <3>2
      <4>2. CASE e # E BY <4>2, <1>1, <3>1 DEF NodeInv, MapShows
      <4> QED BY <4>1, <4>2
    <3>7. NodesOk' /\ KnownOk' /\ LocalShows' /\ MovesMine'
      BY <1>1, <2>1, <2>3, <3>4, <3>5 DEF NodeInv, NodesOk, KnownOk, LocalShows, MovesMine
    <3>8. KeepsMine BY <2>3 DEF KeepsMine, Ids
    <3> QED BY <3>6, <3>7, <3>8 DEF Step, NodeInv
  <2>4. CASE nodes' = Grow(nodes, Fresh, ParentAt, E) /\ map' = [map EXCEPT ![E] = Fresh]
    <3> DEFINE k == Fresh
    <3>1. /\ NodesOk' /\ k \in Ids' /\ k \notin Ids /\ k \notin Used /\ k \in Nat \ {NoNode, Home}
          /\ nodes'[k].parent = ParentAt /\ nodes'[k].shows = E
          /\ Ids' = Ids \union {k}
          /\ \A n \in Ids : n \in Ids' /\ nodes'[n] = nodes[n]
      BY <1>1, <2>2, <2>4, GrowKeeps
    <3>2. map' = [map EXCEPT ![E] = k] BY <2>4
    <3> HIDE DEF k
    <3>3. map' \in [Entities -> Nat] BY <1>1, <3>1, <3>2
    <3>4. k # localOnly /\ k # relocation.id /\ \A e \in Entities : k # map[e] BY <3>1 DEF Used
    <3>5. nodes'[k].shows = E BY <3>1
    <3>6. MapShows'
      <4> SUFFICES ASSUME NEW e \in Entities, map'[e] \in Ids' PROVE nodes'[map'[e]].shows = e BY DEF MapShows
      <4>1. CASE e = E BY <4>1, <1>1, <2>2, <3>2, <3>5
      <4>2. CASE e # E
        <5>1. map'[e] = map[e] BY <4>2, <1>1, <3>2
        <5>2. map[e] \in Ids BY <5>1, <3>1, <3>4
        <5> QED BY <5>1, <5>2, <3>1, <1>1 DEF NodeInv, MapShows
      <4> QED BY <4>1, <4>2
    <3>7. KnownOk' BY <1>1, <2>1, <3>3 DEF NodeInv, KnownOk
    <3>8. LocalShows'
      <4>1. \A n \in Ids' : nodes'[n].shows = "local only" => n \in Ids BY <2>2, <3>1, <3>5, NamesDiffer
      <4>2. localOnly \in Ids' => localOnly \in Ids BY <3>1, <3>4
      <4> QED BY <4>1, <4>2, <1>1, <2>1, <3>1 DEF NodeInv, LocalShows
    <3>9. MovesMine' BY <1>1, <2>1, <3>1, <3>4 DEF NodeInv, MovesMine
    <3>10. KeepsMine BY <3>1 DEF KeepsMine, Ids
    <3> QED BY <3>1, <3>6, <3>7, <3>8, <3>9, <3>10 DEF Step, NodeInv
  <2> QED BY <1>4, <2>3, <2>4 DEF ApplyNew
<1>5. CASE ApplyMove
  <2>1. Ready /\ ParentOk /\ map[E] \in Ids /\ UNCHANGED <<map, localOnly, relocation, twice, removed>>
    BY <1>5 DEF ApplyMove, ApplyRest
  <2>2. CASE UNCHANGED nodes BY <1>1, <2>1, <2>2, Forgets DEF Step
  <2>3. CASE nodes' = [nodes EXCEPT ![map[E]].parent = ParentAt]
    <3> DEFINE k == map[E]
               q == ParentAt
    <3>1. k \in Ids /\ q \in Nat /\ nodes' = [nodes EXCEPT ![k].parent = q] BY <1>2, <2>1, <2>3
    <3>2. nodes[k].shows = E BY <1>1, <1>2, <2>1 DEF NodeInv, MapShows
    <3>3. nodes[k].shows \in Entities BY <1>2, <2>1, <3>2
    <3> HIDE DEF k, q
    <3>4. NodeInv' /\ KeepsMine BY <1>1, <2>1, <3>1, <3>3, NamesDiffer, MoveKeeps
    <3> QED BY <3>4 DEF Step
  <2> QED BY <1>5, <2>2, <2>3 DEF ApplyMove
<1>6. CASE ApplyOrphan
  <2> DEFINE lost == Invalid((IF ParentOk THEN {} ELSE {P}) \union {E})
  <2>1. Recover(lost, FALSE) /\ UNCHANGED <<localOnly, relocation, twice, removed>>
    BY <1>6 DEF ApplyOrphan, ApplyRest
  <2> HIDE DEF lost
  <2> QED BY <1>1, <2>1, RecoverSteps
<1>7. CASE ApplyDelete
  <2>1. /\ Ready /\ nodes' = Without(Under(map[E])) /\ map' = Unmap(EntitiesAt(Under(map[E])))
        /\ UNCHANGED <<localOnly, relocation, twice, removed>>
    BY <1>7 DEF ApplyDelete, DropSubtree, ApplyRest
  <2> QED BY <1>1, <1>2, <2>1, UnmapIs, SubtreeGoes
<1>8. CASE ApplyDeleteMiss
  <2> DEFINE lost == Invalid((IF ParentOk THEN {} ELSE {P}) \union {E})
  <2>1. UNCHANGED <<localOnly, relocation, twice, removed>> /\ (Recover(lost, TRUE) \/ (nodes' = nodes /\ map' = Unmap(lost)))
    BY <1>8 DEF ApplyDeleteMiss, ApplyRest
  <2> HIDE DEF lost
  <2>2. CASE Recover(lost, TRUE) BY <1>1, <2>1, <2>2, RecoverSteps
  <2>3. CASE nodes' = nodes /\ map' = Unmap(lost) BY <1>1, <2>1, <2>3, UnmapIs, Forgets DEF Step
  <2> QED BY <2>1, <2>2, <2>3
<1>9. CASE ReplayEnds
  <2>1. UNCHANGED <<nodes, map, localOnly, relocation, removed, twice>> BY <1>9 DEF ReplayEnds, projectionVars, histories
  <2> QED BY <1>1, <2>1, Forgets DEF Step
<1> QED BY <1>3, <1>4, <1>5, <1>6, <1>7, <1>8, <1>9 DEF Apply

(* The local-only folder is found, or made. *)
LEMMA FindSteps ==
  ASSUME NodeInv, NEW found, NEW missing, EnsureFinds(found, missing), UNCHANGED <<nodes, map, removed, twice>>,
         relocation' \in Relocations, relocation'.id = relocation.id
  PROVE  Step
<1>1. localOnly' = localOnly \/ \E n \in Titled : localOnly' = n BY DEF EnsureFinds
<1>2. Ids' = Ids BY DEF Ids
<1>3. \A n \in Titled : n \in Ids /\ nodes[n].shows = "local only" BY DEF Titled, Children
<1>4. NodesOk' BY <1>2 DEF NodeInv, NodesOk
<1>5. localOnly' \in Nat \ {Home} BY <1>1, <1>3 DEF NodeInv, NodesOk, KnownOk
<1>6. KnownOk' BY <1>5 DEF NodeInv, KnownOk
<1>7. MapShows' BY <1>2 DEF NodeInv, MapShows
<1>8. LocalShows' BY <1>1, <1>2, <1>3 DEF NodeInv, LocalShows
<1>9. MovesMine' BY <1>2 DEF NodeInv, MovesMine
<1>10. KeepsMine BY DEF KeepsMine, Ids
<1> QED BY <1>4, <1>6, <1>7, <1>8, <1>9, <1>10 DEF Step, NodeInv

LEMMA MakeSteps ==
  ASSUME NodeInv, EnsureMakes, UNCHANGED <<map, removed>>, relocation' \in Relocations, relocation'.id = relocation.id
  PROVE  Step
<1> DEFINE k == Fresh
<1>1. nodes' = Grow(nodes, k, Home, "local only") /\ localOnly' = k /\ twice' = (twice \/ Titled # {}) BY DEF EnsureMakes
<1>2. Home \in Nat BY DEF Home
<1>3. /\ NodesOk' /\ k \in Ids' /\ k \notin Ids /\ k \notin Used /\ k \in Nat \ {NoNode, Home}
      /\ nodes'[k].parent = Home /\ nodes'[k].shows = "local only"
      /\ Ids' = Ids \union {k}
      /\ \A n \in Ids : n \in Ids' /\ nodes'[n] = nodes[n]
  BY <1>1, <1>2, GrowKeeps
<1> HIDE DEF k
<1>5. k # relocation.id /\ \A e \in Entities : k # map[e] BY <1>3 DEF Used
<1>6. KnownOk' BY <1>1, <1>3 DEF NodeInv, KnownOk
<1>7. MapShows' BY <1>3, <1>5 DEF NodeInv, MapShows
<1>8. LocalShows'
  <2>1. \A n \in Ids : nodes[n].shows = "local only" => nodes[n].parent = Home /\ twice'
    BY <1>1 DEF NodeInv, LocalShows, Titled, Children
  <2> QED BY <2>1, <1>1, <1>3 DEF LocalShows
<1>9. MovesMine' BY <1>3, <1>5 DEF NodeInv, MovesMine
<1>10. KeepsMine BY <1>3 DEF KeepsMine, Ids
<1> QED BY <1>3, <1>6, <1>7, <1>8, <1>9, <1>10 DEF Step, NodeInv

LEMMA RebuildSteps ==
  ASSUME TreeInv, Rebuild
  PROVE  Step
<1>1. NodeInv /\ IsFiniteSet(removed) /\ removed \subseteq Nat /\ map \in [Entities -> Nat] /\ relocation \in Relocations
  BY DEF TreeInv, NodeInv, KnownOk
<1>2. CASE RebuildBegins
  <2>1. map' = [e \in Entities |-> NoNode] /\ UNCHANGED <<nodes, localOnly, relocation, removed, twice>> BY <1>2 DEF RebuildBegins
  <2>2. map' \in [Entities -> Nat] /\ \A e \in Entities : map'[e] = NoNode BY <2>1 DEF NoNode
  <2> QED BY <1>1, <2>1, <2>2, Forgets DEF Step
<1>3. CASE RebuildFinds
  <2>1. EnsureFinds(Rebuilds("clear"), Rebuilds("make")) /\ UNCHANGED <<nodes, map, removed, twice, relocation>>
    BY <1>3 DEF RebuildFinds, histories
  <2> QED BY <1>1, <2>1, FindSteps
<1>4. CASE RebuildMakes
  <2>1. EnsureMakes /\ UNCHANGED <<map, removed, relocation>> BY <1>4 DEF RebuildMakes
  <2> QED BY <1>1, <2>1, MakeSteps
<1>5. CASE RebuildClears
  <2> DEFINE cleared == UNION {Under(n) : n \in Children(Home) \ {localOnly}}
  <2>1. nodes' = Without(cleared) /\ map' = Unmap(EntitiesAt(cleared)) /\ UNCHANGED <<localOnly, relocation, removed, twice>>
    BY <1>5 DEF RebuildClears, ClearChildren, histories
  <2>2. ASSUME ~twice, NEW id \in Ids, Kept(id) PROVE id \notin cleared BY <1>1, <2>2, ChildrenGo
  <2> HIDE DEF cleared
  <2>3. NodeInv' BY <1>1, <2>1, UnmapIs, GoKeeps
  <2>4. DOMAIN nodes' = Ids \ cleared BY <1>1, <2>1, NodesGo
  <2> QED BY <2>1, <2>2, <2>3, <2>4 DEF Step, KeepsMine
<1>6. CASE RebuildFills
  <2> DEFINE es == Visible(rebuild.tree, Root)
             t == rebuild.tree
  <2>1. Materialize(nodes, es, t, Home) /\ UNCHANGED <<localOnly, relocation, twice, removed>>
    BY <1>6 DEF RebuildFills, histories
  <2>2. es \in SUBSET Entities BY DEF Visible, Below, Alive
  <2>3. nodes = Without({}) BY <1>1 DEF Without, NodeInv, NodesOk
  <2>4. Home \in Nat BY DEF Home
  <2> HIDE DEF es, t
  <2>5. Materialize(Without({}), es, t, Home) BY <2>1, <2>3
  <2>6. NodeInv' /\ \A n \in Ids : n \in DOMAIN nodes' BY <1>1, <2>1, <2>2, <2>4, <2>5, MaterializeKeeps
  <2> QED BY <2>6 DEF Step, KeepsMine
<1> QED BY <1>2, <1>3, <1>4, <1>5, <1>6 DEF Rebuild

LEMMA RelocateSteps ==
  ASSUME TreeInv, Relocate
  PROVE  Step
<1>1. NodeInv /\ relocation \in Relocations BY DEF TreeInv, NodeInv, KnownOk
<1>2. ASSUME NEW to \in {"move", "make"}, Relocates(to)
      PROVE  relocation' \in Relocations /\ relocation'.id = relocation.id
  BY <1>1, <1>2 DEF Relocates, Relocations
<1>3. CASE RelocationFinds
  <2>1. EnsureFinds(Relocates("move"), Relocates("make")) /\ UNCHANGED <<nodes, map, removed, twice>>
    BY <1>3 DEF RelocationFinds, histories
  <2>2. Relocates("move") \/ Relocates("make") BY <2>1 DEF EnsureFinds
  <2>3. relocation' \in Relocations /\ relocation'.id = relocation.id BY <1>2, <2>2
  <2> QED BY <1>1, <2>1, <2>3, FindSteps
<1>4. CASE RelocationMakes
  <2>1. EnsureMakes /\ Relocates("move") /\ UNCHANGED <<map, removed>> BY <1>4 DEF RelocationMakes
  <2>2. relocation' \in Relocations /\ relocation'.id = relocation.id BY <1>2, <2>1
  <2> QED BY <1>1, <2>1, <2>2, MakeSteps
<1>5. CASE RelocationMoves
  <2>1. /\ relocation' = NoRelocation /\ UNCHANGED <<map, localOnly, removed, twice>>
        /\ \/ relocation.id \in Ids /\ localOnly \in Ids /\ nodes' = [nodes EXCEPT ![relocation.id].parent = localOnly]
           \/ nodes' = nodes
    BY <1>5 DEF RelocationMoves, projectionVars, histories
  <2>2. CASE relocation.id \in Ids /\ localOnly \in Ids /\ nodes' = [nodes EXCEPT ![relocation.id].parent = localOnly]
    <3> DEFINE k == relocation.id
    <3>1. k \in Ids /\ nodes[k].shows # "local only" BY <1>1, <2>2, NamesDiffer DEF NodeInv, MovesMine
    <3>2. localOnly \in Nat BY <1>1 DEF NodeInv, KnownOk
    <3>3. nodes' = [nodes EXCEPT ![k].parent = localOnly] BY <2>2
    <3> HIDE DEF k
    <3> QED BY <1>1, <2>1, <3>1, <3>2, <3>3, MoveKeeps DEF Step
  <2>3. CASE nodes' = nodes
    <3>1. Ids' = Ids BY <2>3 DEF Ids
    <3>2. NoRelocation \in Relocations /\ NoRelocation.id \notin Ids
      BY <1>1 DEF NoRelocation, Relocations, NoNode, NodeInv, NodesOk
    <3>3. NodesOk' /\ KnownOk' /\ MapShows' /\ LocalShows' /\ MovesMine'
      BY <1>1, <2>1, <2>3, <3>1, <3>2 DEF NodeInv, NodesOk, KnownOk, MapShows, LocalShows, MovesMine
    <3>4. KeepsMine BY <2>3 DEF KeepsMine, Ids
    <3> QED BY <3>3, <3>4 DEF Step, NodeInv
  <2> QED BY <2>1, <2>2, <2>3
<1> QED BY <1>3, <1>4, <1>5 DEF Relocate

LEMMA UserSteps ==
  ASSUME TreeInv, (\E id \in Ids : UserDeletes(id)) \/ UserAdds \/ Handle
  PROVE  Step
<1>1. NodeInv /\ IsFiniteSet(removed) /\ removed \subseteq Nat /\ map \in [Entities -> Nat]
  BY DEF TreeInv, NodeInv, KnownOk
<1>2. ASSUME NEW id \in Ids, UserDeletes(id) PROVE Step
  <2>1. /\ nodes' = Without(Under(id)) /\ removed' = removed \union {id} /\ Shared(id)
        /\ UNCHANGED <<map, localOnly, relocation, twice>>
    BY <1>2 DEF UserDeletes, projectionVars, histories, Shared
  <2>2. IsFiniteSet(removed') /\ removed' \subseteq Nat
    <3>1. Ids \subseteq Nat BY <1>1 DEF NodeInv, NodesOk
    <3> QED BY <1>1, <2>1, <3>1, FS_AddElement
  <2>3. map' \in [Entities -> Nat] /\ \A e \in Entities : map'[e] = map[e] BY <1>1, <2>1
  <2> QED BY <1>1, <2>1, <2>2, <2>3, SubtreeGoes
<1>3. CASE UserAdds
  <2> DEFINE k == Fresh
  <2>1. nodes' = Grow(nodes, k, Home, "mine") /\ relocation' = [pc |-> "find", id |-> k]
        /\ UNCHANGED <<map, localOnly, removed, twice>>
    BY <1>3 DEF UserAdds, projectionVars, histories
  <2>2. Home \in Nat BY DEF Home
  <2>3. /\ NodesOk' /\ k \in Ids' /\ k \notin Ids /\ k \notin Used /\ k \in Nat \ {NoNode, Home}
        /\ nodes'[k].parent = Home /\ nodes'[k].shows = "mine"
        /\ Ids' = Ids \union {k}
        /\ \A n \in Ids : n \in Ids' /\ nodes'[n] = nodes[n]
    BY <1>1, <2>1, <2>2, GrowKeeps
  <2> HIDE DEF k
  <2>4. nodes'[k].shows = "mine" BY <2>3
  <2>5. k # localOnly /\ \A e \in Entities : k # map[e] BY <2>3 DEF Used
  <2>6. relocation' \in Relocations /\ relocation'.id = k BY <2>1, <2>3 DEF Relocations
  <2>7. KnownOk' BY <1>1, <2>1, <2>6 DEF NodeInv, KnownOk
  <2>8. MapShows' BY <1>1, <2>1, <2>3, <2>5 DEF NodeInv, MapShows
  <2>9. LocalShows' BY <1>1, <2>1, <2>3, <2>4, <2>5, ZenonT(60) DEF NodeInv, LocalShows
  <2>10. MovesMine' BY <2>3, <2>4, <2>6 DEF MovesMine
  <2>11. KeepsMine BY <2>3 DEF KeepsMine, Ids
  <2> QED BY <2>3, <2>7, <2>8, <2>9, <2>10, <2>11 DEF Step, NodeInv
<1>4. ASSUME NEW id \in removed, RemoveHandled(id) PROVE Step
  <2>1. removed' = removed \ {id} /\ UNCHANGED <<nodes, map, localOnly, relocation, twice>> BY <1>4 DEF RemoveHandled
  <2>2. IsFiniteSet(removed') /\ removed' \subseteq Nat BY <1>1, <2>1, FS_Subset
  <2> QED BY <1>1, <2>1, <2>2, Forgets DEF Step
<1> QED BY <1>2, <1>3, <1>4 DEF Handle

LEMMA LogSteps ==
  ASSUME TreeInv, Next
  PROVE  LogOk'
<1>1. LogOk BY DEF TreeInv
<1>2. ASSUME NEW e \in Entities, ServerDeletes(e) PROVE LogOk'
  <2>1. e \in Entities /\ tree[e] \in Entities \union {Root, Nowhere} BY <1>1 DEF LogOk
  <2>2. [kind |-> "delete", entity |-> e, parent |-> tree[e]] \in Event BY <2>1 DEF Event
  <2>3. log' = Append(log, [kind |-> "delete", entity |-> e, parent |-> tree[e]]) /\ UNCHANGED <<cursor, recovering>>
    BY <1>2 DEF ServerDeletes, Records, ServerRest, syncVars
  <2>4. tree' \in [Entities -> Entities \union {Root, Nowhere}] BY <1>1, <1>2 DEF LogOk, ServerDeletes
  <2> QED BY <1>1, <2>2, <2>3, <2>4 DEF LogOk
<1>3. ASSUME NEW e \in Entities, NEW p \in Entities \union {Root}, ServerPuts(e, p) PROVE LogOk'
  <2>1. [kind |-> "upsert", entity |-> e, parent |-> p] \in Event BY DEF Event
  <2>2. log' = Append(log, [kind |-> "upsert", entity |-> e, parent |-> p]) /\ UNCHANGED <<cursor, recovering>>
        /\ tree' = [tree EXCEPT ![e] = p]
    BY <1>3 DEF ServerPuts, Records, ServerRest, syncVars
  <2> QED BY <1>1, <2>1, <2>2 DEF LogOk
<1>4. ASSUME UNCHANGED serverVars, cursor' \in {cursor, cursor + 1, Max({cursor, recovering})},
             recovering' \in {recovering, 0, Max({recovering, cursor + 1})}
      PROVE  LogOk'
  <2>1. Max({cursor, recovering}) \in Nat /\ Max({recovering, cursor + 1}) \in Nat BY <1>1, MaxOfTwo DEF LogOk
  <2>2. cursor' \in Nat /\ recovering' \in Nat BY <1>1, <1>4, <2>1 DEF LogOk
  <2> QED BY <1>1, <1>4, <2>2 DEF LogOk, serverVars
<1>5. ASSUME NEW lost, NEW prunes, Recover(lost, prunes)
      PROVE  cursor' \in {cursor, cursor + 1, Max({cursor, recovering})}
             /\ recovering' \in {recovering, 0, Max({recovering, cursor + 1})}
  BY <1>5 DEF Recover, Advance, Pauses
<1>6. CASE Apply
  <2>1. CASE ApplyOrphan BY <2>1, <1>4, <1>5 DEF ApplyOrphan, ApplyRest
  <2>2. CASE ApplyDeleteMiss BY <2>2, <1>4, <1>5 DEF ApplyDeleteMiss, ApplyRest, Advance
  <2>3. CASE ApplyHidden BY <2>3, <1>4 DEF ApplyHidden, ApplyRest, Advance
  <2>4. CASE ApplyNew BY <2>4, <1>4 DEF ApplyNew, ApplyRest, Advance
  <2>5. CASE ApplyMove BY <2>5, <1>4 DEF ApplyMove, ApplyRest, Advance, Pauses
  <2>6. CASE ApplyDelete BY <2>6, <1>4 DEF ApplyDelete, ApplyRest, Advance
  <2>7. CASE ReplayEnds BY <2>7, <1>4 DEF ReplayEnds
  <2> QED BY <1>6, <2>1, <2>2, <2>3, <2>4, <2>5, <2>6, <2>7 DEF Apply
<1>7. CASE Rebuild \/ Relocate
  <2>1. UNCHANGED <<serverVars, cursor, recovering>>
    BY <1>7 DEF Rebuild, Relocate, RebuildBegins, RebuildFinds, RebuildMakes, RebuildClears, RebuildFills,
                RelocationFinds, RelocationMakes, RelocationMoves, syncVars
  <2> QED BY <1>4, <2>1
<1>8. CASE Handle BY <1>8, <1>4 DEF Handle, RemoveHandled, Pauses
<1>9. CASE ReplayBegins BY <1>9, <1>4 DEF ReplayBegins
<1>10. CASE (\E id \in Ids : UserDeletes(id)) \/ UserAdds BY <1>10, <1>4 DEF UserDeletes, UserAdds, syncVars
<1> QED BY <1>2, <1>3, <1>6, <1>7, <1>8, <1>9, <1>10 DEF Next, Worker

LEMMA TreeSteps ==
  ASSUME TreeInv, [Next]_vars
  PROVE  TreeInv' /\ (~twice' => KeepsMine)
<1>1. NodeInv /\ IsFiniteSet(removed) /\ removed \subseteq Nat /\ map \in [Entities -> Nat]
  BY DEF TreeInv, NodeInv, KnownOk
<1>2. ASSUME UNCHANGED <<nodes, map, localOnly, relocation, twice, removed>> PROVE Step
  BY <1>1, <1>2, Forgets DEF Step
<1>3. CASE Next
  <2>1. ASSUME Apply PROVE Step BY <2>1, ApplySteps
  <2>2. ASSUME Rebuild PROVE Step BY <2>2, RebuildSteps
  <2>3. ASSUME Relocate PROVE Step BY <2>3, RelocateSteps
  <2>4. ASSUME (\E id \in Ids : UserDeletes(id)) \/ UserAdds \/ Handle PROVE Step BY <2>4, UserSteps
  <2>5. ASSUME ReplayBegins PROVE Step BY <2>5, <1>2 DEF ReplayBegins, projectionVars, histories
  <2>6. ASSUME \E e \in Entities : ServerDeletes(e) \/ \E p \in Entities \union {Root} : ServerPuts(e, p) PROVE Step
    BY <2>6, <1>2 DEF ServerDeletes, ServerPuts, ServerRest, projectionVars, histories
  <2>7. Step BY <1>3, <2>1, <2>2, <2>3, <2>4, <2>5, <2>6 DEF Next, Worker
  <2> QED BY <1>3, <2>7, LogSteps DEF TreeInv, Step
<1>4. CASE UNCHANGED vars
  <2>1. UNCHANGED <<nodes, map, localOnly, relocation, twice, removed, tree, log, cursor, recovering>>
    BY <1>4 DEF vars, projectionVars, histories, serverVars, syncVars
  <2>2. LogOk' BY <2>1 DEF TreeInv, LogOk
  <2> QED BY <1>2, <2>1, <2>2 DEF TreeInv, Step
<1> QED BY <1>3, <1>4

LEMMA TreeStarts == Init => TreeInv
<1> SUFFICES ASSUME Init PROVE TreeInv OBVIOUS
<1>1. Ids = {} BY DEF Init, Ids
<1>2. IsFiniteSet({}) BY FS_EmptySet
<1>3. nodes = [n \in {} |-> n] BY <1>1 DEF Init, Ids
<1>4. NodesOk BY <1>1, <1>2, <1>3 DEF NodesOk
<1>5. NoRelocation \in Relocations BY DEF NoRelocation, Relocations, NoNode
<1>6. KnownOk BY <1>2, <1>5 DEF Init, KnownOk, NoNode, Home
<1>7. MapShows /\ LocalShows /\ MovesMine BY <1>1 DEF MapShows, LocalShows, MovesMine
<1>8. LogOk BY DEF Init, LogOk
<1> QED BY <1>4, <1>6, <1>7, <1>8 DEF TreeInv, NodeInv

LEMMA TreeHolds == TreeSpec => []TreeInv
<1>1. TreeInit => TreeInv BY TreeStarts DEF TreeInit
<1>2. TreeInv /\ [TreeNext]_treeVars => TreeInv'
  <2> SUFFICES ASSUME TreeInv, [TreeNext]_treeVars PROVE TreeInv' OBVIOUS
  <2>1. [Next]_vars BY DEF TreeNext, treeVars
  <2> QED BY <2>1, TreeSteps
<1> QED BY <1>1, <1>2, PTL DEF TreeSpec, treeVars

(* What the user put into the local-only folder stays, whatever is applied, *)
(* recovered, rebuilt or deleted, unless a second such folder was made      *)
(* (projection.ts: clearWorkspaceChildren, attemptSubtreeRecovery,          *)
(* deleteChromeNode, ensureLocalOnlyFolder).                                *)
THEOREM LocalOnlyStays == TreeSpec => LocalOnlyKept
<1>1. TreeInv /\ [TreeNext]_treeVars =>
        [\A id \in Ids : /\ nodes[id].shows = "mine" /\ ~twice'
                         /\ nodes[id].parent \in Ids /\ nodes[nodes[id].parent].shows = "local only"
           => id \in DOMAIN nodes']_vars
  <2> SUFFICES ASSUME TreeInv, [TreeNext]_treeVars, NEW id \in Ids, nodes[id].shows = "mine", ~twice',
                      nodes[id].parent \in Ids, nodes[nodes[id].parent].shows = "local only"
               PROVE  id \in DOMAIN nodes'
    OBVIOUS
  <2>1. [Next]_vars BY DEF TreeNext, treeVars
  <2>2. ~twice' => KeepsMine BY <2>1, TreeSteps
  <2>3. Kept(id) BY DEF Kept
  <2> QED BY <2>2, <2>3 DEF KeepsMine
<1> QED BY <1>1, TreeHolds, PTL DEF TreeSpec, treeVars, LocalOnlyKept

-----------------------------------------------------------------------------
(* The panel.  The rows of a group but for some, and with one more, are     *)
(* what their names say.                                                    *)
LEMMA PanelCounts == \A X : Panel!Cardinality(X) = Cardinality(X)
  BY DEF Panel!Cardinality, Cardinality

Rest(s, X) == {i \in DOMAIN s : s[i] \notin X}

LEMMA OthersAre ==
  ASSUME NEW T, NEW s \in Seq(T), NEW X
  PROVE  /\ Panel!Others(s, X) \in Seq(T)
         /\ Panel!ToSet(Panel!Others(s, X)) = Panel!ToSet(s) \ X
         /\ Len(Panel!Others(s, X)) = Cardinality(Rest(s, X)) /\ Cardinality(Rest(s, X)) \in Nat
         /\ \A i \in Rest(s, X) : Panel!Others(s, X)[Rank(Rest(s, X), i) + 1] = s[i]
         /\ Panel!IsInjective(s) => Panel!IsInjective(Panel!Others(s, X))
<1> DEFINE kept == {i \in DOMAIN s : s[i] \notin X}
           C == Cardinality(kept)
           R(i, k) == Cardinality({j \in kept : j < i}) = k - 1
           At(k) == CHOOSE i \in kept : R(i, k)
           O == [k \in 1 .. C |-> s[At(k)]]
<1>1. Len(s) \in Nat /\ DOMAIN s = 1 .. Len(s) /\ kept \in SUBSET (1 .. Len(s)) OBVIOUS
<1>2. C \in Nat BY <1>1, Ranks
<1>3. ASSUME NEW k \in 1 .. C PROVE At(k) \in kept /\ R(At(k), k)
  <2>1. \E i \in kept : R(i, k) BY <1>1, Ranks DEF Rank
  <2> QED BY <2>1
<1>4. ASSUME NEW i \in kept PROVE Rank(kept, i) + 1 \in 1 .. C /\ At(Rank(kept, i) + 1) = i
  <2> DEFINE k == Rank(kept, i) + 1
  <2>1. Rank(kept, i) \in 0 .. C - 1 BY <1>1, Ranks
  <2>2. k \in 1 .. C BY <2>1, <1>2
  <2>3. At(k) \in kept /\ Rank(kept, At(k)) = k - 1 BY <1>3, <2>2 DEF Rank
  <2>4. Rank(kept, At(k)) = Rank(kept, i) BY <2>3, <2>1
  <2>5. At(k) \in Nat /\ i \in Nat BY <2>3, <1>1
  <2> HIDE DEF At, kept
  <2>6. ~(At(k) < i) /\ ~(i < At(k))
    <3>1. \A a \in kept, b \in kept : a < b => Rank(kept, a) < Rank(kept, b) BY <1>1, Ranks
    <3>2. Rank(kept, i) \in Int /\ At(k) \in kept BY <2>1, <2>3
    <3> QED BY <3>1, <3>2, <2>4
  <2> QED BY <2>2, <2>5, <2>6
<1>5. Panel!Others(s, X) = O
  <2> DEFINE PR(i, k) == Panel!Cardinality({j \in kept : j < i}) = k - 1
             PAt(k) == CHOOSE i \in kept : PR(i, k)
  <2>1. Panel!Others(s, X) = [k \in 1 .. Panel!Cardinality(kept) |-> s[PAt(k)]] BY DEF Panel!Others
  <2>2. \A i, k : PR(i, k) = R(i, k) BY PanelCounts
  <2>3. \A k : PAt(k) = At(k)
    <3> HIDE DEF PR, R
    <3> QED BY <2>2
  <2>4. Panel!Cardinality(kept) = C BY PanelCounts
  <2> HIDE DEF PAt, At, kept, C
  <2> QED BY <2>1, <2>3, <2>4
<1> HIDE DEF At
<1>6. \A k \in 1 .. C : O[k] = s[At(k)] OBVIOUS
<1>7. \A k \in 1 .. C : O[k] \in T /\ O[k] \in Panel!ToSet(s) \ X
  <2> SUFFICES ASSUME NEW k \in 1 .. C PROVE O[k] \in T /\ O[k] \in Panel!ToSet(s) \ X OBVIOUS
  <2>1. At(k) \in DOMAIN s /\ s[At(k)] \notin X /\ O[k] = s[At(k)] BY <1>3, <1>6
  <2> HIDE DEF O
  <2> QED BY <2>1 DEF Panel!ToSet
<1>8. O \in Seq(T) /\ DOMAIN O = 1 .. C
  <2>1. O \in [1 .. C -> T] BY <1>7
  <2> HIDE DEF O, C
  <2> QED BY <1>2, <2>1
<1>9. \A x \in Panel!ToSet(s) \ X : \E k \in 1 .. C : O[k] = x
  <2> SUFFICES ASSUME NEW x \in Panel!ToSet(s) \ X PROVE \E k \in 1 .. C : O[k] = x OBVIOUS
  <2>1. PICK i \in DOMAIN s : s[i] = x BY DEF Panel!ToSet
  <2>2. i \in kept BY <2>1
  <2>3. Rank(kept, i) + 1 \in 1 .. C /\ At(Rank(kept, i) + 1) = i BY <2>2, <1>4
  <2> QED BY <2>1, <2>3, <1>6
<1> HIDE DEF O, C
<1>10. Panel!ToSet(O) = Panel!ToSet(s) \ X
  <2>1. Panel!ToSet(O) = {O[k] : k \in 1 .. C} BY <1>8 DEF Panel!ToSet
  <2> QED BY <2>1, <1>7, <1>9
<1>11. \A i \in kept : O[Rank(kept, i) + 1] = s[i]
  <2> SUFFICES ASSUME NEW i \in kept PROVE O[Rank(kept, i) + 1] = s[i] OBVIOUS
  <2>1. Rank(kept, i) + 1 \in 1 .. C /\ At(Rank(kept, i) + 1) = i BY <1>4
  <2> HIDE DEF kept
  <2> QED BY <2>1, <1>6
<1>12. ASSUME Panel!IsInjective(s) PROVE Panel!IsInjective(O)
  <2> SUFFICES ASSUME NEW k \in 1 .. C, NEW l \in 1 .. C, O[k] = O[l] PROVE k = l
    BY <1>8 DEF Panel!IsInjective
  <2>1. At(k) \in kept /\ At(l) \in kept /\ R(At(k), k) /\ R(At(l), l) BY <1>3
  <2>2. s[At(k)] = s[At(l)] BY <1>6
  <2>3. At(k) = At(l) BY <2>1, <2>2, <1>12 DEF Panel!IsInjective
  <2>4. k - 1 = l - 1
    <3> DEFINE f(x) == Cardinality({j \in kept : j < x})
    <3>1. f(At(k)) = k - 1 /\ f(At(l)) = l - 1 BY <2>1
    <3> HIDE DEF f
    <3> QED BY <3>1, <2>3
  <2>5. k \in Int /\ l \in Int BY <1>2 DEF C
  <2> HIDE DEF kept, R
  <2> QED BY <2>4, <2>5
<1>13. kept = Rest(s, X) BY DEF Rest
<1>14. Len(O) = Cardinality(Rest(s, X)) /\ Cardinality(Rest(s, X)) \in Nat
  <2>1. Len(O) = C BY <1>2, <1>8
  <2>2. C = Cardinality(Rest(s, X)) BY <1>13 DEF C
  <2> QED BY <1>2, <2>1, <2>2
<1> HIDE DEF kept
<1> QED BY <1>5, <1>8, <1>10, <1>11, <1>12, <1>13, <1>14

LEMMA Joined ==
  ASSUME NEW T, NEW x \in Seq(T), NEW y \in Seq(T)
  PROVE  /\ x \o y \in Seq(T) /\ Len(x \o y) = Len(x) + Len(y)
         /\ \A i \in 1 .. Len(x) + Len(y) : (x \o y)[i] = IF i <= Len(x) THEN x[i] ELSE y[i - Len(x)]
  OBVIOUS

LEMMA InsertedIs ==
  ASSUME NEW T, NEW s \in Seq(T), NEW n \in T, NEW i \in 1 .. Len(s) + 1
  PROVE  /\ Panel!InsertAt(s, i, n) \in Seq(T)
         /\ Len(Panel!InsertAt(s, i, n)) = Len(s) + 1
         /\ Panel!ToSet(Panel!InsertAt(s, i, n)) = Panel!ToSet(s) \union {n}
         /\ \A k \in 1 .. Len(s) + 1 :
              Panel!InsertAt(s, i, n)[k] = IF k < i THEN s[k] ELSE IF k = i THEN n ELSE s[k - 1]
         /\ Panel!IsInjective(s) /\ n \notin Panel!ToSet(s) => Panel!IsInjective(Panel!InsertAt(s, i, n))
<1> DEFINE u == Panel!InsertAt(s, i, n)
<1>1. u = SubSeq(s, 1, i - 1) \o <<n>> \o SubSeq(s, i, Len(s)) BY DEF Panel!InsertAt
<1> DEFINE a == SubSeq(s, 1, i - 1)
           c == SubSeq(s, i, Len(s))
           d == <<n>>
           b == a \o d
<1>6. a \in Seq(T) /\ Len(a) = i - 1 /\ \A k \in 1 .. i - 1 : a[k] = s[k] OBVIOUS
<1>7. c \in Seq(T) /\ Len(c) = Len(s) + 1 - i /\ \A k \in 1 .. Len(s) + 1 - i : c[k] = s[i + k - 1] OBVIOUS
<1>8. d \in Seq(T) /\ Len(d) = 1 /\ d[1] = n OBVIOUS
<1>9. u = (a \o d) \o c BY <1>1
<1>0. Len(s) \in Nat /\ i \in Nat /\ i >= 1 /\ i <= Len(s) + 1 OBVIOUS
<1> HIDE DEF a, c, d, u
<1>10. b \in Seq(T) /\ Len(b) = i /\ b[i] = n /\ \A k \in 1 .. i - 1 : b[k] = s[k]
  <2>1. b \in Seq(T) /\ Len(b) = Len(a) + Len(d) BY <1>6, <1>8, Joined
  <2>2. \A k \in 1 .. Len(a) + Len(d) : b[k] = IF k <= Len(a) THEN a[k] ELSE d[k - Len(a)]
    BY <1>6, <1>8, Joined
  <2>3. Len(b) = i BY <2>1, <1>6, <1>8, <1>0
  <2>4. b[i] = n
    <3>1. i \in 1 .. Len(a) + Len(d) /\ ~(i <= Len(a)) /\ i - Len(a) = 1 BY <1>6, <1>8, <1>0
    <3> HIDE DEF b
    <3> QED BY <3>1, <2>2, <1>8
  <2>5. ASSUME NEW k \in 1 .. i - 1 PROVE b[k] = s[k]
    <3>1. k \in 1 .. Len(a) + Len(d) /\ k <= Len(a) BY <1>6, <1>8, <1>0
    <3> HIDE DEF b
    <3> QED BY <3>1, <2>2, <1>6
  <2> QED BY <2>1, <2>3, <2>4, <2>5
<1>11. u = b \o c BY <1>9
<1> HIDE DEF b
<1>2. u \in Seq(T) /\ Len(u) = Len(s) + 1
  <2>1. u \in Seq(T) /\ Len(u) = Len(b) + Len(c) BY <1>7, <1>10, <1>11, Joined
  <2> QED BY <2>1, <1>7, <1>10, <1>0
<1>3. \A k \in 1 .. Len(s) + 1 : u[k] = IF k < i THEN s[k] ELSE IF k = i THEN n ELSE s[k - 1]
  <2>1. \A k \in 1 .. Len(b) + Len(c) : u[k] = IF k <= Len(b) THEN b[k] ELSE c[k - Len(b)]
    BY <1>7, <1>10, <1>11, Joined
  <2>2. Len(b) + Len(c) = Len(s) + 1 BY <1>7, <1>10, <1>0
  <2> SUFFICES ASSUME NEW k \in 1 .. Len(s) + 1
               PROVE u[k] = IF k < i THEN s[k] ELSE IF k = i THEN n ELSE s[k - 1]
    OBVIOUS
  <2>3. u[k] = IF k <= i THEN b[k] ELSE c[k - i] BY <2>1, <2>2, <1>10
  <2>4. CASE k < i
    <3>1. k \in 1 .. i - 1 /\ k <= i BY <2>4, <1>0
    <3> QED BY <3>1, <2>3, <2>4, <1>10
  <2>5. CASE k = i BY <2>3, <2>5, <1>10, <1>0
  <2>6. CASE k > i
    <3>1. k - i \in 1 .. Len(s) + 1 - i /\ i + (k - i) - 1 = k - 1 /\ ~(k <= i) /\ ~(k < i) /\ k # i BY <2>6, <1>0
    <3>2. c[k - i] = s[i + (k - i) - 1] BY <3>1, <1>7
    <3> QED BY <3>1, <3>2, <2>3
  <2> QED BY <2>4, <2>5, <2>6, <1>0
<1>4. Panel!ToSet(u) = Panel!ToSet(s) \union {n}
  <2>1. DOMAIN u = 1 .. Len(s) + 1 /\ DOMAIN s = 1 .. Len(s) /\ Len(s) \in Nat BY <1>2
  <2>2. \A x \in Panel!ToSet(u) : x \in Panel!ToSet(s) \union {n}
    <3> SUFFICES ASSUME NEW k \in 1 .. Len(s) + 1 PROVE u[k] \in Panel!ToSet(s) \union {n}
      BY <2>1 DEF Panel!ToSet
    <3>1. k < i => k \in DOMAIN s BY <2>1
    <3>2. k > i => k - 1 \in DOMAIN s BY <2>1
    <3> QED BY <3>1, <3>2, <1>3 DEF Panel!ToSet
  <2>3. n \in Panel!ToSet(u)
    <3>1. i \in DOMAIN u /\ u[i] = n BY <2>1, <1>3
    <3> QED BY <3>1 DEF Panel!ToSet
  <2>4. \A x \in Panel!ToSet(s) : x \in Panel!ToSet(u)
    <3> SUFFICES ASSUME NEW k \in DOMAIN s PROVE s[k] \in Panel!ToSet(u) BY DEF Panel!ToSet
    <3>1. CASE k < i
      <4>1. k \in DOMAIN u /\ u[k] = s[k] BY <3>1, <2>1, <1>3
      <4> QED BY <4>1 DEF Panel!ToSet
    <3>2. CASE ~(k < i)
      <4>1. k + 1 \in 1 .. Len(s) + 1 /\ k + 1 > i /\ k + 1 - 1 = k BY <3>2, <2>1
      <4>2. u[k + 1] = s[k] BY <4>1, <1>3
      <4> QED BY <4>1, <4>2, <2>1 DEF Panel!ToSet
    <3> QED BY <3>1, <3>2
  <2> QED BY <2>2, <2>3, <2>4
<1>5. ASSUME Panel!IsInjective(s), n \notin Panel!ToSet(s) PROVE Panel!IsInjective(u)
  <2>1. DOMAIN u = 1 .. Len(s) + 1 /\ DOMAIN s = 1 .. Len(s) /\ Len(s) \in Nat BY <1>2
  <2> SUFFICES ASSUME NEW k \in 1 .. Len(s) + 1, NEW l \in 1 .. Len(s) + 1, u[k] = u[l], k < l PROVE FALSE
    <3>1. \A k, l \in 1 .. Len(s) + 1 : u[k] = u[l] => ~(k < l) OBVIOUS
    <3>2. \A k, l \in 1 .. Len(s) + 1 : k < l \/ l < k \/ k = l BY <2>1
    <3> QED BY <2>1, <3>1, <3>2 DEF Panel!IsInjective
  <2>2. k < i => k \in DOMAIN s /\ u[k] = s[k] BY <2>1, <1>3
  <2>3. k > i => k - 1 \in DOMAIN s /\ u[k] = s[k - 1] BY <2>1, <1>3
  <2>4. l < i => l \in DOMAIN s /\ u[l] = s[l] BY <2>1, <1>3
  <2>5. l > i => l - 1 \in DOMAIN s /\ u[l] = s[l - 1] BY <2>1, <1>3
  <2>6. (k = i => u[k] = n) /\ (l = i => u[l] = n) BY <1>3
  <2>7. \A j \in DOMAIN s : s[j] # n BY <1>5 DEF Panel!ToSet
  <2>8. k # i /\ l # i
    <3>1. k = i => l > i BY <2>1
    <3>2. l = i => k < i BY <2>1
    <3> QED BY <3>1, <3>2, <2>2, <2>5, <2>6, <2>7
  <2>9. \A x, y \in DOMAIN s : s[x] = s[y] => x = y BY <1>5 DEF Panel!IsInjective
  <2>10. CASE k < i /\ l < i BY <2>10, <2>2, <2>4, <2>9
  <2>11. CASE k < i /\ l > i
    <3>1. k = l - 1 BY <2>11, <2>2, <2>5, <2>9
    <3> QED BY <3>1, <2>11, <2>1
  <2>12. CASE k > i /\ l > i
    <3>1. k - 1 = l - 1 BY <2>12, <2>3, <2>5, <2>9
    <3> QED BY <3>1, <2>1
  <2>13. k \in Int /\ l \in Int /\ i \in Int BY <2>1
  <2> QED BY <2>8, <2>10, <2>11, <2>12, <2>13
<1> QED BY <1>2, <1>3, <1>4, <1>5 DEF u

-----------------------------------------------------------------------------
(* What is above a row: the least set of folders with its parent in it and  *)
(* theirs.                                                                  *)
LEMMA Above ==
  ASSUME NEW t, NEW n
  PROVE  /\ Panel!Over(t, n) \subseteq Panel!Ancestors(t, n)
         /\ Panel!Ancestors(t, n) \subseteq PanelFolders
         /\ \A g \in Panel!Ancestors(t, n) : Panel!Over(t, g) \subseteq Panel!Ancestors(t, n)
         /\ \A A \in SUBSET PanelFolders :
              Panel!Over(t, n) \subseteq A /\ (\A g \in A : Panel!Over(t, g) \subseteq A)
                => Panel!Ancestors(t, n) \subseteq A
<1>1. \A g : Panel!Over(t, g) \subseteq PanelFolders BY DEF Panel!Over, Panel!Parents, Panel!Everywhere
<1> QED BY <1>1 DEF Panel!Ancestors

LEMMA AboveAgain ==
  ASSUME NEW t, NEW n, NEW g \in Panel!Ancestors(t, n)
  PROVE  Panel!Ancestors(t, g) \subseteq Panel!Ancestors(t, n)
<1>1. Panel!Over(t, g) \subseteq Panel!Ancestors(t, n) BY Above
<1>2. Panel!Ancestors(t, n) \in SUBSET PanelFolders BY Above
<1>3. \A h \in Panel!Ancestors(t, n) : Panel!Over(t, h) \subseteq Panel!Ancestors(t, n) BY Above
<1> QED BY <1>1, <1>2, <1>3, Above

(* Where no parent is new, nothing new is above. *)
LEMMA AboveShrinks ==
  ASSUME NEW t, NEW u, NEW m, Panel!Over(u, m) \subseteq Panel!Over(t, m),
         \A g \in Panel!Ancestors(t, m) : Panel!Over(u, g) \subseteq Panel!Over(t, g)
  PROVE  Panel!Ancestors(u, m) \subseteq Panel!Ancestors(t, m)
<1> DEFINE A == Panel!Ancestors(t, m)
<1>1. A \in SUBSET PanelFolders /\ Panel!Over(u, m) \subseteq A BY Above
<1>2. \A g \in A : Panel!Over(u, g) \subseteq A BY Above
<1> HIDE DEF A
<1>3. Panel!Ancestors(u, m) \subseteq A BY <1>1, <1>2, Above
<1> QED BY <1>3 DEF A

-----------------------------------------------------------------------------
(* A tree of the panel. *)
Whole(t) == t \in Panel!Trees /\ Panel!Forest(t)

LEMMA TreeIs ==
  ASSUME NEW t \in Panel!Trees, NEW p \in Panel!Everywhere
  PROVE  /\ t[p].folder \in Seq(PanelFolders) /\ t[p].bookmark \in Seq(PanelBookmarks)
         /\ Panel!ToSet(t[p].folder) \subseteq PanelFolders
         /\ Panel!ToSet(t[p].bookmark) \subseteq PanelBookmarks
         /\ Panel!Children(t, p) \subseteq Panel!Nodes
<1>1. t[p].folder \in Seq(PanelFolders) /\ t[p].bookmark \in Seq(PanelBookmarks) BY DEF Panel!Trees
<1>2. Panel!ToSet(t[p].folder) \subseteq PanelFolders BY <1>1 DEF Panel!ToSet
<1>3. Panel!ToSet(t[p].bookmark) \subseteq PanelBookmarks BY <1>1 DEF Panel!ToSet
<1> QED BY <1>1, <1>2, <1>3 DEF Panel!Children, Panel!Nodes

(* The root is below nothing. *)
LEMMA RootIsTop ==
  ASSUME NEW t \in Panel!Trees
  PROVE  Panel!Parents(t, Root) = {} /\ Panel!Ancestors(t, Root) = {}
<1>1. Root \notin Panel!Nodes BY PanelAssumption DEF Panel!Nodes
<1>2. Panel!Parents(t, Root) = {} BY <1>1, TreeIs DEF Panel!Parents
<1>3. Panel!Over(t, Root) = {} BY <1>2 DEF Panel!Over
<1>4. Panel!Ancestors(t, Root) \subseteq {} BY <1>3, Above
<1> QED BY <1>2, <1>4

LEMMA NothingIn == ASSUME NEW T, NEW s \in Seq(T) PROVE (s = <<>>) = (Panel!ToSet(s) = {})
<1>1. ASSUME s = <<>> PROVE Panel!ToSet(s) = {}
  <2>1. DOMAIN s = {} BY <1>1
  <2> QED BY <2>1 DEF Panel!ToSet
<1>2. ASSUME Panel!ToSet(s) = {} PROVE s = <<>>
  <2>1. \A i \in DOMAIN s : FALSE BY <1>2 DEF Panel!ToSet
  <2>2. DOMAIN s = 1 .. Len(s) /\ Len(s) \in Nat OBVIOUS
  <2>3. ~(Len(s) > 0)
    <3>1. Len(s) > 0 => 1 \in DOMAIN s BY <2>2
    <3> QED BY <2>1, <3>1
  <2> QED BY <2>2, <2>3
<1> QED BY <1>1, <1>2

LEMMA WithoutIs ==
  ASSUME NEW t \in Panel!Trees, NEW X
  PROVE  /\ Panel!Without(t, X) \in Panel!Trees
         /\ \A p \in Panel!Everywhere :
              /\ Panel!ToSet(Panel!Without(t, X)[p].folder) = Panel!ToSet(t[p].folder) \ X
              /\ Panel!ToSet(Panel!Without(t, X)[p].bookmark) = Panel!ToSet(t[p].bookmark) \ X
              /\ Panel!Children(Panel!Without(t, X), p) = Panel!Children(t, p) \ X
              /\ t[p].bookmark = <<>> => Panel!Without(t, X)[p].bookmark = <<>>
<1> DEFINE u == Panel!Without(t, X)
<1>1. \A p \in Panel!Everywhere :
        /\ u[p] = [folder |-> Panel!Others(t[p].folder, X), bookmark |-> Panel!Others(t[p].bookmark, X)]
        /\ u[p].folder = Panel!Others(t[p].folder, X) /\ u[p].bookmark = Panel!Others(t[p].bookmark, X)
  BY DEF Panel!Without
<1>2. u = [p \in Panel!Everywhere |-> u[p]] BY DEF Panel!Without
<1> HIDE DEF u
<1>3. ASSUME NEW p \in Panel!Everywhere
      PROVE  /\ u[p].folder \in Seq(PanelFolders) /\ u[p].bookmark \in Seq(PanelBookmarks)
             /\ u[p] \in [folder : Seq(PanelFolders), bookmark : Seq(PanelBookmarks)]
             /\ Panel!ToSet(u[p].folder) = Panel!ToSet(t[p].folder) \ X
             /\ Panel!ToSet(u[p].bookmark) = Panel!ToSet(t[p].bookmark) \ X
  <2> DEFINE a == Panel!Others(t[p].folder, X)
             c == Panel!Others(t[p].bookmark, X)
  <2>1. t[p].folder \in Seq(PanelFolders) /\ t[p].bookmark \in Seq(PanelBookmarks) BY TreeIs
  <2>2. a \in Seq(PanelFolders) /\ Panel!ToSet(a) = Panel!ToSet(t[p].folder) \ X BY <2>1, OthersAre
  <2>3. c \in Seq(PanelBookmarks) /\ Panel!ToSet(c) = Panel!ToSet(t[p].bookmark) \ X BY <2>1, OthersAre
  <2>4. u[p] = [folder |-> a, bookmark |-> c] /\ u[p].folder = a /\ u[p].bookmark = c BY <1>1
  <2> HIDE DEF a, c
  <2> QED BY <2>2, <2>3, <2>4
<1>4. u \in Panel!Trees
  <2>1. \A p \in Panel!Everywhere : u[p] \in [folder : Seq(PanelFolders), bookmark : Seq(PanelBookmarks)] BY <1>3
  <2> QED BY <1>2, <2>1 DEF Panel!Trees
<1>5. \A p \in Panel!Everywhere : Panel!Children(u, p) = Panel!Children(t, p) \ X
  BY <1>3 DEF Panel!Children
<1>6. ASSUME NEW p \in Panel!Everywhere, t[p].bookmark = <<>> PROVE u[p].bookmark = <<>>
  <2>1. Panel!ToSet(t[p].bookmark) = {} /\ t[p].bookmark \in Seq(PanelBookmarks) BY <1>6, TreeIs, NothingIn
  <2>2. Panel!ToSet(u[p].bookmark) = {} BY <2>1, <1>3
  <2> QED BY <2>2, <1>3, NothingIn
<1> QED BY <1>3, <1>4, <1>5, <1>6 DEF u

LEMMA WithoutRows ==
  ASSUME NEW t \in Panel!Trees, NEW X, NEW p \in Panel!Everywhere
  PROVE  /\ Panel!Without(t, X)[p].folder = Panel!Others(t[p].folder, X)
         /\ Panel!Without(t, X)[p].bookmark = Panel!Others(t[p].bookmark, X)
         /\ Panel!IsInjective(t[p].folder) => Panel!IsInjective(Panel!Without(t, X)[p].folder)
         /\ Panel!IsInjective(t[p].bookmark) => Panel!IsInjective(Panel!Without(t, X)[p].bookmark)
<1>1. t[p].folder \in Seq(PanelFolders) /\ t[p].bookmark \in Seq(PanelBookmarks) BY TreeIs
<1>2. /\ Panel!Without(t, X)[p].folder = Panel!Others(t[p].folder, X)
      /\ Panel!Without(t, X)[p].bookmark = Panel!Others(t[p].bookmark, X)
  BY DEF Panel!Without
<1> QED BY <1>1, <1>2, OthersAre

(* Taking a subtree away leaves a tree. *)
LEMMA DeletionKeeps ==
  ASSUME NEW t, Whole(t), NEW n \in Panel!Nodes
  PROVE  Whole(Panel!Without(t, Panel!Subtree(t, n)))
<1> DEFINE X == Panel!Subtree(t, n)
           u == Panel!Without(t, X)
<1>0. t \in Panel!Trees /\ Panel!Forest(t) BY DEF Whole
<1>1. u \in Panel!Trees /\ \A p \in Panel!Everywhere : Panel!Children(u, p) = Panel!Children(t, p) \ X
  BY <1>0, WithoutIs
<1>2. Root \in Panel!Everywhere /\ PanelFolders \subseteq Panel!Everywhere /\ PanelFolders \subseteq Panel!Nodes
      /\ Root \notin PanelFolders
  BY PanelAssumption DEF Panel!Everywhere, Panel!Nodes
<1>3. u[Root].bookmark = <<>> BY <1>0, <1>2, WithoutIs DEF Panel!Forest
<1>9. \A p \in Panel!Everywhere : Panel!IsInjective(u[p].folder) /\ Panel!IsInjective(u[p].bookmark)
  BY <1>0, WithoutRows DEF Panel!Forest
<1> HIDE DEF u, X
<1>4. \A m : Panel!Parents(u, m) = IF m \in X THEN {} ELSE Panel!Parents(t, m)
  BY <1>1 DEF Panel!Parents
<1>5. \A m : Panel!Over(u, m) \subseteq Panel!Over(t, m) BY <1>4 DEF Panel!Over
<1>6. \A m \in Panel!Nodes : (\A p, q \in Panel!Parents(u, m) : p = q) /\ m \notin Panel!Ancestors(u, m)
  <2>1. \A m : Panel!Ancestors(u, m) \subseteq Panel!Ancestors(t, m) BY <1>5, AboveShrinks
  <2> QED BY <1>0, <1>4, <2>1 DEF Panel!Forest
<1>7. ASSUME NEW p \in PanelFolders, Panel!Children(u, p) # {} PROVE Panel!Exists(u, p)
  <2>1. PICK c \in Panel!Children(t, p) : c \notin X BY <1>1, <1>2, <1>7
  <2>2. c \in Panel!Nodes BY <1>0, <1>2, TreeIs
  <2>3. Panel!Parents(t, p) # {} BY <1>0, <1>2, <2>1 DEF Panel!Forest, Panel!Exists
  <2>4. p \in Panel!Over(t, c) BY <1>2, <2>1 DEF Panel!Over, Panel!Parents
  <2>5. p \in Panel!Ancestors(t, c) /\ Panel!Ancestors(t, p) \subseteq Panel!Ancestors(t, c)
    BY <2>4, Above, AboveAgain
  <2>6. p \notin X BY <2>1, <2>2, <2>5 DEF X, Panel!Subtree
  <2> QED BY <1>4, <2>3, <2>6 DEF Panel!Exists
<1>8. Whole(u) BY <1>1, <1>3, <1>6, <1>7, <1>9 DEF Whole, Panel!Forest
<1> QED BY <1>8 DEF u, X

(* A position is clamped to the place it is in. *)
LEMMA Clamps ==
  ASSUME NEW t \in Panel!Trees, NEW n \in Panel!Nodes, NEW p \in Panel!Everywhere, NEW i \in Nat \ {0}
  PROVE  Panel!Clamp(t, n, p, i) \in 1 .. Len(Panel!Without(t, {n})[p][Panel!Kind(n)]) + 1
<1> DEFINE w == Panel!Without(t, {n})
           l == Len(w[p][Panel!Kind(n)])
<1>1. w \in Panel!Trees BY WithoutIs
<1>2. w[p].folder \in Seq(PanelFolders) /\ w[p].bookmark \in Seq(PanelBookmarks) BY <1>1, TreeIs
<1>3. l \in Nat BY <1>2 DEF Panel!Kind
<1>4. Panel!Clamp(t, n, p, i) = IF i > l + 1 THEN l + 1 ELSE i BY DEF Panel!Clamp, Panel!Group
<1> HIDE DEF l
<1>5. Panel!Clamp(t, n, p, i) \in 1 .. l + 1 BY <1>3, <1>4
<1> QED BY <1>5 DEF l

(* A row put somewhere is there, and nowhere else; the rest is as it was.   *)
PutRows(u, t, n, p, i) ==
  \A q \in Panel!Everywhere, kind \in {"folder", "bookmark"} :
    u[q][kind] = IF q = p /\ kind = Panel!Kind(n)
                 THEN Panel!InsertAt(Panel!Without(t, {n})[q][kind], Panel!Clamp(t, n, p, i), n)
                 ELSE Panel!Without(t, {n})[q][kind]
PutChildren(u, t, n, p) ==
  \A q \in Panel!Everywhere :
    Panel!Children(u, q) = (Panel!Children(t, q) \ {n}) \union (IF q = p THEN {n} ELSE {})

LEMMA PutIs ==
  ASSUME NEW t \in Panel!Trees, NEW n \in Panel!Nodes, NEW p \in Panel!Everywhere, NEW i \in Nat \ {0}
  PROVE  /\ Panel!PutAt(t, n, p, i) \in Panel!Trees
         /\ PutChildren(Panel!PutAt(t, n, p, i), t, n, p)
         /\ t[Root].bookmark = <<>> /\ (n \in PanelBookmarks => p # Root)
              => Panel!PutAt(t, n, p, i)[Root].bookmark = <<>>
         /\ PutRows(Panel!PutAt(t, n, p, i), t, n, p, i)
<1> DEFINE w == Panel!Without(t, {n})
           c == Panel!Clamp(t, n, p, i)
           k == Panel!Kind(n)
           g == w[p][k]
           h == Panel!InsertAt(g, c, n)
           u == Panel!PutAt(t, n, p, i)
           K == IF n \in PanelFolders THEN PanelFolders ELSE PanelBookmarks
           Rows == [folder : Seq(PanelFolders), bookmark : Seq(PanelBookmarks)]
<1>1. /\ w \in Panel!Trees
      /\ \A q \in Panel!Everywhere :
           /\ Panel!ToSet(w[q].folder) = Panel!ToSet(t[q].folder) \ {n}
           /\ Panel!ToSet(w[q].bookmark) = Panel!ToSet(t[q].bookmark) \ {n}
           /\ Panel!Children(w, q) = Panel!Children(t, q) \ {n}
           /\ t[q].bookmark = <<>> => w[q].bookmark = <<>>
  BY WithoutIs
<1>2. c \in 1 .. Len(g) + 1 BY Clamps
<1>3. k = IF n \in PanelFolders THEN "folder" ELSE "bookmark" BY DEF Panel!Kind
<1>4. u = [w EXCEPT ![p][k] = h] BY DEF Panel!PutAt
<1> HIDE DEF w, c, k, u
<1>5. n \in K BY DEF Panel!Nodes
<1>6. g \in Seq(K)
  <2>1. w[p].folder \in Seq(PanelFolders) /\ w[p].bookmark \in Seq(PanelBookmarks) BY <1>1, TreeIs
  <2> QED BY <2>1, <1>3
<1>7. h \in Seq(K) /\ Panel!ToSet(h) = Panel!ToSet(g) \union {n} BY <1>2, <1>5, <1>6, InsertedIs
<1> HIDE DEF h
<1>8. w \in [Panel!Everywhere -> Rows] BY <1>1 DEF Panel!Trees
<1>9. \A q \in Panel!Everywhere : w[q] \in Rows /\ (q # p => u[q] = w[q]) BY <1>4, <1>8
<1>10. u[p] = [w[p] EXCEPT ![k] = h] BY <1>4, <1>8
<1>11. CASE n \in PanelFolders
  <2>1. k = "folder" /\ g = w[p].folder /\ h \in Seq(PanelFolders) BY <1>3, <1>7, <1>11
  <2>2. u[p] \in Rows /\ u[p].folder = h /\ u[p].bookmark = w[p].bookmark BY <2>1, <1>9, <1>10
  <2>3. u \in Panel!Trees
    <3>1. DOMAIN u = Panel!Everywhere /\ u = [q \in Panel!Everywhere |-> u[q]] BY <1>4, <1>8
    <3>2. \A q \in Panel!Everywhere : u[q] \in Rows BY <1>9, <2>2
    <3> QED BY <3>1, <3>2 DEF Panel!Trees
  <2>4. \A q \in Panel!Everywhere :
          Panel!Children(u, q) = (Panel!Children(t, q) \ {n}) \union (IF q = p THEN {n} ELSE {})
    <3> SUFFICES ASSUME NEW q \in Panel!Everywhere
                 PROVE Panel!Children(u, q) = (Panel!Children(t, q) \ {n}) \union (IF q = p THEN {n} ELSE {})
      OBVIOUS
    <3>1. Panel!Children(w, q) = Panel!Children(t, q) \ {n} BY <1>1
    <3>2. CASE q # p BY <3>1, <3>2, <1>9 DEF Panel!Children
    <3>3. CASE q = p
      <4>1. Panel!ToSet(u[q].folder) = Panel!ToSet(w[q].folder) \union {n} /\ u[q].bookmark = w[q].bookmark
        BY <3>3, <2>1, <2>2, <1>7
      <4> QED BY <3>1, <3>3, <4>1 DEF Panel!Children
    <3> QED BY <3>2, <3>3
  <2>5. t[Root].bookmark = <<>> => u[Root].bookmark = <<>>
    <3>1. Root \in Panel!Everywhere BY DEF Panel!Everywhere
    <3> QED BY <3>1, <2>2, <1>1, <1>9
  <2>6. \A q \in Panel!Everywhere, kind \in {"folder", "bookmark"} :
          u[q][kind] = IF q = p /\ kind = k THEN h ELSE w[q][kind]
    BY <2>1, <2>2, <1>9
  <2> QED BY <2>3, <2>4, <2>5, <2>6 DEF u, h, w, c, k, PutChildren, PutRows
<1>12. CASE n \in PanelBookmarks
  <2>1. k = "bookmark" /\ g = w[p].bookmark /\ h \in Seq(PanelBookmarks)
    BY <1>3, <1>7, <1>12, PanelAssumption
  <2>2. u[p] \in Rows /\ u[p].bookmark = h /\ u[p].folder = w[p].folder BY <2>1, <1>9, <1>10
  <2>3. u \in Panel!Trees
    <3>1. DOMAIN u = Panel!Everywhere /\ u = [q \in Panel!Everywhere |-> u[q]] BY <1>4, <1>8
    <3>2. \A q \in Panel!Everywhere : u[q] \in Rows BY <1>9, <2>2
    <3> QED BY <3>1, <3>2 DEF Panel!Trees
  <2>4. \A q \in Panel!Everywhere :
          Panel!Children(u, q) = (Panel!Children(t, q) \ {n}) \union (IF q = p THEN {n} ELSE {})
    <3> SUFFICES ASSUME NEW q \in Panel!Everywhere
                 PROVE Panel!Children(u, q) = (Panel!Children(t, q) \ {n}) \union (IF q = p THEN {n} ELSE {})
      OBVIOUS
    <3>1. Panel!Children(w, q) = Panel!Children(t, q) \ {n} BY <1>1
    <3>2. CASE q # p BY <3>1, <3>2, <1>9 DEF Panel!Children
    <3>3. CASE q = p
      <4>1. Panel!ToSet(u[q].bookmark) = Panel!ToSet(w[q].bookmark) \union {n} /\ u[q].folder = w[q].folder
        BY <3>3, <2>1, <2>2, <1>7
      <4> QED BY <3>1, <3>3, <4>1 DEF Panel!Children
    <3> QED BY <3>2, <3>3
  <2>5. t[Root].bookmark = <<>> /\ p # Root => u[Root].bookmark = <<>>
    <3>1. Root \in Panel!Everywhere BY DEF Panel!Everywhere
    <3> QED BY <3>1, <1>1, <1>9
  <2>6. \A q \in Panel!Everywhere, kind \in {"folder", "bookmark"} :
          u[q][kind] = IF q = p /\ kind = k THEN h ELSE w[q][kind]
    BY <2>1, <2>2, <1>9
  <2> QED BY <1>12, <2>3, <2>4, <2>5, <2>6 DEF u, h, w, c, k, PutChildren, PutRows
<1> QED BY <1>11, <1>12 DEF Panel!Nodes

LEMMA PutInjective ==
  ASSUME NEW t \in Panel!Trees, NEW n \in Panel!Nodes, NEW p \in Panel!Everywhere, NEW i \in Nat \ {0},
         \A q \in Panel!Everywhere : Panel!IsInjective(t[q].folder) /\ Panel!IsInjective(t[q].bookmark)
  PROVE  \A q \in Panel!Everywhere :
           /\ Panel!IsInjective(Panel!PutAt(t, n, p, i)[q].folder)
           /\ Panel!IsInjective(Panel!PutAt(t, n, p, i)[q].bookmark)
<1> DEFINE w == Panel!Without(t, {n})
           u == Panel!PutAt(t, n, p, i)
           c == Panel!Clamp(t, n, p, i)
<1>1. w \in Panel!Trees BY WithoutIs
<1>2. c \in 1 .. Len(w[p][Panel!Kind(n)]) + 1 BY Clamps
<1>3. PutRows(u, t, n, p, i) BY PutIs
<1> SUFFICES ASSUME NEW q \in Panel!Everywhere, NEW kind \in {"folder", "bookmark"}
             PROVE  Panel!IsInjective(u[q][kind])
  OBVIOUS
<1>4. /\ Panel!IsInjective(w[q].folder) /\ Panel!IsInjective(w[q].bookmark)
      /\ n \notin Panel!ToSet(w[q].folder) /\ n \notin Panel!ToSet(w[q].bookmark)
      /\ w[q].folder \in Seq(PanelFolders) /\ w[q].bookmark \in Seq(PanelBookmarks)
  <2>1. Panel!IsInjective(w[q].folder) /\ Panel!IsInjective(w[q].bookmark) BY WithoutRows
  <2>2. n \notin Panel!ToSet(w[q].folder) /\ n \notin Panel!ToSet(w[q].bookmark) BY WithoutIs
  <2> HIDE DEF w
  <2> QED BY <1>1, <2>1, <2>2, TreeIs
<1> HIDE DEF w, u, c
<1>5. CASE ~(q = p /\ kind = Panel!Kind(n))
  <2>1. u[q][kind] = w[q][kind] BY <1>3, <1>5 DEF PutRows, w
  <2> QED BY <2>1, <1>4
<1>6. CASE q = p /\ kind = Panel!Kind(n)
  <2>1. u[q][kind] = Panel!InsertAt(w[q][kind], c, n) BY <1>3, <1>6 DEF PutRows, w, c
  <2> DEFINE g == w[q][kind]
             K == IF n \in PanelFolders THEN PanelFolders ELSE PanelBookmarks
  <2>2. n \in K /\ g \in Seq(K) BY <1>4, <1>6 DEF Panel!Kind, Panel!Nodes
  <2>3. c \in 1 .. Len(g) + 1 BY <1>2, <1>6
  <2>4. Panel!IsInjective(g) /\ n \notin Panel!ToSet(g) BY <1>4
  <2> HIDE DEF g, K
  <2>5. Panel!IsInjective(Panel!InsertAt(g, c, n)) BY <2>2, <2>3, <2>4, InsertedIs
  <2> QED BY <2>1, <2>5 DEF g
<1> QED BY <1>5, <1>6

(* A move to a place that is not below what moves leaves a tree.            *)
LEMMA PutKeeps ==
  ASSUME NEW t, Whole(t), NEW n \in Panel!Nodes, NEW p \in Panel!Everywhere, NEW i \in Nat \ {0},
         Panel!Exists(t, p), p \notin Panel!Subtree(t, n), n \in PanelBookmarks => p # Root
  PROVE  Whole(Panel!PutAt(t, n, p, i))
<1> DEFINE u == Panel!PutAt(t, n, p, i)
           Above_n == ({p} \ {Root}) \union Panel!Ancestors(t, p)
<1>0. t \in Panel!Trees /\ Panel!Forest(t) BY DEF Whole
<1>1. u \in Panel!Trees
      /\ \A q \in Panel!Everywhere :
           Panel!Children(u, q) = (Panel!Children(t, q) \ {n}) \union (IF q = p THEN {n} ELSE {})
  BY <1>0, PutIs DEF PutChildren
<1>2. /\ Root \in Panel!Everywhere /\ PanelFolders \subseteq Panel!Everywhere
      /\ PanelFolders \subseteq Panel!Nodes /\ Root \notin PanelFolders
      /\ Panel!Everywhere = PanelFolders \union {Root} /\ Root \notin Panel!Nodes
  BY PanelAssumption DEF Panel!Everywhere, Panel!Nodes
<1>3. u[Root].bookmark = <<>>
  <2>1. t[Root].bookmark = <<>> BY <1>0 DEF Panel!Forest
  <2> QED BY <1>0, <2>1, PutIs
<1>12. \A q \in Panel!Everywhere : Panel!IsInjective(u[q].folder) /\ Panel!IsInjective(u[q].bookmark)
  <2>1. \A q \in Panel!Everywhere : Panel!IsInjective(t[q].folder) /\ Panel!IsInjective(t[q].bookmark)
    BY <1>0 DEF Panel!Forest
  <2> QED BY <1>0, <2>1, PutInjective
<1> HIDE DEF u
<1>4. \A m : Panel!Parents(u, m) = IF m = n THEN {p} ELSE Panel!Parents(t, m)
  BY <1>1 DEF Panel!Parents
<1>5. Panel!Over(u, n) = {p} \ {Root} /\ \A m : m # n => Panel!Over(u, m) = Panel!Over(t, m)
  BY <1>4 DEF Panel!Over
<1>6. p # n /\ n \notin Panel!Ancestors(t, p)
  <2>1. CASE p = Root BY <2>1, <1>0, <1>2, RootIsTop
  <2>2. CASE p # Root BY <2>2, <1>2 DEF Panel!Subtree
  <2> QED BY <2>1, <2>2
<1>7. \A m \in Panel!Nodes : m \notin Panel!Ancestors(t, m) BY <1>0 DEF Panel!Forest
<1>8. ASSUME NEW m \in Panel!Nodes PROVE m \notin Panel!Ancestors(u, m)
  <2>1. CASE m # n /\ n \notin Panel!Ancestors(t, m)
    <3>1. Panel!Over(u, m) \subseteq Panel!Over(t, m) BY <2>1, <1>5
    <3>2. \A g \in Panel!Ancestors(t, m) : Panel!Over(u, g) \subseteq Panel!Over(t, g) BY <2>1, <1>5
    <3>3. Panel!Ancestors(u, m) \subseteq Panel!Ancestors(t, m) BY <3>1, <3>2, AboveShrinks
    <3> QED BY <3>3, <1>7
  <2>2. CASE m = n \/ n \in Panel!Ancestors(t, m)
    <3> DEFINE A == Panel!Ancestors(t, m) \union ({p} \ {Root}) \union Panel!Ancestors(t, p)
    <3>1. A \in SUBSET PanelFolders
      <4>1. Panel!Ancestors(t, m) \subseteq PanelFolders /\ Panel!Ancestors(t, p) \subseteq PanelFolders BY Above
      <4> QED BY <4>1, <1>2
    <3>2. Panel!Over(u, m) \subseteq A
      <4>1. Panel!Over(t, m) \subseteq Panel!Ancestors(t, m) BY Above
      <4> QED BY <4>1, <1>5
    <3>3. \A g \in A : Panel!Over(u, g) \subseteq A
      <4> SUFFICES ASSUME NEW g \in A PROVE Panel!Over(u, g) \subseteq A OBVIOUS
      <4>1. CASE g = n BY <4>1, <1>5
      <4>2. CASE g # n
        <5>1. Panel!Over(u, g) = Panel!Over(t, g) BY <4>2, <1>5
        <5>2. g \in Panel!Ancestors(t, m) => Panel!Over(t, g) \subseteq Panel!Ancestors(t, m) BY Above
        <5>3. g \in Panel!Ancestors(t, p) => Panel!Over(t, g) \subseteq Panel!Ancestors(t, p) BY Above
        <5>4. g = p => Panel!Over(t, g) \subseteq Panel!Ancestors(t, p) BY Above
        <5> QED BY <5>1, <5>2, <5>3, <5>4
      <4> QED BY <4>1, <4>2
    <3>4. Panel!Ancestors(u, m) \subseteq A
      <4> HIDE DEF A
      <4> QED BY <3>1, <3>2, <3>3, Above
    <3>5. m # p
      <4>1. m \in Panel!Subtree(t, n) BY <2>2 DEF Panel!Subtree
      <4> QED BY <4>1
    <3>6. m \notin Panel!Ancestors(t, p)
      <4>1. m \in Panel!Ancestors(t, p) => Panel!Ancestors(t, m) \subseteq Panel!Ancestors(t, p) BY AboveAgain
      <4> QED BY <4>1, <2>2, <1>6
    <3> QED BY <3>4, <3>5, <3>6, <1>7
  <2> QED BY <2>1, <2>2
<1>9. \A m \in Panel!Nodes : \A q, r \in Panel!Parents(u, m) : q = r BY <1>0, <1>4 DEF Panel!Forest
<1>10. ASSUME NEW q \in PanelFolders, Panel!Children(u, q) # {} PROVE Panel!Exists(u, q)
  <2>1. CASE q = n BY <2>1, <1>4 DEF Panel!Exists
  <2>2. CASE q # n
    <3>1. Panel!Exists(t, q)
      <4>1. CASE q = p BY <4>1
      <4>2. CASE q # p
        <5>1. Panel!Children(t, q) # {} BY <4>2, <1>1, <1>2, <1>10
        <5> QED BY <5>1, <1>0 DEF Panel!Forest
      <4> QED BY <4>1, <4>2
    <3> QED BY <3>1, <2>2, <1>4 DEF Panel!Exists
  <2> QED BY <2>1, <2>2
<1>11. Whole(u) BY <1>1, <1>3, <1>8, <1>9, <1>10, <1>12 DEF Whole, Panel!Forest
<1> QED BY <1>11 DEF u

-----------------------------------------------------------------------------
(* A row is where it is found.                                              *)
LEMMA RowIsFound ==
  ASSUME NEW t, Whole(t), NEW n \in Panel!Nodes, Panel!Exists(t, n)
  PROVE  /\ Panel!ParentOf(t, n) \in Panel!Parents(t, n) /\ Panel!ParentOf(t, n) \in Panel!Everywhere
         /\ n \in PanelBookmarks => Panel!ParentOf(t, n) # Root
         /\ n \in Panel!ToSet(t[Panel!ParentOf(t, n)][Panel!Kind(n)])
         /\ Panel!Exists(t, Panel!ParentOf(t, n))
<1> DEFINE p == Panel!ParentOf(t, n)
<1>0. t \in Panel!Trees /\ Panel!Forest(t) BY DEF Whole
<1>1. Panel!Parents(t, n) # {} BY PanelAssumption DEF Panel!Exists, Panel!Nodes
<1>2. p \in Panel!Parents(t, n) BY <1>1 DEF Panel!ParentOf
<1> HIDE DEF p
<1>3. p \in Panel!Everywhere /\ n \in Panel!Children(t, p) BY <1>2 DEF Panel!Parents
<1>4. n \in Panel!ToSet(t[p].folder) \/ n \in Panel!ToSet(t[p].bookmark) BY <1>3 DEF Panel!Children
<1>5. Panel!ToSet(t[p].folder) \subseteq PanelFolders /\ Panel!ToSet(t[p].bookmark) \subseteq PanelBookmarks
  BY <1>0, <1>3, TreeIs
<1>6. n \in Panel!ToSet(t[p][Panel!Kind(n)]) BY <1>4, <1>5, PanelAssumption DEF Panel!Kind
<1>7. ASSUME n \in PanelBookmarks PROVE p # Root
  <2>1. n \in Panel!ToSet(t[p].bookmark) BY <1>4, <1>5, <1>7, PanelAssumption
  <2>2. Panel!ToSet(<<>>) = {} BY <1>0 DEF Panel!ToSet
  <2> QED BY <2>1, <2>2, <1>0 DEF Panel!Forest
<1>8. Panel!Exists(t, p)
  <2>1. CASE p = Root BY <2>1 DEF Panel!Exists
  <2>2. CASE p # Root BY <2>2, <1>0, <1>3 DEF Panel!Forest, Panel!Everywhere
  <2> QED BY <2>1, <2>2
<1> QED BY <1>2, <1>3, <1>6, <1>7, <1>8 DEF p

LEMMA IndexIs ==
  ASSUME NEW T, NEW s \in Seq(T), NEW x \in Panel!ToSet(s)
  PROVE  Panel!IndexIn(s, x) \in 1 .. Len(s) /\ s[Panel!IndexIn(s, x)] = x /\ Len(s) \in Nat
<1>1. \E i \in DOMAIN s : s[i] = x BY DEF Panel!ToSet
<1>2. Panel!IndexIn(s, x) \in DOMAIN s /\ s[Panel!IndexIn(s, x)] = x BY <1>1 DEF Panel!IndexIn
<1> QED BY <1>2

LEMMA PositionIs ==
  ASSUME NEW t, Whole(t), NEW n \in Panel!Nodes, Panel!Exists(t, n)
  PROVE  /\ Panel!PositionOf(t, n) \in 1 .. Len(t[Panel!ParentOf(t, n)][Panel!Kind(n)])
         /\ t[Panel!ParentOf(t, n)][Panel!Kind(n)][Panel!PositionOf(t, n)] = n
<1> DEFINE p == Panel!ParentOf(t, n)
           k == Panel!Kind(n)
<1>0. t \in Panel!Trees BY DEF Whole
<1>1. p \in Panel!Everywhere /\ n \in Panel!ToSet(t[p][k]) BY RowIsFound
<1>2. Panel!PositionOf(t, n) = Panel!IndexIn(t[p][k], n) BY DEF Panel!PositionOf, Panel!Group
<1> HIDE DEF p
<1>3. t[p][k] \in Seq(PanelFolders) \/ t[p][k] \in Seq(PanelBookmarks) BY <1>0, <1>1, TreeIs DEF Panel!Kind
<1> HIDE DEF k
<1>4. Panel!IndexIn(t[p][k], n) \in 1 .. Len(t[p][k]) /\ t[p][k][Panel!IndexIn(t[p][k], n)] = n
  BY <1>1, <1>3, IndexIs
<1> QED BY <1>2, <1>4 DEF p, k

LEMMA CountIs ==
  ASSUME NEW t, NEW K, NEW k \in {"folder", "bookmark"}, NEW p \in Panel!Everywhere, t \in Panel!Trees
  PROVE  Panel!countGroup(t, K, k, p) \in Nat
<1> DEFINE A == {n \in Panel!ToSet(Panel!Group(t, p, k)) : Panel!Visible(t, K, n)}
<1>1. Panel!ToSet(t[p].folder) \subseteq PanelFolders /\ Panel!ToSet(t[p].bookmark) \subseteq PanelBookmarks
  BY TreeIs
<1>2. A \subseteq PanelFolders \union PanelBookmarks BY <1>1 DEF Panel!Group
<1>3. IsFiniteSet(A) /\ Cardinality(A) \in Nat BY <1>2, PanelAssumption, FS_Subset, FS_CardinalityType
<1>4. Panel!countGroup(t, K, k, p) = Cardinality(A) BY PanelCounts DEF Panel!countGroup
<1> QED BY <1>3, <1>4

(* What is sent: a move to a position that counts from one, and no bookmark *)
(* to the root.                                                             *)
PlanOk(m) ==
  /\ m.op \in {"move", "delete"} /\ m.node \in Panel!Nodes
  /\ m.op = "move" => m.parent \in Panel!Everywhere /\ m.position \in Nat \ {0}
  /\ m.op = "move" /\ m.node \in PanelBookmarks => m.parent # Root \/ ~m.changed

LEMMA MoveIs ==
  ASSUME NEW n, NEW p, NEW changed, NEW position, NEW m, m = Panel!Move(n, p, changed, position)
  PROVE  m.op = "move" /\ m.node = n /\ m.parent = p /\ m.changed = changed /\ m.position = position
BY DEF Panel!Move

LEMMA TargetIs ==
  ASSUME NEW g \in Panel!Targets
  PROVE  \/ g.kind = "row" /\ g.at \in Panel!Nodes
         \/ g.kind = "into" /\ g.at \in PanelFolders
         \/ g.kind = "into-root" /\ g.at = Root
BY DEF Panel!Targets, Panel!OnRow, Panel!Into, Panel!IntoRoot

LEMMA Legal ==
  ASSUME NEW t, NEW K, NEW n, NEW g, Panel!isLegalTarget(t, K, n, g)
  PROVE  /\ Panel!Visible(t, K, n)
         /\ g.kind = "row" => /\ g.at # n /\ Panel!Visible(t, K, g.at) /\ Panel!Kind(g.at) = Panel!Kind(n)
                               /\ n \notin Panel!Ancestors(t, g.at)
         /\ g.kind = "into" => g.at # n /\ Panel!Visible(t, K, g.at) /\ n \notin Panel!Ancestors(t, g.at)
                               /\ g.at # Panel!ParentOf(t, n)
         /\ g.kind = "into-root" => n \in PanelFolders /\ Panel!ParentOf(t, n) # Root
<1>1. Panel!Visible(t, K, n) /\ Panel!legalityReason(t, K, n, g) = "ok" BY DEF Panel!isLegalTarget
<1>2. CASE g.kind = "row" BY <1>1, <1>2 DEF Panel!legalityReason
<1>3. CASE g.kind = "into" BY <1>1, <1>3 DEF Panel!legalityReason
<1>4. CASE g.kind = "into-root" BY <1>1, <1>4 DEF Panel!legalityReason
<1> QED BY <1>1, <1>2, <1>3, <1>4

LEMMA PlansAreOk ==
  ASSUME NEW t, Whole(t), NEW K, NEW n \in Panel!Nodes, NEW g \in Panel!Targets,
         Panel!isLegalTarget(t, K, n, g)
  PROVE  PlanOk(Panel!planDrop(t, K, n, g)) /\ Panel!planDrop(t, K, n, g).op = "move"
         /\ Panel!planDrop(t, K, n, g).node = n
<1> DEFINE m == Panel!planDrop(t, K, n, g)
<1>0. t \in Panel!Trees BY DEF Whole
<1>1. CASE g.kind = "row"
  <2> DEFINE x == g.at
             p == Panel!ParentOf(t, x)
  <2>1. x \in Panel!Nodes /\ Panel!Exists(t, x) /\ Panel!Kind(x) = Panel!Kind(n)
    BY <1>1, TargetIs, Legal DEF Panel!Visible
  <2>2. p \in Panel!Everywhere /\ (x \in PanelBookmarks => p # Root) BY <2>1, RowIsFound
  <2>3. n \in PanelBookmarks => x \in PanelBookmarks
    BY <2>1, PanelAssumption DEF Panel!Kind, Panel!Nodes
  <2>4. Panel!PositionOf(t, x) \in Nat \ {0}
    <3>1. Panel!PositionOf(t, x) \in 1 .. Len(t[p][Panel!Kind(x)]) BY <2>1, PositionIs
    <3> QED BY <3>1
  <2>5. m = Panel!Move(n, p, p # Panel!ParentOf(t, n), Panel!PositionOf(t, x)) BY <1>1 DEF Panel!planDrop
  <2>6. m.op = "move" /\ m.node = n /\ m.parent = p /\ m.position = Panel!PositionOf(t, x) BY <2>5, MoveIs
  <2> HIDE DEF m, p, x
  <2>7. n \in PanelBookmarks => p # Root BY <2>2, <2>3
  <2>8. PlanOk(m) BY <2>2, <2>4, <2>6, <2>7 DEF PlanOk, x
  <2> QED BY <2>6, <2>8 DEF m
<1>2. CASE g.kind # "row"
  <2> DEFINE c == Panel!countGroup(t, K, Panel!Kind(n), g.at)
  <2>1. g.at \in Panel!Everywhere BY <1>2, TargetIs DEF Panel!Everywhere
  <2>2. Panel!Kind(n) \in {"folder", "bookmark"} BY DEF Panel!Kind
  <2>3. c \in Nat BY <2>1, <2>2, <1>0, CountIs
  <2>4. n \in PanelBookmarks => g.at # Root BY <1>2, TargetIs, Legal, PanelAssumption
  <2>5. m = Panel!Move(n, g.at, TRUE, c + 1) BY <1>2 DEF Panel!planDrop
  <2> HIDE DEF m, c
  <2>6. m.op = "move" /\ m.node = n /\ m.parent = g.at /\ m.position = c + 1 BY <2>5 DEF Panel!Move
  <2>7. PlanOk(m) BY <2>1, <2>3, <2>4, <2>6 DEF PlanOk
  <2> QED BY <2>6, <2>7 DEF m
<1> QED BY <1>1, <1>2

LEMMA KeysAim ==
  ASSUME NEW t, Whole(t), NEW n \in Panel!Nodes, Panel!Exists(t, n), NEW g \in Panel!KeyTargets(t, n)
  PROVE  g \in Panel!Targets
<1> DEFINE p == Panel!ParentOf(t, n)
           s == Panel!Group(t, p, Panel!Kind(n))
           i == Panel!PositionOf(t, n)
           Beside(j) == IF j \in DOMAIN s THEN {Panel!OnRow(s[j])} ELSE {}
           Outdent == IF p = Root THEN {}
                      ELSE IF Panel!ParentOf(t, p) # Root THEN {Panel!Into(Panel!ParentOf(t, p))}
                      ELSE IF n \in PanelBookmarks THEN {} ELSE {Panel!IntoRoot}
<1>0. t \in Panel!Trees BY DEF Whole
<1>1. p \in Panel!Everywhere /\ Panel!Exists(t, p) BY RowIsFound
<1>2. g \in Beside(i - 1) \/ g \in Beside(i + 1) \/ g \in Outdent \/ \E f \in Panel!Preceding(t, n) : g = Panel!Into(f)
  BY DEF Panel!KeyTargets
<1>3. ASSUME NEW j, g \in Beside(j) PROVE g \in Panel!Targets
  <2>1. s = t[p].folder \/ s = t[p].bookmark BY DEF Panel!Group, Panel!Kind
  <2>2. s \in Seq(PanelFolders) \/ s \in Seq(PanelBookmarks) BY <2>1, <1>0, <1>1, TreeIs
  <2> HIDE DEF s
  <2>3. j \in DOMAIN s /\ g = Panel!OnRow(s[j]) BY <1>3
  <2>4. s[j] \in Panel!Nodes BY <2>2, <2>3 DEF Panel!Nodes
  <2> QED BY <2>3, <2>4 DEF Panel!Targets
<1>4. ASSUME g \in Outdent PROVE g \in Panel!Targets
  <2>1. p # Root BY <1>4
  <2>2. p \in PanelFolders BY <2>1, <1>1 DEF Panel!Everywhere
  <2>3. Panel!ParentOf(t, p) \in Panel!Everywhere BY <2>2, <1>1, RowIsFound DEF Panel!Nodes
  <2>4. CASE Panel!ParentOf(t, p) # Root
    <3>1. Panel!ParentOf(t, p) \in PanelFolders BY <2>3, <2>4 DEF Panel!Everywhere
    <3>2. g = Panel!Into(Panel!ParentOf(t, p)) BY <1>4, <2>1, <2>4
    <3> QED BY <3>1, <3>2 DEF Panel!Targets
  <2>5. CASE Panel!ParentOf(t, p) = Root
    <3>1. g = Panel!IntoRoot BY <1>4, <2>1, <2>5
    <3> QED BY <3>1 DEF Panel!Targets
  <2> QED BY <2>4, <2>5
<1>5. ASSUME NEW f \in Panel!Preceding(t, n), g = Panel!Into(f) PROVE g \in Panel!Targets
  <2>1. f \in PanelFolders BY DEF Panel!Preceding
  <2> QED BY <2>1, <1>5 DEF Panel!Targets
<1> HIDE DEF Beside, Outdent
<1> QED BY <1>2, <1>3, <1>4, <1>5

-----------------------------------------------------------------------------
(* What holds of the panel: the trees are trees, a call was planned on one  *)
(* of them, and unless somebody else wrote since the last read, the rows    *)
(* are the server's or a read that will show them is still to come.         *)
CallOk(c) ==
  /\ DOMAIN c = {"id", "plan", "target", "event", "seen", "closed", "stage"}
  /\ Whole(c.seen) /\ c.plan.op \in {"move", "delete"} /\ c.plan.node \in Panel!Nodes
  /\ c.plan.op = "move" =>
       /\ c.target \in Panel!Targets /\ Panel!isLegalTarget(c.seen, c.closed, c.plan.node, c.target)
       /\ c.plan = Panel!planDrop(c.seen, c.closed, c.plan.node, c.target)

RowsFollow ==
  ~behind =>
    \/ \E c \in moves : c.stage # "sent"
    \/ fetch = Panel!Asked
    \/ fetch.stage = "read" /\ fetch.tree = panelTree
    \/ fetch = Panel!NoFetch /\ (fails \/ rows = panelTree)

PanelInv ==
  /\ Whole(panelTree) /\ Whole(rows) /\ Whole(fetch.tree)
  /\ \A c \in moves \union held : CallOk(c)
  /\ RowsFollow

LEMMA CallsAreOk == ASSUME NEW c, CallOk(c) PROVE PlanOk(c.plan)
<1>1. CASE c.plan.op = "move"
  <2> DEFINE m == Panel!planDrop(c.seen, c.closed, c.plan.node, c.target)
  <2>1. PlanOk(m) BY <1>1, PlansAreOk DEF CallOk
  <2>2. c.plan = m BY <1>1 DEF CallOk
  <2> HIDE DEF m
  <2> QED BY <2>1, <2>2
<1>2. CASE c.plan.op # "move" BY <1>2 DEF CallOk, PlanOk
<1> QED BY <1>1, <1>2

(* The server leaves a tree, whatever it is asked. *)
LEMMA EffectKeeps ==
  ASSUME NEW m, PlanOk(m), Whole(panelTree), Panel!Acceptable(m)
  PROVE  Whole(Panel!Effect(m))
<1>1. m.node \in Panel!Nodes /\ m.op \in {"move", "delete"} /\ Panel!Exists(panelTree, m.node)
  BY DEF PlanOk, Panel!Acceptable
<1>2. CASE m.op = "delete" BY <1>1, <1>2, DeletionKeeps DEF Panel!Effect
<1>3. CASE m.op = "move"
  <2> DEFINE n == m.node
             p == Panel!TargetParent(m)
             i == m.position
  <2>1. Panel!Exists(panelTree, p) /\ p \notin Panel!Subtree(panelTree, n)
    BY <1>3 DEF Panel!Acceptable, Panel!ensureFolderNotDescendant
  <2>2. p \in Panel!Everywhere /\ (n \in PanelBookmarks => p # Root)
    <3>1. CASE m.changed
      <4>1. p = m.parent BY <3>1 DEF Panel!TargetParent
      <4> QED BY <3>1, <4>1, <1>3 DEF PlanOk
    <3>2. CASE ~m.changed
      <4>1. p = Panel!ParentOf(panelTree, n) BY <3>2 DEF Panel!TargetParent
      <4> QED BY <4>1, <1>1, RowIsFound
    <3> QED BY <3>1, <3>2
  <2>3. i \in Nat \ {0} BY <1>3 DEF PlanOk
  <2>4. Panel!Effect(m) = Panel!PutAt(panelTree, n, p, i) BY <1>3 DEF Panel!Effect
  <2> HIDE DEF n, p, i
  <2>5. n \in Panel!Nodes BY <1>1 DEF n
  <2> QED BY <2>1, <2>2, <2>3, <2>4, <2>5, PutKeeps
<1> QED BY <1>1, <1>2, <1>3

LEMMA PanelStarts == Panel!Init => PanelInv
<1> SUFFICES ASSUME Panel!Init PROVE PanelInv OBVIOUS
<1>1. panelTree = FirstTree /\ rows = FirstTree /\ moves = {} /\ held = {} /\ fetch = Panel!NoFetch
  BY DEF Panel!Init
<1>2. Whole(FirstTree) BY PanelAssumption DEF Whole
<1>3. fetch.tree = FirstTree BY <1>1 DEF Panel!NoFetch
<1> QED BY <1>1, <1>2, <1>3 DEF PanelInv, RowsFollow

(* A mutation is sent. *)
LEMMA Sends ==
  ASSUME PanelInv, NEW m, NEW g, Panel!mutate(m, g), m.op \in {"move", "delete"}, m.node \in Panel!Nodes,
         m.op = "move" => /\ g \in Panel!Targets /\ Panel!isLegalTarget(rows, closed, m.node, g)
                          /\ m = Panel!planDrop(rows, closed, m.node, g)
  PROVE  PanelInv'
<1> DEFINE c == [id |-> issued + 1, plan |-> m, target |-> g, event |-> Panel!keyFor(m),
                 seen |-> rows, closed |-> closed, stage |-> "sent"]
<1>1. moves' = moves \union {c} /\ UNCHANGED <<panelTree, rows, closed, held, fetch, fails, behind>>
  BY DEF Panel!mutate
<1>2. /\ DOMAIN c = {"id", "plan", "target", "event", "seen", "closed", "stage"}
      /\ c.plan = m /\ c.target = g /\ c.seen = rows /\ c.closed = closed
  OBVIOUS
<1> HIDE DEF c
<1>3. CallOk(c) BY <1>2 DEF CallOk, PanelInv
<1>4. \A d \in (moves \union held)' : CallOk(d) BY <1>1, <1>3 DEF PanelInv
<1>5. RowsFollow' BY <1>1 DEF PanelInv, RowsFollow
<1>6. Whole(panelTree)' /\ Whole(rows)' /\ Whole(fetch.tree)' BY <1>1 DEF PanelInv, Whole
<1> QED BY <1>4, <1>5, <1>6 DEF PanelInv

(* A call is answered. *)
LEMMA Answers ==
  ASSUME PanelInv, NEW c \in moves, NEW stage \in {"ok", "refused"}, Panel!Reply(c, stage),
         Whole(panelTree)', UNCHANGED <<rows, fetch, fails, behind, held>>
  PROVE  PanelInv'
<1> DEFINE d == [c EXCEPT !.stage = stage]
<1>1. moves' = (moves \ {c}) \union {d} BY DEF Panel!Reply
<1>2. CallOk(c) BY DEF PanelInv
<1>3. /\ DOMAIN d = DOMAIN c /\ d.stage = stage
      /\ d.plan = c.plan /\ d.target = c.target /\ d.seen = c.seen /\ d.closed = c.closed
  BY <1>2 DEF CallOk
<1> HIDE DEF d
<1>4. CallOk(d) BY <1>2, <1>3 DEF CallOk
<1>5. \A e \in (moves \union held)' : CallOk(e) BY <1>1, <1>4 DEF PanelInv
<1>6. d \in moves' /\ d.stage # "sent" BY <1>1, <1>3
<1>7. RowsFollow' BY <1>6 DEF RowsFollow
<1>8. Whole(rows)' /\ Whole(fetch.tree)' BY DEF PanelInv, Whole
<1> QED BY <1>5, <1>7, <1>8 DEF PanelInv

(* The page reads again. *)
LEMMA Rereads ==
  ASSUME PanelInv, Panel!invalidateTree, moves' \subseteq moves, held' \subseteq moves \union held,
         UNCHANGED <<panelTree, rows, behind>>
  PROVE  PanelInv'
<1>1. fetch' = Panel!Asked BY DEF Panel!invalidateTree
<1>2. Whole(FirstTree) BY PanelAssumption DEF Whole
<1>3. fetch'.tree = FirstTree BY <1>1 DEF Panel!Asked
<1>4. Whole(panelTree)' /\ Whole(rows)' /\ Whole(fetch.tree)' BY <1>2, <1>3 DEF PanelInv, Whole
<1>5. \A c \in (moves \union held)' : CallOk(c) BY DEF PanelInv
<1>6. RowsFollow' BY <1>1 DEF RowsFollow, Panel!Asked
<1> QED BY <1>4, <1>5, <1>6 DEF PanelInv

(* Somebody else wrote. *)
LEMMA Overtakes ==
  ASSUME PanelInv, Whole(panelTree)', behind' = TRUE, held' \subseteq held, UNCHANGED <<rows, moves, fetch>>
  PROVE  PanelInv'
<1>1. Whole(rows)' /\ Whole(fetch.tree)' BY DEF PanelInv, Whole
<1>2. \A c \in (moves \union held)' : CallOk(c) BY DEF PanelInv
<1> QED BY <1>1, <1>2 DEF PanelInv, RowsFollow

LEMMA PanelSteps == PanelInv /\ (Panel!Next \/ UNCHANGED panelVars) => PanelInv'
<1> SUFFICES ASSUME PanelInv, Panel!Next \/ UNCHANGED panelVars PROVE PanelInv' OBVIOUS
<1>1. ASSUME NEW n \in Panel!Nodes, NEW g \in Panel!Targets, Panel!handleDragEnd(n, g) PROVE PanelInv'
  <2>1. Panel!isLegalTarget(rows, closed, n, g) /\ Panel!mutate(Panel!planDrop(rows, closed, n, g), g)
    BY <1>1 DEF Panel!handleDragEnd
  <2> DEFINE m == Panel!planDrop(rows, closed, n, g)
  <2>2. m.op = "move" /\ m.node = n BY <2>1, PlansAreOk DEF PanelInv
  <2>3. m = Panel!planDrop(rows, closed, n, g) OBVIOUS
  <2> HIDE DEF m
  <2> QED BY <2>1, <2>2, <2>3, Sends
<1>2. ASSUME NEW n \in Panel!Nodes, Panel!handleKeyboardMove(n) PROVE PanelInv'
  <2>1. PICK g \in Panel!KeyTargets(rows, n) :
          Panel!isLegalTarget(rows, closed, n, g) /\ Panel!mutate(Panel!planDrop(rows, closed, n, g), g)
    BY <1>2 DEF Panel!handleKeyboardMove
  <2>2. Whole(rows) /\ Panel!Exists(rows, n) BY <1>2 DEF Panel!handleKeyboardMove, Panel!Visible, PanelInv
  <2>3. g \in Panel!Targets BY <2>2, KeysAim
  <2> DEFINE m == Panel!planDrop(rows, closed, n, g)
  <2>4. m.op = "move" /\ m.node = n BY <2>1, <2>2, <2>3, PlansAreOk
  <2>5. m = Panel!planDrop(rows, closed, n, g) OBVIOUS
  <2> HIDE DEF m
  <2> QED BY <2>1, <2>3, <2>4, <2>5, Sends
<1>3. ASSUME NEW n \in Panel!Nodes, Panel!deleteNode(n) PROVE PanelInv'
  <2> DEFINE m == Panel!Deletion(n)
  <2>1. Panel!mutate(m, Panel!IntoRoot) BY <1>3 DEF Panel!deleteNode
  <2>2. m.op = "delete" /\ m.node = n BY DEF Panel!Deletion
  <2> HIDE DEF m
  <2> QED BY <2>1, <2>2, Sends
<1>4. ASSUME NEW c \in moves \union held, Panel!Apply(c) PROVE Whole(panelTree)'
  <2>1. CallOk(c) /\ Whole(panelTree) BY DEF PanelInv
  <2>2. PlanOk(c.plan) BY <2>1, CallsAreOk
  <2>3. Panel!Acceptable(c.plan) /\ panelTree' = Panel!Effect(c.plan) BY <1>4 DEF Panel!Apply
  <2>4. Whole(Panel!Effect(c.plan)) BY <2>1, <2>2, <2>3, EffectKeeps
  <2> QED BY <2>3, <2>4 DEF Whole
<1>5. ASSUME NEW c \in moves, Panel!Serve(c) \/ Panel!Refuse(c) \/ Panel!Replay(c) \/ Panel!Settle(c)
      PROVE  PanelInv'
  <2>1. CASE Panel!Serve(c)
    <3>1. Panel!Apply(c) /\ Panel!Reply(c, "ok") /\ UNCHANGED <<rows, fetch, fails, behind, held>>
      BY <2>1 DEF Panel!Serve
    <3>2. Whole(panelTree)' BY <3>1, <1>4
    <3> QED BY <3>1, <3>2, Answers
  <2>2. CASE Panel!Refuse(c)
    <3>1. Panel!Reply(c, "refused") /\ UNCHANGED <<panelTree, rows, fetch, fails, behind, held>>
      BY <2>2 DEF Panel!Refuse
    <3>2. Whole(panelTree)' BY <3>1 DEF PanelInv, Whole
    <3> QED BY <3>1, <3>2, Answers
  <2>3. CASE Panel!Replay(c)
    <3>1. UNCHANGED <<panelTree, rows, fetch, fails, behind, held>> BY <2>3 DEF Panel!Replay
    <3>2. Panel!Reply(c, "ok") \/ Panel!Reply(c, "refused") BY <2>3 DEF Panel!Replay
    <3>3. Whole(panelTree)' BY <3>1 DEF PanelInv, Whole
    <3> QED BY <3>1, <3>2, <3>3, Answers
  <2>4. CASE Panel!Settle(c)
    <3>1. Panel!invalidateTree /\ moves' \subseteq moves /\ UNCHANGED <<panelTree, rows, held, behind>>
      BY <2>4 DEF Panel!Settle
    <3> QED BY <3>1, Rereads
  <2> QED BY <1>5, <2>1, <2>2, <2>3, <2>4
<1>6. ASSUME Panel!ServeTree PROVE PanelInv'
  <2>1. fetch' = [stage |-> "read", tree |-> panelTree] /\ UNCHANGED <<panelTree, rows, moves, held>>
    BY <1>6 DEF Panel!ServeTree
  <2>2. fetch'.stage = "read" /\ fetch'.tree = panelTree BY <2>1
  <2>3. Whole(panelTree)' /\ Whole(rows)' /\ Whole(fetch.tree)' BY <2>1, <2>2 DEF PanelInv, Whole
  <2>4. RowsFollow' BY <2>1, <2>2 DEF RowsFollow
  <2> QED BY <2>1, <2>3, <2>4 DEF PanelInv
<1>7. ASSUME Panel!ReadDone PROVE PanelInv'
  <2>1. fetch.stage = "read" /\ rows' = fetch.tree /\ fetch' = Panel!NoFetch
        /\ UNCHANGED <<panelTree, moves, held, behind>>
    BY <1>7 DEF Panel!ReadDone
  <2>2. fetch'.tree = FirstTree BY <2>1 DEF Panel!NoFetch
  <2>3. Whole(FirstTree) BY PanelAssumption DEF Whole
  <2>4. Whole(panelTree)' /\ Whole(rows)' /\ Whole(fetch.tree)' BY <2>1, <2>2, <2>3 DEF PanelInv, Whole
  <2>5. Panel!Asked.stage # "read" /\ Panel!NoFetch.stage # "read" BY DEF Panel!Asked, Panel!NoFetch
  <2>6. RowsFollow' BY <2>1, <2>5 DEF PanelInv, RowsFollow
  <2> QED BY <2>1, <2>4, <2>6 DEF PanelInv
<1>8. ASSUME NEW c \in held, Panel!ServeLate(c) PROVE PanelInv'
  <2>1. held' \subseteq held /\ behind' = TRUE /\ UNCHANGED <<rows, moves, fetch>> BY <1>8 DEF Panel!ServeLate
  <2>2. Panel!Apply(c) \/ UNCHANGED panelTree BY <1>8 DEF Panel!ServeLate
  <2>3. Whole(panelTree)' BY <2>2, <1>4 DEF PanelInv, Whole
  <2> QED BY <2>1, <2>3, Overtakes
<1>9. ASSUME NEW n \in Panel!Nodes, NEW p \in Panel!Everywhere, NEW i \in 1 .. Panel!Cardinality(Panel!Nodes),
             Panel!OtherMoves(n, p, i)
      PROVE  PanelInv'
  <2>1. /\ Panel!Exists(panelTree, p) /\ p \notin Panel!Subtree(panelTree, n)
        /\ n \in PanelBookmarks => p # Root
        /\ panelTree' = Panel!PutAt(panelTree, n, p, i) /\ behind' = TRUE
        /\ UNCHANGED <<rows, moves, held, fetch>>
    BY <1>9 DEF Panel!OtherMoves
  <2>2. i \in Nat \ {0}
    <3>1. Panel!Cardinality(Panel!Nodes) \in Nat BY PanelAssumption, PanelCounts, FS_CardinalityType DEF Panel!Nodes
    <3> QED BY <3>1
  <2>3. Whole(Panel!PutAt(panelTree, n, p, i)) BY <2>1, <2>2, PutKeeps DEF PanelInv
  <2>4. Whole(panelTree)' BY <2>1, <2>3 DEF Whole
  <2> QED BY <2>1, <2>4, Overtakes
<1>10. ASSUME NEW n \in Panel!Nodes, Panel!OtherDeletes(n) PROVE PanelInv'
  <2>1. /\ panelTree' = Panel!Without(panelTree, Panel!Subtree(panelTree, n)) /\ behind' = TRUE
        /\ UNCHANGED <<rows, moves, held, fetch>>
    BY <1>10 DEF Panel!OtherDeletes
  <2>2. Whole(Panel!Without(panelTree, Panel!Subtree(panelTree, n))) BY DeletionKeeps DEF PanelInv
  <2>3. Whole(panelTree)' BY <2>1, <2>2 DEF Whole
  <2> QED BY <2>1, <2>3, Overtakes
<1>11. ASSUME NEW c \in moves, Panel!Cut(c) PROVE PanelInv'
  <2>1. Panel!invalidateTree /\ moves' \subseteq moves /\ held' \subseteq moves \union held
        /\ UNCHANGED <<panelTree, rows, behind>>
    BY <1>11 DEF Panel!Cut, Panel!Held
  <2> QED BY <2>1, Rereads
<1>12. ASSUME Panel!Focus \/ Panel!Refetch PROVE PanelInv'
  <2>1. Panel!invalidateTree /\ UNCHANGED <<moves, held, panelTree, rows, behind>>
    BY <1>12 DEF Panel!Focus, Panel!Refetch, Panel!invalidateTree
  <2> QED BY <2>1, Rereads
<1>13. ASSUME Panel!ReadFails PROVE PanelInv'
  <2>1. fetch' = Panel!NoFetch /\ fails' = TRUE /\ UNCHANGED <<panelTree, rows, moves, held, behind>>
    BY <1>13 DEF Panel!ReadFails
  <2>2. fetch'.tree = FirstTree BY <2>1 DEF Panel!NoFetch
  <2>3. Whole(FirstTree) BY PanelAssumption DEF Whole
  <2>4. Whole(panelTree)' /\ Whole(rows)' /\ Whole(fetch.tree)' BY <2>1, <2>2, <2>3 DEF PanelInv, Whole
  <2>5. RowsFollow' BY <2>1 DEF RowsFollow, Panel!NoFetch
  <2> QED BY <2>1, <2>4, <2>5 DEF PanelInv
<1>14. ASSUME UNCHANGED panelVars PROVE PanelInv'
  <2>1. UNCHANGED <<panelTree, rows, moves, held, fetch, fails, behind>> BY <1>14 DEF panelVars
  <2>2. Whole(panelTree)' /\ Whole(rows)' /\ Whole(fetch.tree)' BY <2>1 DEF PanelInv, Whole
  <2>3. RowsFollow' BY <2>1 DEF PanelInv, RowsFollow, Panel!Asked, Panel!NoFetch
  <2> QED BY <2>1, <2>2, <2>3 DEF PanelInv
<1>15. ASSUME Panel!Next PROVE PanelInv'
  <2>1. CASE \E n \in Panel!Nodes : (\E g \in Panel!Targets : Panel!handleDragEnd(n, g))
                \/ Panel!handleKeyboardMove(n) \/ Panel!deleteNode(n)
    BY <2>1, <1>1, <1>2, <1>3
  <2>2. CASE Panel!Respond BY <2>2, <1>5, <1>6, <1>7 DEF Panel!Respond
  <2>3. CASE \E c \in held : Panel!ServeLate(c) BY <2>3, <1>8
  <2>4. CASE \E n \in Panel!Nodes, p \in Panel!Everywhere, i \in 1 .. Panel!Cardinality(Panel!Nodes) :
               Panel!OtherMoves(n, p, i)
    BY <2>4, <1>9
  <2>5. CASE \E n \in Panel!Nodes : Panel!OtherDeletes(n) BY <2>5, <1>10
  <2>6. CASE \E c \in moves : Panel!Cut(c) BY <2>6, <1>11
  <2>7. CASE Panel!Focus \/ Panel!Refetch \/ Panel!ReadFails BY <2>7, <1>12, <1>13
  <2> QED BY <1>15, <2>1, <2>2, <2>3, <2>4, <2>5, <2>6, <2>7 DEF Panel!Next
<1> QED BY <1>14, <1>15

LEMMA PanelHolds == TreeSpec => []PanelInv
<1>1. TreeInit => PanelInv BY PanelStarts DEF TreeInit
<1>2. PanelInv /\ [TreeNext]_treeVars => PanelInv'
  <2> SUFFICES ASSUME PanelInv, [TreeNext]_treeVars PROVE PanelInv' OBVIOUS
  <2>1. Panel!Next \/ UNCHANGED panelVars BY DEF TreeNext, treeVars
  <2> QED BY <2>1, PanelSteps
<1> QED BY <1>1, <1>2, PTL DEF TreeSpec, treeVars

(* However stale the rows a move was planned on, the server's tree stays a  *)
(* forest, and once nothing is in flight the panel shows it as it is,       *)
(* unless somebody else wrote since the last read (treeModel.ts,            *)
(* mutations.ts, prepare.go).                                               *)
THEOREM TreeIsShown == TreeSpec => []TreeShownAtRest
<1>1. PanelInv => TreeShownAtRest
  <2> SUFFICES ASSUME PanelInv PROVE Panel!OneForest /\ Panel!ShownAtRest BY DEF TreeShownAtRest
  <2>1. Panel!OneForest BY DEF PanelInv, Whole, Panel!OneForest
  <2>2. Panel!ShownAtRest
    <3>1. Panel!NoFetch.stage # "read" /\ Panel!NoFetch # Panel!Asked
      <4>1. Panel!NoFetch.stage = "none" /\ Panel!Asked.stage = "asked" BY DEF Panel!NoFetch, Panel!Asked
      <4> QED BY <4>1
    <3> QED BY <3>1 DEF PanelInv, RowsFollow, Panel!ShownAtRest, Panel!AtRest
  <2> QED BY <2>1, <2>2
<1> QED BY <1>1, PanelHolds, PTL


(* The place of a number among those up to another, one left out. *)
LEMMA RanksUpTo ==
  ASSUME NEW l \in Nat, NEW c, NEW K, K = (1 .. l) \ {c}
  PROVE  /\ c \notin 1 .. l => Cardinality(K) = l
         /\ c \in 1 .. l => Cardinality(K) = l - 1
<1>1. ASSUME NEW m \in Nat PROVE IsFiniteSet(1 .. m) /\ Cardinality(1 .. m) = m
  <2>1. 1 \in Int /\ m \in Int OBVIOUS
  <2>2. IsFiniteSet(1 .. m) /\ Cardinality(1 .. m) = IF 1 > m THEN 0 ELSE m - 1 + 1 BY <2>1, FS_Interval
  <2> QED BY <2>2
<1>2. ASSUME NEW m \in Nat, NEW e \in 1 .. m PROVE Cardinality((1 .. m) \ {e}) = m - 1
  <2>1. IsFiniteSet(1 .. m) /\ Cardinality(1 .. m) = m BY <1>1
  <2> QED BY <2>1, <1>2, FS_RemoveElement
<1>3. c \notin 1 .. l => K = 1 .. l OBVIOUS
<1>4. c \notin 1 .. l => Cardinality(K) = l BY <1>1, <1>3
<1>5. c \in 1 .. l => Cardinality(K) = l - 1 BY <1>2
<1> QED BY <1>4, <1>5

LEMMA RankUpTo ==
  ASSUME NEW l \in Nat, NEW c, NEW j \in (1 .. l) \ {c}
  PROVE  /\ c \notin 1 .. l \/ j < c => Rank((1 .. l) \ {c}, j) = j - 1
         /\ c \in 1 .. l /\ c < j => Rank((1 .. l) \ {c}, j) = j - 2
<1> DEFINE K == (1 .. l) \ {c}
<1>1. ASSUME NEW m \in Nat PROVE Cardinality(1 .. m) = m
  <2>1. (1 .. m) \ {0} = 1 .. m /\ 0 \notin 1 .. m OBVIOUS
  <2> DEFINE D == 1 .. m
  <2>2. D = (1 .. m) \ {0} BY <2>1
  <2> HIDE DEF D
  <2>3. Cardinality(D) = m BY <2>1, <2>2, RanksUpTo
  <2> QED BY <2>3 DEF D
<1>2. ASSUME NEW m \in Nat, NEW e \in 1 .. m PROVE Cardinality((1 .. m) \ {e}) = m - 1
  BY RanksUpTo
<1>6. ASSUME c \notin 1 .. l \/ j < c PROVE Rank(K, j) = j - 1
  <2>1. j \in 1 .. l /\ j - 1 \in Nat OBVIOUS
  <2>2. {h \in K : h < j} = 1 .. j - 1 BY <1>6, <2>1
  <2> DEFINE m == j - 1
  <2>3. m \in Nat /\ {h \in K : h < j} = 1 .. m BY <2>1, <2>2
  <2> HIDE DEF m
  <2>4. Rank(K, j) = m BY <2>3, <1>1 DEF Rank
  <2> QED BY <2>4 DEF m
<1>7. ASSUME c \in 1 .. l, c < j PROVE Rank(K, j) = j - 2
  <2>1. j \in 1 .. l /\ j - 1 \in Nat OBVIOUS
  <2>2. {h \in K : h < j} = (1 .. j - 1) \ {c} BY <1>7, <2>1
  <2> DEFINE m == j - 1
  <2>3. m \in Nat /\ {h \in K : h < j} = (1 .. m) \ {c} /\ c \in 1 .. m BY <1>7, <2>1, <2>2
  <2> HIDE DEF m
  <2>4. Rank(K, j) = m - 1 BY <2>3, <1>2 DEF Rank
  <2> QED BY <2>1, <2>4 DEF m
<1> HIDE DEF K
<1>8. (c \notin 1 .. l \/ j < c => Rank(K, j) = j - 1) /\ (c \in 1 .. l /\ c < j => Rank(K, j) = j - 2)
  BY <1>6, <1>7
<1> QED BY <1>8 DEF K

(* Leaving out what is not there changes nothing. *)
LEMMA OthersOfNone ==
  ASSUME NEW T, NEW s \in Seq(T), NEW n, n \notin Panel!ToSet(s)
  PROVE  Panel!Others(s, {n}) = s
<1> DEFINE K == Rest(s, {n})
           o == Panel!Others(s, {n})
<1>1. Len(s) \in Nat /\ DOMAIN s = 1 .. Len(s) OBVIOUS
<1>2. K = 1 .. Len(s) BY <1>1 DEF Rest, Panel!ToSet
<1>3. K = (1 .. Len(s)) \ {0} BY <1>2, <1>1
<1>4. o \in Seq(T) /\ Len(o) = Cardinality(K) /\ \A i \in K : o[Rank(K, i) + 1] = s[i] BY OthersAre
<1> HIDE DEF K, o
<1>5. 0 \notin 1 .. Len(s) BY <1>1
<1> DEFINE D == (1 .. Len(s)) \ {0}
<1>9. D = (1 .. Len(s)) \ {0} OBVIOUS
<1> HIDE DEF D
<1>6. Cardinality(K) = Len(s) /\ \A i \in K : Rank(K, i) = i - 1
  <2> DEFINE l == Len(s)
  <2>2. l \in Nat /\ 0 \notin 1 .. l /\ D = (1 .. l) \ {0} BY <1>1, <1>5, <1>9
  <2> HIDE DEF l
  <2>3. Cardinality(D) = l BY <2>2, RanksUpTo
  <2>4. \A i \in D : Rank(D, i) = i - 1
    <3> SUFFICES ASSUME NEW i \in D PROVE Rank(D, i) = i - 1 OBVIOUS
    <3>1. i \in (1 .. l) \ {0} BY <2>2
    <3>2. Rank((1 .. l) \ {0}, i) = i - 1 BY <3>1, <2>2, RankUpTo
    <3> QED BY <3>2, <2>2
  <2>1. Cardinality(D) = Len(s) /\ \A i \in D : Rank(D, i) = i - 1 BY <2>3, <2>4 DEF l
  <2> QED BY <2>1, <1>3, <1>9
<1>7. \A i \in 1 .. Len(s) : o[i] = s[i]
  <2> SUFFICES ASSUME NEW i \in 1 .. Len(s) PROVE o[i] = s[i] OBVIOUS
  <2>1. i \in K /\ Rank(K, i) + 1 = i BY <1>1, <1>2, <1>6
  <2> QED BY <2>1, <1>4
<1>8. o = s BY <1>1, <1>4, <1>6, <1>7
<1> QED BY <1>8 DEF o

(* Nor does putting something in and leaving it out. *)
LEMMA OthersOfInserted ==
  ASSUME NEW T, NEW s \in Seq(T), NEW n \in T, n \notin Panel!ToSet(s), NEW c \in 1 .. Len(s) + 1
  PROVE  Panel!Others(Panel!InsertAt(s, c, n), {n}) = s
<1> DEFINE u == Panel!InsertAt(s, c, n)
           K == Rest(u, {n})
           o == Panel!Others(u, {n})
           l == Len(s) + 1
<1>0. Len(s) \in Nat /\ DOMAIN s = 1 .. Len(s) /\ l \in Nat /\ c \in 1 .. l OBVIOUS
<1>1. u \in Seq(T) /\ Len(u) = l BY InsertedIs
<1>2. \A k \in 1 .. l : u[k] = IF k < c THEN s[k] ELSE IF k = c THEN n ELSE s[k - 1] BY InsertedIs
<1> HIDE DEF u
<1>3. \A j \in 1 .. Len(s) : s[j] # n BY <1>0 DEF Panel!ToSet
<1>4. K = (1 .. l) \ {c}
  <2>1. DOMAIN u = 1 .. l BY <1>0, <1>1
  <2>2. \A k \in 1 .. l : (u[k] = n) = (k = c)
    <3> SUFFICES ASSUME NEW k \in 1 .. l PROVE (u[k] = n) = (k = c) OBVIOUS
    <3>1. CASE k = c BY <3>1, <1>2
    <3>2. CASE k < c
      <4>1. k \in 1 .. Len(s) BY <3>2, <1>0
      <4> QED BY <3>2, <4>1, <1>2, <1>3
    <3>3. CASE k > c
      <4>1. k - 1 \in 1 .. Len(s) BY <3>3, <1>0
      <4> QED BY <3>3, <4>1, <1>2, <1>3
    <3> QED BY <3>1, <3>2, <3>3, <1>0
  <2> QED BY <2>1, <2>2 DEF Rest
<1>5. o \in Seq(T) /\ Len(o) = Cardinality(K) /\ \A i \in K : o[Rank(K, i) + 1] = u[i] BY <1>1, OthersAre
<1> HIDE DEF K, o, l
<1>6. /\ Cardinality(K) = l - 1 /\ \A j \in K : j < c => Rank(K, j) = j - 1
      /\ \A j \in K : c < j => Rank(K, j) = j - 2
  <2> DEFINE D == (1 .. l) \ {c}
  <2>1. D = (1 .. l) \ {c} OBVIOUS
  <2> HIDE DEF D
  <2>2. l \in Nat /\ c \in 1 .. l BY <1>0 DEF l
  <2>3. Cardinality(D) = l - 1 BY <2>1, <2>2, RanksUpTo
  <2>4. \A j \in D : j < c => Rank(D, j) = j - 1
    <3> SUFFICES ASSUME NEW j \in D, j < c PROVE Rank(D, j) = j - 1 OBVIOUS
    <3>1. j \in (1 .. l) \ {c} BY <2>1
    <3>2. Rank((1 .. l) \ {c}, j) = j - 1 BY <3>1, <2>2, RankUpTo
    <3> QED BY <3>2, <2>1
  <2>5. \A j \in D : c < j => Rank(D, j) = j - 2
    <3> SUFFICES ASSUME NEW j \in D, c < j PROVE Rank(D, j) = j - 2 OBVIOUS
    <3>1. j \in (1 .. l) \ {c} BY <2>1
    <3>2. Rank((1 .. l) \ {c}, j) = j - 2 BY <3>1, <2>2, RankUpTo
    <3> QED BY <3>2, <2>1
  <2> QED BY <2>1, <2>3, <2>4, <2>5, <1>4
<1>7. Len(o) = Len(s) BY <1>0, <1>5, <1>6 DEF l
<1>8. \A i \in 1 .. Len(s) : o[i] = s[i]
  <2> SUFFICES ASSUME NEW i \in 1 .. Len(s) PROVE o[i] = s[i] OBVIOUS
  <2>0. i \in Int /\ c \in Int BY <1>0
  <2>1. CASE i < c
    <3>1. i \in K /\ i \in 1 .. l BY <2>1, <1>0, <1>4 DEF l
    <3>2. Rank(K, i) + 1 = i BY <3>1, <2>0, <2>1, <1>6
    <3>3. o[i] = u[i] BY <3>1, <3>2, <1>5
    <3> QED BY <3>1, <3>3, <2>1, <1>2
  <2>2. CASE ~(i < c)
    <3> DEFINE j == i + 1
    <3>1. j \in K /\ j \in 1 .. l /\ c < j /\ j - 1 = i BY <2>2, <1>0, <1>4 DEF l
    <3>2. Rank(K, j) = j - 2 BY <3>1, <1>6
    <3>3. Rank(K, j) + 1 = i BY <3>2, <2>0
    <3> HIDE DEF j
    <3>4. o[i] = u[j] BY <3>1, <3>3, <1>5
    <3>5. ~(j < c) /\ j # c BY <3>1, <2>0
    <3> QED BY <3>1, <3>4, <3>5, <1>2
  <2> QED BY <2>1, <2>2
<1>9. o = s BY <1>0, <1>5, <1>7, <1>8
<1> QED BY <1>9 DEF o, u

(* At most one row is left out. *)
LEMMA OthersLose ==
  ASSUME NEW T, NEW s \in Seq(T), Panel!IsInjective(s), NEW n
  PROVE  Len(Panel!Others(s, {n})) \in Nat /\ Len(s) <= Len(Panel!Others(s, {n})) + 1
         /\ Len(Panel!Others(s, {n})) <= Len(s)
<1> DEFINE K == Rest(s, {n})
           o == Panel!Others(s, {n})
<1>1. Len(s) \in Nat /\ DOMAIN s = 1 .. Len(s) OBVIOUS
<1>2. \E c : K = (1 .. Len(s)) \ {c}
  <2>1. CASE \E c \in 1 .. Len(s) : s[c] = n
    <3>1. PICK c \in 1 .. Len(s) : s[c] = n BY <2>1
    <3>2. \A i \in 1 .. Len(s) : (s[i] = n) = (i = c) BY <3>1, <1>1 DEF Panel!IsInjective
    <3>3. K = (1 .. Len(s)) \ {c} BY <3>2, <1>1 DEF Rest
    <3> QED BY <3>3
  <2>2. CASE ~\E c \in 1 .. Len(s) : s[c] = n
    <3>1. K = (1 .. Len(s)) \ {0} BY <2>2, <1>1 DEF Rest
    <3> QED BY <3>1
  <2> QED BY <2>1, <2>2
<1>3. Len(o) = Cardinality(K) BY OthersAre
<1> HIDE DEF K, o
<1>4. PICK c : K = (1 .. Len(s)) \ {c} BY <1>2
<1>5. Cardinality(K) = Len(s) \/ Cardinality(K) = Len(s) - 1
  <2> DEFINE m == Len(s)
  <2>1. m \in Nat /\ K = (1 .. m) \ {c} BY <1>1, <1>4
  <2> HIDE DEF m
  <2>2. CASE c \in 1 .. m BY <2>1, <2>2, RanksUpTo DEF m
  <2>3. CASE c \notin 1 .. m BY <2>1, <2>3, RanksUpTo DEF m
  <2> QED BY <2>2, <2>3
<1>6. Len(o) \in Nat /\ Len(s) <= Len(o) + 1 /\ Len(o) <= Len(s) BY <1>1, <1>3, <1>5
<1> QED BY <1>6 DEF o

LEMMA CountedOnce ==
  ASSUME NEW T, NEW s \in Seq(T), Panel!IsInjective(s)
  PROVE  Cardinality(Panel!ToSet(s)) = Len(s)
<1> DEFINE D == 1 .. Len(s)
           R == Panel!ToSet(s)
<1>1. Len(s) \in Nat /\ DOMAIN s = D OBVIOUS
<1>2. IsFiniteSet(D) /\ Cardinality(D) = Len(s)
  <2>1. D = (1 .. Len(s)) \ {0} /\ 0 \notin D OBVIOUS
  <2>2. Cardinality(D) = Len(s) BY <2>1, <1>1, RanksUpTo
  <2>3. IsFiniteSet(D) BY <1>1, FS_Interval
  <2> QED BY <2>2, <2>3
<1>3. s \in [D -> R] BY <1>1 DEF Panel!ToSet
<1>4. \A a, b \in D : s[a] = s[b] => a = b BY <1>1 DEF Panel!IsInjective
<1>5. \A x \in R : \E a \in D : s[a] = x BY <1>1 DEF Panel!ToSet
<1> HIDE DEF D, R
<1>6. s \in Bijection(D, R)
  <2>1. s \in Injection(D, R) BY <1>3, <1>4 DEF Injection, IsInjective
  <2>2. s \in Surjection(D, R) BY <1>3, <1>5 DEF Surjection
  <2> QED BY <2>1, <2>2 DEF Bijection
<1>7. ExistsBijection(D, R) BY <1>6 DEF ExistsBijection
<1>8. Cardinality(R) = Cardinality(D) BY <1>2, <1>7, FS_Bijection
<1> QED BY <1>2, <1>8 DEF R

-----------------------------------------------------------------------------
(* What is in an open folder is shown, all of it: it counts as many rows as *)
(* there are.                                                               *)
LEMMA OpenCounts ==
  ASSUME NEW t, Whole(t), NEW K, NEW k \in {"folder", "bookmark"}, NEW p \in Panel!Everywhere,
         p \notin K, p # Root => Panel!Visible(t, K, p)
  PROVE  Panel!countGroup(t, K, k, p) = Len(t[p][k])
<1> DEFINE s == t[p][k]
           A == {n \in Panel!ToSet(Panel!Group(t, p, k)) : Panel!Visible(t, K, n)}
<1>0. t \in Panel!Trees /\ Panel!Forest(t) BY DEF Whole
<1>1. s \in Seq(PanelFolders) \/ s \in Seq(PanelBookmarks) BY <1>0, TreeIs
<1>2. Panel!IsInjective(s) BY <1>0 DEF Panel!Forest
<1>3. Panel!ToSet(s) \subseteq Panel!Children(t, p) BY DEF Panel!Children
<1>4. Panel!Ancestors(t, p) \intersect K = {}
  <2>1. CASE p = Root BY <2>1, <1>0, RootIsTop
  <2>2. CASE p # Root BY <2>2 DEF Panel!Visible
  <2> QED BY <2>1, <2>2
<1>5. ASSUME NEW n \in Panel!ToSet(s) PROVE Panel!Visible(t, K, n)
  <2>1. n \in Panel!Nodes /\ p \in Panel!Parents(t, n) BY <1>0, <1>3, TreeIs DEF Panel!Parents
  <2>2. \A q \in Panel!Parents(t, n) : q = p BY <2>1, <1>0 DEF Panel!Forest
  <2> DEFINE B == ({p} \ {Root}) \union Panel!Ancestors(t, p)
  <2>3. Panel!Over(t, n) \subseteq B BY <2>2 DEF Panel!Over
  <2>4. \A g \in B : Panel!Over(t, g) \subseteq B
    <3>1. Panel!Over(t, p) \subseteq Panel!Ancestors(t, p) BY Above
    <3>2. \A g \in Panel!Ancestors(t, p) : Panel!Over(t, g) \subseteq Panel!Ancestors(t, p) BY Above
    <3> QED BY <3>1, <3>2
  <2>5. B \in SUBSET PanelFolders
    <3>1. Panel!Ancestors(t, p) \subseteq PanelFolders BY Above
    <3> QED BY <3>1 DEF Panel!Everywhere
  <2>6. Panel!Ancestors(t, n) \subseteq B
    <3> HIDE DEF B
    <3> QED BY <2>3, <2>4, <2>5, Above
  <2>7. Panel!Ancestors(t, n) \intersect K = {} BY <2>6, <1>4
  <2> QED BY <2>1, <2>7 DEF Panel!Visible, Panel!Exists
<1>6. A = Panel!ToSet(s) BY <1>5 DEF Panel!Group
<1>7. Cardinality(Panel!ToSet(s)) = Len(s)
  <2> HIDE DEF s
  <2> QED BY <1>1, <1>2, CountedOnce
<1>8. Panel!countGroup(t, K, k, p) = Cardinality(A) BY PanelCounts DEF Panel!countGroup
<1> QED BY <1>6, <1>7, <1>8

(* Put there and taken out again, nothing has changed. *)
LEMMA PutAndTaken ==
  ASSUME NEW t \in Panel!Trees, NEW n \in Panel!Nodes, NEW p \in Panel!Everywhere, NEW i \in Nat \ {0}
  PROVE  Panel!Without(Panel!PutAt(t, n, p, i), {n}) = Panel!Without(t, {n})
<1> DEFINE w == Panel!Without(t, {n})
           u == Panel!PutAt(t, n, p, i)
           c == Panel!Clamp(t, n, p, i)
           k == Panel!Kind(n)
<1>1. w \in Panel!Trees /\ u \in Panel!Trees /\ PutRows(u, t, n, p, i) BY WithoutIs, PutIs
<1>2. c \in 1 .. Len(w[p][k]) + 1 BY Clamps
<1>3. ASSUME NEW q \in Panel!Everywhere, NEW kind \in {"folder", "bookmark"}
      PROVE  Panel!Others(u[q][kind], {n}) = w[q][kind]
  <2> DEFINE g == w[q][kind]
  <2>1. u[q][kind] = IF q = p /\ kind = k THEN Panel!InsertAt(g, c, n) ELSE g
    BY <1>1 DEF PutRows
  <2>2. n \notin Panel!ToSet(w[q].folder) /\ n \notin Panel!ToSet(w[q].bookmark) BY WithoutIs
  <2>3. n \notin Panel!ToSet(g) BY <2>2
  <2>4. w[q].folder \in Seq(PanelFolders) /\ w[q].bookmark \in Seq(PanelBookmarks)
    <3> HIDE DEF w
    <3> QED BY <1>1, TreeIs
  <2>5. CASE q = p /\ kind = k
    <3> DEFINE T == IF n \in PanelFolders THEN PanelFolders ELSE PanelBookmarks
    <3>1. n \in T /\ g \in Seq(T) BY <2>4, <2>5 DEF Panel!Kind, Panel!Nodes
    <3>2. c \in 1 .. Len(g) + 1 BY <1>2, <2>5
    <3> HIDE DEF g, T, c, w, u, k
    <3>3. Panel!Others(Panel!InsertAt(g, c, n), {n}) = g BY <3>1, <3>2, <2>3, OthersOfInserted
    <3> QED BY <3>3, <2>1, <2>5 DEF g
  <2>6. CASE ~(q = p /\ kind = k)
    <3>1. g \in Seq(PanelFolders) \/ g \in Seq(PanelBookmarks) BY <2>4
    <3> HIDE DEF g, c, w, u, k
    <3>2. Panel!Others(g, {n}) = g BY <3>1, <2>3, OthersOfNone
    <3> QED BY <3>2, <2>1, <2>6 DEF g
  <2> QED BY <2>5, <2>6
<1>4. Panel!Without(u, {n}) = [q \in Panel!Everywhere |->
        [folder |-> Panel!Others(u[q].folder, {n}), bookmark |-> Panel!Others(u[q].bookmark, {n})]]
  BY DEF Panel!Without
<1>5. \A q \in Panel!Everywhere : Panel!Others(u[q].folder, {n}) = w[q].folder
                                 /\ Panel!Others(u[q].bookmark, {n}) = w[q].bookmark
  BY <1>3
<1>6. w = [q \in Panel!Everywhere |-> [folder |-> w[q].folder, bookmark |-> w[q].bookmark]]
  <2>1. w \in [Panel!Everywhere -> [folder : Seq(PanelFolders), bookmark : Seq(PanelBookmarks)]]
    BY <1>1 DEF Panel!Trees
  <2> HIDE DEF w
  <2>2. \A q \in Panel!Everywhere : w[q] = [folder |-> w[q].folder, bookmark |-> w[q].bookmark] BY <2>1
  <2> QED BY <2>1, <2>2
<1> HIDE DEF w, u
<1> QED BY <1>4, <1>5, <1>6 DEF w, u

(* Where a row is put, it is. *)
LEMMA PutLands ==
  ASSUME NEW t \in Panel!Trees, NEW n \in Panel!Nodes, NEW p \in Panel!Everywhere, NEW i \in Nat \ {0}
  PROVE  LET place == Panel!PutAt(t, n, p, i)[p][Panel!Kind(n)]
         IN  /\ n \in Panel!ToSet(place)
             /\ Panel!IndexIn(place, n) = Panel!Clamp(t, n, p, i)
             /\ Len(place) = Len(Panel!Without(t, {n})[p][Panel!Kind(n)]) + 1
<1> DEFINE w == Panel!Without(t, {n})
           u == Panel!PutAt(t, n, p, i)
           c == Panel!Clamp(t, n, p, i)
           k == Panel!Kind(n)
           g == w[p][k]
           place == u[p][k]
           T == IF n \in PanelFolders THEN PanelFolders ELSE PanelBookmarks
<1>1. w \in Panel!Trees /\ u \in Panel!Trees /\ PutRows(u, t, n, p, i) BY WithoutIs, PutIs
<1>2. c \in 1 .. Len(g) + 1 BY Clamps
<1>3. k \in {"folder", "bookmark"} BY DEF Panel!Kind
<1>4. place = Panel!InsertAt(g, c, n)
  <2> HIDE DEF w, u, c, k
  <2> QED BY <1>1, <1>3 DEF PutRows, w, c, k
<1>5. n \in T /\ g \in Seq(T)
  <2>1. w[p].folder \in Seq(PanelFolders) /\ w[p].bookmark \in Seq(PanelBookmarks)
    <3> HIDE DEF w
    <3> QED BY <1>1, TreeIs
  <2> QED BY <2>1 DEF Panel!Kind, Panel!Nodes
<1>6. n \notin Panel!ToSet(g)
  <2>1. n \notin Panel!ToSet(w[p].folder) /\ n \notin Panel!ToSet(w[p].bookmark) BY WithoutIs
  <2> QED BY <2>1, <1>3
<1> HIDE DEF w, u, c, k, g, place, T
<1>7. /\ place \in Seq(T) /\ Len(place) = Len(g) + 1 /\ Panel!ToSet(place) = Panel!ToSet(g) \union {n}
      /\ \A j \in 1 .. Len(g) + 1 : place[j] = IF j < c THEN g[j] ELSE IF j = c THEN n ELSE g[j - 1]
  <2>1. /\ Panel!InsertAt(g, c, n) \in Seq(T) /\ Len(Panel!InsertAt(g, c, n)) = Len(g) + 1
        /\ Panel!ToSet(Panel!InsertAt(g, c, n)) = Panel!ToSet(g) \union {n}
    BY <1>2, <1>5, InsertedIs
  <2>2. \A j \in 1 .. Len(g) + 1 :
           Panel!InsertAt(g, c, n)[j] = IF j < c THEN g[j] ELSE IF j = c THEN n ELSE g[j - 1]
    BY <1>2, <1>5, InsertedIs
  <2> QED BY <1>4, <2>1, <2>2
<1>8. n \in Panel!ToSet(place) BY <1>7
<1>9. Panel!IndexIn(place, n) \in 1 .. Len(place) /\ place[Panel!IndexIn(place, n)] = n
  BY <1>7, <1>8, IndexIs
<1>10. \A j \in 1 .. Len(g) : g[j] # n
  <2>1. DOMAIN g = 1 .. Len(g) BY <1>5
  <2> QED BY <2>1, <1>6 DEF Panel!ToSet
<1>11. Len(g) \in Nat BY <1>5
<1>12. \A j \in 1 .. Len(g) + 1 : place[j] = n => j = c
  <2> SUFFICES ASSUME NEW j \in 1 .. Len(g) + 1, place[j] = n, j # c PROVE FALSE OBVIOUS
  <2>1. j \in Int /\ c \in Int BY <1>11, <1>2
  <2>2. CASE j < c
    <3>1. j \in 1 .. Len(g) BY <2>2, <1>2, <1>11
    <3> QED BY <3>1, <2>2, <1>7, <1>10
  <2>3. CASE j > c
    <3>1. j - 1 \in 1 .. Len(g) /\ ~(j < c) BY <2>3, <1>2, <1>11
    <3> QED BY <3>1, <1>7, <1>10
  <2> QED BY <2>1, <2>2, <2>3
<1>13. Panel!IndexIn(place, n) = c BY <1>7, <1>9, <1>12
<1>14. n \in Panel!ToSet(place) /\ Panel!IndexIn(place, n) = c /\ Len(place) = Len(g) + 1
  BY <1>7, <1>8, <1>13
<1> QED BY <1>14 DEF place, g, u, k, w, c

(* A drop that is served on the tree it was made on. *)
LEMMA DropLands ==
  ASSUME Whole(panelTree), NEW call, CallOk(call), call.seen = panelTree, call.plan.op = "move",
         call.target.at \in call.closed => call.target.kind = "row",
         NEW u, u = Panel!Effect(call.plan)
  PROVE  Panel!Lands(call, panelTree, u)
<1> DEFINE t == panelTree
           K == call.closed
           g == call.target
           n == call.plan.node
           p == IF g.kind = "row" THEN Panel!ParentOf(t, g.at) ELSE g.at
           i == call.plan.position
           k == Panel!Kind(n)
           w == Panel!Without(t, {n})
           c == Panel!Clamp(t, n, p, i)
<1>0. t \in Panel!Trees /\ Panel!Forest(t) BY DEF Whole
<1>1. /\ n \in Panel!Nodes /\ g \in Panel!Targets /\ Panel!isLegalTarget(t, K, n, g)
      /\ call.plan = Panel!planDrop(t, K, n, g)
  BY DEF CallOk
<1>2. i \in Nat \ {0} BY CallsAreOk DEF PlanOk
<1>3. CASE g.kind = "row"
  <2> DEFINE x == g.at
  <2>1. x \in Panel!Nodes /\ Panel!Exists(t, x) /\ Panel!Kind(x) = k
    BY <1>1, <1>3, TargetIs, Legal DEF Panel!Visible
  <2>2. p = Panel!ParentOf(t, x) /\ p \in Panel!Everywhere BY <1>3, <2>1, RowIsFound
  <2>3. call.plan = Panel!Move(n, p, p # Panel!ParentOf(t, n), Panel!PositionOf(t, x))
    BY <1>1, <1>3, <2>2 DEF Panel!planDrop
  <2>4. /\ call.plan.parent = p /\ call.plan.changed = (p # Panel!ParentOf(t, n))
        /\ i = Panel!PositionOf(t, x)
    <3> HIDE DEF p, x, t, n, i
    <3>1. call.plan.parent = p /\ call.plan.changed = (p # Panel!ParentOf(t, n))
          /\ call.plan.position = Panel!PositionOf(t, x)
      BY <2>3 DEF Panel!Move
    <3> QED BY <3>1 DEF i
  <2>5. Panel!TargetParent(call.plan) = p BY <2>4 DEF Panel!TargetParent
  <2>6. u = Panel!PutAt(t, n, p, i) BY <2>5 DEF Panel!Effect
  <2>7. i <= Len(w[p][k]) + 1
    <3> DEFINE s == t[p][k]
    <3>1. i \in 1 .. Len(s) BY <2>1, <2>2, <2>4, PositionIs
    <3>2. k \in {"folder", "bookmark"} BY DEF Panel!Kind
    <3>3. w[p][k] = Panel!Others(s, {n}) BY <1>0, <2>2, <3>2, WithoutRows
    <3>4. s \in Seq(PanelFolders) \/ s \in Seq(PanelBookmarks) BY <1>0, <2>2, <3>2, TreeIs
    <3>5. Panel!IsInjective(s) BY <1>0, <2>2, <3>2 DEF Panel!Forest
    <3> HIDE DEF s, w, i, k
    <3>6. Len(s) <= Len(Panel!Others(s, {n})) + 1 /\ Len(Panel!Others(s, {n})) \in Nat BY <3>4, <3>5, OthersLose
    <3>7. Len(s) \in Nat BY <3>4
    <3>8. i <= Len(Panel!Others(s, {n})) + 1
      <4>1. PICK a \in Nat : a = Len(s) BY <3>7
      <4>2. PICK b \in Nat : b = Len(Panel!Others(s, {n})) BY <3>6
      <4>3. i \in 1 .. a /\ a <= b + 1 BY <3>1, <3>6, <4>1, <4>2
      <4>4. i <= b + 1 BY <4>3
      <4> QED BY <4>2, <4>4
    <3> HIDE DEF p, t, n
    <3> QED BY <3>3, <3>8
  <2>8. Len(w[p][k]) \in Nat
    <3>1. w \in Panel!Trees BY <1>0, WithoutIs
    <3>2. k \in {"folder", "bookmark"} BY DEF Panel!Kind
    <3> HIDE DEF w, p, k
    <3>3. w[p].folder \in Seq(PanelFolders) /\ w[p].bookmark \in Seq(PanelBookmarks) BY <3>1, <2>2, TreeIs
    <3> QED BY <3>2, <3>3
  <2>9. c = i
    <3>1. c = IF i > Len(w[p][k]) + 1 THEN Len(w[p][k]) + 1 ELSE i BY DEF Panel!Clamp, Panel!Group
    <3> HIDE DEF w, c, i, k
    <3> QED BY <3>1, <2>7, <2>8, <1>2
  <2> DEFINE place == u[p][k]
  <2>12. n \in Panel!ToSet(place) /\ Panel!IndexIn(place, n) = c
    <3>1. n \in Panel!Nodes /\ t \in Panel!Trees BY <1>0, <1>1
    <3> HIDE DEF n, p, i, t
    <3> QED BY <3>1, <1>2, <2>2, <2>6, PutLands, ZenonT(60)
  <2>10. n \in Panel!ToSet(place) /\ Panel!IndexIn(place, n) = i
    <3> HIDE DEF c, i, place
    <3> QED BY <2>9, <2>12
  <2>11. Panel!Without(u, {n}) = Panel!Without(t, {n}) BY <1>0, <1>1, <1>2, <2>2, <2>6, PutAndTaken
  <2> QED BY <1>3, <2>4, <2>10, <2>11 DEF Panel!Lands, Panel!Group
<1>4. CASE g.kind # "row"
  <2>1. p = g.at /\ p \in Panel!Everywhere BY <1>1, <1>4, TargetIs DEF Panel!Everywhere
  <2>2. k \in {"folder", "bookmark"} BY DEF Panel!Kind
  <2>3. p \notin K BY <1>4, <2>1
  <2>4. p # Root => Panel!Visible(t, K, p) BY <1>1, <1>4, <2>1, TargetIs, Legal
  <2>5. Panel!countGroup(t, K, k, p) = Len(t[p][k]) BY <2>1, <2>2, <2>3, <2>4, OpenCounts, ZenonT(60)
  <2>6. call.plan = Panel!Move(n, p, TRUE, Len(t[p][k]) + 1)
    BY <1>1, <1>4, <2>1, <2>5 DEF Panel!planDrop
  <2>7. call.plan.parent = p /\ call.plan.changed /\ i = Len(t[p][k]) + 1
    <3> DEFINE l == Len(t[p][k]) + 1
    <3>1. call.plan = Panel!Move(n, p, TRUE, l) BY <2>6
    <3> HIDE DEF p, t, n, l, i
    <3>2. call.plan.parent = p /\ call.plan.changed /\ call.plan.position = l BY <3>1 DEF Panel!Move
    <3> QED BY <3>2 DEF i, l
  <2>8. Panel!TargetParent(call.plan) = p BY <2>7 DEF Panel!TargetParent
  <2>9. u = Panel!PutAt(t, n, p, i) BY <2>8 DEF Panel!Effect
  <2>10. c = Len(w[p][k]) + 1
    <3> DEFINE s == t[p][k]
    <3>1. c = IF i > Len(w[p][k]) + 1 THEN Len(w[p][k]) + 1 ELSE i BY DEF Panel!Clamp, Panel!Group
    <3>2. i = Len(s) + 1 BY <2>7
    <3>3. w[p][k] = Panel!Others(s, {n}) BY <1>0, <2>1, <2>2, WithoutRows
    <3>4. s \in Seq(PanelFolders) \/ s \in Seq(PanelBookmarks) BY <1>0, <2>1, <2>2, TreeIs
    <3>5. Panel!IsInjective(s) BY <1>0, <2>1, <2>2 DEF Panel!Forest
    <3> HIDE DEF s, w, i, k, c
    <3>6. Len(Panel!Others(s, {n})) <= Len(s) /\ Len(Panel!Others(s, {n})) \in Nat BY <3>4, <3>5, OthersLose
    <3>7. Len(s) \in Nat BY <3>4
    <3>8. PICK a \in Nat : a = Len(s) BY <3>7
    <3>9. PICK b \in Nat : b = Len(Panel!Others(s, {n})) BY <3>6
    <3>10. b <= a /\ i = a + 1 BY <3>2, <3>6, <3>8, <3>9
    <3>11. i > b + 1 \/ i = b + 1 BY <3>10
    <3>12. c = IF i > b + 1 THEN b + 1 ELSE i BY <3>1, <3>3, <3>9
    <3>13. c = b + 1 BY <3>11, <3>12
    <3> QED BY <3>3, <3>9, <3>13
  <2> DEFINE place == u[p][k]
  <2>13. n \in Panel!ToSet(place) /\ Panel!IndexIn(place, n) = c /\ Len(place) = Len(w[p][k]) + 1
    <3>1. n \in Panel!Nodes /\ t \in Panel!Trees BY <1>0, <1>1
    <3> HIDE DEF n, p, i, t
    <3> QED BY <3>1, <1>2, <2>1, <2>9, PutLands, ZenonT(60)
  <2>11. n \in Panel!ToSet(place) /\ Panel!IndexIn(place, n) = Len(place)
    <3> HIDE DEF c, w, p, k, n, place
    <3> QED BY <2>10, <2>13
  <2>12. Panel!Without(u, {n}) = Panel!Without(t, {n}) BY <1>0, <1>1, <1>2, <2>1, <2>9, PutAndTaken
  <2> QED BY <1>4, <2>1, <2>11, <2>12 DEF Panel!Lands, Panel!Group
<1> QED BY <1>3, <1>4

(* A drop made on the tree the server still has lands at the index of the   *)
(* row it was dropped on, or after everything in the open folder; nothing   *)
(* else has moved (treeModel.ts: planDrop; service.go: Update).             *)
THEOREM DropsLand == TreeSpec => LandsWhereDropped
<1>1. PanelInv /\ [TreeNext]_treeVars =>
        [\A call \in moves :
            Panel!Applied(call) /\ (call.target.at \in call.closed => call.target.kind = "row")
            => Panel!Lands(call, panelTree, panelTree')]_panelVars
  <2> SUFFICES ASSUME PanelInv, NEW call \in moves, Panel!Applied(call),
                      call.target.at \in call.closed => call.target.kind = "row"
               PROVE  Panel!Lands(call, panelTree, panelTree')
    OBVIOUS
  <2>1. panelTree' = Panel!Effect(call.plan) /\ call.plan.op = "move" /\ call.seen = panelTree
    BY DEF Panel!Applied, Panel!Serve, Panel!Apply
  <2>2. Whole(panelTree) /\ CallOk(call) BY DEF PanelInv
  <2> QED BY <2>1, <2>2, DropLands
<1> QED BY <1>1, PanelHolds, PTL DEF TreeSpec, treeVars, LandsWhereDropped, Panel!LandsWhereDropped, Panel!vars, panelVars
================================================================================
