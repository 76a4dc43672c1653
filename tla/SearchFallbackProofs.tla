------------------------ MODULE SearchFallbackProofs ------------------------
(***************************************************************************)
(* Theorems about SearchFallback, for any engines, any list of them and    *)
(* any failures: the order is faithful to the list, the answer to the      *)
(* attempts, and Node tries every engine.                                  *)
(***************************************************************************)
EXTENDS SearchFallback, SequenceTheorems, WellFoundedInduction, TLAPS

-----------------------------------------------------------------------------
(* Recursion along a sequence.  The induction theorems of the library take *)
(* an operator; these take a set and a function instead.                   *)

LEMMA LeastNatural ==
  ASSUME NEW T \in SUBSET Nat, T # {}
  PROVE  \E x \in T : \A y \in T : x <= y
<1>1. PICK x \in T : \A y \in T : ~(<<y, x>> \in OpToRel(<, Nat))
  BY NatLessThanWellFounded, WFMin
<1>2. \A y \in T : ~(y < x)
  BY <1>1, Zenon DEF OpToRel
<1> QED  BY <1>2

LEMMA Induction ==
  ASSUME NEW n \in Nat, NEW S, 0 \in S, \A k \in 1..n : k - 1 \in S => k \in S
  PROVE  \A k \in 0..n : k \in S
<1> DEFINE T == {k \in 0..n : k \notin S}
<1>1. SUFFICES ASSUME T # {}  PROVE FALSE
  OBVIOUS
<1>2. PICK x \in T : \A y \in T : x <= y
  <2>1. T \in SUBSET Nat
    OBVIOUS
  <2> QED  BY <1>1, <2>1, LeastNatural
<1>3. x \in 1..n /\ x - 1 \notin T /\ x - 1 \in 0..n
  BY <1>2
<1> QED  BY <1>2, <1>3

\* g is given at 0 and, from there on, by a step f from its predecessor.
Iterates(g, f, base, n) ==
    g = [k \in 0..n |-> IF k = 0 THEN base ELSE f[<<g[k - 1], k>>]]

\* There is such a function.
LEMMA Iteration ==
  ASSUME NEW X, NEW base \in X, NEW n \in Nat, NEW f \in [X \X (1..n) -> X]
  PROVE  \E g \in [0..n -> X] : Iterates(g, f, base, n)
<1> DEFINE Solves(g, m) ==
             /\ g \in [0..m -> X]
             /\ g[0] = base
             /\ \A k \in 1..m : g[k] = f[<<g[k - 1], k>>]
           S == {m \in 0..n : \E g : Solves(g, m)}
<1> HIDE DEF Solves
<1>1. 0 \in S
  <2> DEFINE h == [k \in {0} |-> base]
  <2>1. 0..0 = {0} /\ 1..0 = {}
    OBVIOUS
  <2>2. h \in [{0} -> X] /\ h[0] = base
    OBVIOUS
  <2>3. Solves(h, 0)
    BY <2>1, <2>2 DEF Solves
  <2> HIDE DEF h
  <2> QED  BY <2>3
<1>2. ASSUME NEW m \in 1..n, m - 1 \in S  PROVE m \in S
  <2>1. PICK g : Solves(g, m - 1)
    BY <1>2
  <2> DEFINE last == f[<<g[m - 1], m>>]
             h == [k \in 0..m |-> IF k = m THEN last ELSE g[k]]
  <2>2. /\ g \in [0..(m - 1) -> X] /\ g[0] = base
        /\ \A k \in 1..(m - 1) : g[k] = f[<<g[k - 1], k>>]
    BY <2>1 DEF Solves
  <2>3. m - 1 \in 0..(m - 1) /\ g[m - 1] \in X
    BY <2>2
  <2>4. last \in X
    BY <2>3
  <2>5. \A k \in 0..m : k # m => k \in 0..(m - 1)
    OBVIOUS
  <2>6. h \in [0..m -> X]
    <3> HIDE DEF last
    <3> QED  BY <2>2, <2>4, <2>5
  <2>7. h[0] = base
    BY <2>2
  <2>8. ASSUME NEW k \in 1..m  PROVE h[k] = f[<<h[k - 1], k>>]
    <3>1. k \in 0..m /\ k - 1 \in 0..m /\ k - 1 # m
      OBVIOUS
    <3>2. h[k - 1] = g[k - 1]
      <4> HIDE DEF last
      <4> QED  BY <3>1
    <3>3. CASE k = m
      <4>1. h[k] = last
        <5> HIDE DEF last
        <5> QED  BY <3>1, <3>3
      <4> HIDE DEF h
      <4> QED  BY <3>2, <3>3, <4>1
    <3>4. CASE k # m
      <4>1. h[k] = g[k] /\ k \in 1..(m - 1)
        <5> HIDE DEF last
        <5> QED  BY <3>1, <3>4
      <4> HIDE DEF h
      <4> QED  BY <2>2, <3>2, <4>1
    <3> QED  BY <3>3, <3>4
  <2> HIDE DEF h
  <2>9. Solves(h, m)
    BY <2>6, <2>7, <2>8 DEF Solves
  <2> QED  BY <2>9
<1>3. n \in S
  <2> HIDE DEF S
  <2>1. \A m \in 1..n : m - 1 \in S => m \in S
    BY <1>2
  <2> QED  BY <1>1, <2>1, Induction
<1>4. PICK g : Solves(g, n)
  BY <1>3
<1>5. g = [k \in 0..n |-> IF k = 0 THEN base ELSE f[<<g[k - 1], k>>]]
  <2>1. \A k \in 0..n : g[k] = IF k = 0 THEN base ELSE f[<<g[k - 1], k>>]
    BY <1>4 DEF Solves
  <2> QED  BY <1>4, <2>1 DEF Solves
<1> QED  BY <1>4, <1>5 DEF Solves, Iterates

-----------------------------------------------------------------------------
(* What the loops over the engines and over the links compute.             *)

\* Each element of s is in d, once, in the order of its first mention in s.
FirstMentions(d, s, n) ==
    /\ \A i \in DOMAIN d : \E a \in 1..n : s[a] = d[i]
    /\ \A a \in 1..n : \E i \in DOMAIN d : d[i] = s[a]
    /\ \A i, j \in DOMAIN d : i < j =>
         \E a \in 1..n : s[a] = d[i] /\ \A b \in 1..a : s[b] # d[j]

LEMMA Mentioned ==
  ASSUME NEW E, NEW s \in Seq(E), NEW n \in 1..Len(s), NEW d \in Seq(E),
         FirstMentions(d, s, n - 1)
  PROVE  LET after == IF Contains(d, s[n]) THEN d ELSE Append(d, s[n])
         IN  after \in Seq(E) /\ FirstMentions(after, s, n)
<1> DEFINE after == Append(d, s[n])
<1>1. /\ n \in Nat /\ s[n] \in E /\ n - 1 \in Nat /\ n \in 1..n
      /\ \A a \in 1..(n - 1) : a \in 1..n
      /\ \A a \in 1..n : a # n => a \in 1..(n - 1)
  OBVIOUS
<1>2. CASE Contains(d, s[n])
  <2>1. PICK i \in DOMAIN d : d[i] = s[n]
    BY <1>2 DEF Contains
  <2>2. FirstMentions(d, s, n)
    <3>1. \A a \in 1..n : \E j \in DOMAIN d : d[j] = s[a]
      BY <1>1, <2>1 DEF FirstMentions
    <3>2. ASSUME NEW j \in DOMAIN d, NEW l \in DOMAIN d, j < l
          PROVE  \E a \in 1..n : s[a] = d[j] /\ \A b \in 1..a : s[b] # d[l]
      BY <1>1, <3>2 DEF FirstMentions
    <3>3. \A j \in DOMAIN d : \E a \in 1..n : s[a] = d[j]
      BY <1>1 DEF FirstMentions
    <3> QED  BY <3>1, <3>2, <3>3 DEF FirstMentions
  <2> QED  BY <1>2, <2>2
<1>3. CASE ~Contains(d, s[n])
  <2>1. \A i \in DOMAIN d : d[i] # s[n]
    BY <1>3 DEF Contains
  <2>2. /\ after \in Seq(E) /\ Len(d) \in Nat
        /\ DOMAIN after = 1..(Len(d) + 1) /\ DOMAIN d = 1..Len(d)
        /\ Len(d) + 1 \in DOMAIN after
        /\ after[Len(d) + 1] = s[n]
        /\ \A i \in DOMAIN d : i \in DOMAIN after /\ after[i] = d[i]
        /\ \A i \in DOMAIN after : i # Len(d) + 1 => i \in DOMAIN d
    BY <1>1
  <2> HIDE DEF after
  <2>3. ASSUME NEW i \in DOMAIN after  PROVE \E a \in 1..n : s[a] = after[i]
    <3>1. CASE i = Len(d) + 1
      BY <1>1, <2>2, <3>1
    <3>2. CASE i # Len(d) + 1
      <4>1. PICK a \in 1..(n - 1) : s[a] = d[i]
        BY <2>2, <3>2 DEF FirstMentions
      <4> QED  BY <1>1, <2>2, <3>2, <4>1
    <3> QED  BY <3>1, <3>2
  <2>4. ASSUME NEW a \in 1..n  PROVE \E i \in DOMAIN after : after[i] = s[a]
    <3>1. CASE a = n
      BY <2>2, <3>1
    <3>2. CASE a # n
      <4>1. PICK i \in DOMAIN d : d[i] = s[a]
        BY <1>1, <3>2 DEF FirstMentions
      <4> QED  BY <2>2, <4>1
    <3> QED  BY <3>1, <3>2
  <2>5. ASSUME NEW i \in DOMAIN after, NEW j \in DOMAIN after, i < j
        PROVE  \E a \in 1..n : s[a] = after[i] /\ \A b \in 1..a : s[b] # after[j]
    <3>1. i \in DOMAIN d
      BY <2>2, <2>5
    <3>2. CASE j \in DOMAIN d
      <4>1. PICK a \in 1..(n - 1) : s[a] = d[i] /\ \A b \in 1..a : s[b] # d[j]
        BY <2>5, <3>1, <3>2 DEF FirstMentions
      <4> QED  BY <1>1, <2>2, <3>1, <3>2, <4>1
    <3>3. CASE j = Len(d) + 1
      <4>1. PICK a \in 1..(n - 1) : s[a] = d[i]
        BY <3>1 DEF FirstMentions
      <4>2. ASSUME NEW b \in 1..a  PROVE s[b] # s[n]
        <5>1. b \in 1..(n - 1)
          BY <1>1, <4>1
        <5>2. PICK k \in DOMAIN d : d[k] = s[b]
          BY <5>1 DEF FirstMentions
        <5> QED  BY <2>1, <5>2
      <4> QED  BY <1>1, <2>2, <3>1, <3>3, <4>1, <4>2
    <3> QED  BY <2>2, <3>2, <3>3
  <2>6. FirstMentions(after, s, n)
    BY <2>3, <2>4, <2>5 DEF FirstMentions
  <2> QED  BY <1>3, <2>2, <2>6 DEF after
<1> QED  BY <1>2, <1>3

\* unique keeps the first mention of each name.
LEMMA DistinctNames ==
  ASSUME NEW E, NEW s \in Seq(E)
  PROVE  /\ Distinct(s) \in Seq(E)
         /\ FirstMentions(Distinct(s), s, Len(s))
<1> DEFINE X == Seq(E)
           n == Len(s)
           Taken(out, k) == IF Contains(out, s[k]) THEN out
                            ELSE Append(out, s[k])
           Loop(g) == g = [k \in 0..n |-> IF k = 0 THEN <<>> ELSE Taken(g[k - 1], k)]
           out == CHOOSE g : Loop(g)
           f == [p \in X \X (1..n) |-> Taken(p[1], p[2])]
           S == {k \in 0..n : out[k] \in X /\ FirstMentions(out[k], s, k)}
<1>1. n \in Nat /\ \A k \in 1..n : s[k] \in E
  BY LenProperties, ElementOfSeq
<1>2. \A d \in X, k \in 1..n : Taken(d, k) \in X
  BY <1>1
<1>3. Distinct(s) = out[n]
  BY Zenon DEF Distinct
<1>4. <<>> \in X
  OBVIOUS
<1>5. f \in [X \X (1..n) -> X] /\ \A d \in X, k \in 1..n : f[<<d, k>>] = Taken(d, k)
  <2> HIDE DEF X, Taken, n
  <2> QED  BY <1>2
<1> HIDE DEF X, f, Taken, n
<1>6. \E g : Loop(g)
  <2>1. PICK g \in [0..n -> X] : Iterates(g, f, <<>>, n)
    BY <1>1, <1>4, <1>5, Iteration
  <2>2. ASSUME NEW k \in 0..n, k # 0  PROVE f[<<g[k - 1], k>>] = Taken(g[k - 1], k)
    <3>1. k \in 1..n /\ k - 1 \in 0..n
      BY <1>1, <2>2
    <3> QED  BY <1>5, <2>1, <3>1
  <2> QED  BY <2>1, <2>2 DEF Iterates
<1>7. Loop(out)
  <2> HIDE DEF Loop
  <2> QED  BY <1>6
<1> HIDE DEF out
<1>8. out[0] = <<>> /\ \A k \in 1..n : out[k] = Taken(out[k - 1], k)
  <2>1. \A k \in 1..n : k \in 0..n /\ k # 0
    BY <1>1
  <2> QED  BY <1>1, <1>7, <2>1
<1>9. 0 \in S
  <2>1. FirstMentions(<<>>, s, 0) /\ 0 \in 0..n
    BY <1>1 DEF FirstMentions
  <2> QED  BY <1>4, <1>8, <2>1
<1>10. ASSUME NEW k \in 1..n, k - 1 \in S  PROVE k \in S
  <2>1. out[k - 1] \in Seq(E) /\ FirstMentions(out[k - 1], s, k - 1)
    BY <1>10 DEF X
  <2>2. k \in 1..Len(s) /\ k \in 0..n
    BY <1>1 DEF n
  <2>3. Taken(out[k - 1], k) \in Seq(E) /\ FirstMentions(Taken(out[k - 1], k), s, k)
    BY <2>1, <2>2, Mentioned DEF Taken
  <2> QED  BY <1>8, <2>2, <2>3 DEF X
<1>11. n \in S
  <2> HIDE DEF S
  <2>1. \A k \in 1..n : k - 1 \in S => k \in S
    BY <1>10
  <2>2. n \in 0..n
    BY <1>1
  <2> QED  BY <1>1, <1>9, <2>1, <2>2, Induction
<1> QED  BY <1>3, <1>11 DEF X, n

\* r is a selection from d, in the order of d: all of it but Google.
Selection(r, d, n) ==
    /\ \A i \in DOMAIN r : \E p \in 1..n : r[i] = d[p] /\ d[p] # "google"
    /\ \A p \in 1..n : d[p] # "google" => \E i \in DOMAIN r : r[i] = d[p]
    /\ \A i, j \in DOMAIN r : i < j =>
         \E p, q \in 1..n : p < q /\ r[i] = d[p] /\ r[j] = d[q]

LEMMA Selected ==
  ASSUME NEW E, NEW d \in Seq(E), NEW n \in 1..Len(d), NEW r \in Seq(E),
         Selection(r, d, n - 1)
  PROVE  LET after == IF d[n] # "google" THEN Append(r, d[n]) ELSE r
         IN  after \in Seq(E) /\ Selection(after, d, n)
<1> DEFINE after == Append(r, d[n])
<1>1. /\ n \in Nat /\ d[n] \in E /\ n - 1 \in Nat /\ n \in 1..n
      /\ \A a \in 1..(n - 1) : a \in 1..n /\ a < n
      /\ \A a \in 1..n : a # n => a \in 1..(n - 1)
  OBVIOUS
<1>2. CASE d[n] = "google"
  <2>1. \A i \in DOMAIN r : \E p \in 1..n : r[i] = d[p] /\ d[p] # "google"
    BY <1>1 DEF Selection
  <2>2. \A p \in 1..n : d[p] # "google" => \E i \in DOMAIN r : r[i] = d[p]
    BY <1>1, <1>2 DEF Selection
  <2>3. ASSUME NEW i \in DOMAIN r, NEW j \in DOMAIN r, i < j
        PROVE  \E p, q \in 1..n : p < q /\ r[i] = d[p] /\ r[j] = d[q]
    BY <1>1, <2>3 DEF Selection
  <2> QED  BY <1>2, <2>1, <2>2, <2>3 DEF Selection
<1>3. CASE d[n] # "google"
  <2>1. /\ after \in Seq(E) /\ Len(r) \in Nat
        /\ DOMAIN after = 1..(Len(r) + 1) /\ DOMAIN r = 1..Len(r)
        /\ Len(r) + 1 \in DOMAIN after
        /\ after[Len(r) + 1] = d[n]
        /\ \A i \in DOMAIN r : i \in DOMAIN after /\ after[i] = r[i]
        /\ \A i \in DOMAIN after : i # Len(r) + 1 => i \in DOMAIN r
    BY <1>1
  <2> HIDE DEF after
  <2>2. ASSUME NEW i \in DOMAIN after
        PROVE  \E p \in 1..n : after[i] = d[p] /\ d[p] # "google"
    <3>1. CASE i = Len(r) + 1
      BY <1>1, <1>3, <2>1, <3>1
    <3>2. CASE i # Len(r) + 1
      <4>1. PICK p \in 1..(n - 1) : r[i] = d[p] /\ d[p] # "google"
        BY <2>1, <3>2 DEF Selection
      <4> QED  BY <1>1, <2>1, <3>2, <4>1
    <3> QED  BY <3>1, <3>2
  <2>3. ASSUME NEW p \in 1..n, d[p] # "google"
        PROVE  \E i \in DOMAIN after : after[i] = d[p]
    <3>1. CASE p = n
      BY <2>1, <3>1
    <3>2. CASE p # n
      <4>1. PICK i \in DOMAIN r : r[i] = d[p]
        BY <1>1, <2>3, <3>2 DEF Selection
      <4> QED  BY <2>1, <4>1
    <3> QED  BY <3>1, <3>2
  <2>4. ASSUME NEW i \in DOMAIN after, NEW j \in DOMAIN after, i < j
        PROVE  \E p, q \in 1..n : p < q /\ after[i] = d[p] /\ after[j] = d[q]
    <3>1. i \in DOMAIN r
      BY <2>1, <2>4
    <3>2. CASE j = Len(r) + 1
      <4>1. PICK p \in 1..(n - 1) : r[i] = d[p]
        BY <3>1 DEF Selection
      <4> QED  BY <1>1, <2>1, <3>1, <3>2, <4>1
    <3>3. CASE j # Len(r) + 1
      <4>1. PICK p \in 1..(n - 1), q \in 1..(n - 1) :
              p < q /\ r[i] = d[p] /\ r[j] = d[q]
        BY <2>1, <2>4, <3>1, <3>3 DEF Selection
      <4> QED  BY <1>1, <2>1, <3>1, <3>3, <4>1
    <3> QED  BY <3>2, <3>3
  <2>5. Selection(after, d, n)
    BY <2>2, <2>3, <2>4 DEF Selection
  <2> QED  BY <1>3, <2>1, <2>5 DEF after
<1> QED  BY <1>2, <1>3

\* The filter of enforceGoogleLast takes Google out and moves nothing.
LEMMA GoogleTakenOut ==
  ASSUME NEW E, NEW d \in Seq(E)
  PROVE  /\ WithoutGoogle(d) \in Seq(E)
         /\ Selection(WithoutGoogle(d), d, Len(d))
<1> DEFINE X == Seq(E)
           n == Len(d)
           Taken(out, k) == IF d[k] # "google" THEN Append(out, d[k]) ELSE out
           Loop(g) == g = [k \in 0..n |-> IF k = 0 THEN <<>> ELSE Taken(g[k - 1], k)]
           out == CHOOSE g : Loop(g)
           f == [p \in X \X (1..n) |-> Taken(p[1], p[2])]
           S == {k \in 0..n : out[k] \in X /\ Selection(out[k], d, k)}
<1>1. n \in Nat /\ \A k \in 1..n : d[k] \in E
  BY LenProperties, ElementOfSeq
<1>2. \A r \in X, k \in 1..n : Taken(r, k) \in X
  BY <1>1
<1>3. WithoutGoogle(d) = out[n]
  BY Zenon DEF WithoutGoogle
<1>4. <<>> \in X
  OBVIOUS
<1>5. f \in [X \X (1..n) -> X] /\ \A r \in X, k \in 1..n : f[<<r, k>>] = Taken(r, k)
  <2> HIDE DEF X, Taken, n
  <2> QED  BY <1>2
<1> HIDE DEF X, f, Taken, n
<1>6. \E g : Loop(g)
  <2>1. PICK g \in [0..n -> X] : Iterates(g, f, <<>>, n)
    BY <1>1, <1>4, <1>5, Iteration
  <2>2. ASSUME NEW k \in 0..n, k # 0  PROVE f[<<g[k - 1], k>>] = Taken(g[k - 1], k)
    <3>1. k \in 1..n /\ k - 1 \in 0..n
      BY <1>1, <2>2
    <3> QED  BY <1>5, <2>1, <3>1
  <2> QED  BY <2>1, <2>2 DEF Iterates
<1>7. Loop(out)
  <2> HIDE DEF Loop
  <2> QED  BY <1>6
<1> HIDE DEF out
<1>8. out[0] = <<>> /\ \A k \in 1..n : out[k] = Taken(out[k - 1], k)
  <2>1. \A k \in 1..n : k \in 0..n /\ k # 0
    BY <1>1
  <2> QED  BY <1>1, <1>7, <2>1
<1>9. 0 \in S
  <2>1. Selection(<<>>, d, 0) /\ 0 \in 0..n
    BY <1>1 DEF Selection
  <2> QED  BY <1>4, <1>8, <2>1
<1>10. ASSUME NEW k \in 1..n, k - 1 \in S  PROVE k \in S
  <2>1. out[k - 1] \in Seq(E) /\ Selection(out[k - 1], d, k - 1)
    BY <1>10 DEF X
  <2>2. k \in 1..Len(d) /\ k \in 0..n
    BY <1>1 DEF n
  <2>3. Taken(out[k - 1], k) \in Seq(E) /\ Selection(Taken(out[k - 1], k), d, k)
    BY <2>1, <2>2, Selected DEF Taken
  <2> QED  BY <1>8, <2>2, <2>3 DEF X
<1>11. n \in S
  <2> HIDE DEF S
  <2>1. \A k \in 1..n : k - 1 \in S => k \in S
    BY <1>10
  <2>2. n \in 0..n
    BY <1>1
  <2> QED  BY <1>1, <1>9, <2>1, <2>2, Induction
<1> QED  BY <1>3, <1>11 DEF X, n

\* Links that may be returned: pages of the web, each once, not too many.
Returnable(links) ==
    /\ links \in Seq(Links) /\ IsInjective(links) /\ Len(links) <= MaxResults
    /\ \A i \in DOMAIN links : Http(links[i])

\* normalizeSearchResults looks for repetitions, and tests the scheme again,
\* among the links as resolved.
LEMMA ResultsReturnable ==
  ASSUME NEW engine, NEW raw \in Seq(Links), MaxResults \in Nat
  PROVE  Returnable(NormalizeSearchResults(engine, raw))
<1> DEFINE X == Seq(Links)
           n == Len(raw)
           url(k) == DecodeSearchResultUrl(engine, raw[k])
           Taken(out, k) == IF \/ Len(out) >= MaxResults
                               \/ ~Http(raw[k]) \/ ~Http(url(k))
                               \/ Contains(out, url(k))
                              THEN out
                            ELSE Append(out, url(k))
           Loop(g) == g = [k \in 0..n |-> IF k = 0 THEN <<>> ELSE Taken(g[k - 1], k)]
           out == CHOOSE g : Loop(g)
           f == [p \in X \X (1..n) |-> Taken(p[1], p[2])]
           S == {k \in 0..n : Returnable(out[k])}
<1>1. n \in Nat /\ \A k \in 1..n : raw[k] \in Links
  BY LenProperties, ElementOfSeq
<1>12. \A k \in 1..n : url(k) \in Links
  BY <1>1 DEF DecodeSearchResultUrl, Links
<1>2. \A links \in X, k \in 1..n : Taken(links, k) \in X
  <2> HIDE DEF url, n
  <2> QED  BY <1>12
<1>3. NormalizeSearchResults(engine, raw) = out[n]
  BY Zenon DEF NormalizeSearchResults
<1>4. <<>> \in X
  OBVIOUS
<1>5. f \in [X \X (1..n) -> X] /\ \A links \in X, k \in 1..n : f[<<links, k>>] = Taken(links, k)
  <2> HIDE DEF X, Taken, n
  <2> QED  BY <1>2
<1> HIDE DEF X, f, Taken, n, url
<1>6. \E g : Loop(g)
  <2>1. PICK g \in [0..n -> X] : Iterates(g, f, <<>>, n)
    BY <1>1, <1>4, <1>5, Iteration
  <2>2. ASSUME NEW k \in 0..n, k # 0  PROVE f[<<g[k - 1], k>>] = Taken(g[k - 1], k)
    <3>1. k \in 1..n /\ k - 1 \in 0..n
      BY <1>1, <2>2
    <3> QED  BY <1>5, <2>1, <3>1
  <2> QED  BY <2>1, <2>2 DEF Iterates
<1>7. Loop(out)
  <2> HIDE DEF Loop
  <2> QED  BY <1>6
<1> HIDE DEF out
<1>8. out[0] = <<>> /\ \A k \in 1..n : out[k] = Taken(out[k - 1], k)
  <2>1. \A k \in 1..n : k \in 0..n /\ k # 0
    BY <1>1
  <2> QED  BY <1>1, <1>7, <2>1
<1>9. 0 \in S
  <2>1. Returnable(<<>>) /\ 0 \in 0..n
    BY <1>1 DEF Returnable, IsInjective
  <2> QED  BY <1>8, <2>1
<1>10. ASSUME NEW k \in 1..n, k - 1 \in S  PROVE k \in S
  <2> DEFINE before == out[k - 1]
  <2>1. Returnable(before) /\ url(k) \in Links
    BY <1>10, <1>12
  <2> HIDE DEF before
  <2>2. Returnable(Taken(before, k))
    <3>1. CASE /\ Len(before) < MaxResults /\ ~Contains(before, url(k))
               /\ Http(raw[k]) /\ Http(url(k))
      <4>1. \A i \in DOMAIN before : before[i] # url(k)
        BY <2>1, <3>1 DEF Returnable, Contains
      <4>2. Returnable(Append(before, url(k)))
        BY <2>1, <3>1, <4>1 DEF Returnable, IsInjective
      <4> QED  BY <2>1, <4>2 DEF Taken
    <3>2. CASE \/ Len(before) >= MaxResults \/ Contains(before, url(k))
               \/ ~Http(raw[k]) \/ ~Http(url(k))
      BY <2>1, <3>2 DEF Taken
    <3>3. Len(before) \in Nat
      BY <2>1 DEF Returnable
    <3> QED  BY <3>1, <3>2, <3>3
  <2> QED  BY <1>1, <1>8, <2>2 DEF before
<1>11. n \in S
  <2> HIDE DEF S
  <2>1. \A k \in 1..n : k - 1 \in S => k \in S
    BY <1>10
  <2>2. n \in 0..n
    BY <1>1
  <2> QED  BY <1>1, <1>9, <2>1, <2>2, Induction
<1> QED  BY <1>3, <1>11

\* What OrderIsFaithful says of an order o of the list s.
Faithful(o, s) ==
    /\ Last(o) = "google"
    /\ Range(o) = Range(s) \cup {"google"}
    /\ IsInjective(o)
    /\ \A i, j \in 1..(Len(o) - 1) : i < j =>
         \E a \in DOMAIN s :
           /\ s[a] = o[i]
           /\ \A b \in 1..a : s[b] # o[j]

\* enforceGoogleLast keeps the order of the names and puts Google last.
LEMMA GoogleLast ==
  ASSUME NEW E, "google" \in E, NEW s \in Seq(E)
  PROVE  /\ EnforceGoogleLast(s) \in Seq(E) \ {<<>>}
         /\ Faithful(EnforceGoogleLast(s), s)
<1> DEFINE d == Distinct(s)
           r == WithoutGoogle(d)
           o == Append(r, "google")
<1>1. /\ d \in Seq(E) /\ FirstMentions(d, s, Len(s))
      /\ Len(s) \in Nat /\ DOMAIN s = 1..Len(s)
  BY DistinctNames
<1>2. /\ r \in Seq(E) /\ Selection(r, d, Len(d))
      /\ Len(d) \in Nat /\ DOMAIN d = 1..Len(d)
  BY <1>1, GoogleTakenOut
<1>3. EnforceGoogleLast(s) = o
  BY DEF EnforceGoogleLast
<1> HIDE DEF r, d
<1>4. /\ o \in Seq(E) \ {<<>>} /\ Len(r) \in Nat /\ Len(o) = Len(r) + 1
      /\ DOMAIN o = 1..(Len(r) + 1) /\ DOMAIN r = 1..Len(r)
      /\ Len(r) + 1 \in DOMAIN o
      /\ o[Len(r) + 1] = "google"
      /\ \A i \in DOMAIN r : i \in DOMAIN o /\ o[i] = r[i]
      /\ \A i \in DOMAIN o : i # Len(r) + 1 => i \in DOMAIN r
  BY <1>2
<1> HIDE DEF o
<1>5. ASSUME NEW i \in DOMAIN r
      PROVE  r[i] # "google" /\ \E a \in DOMAIN s : s[a] = r[i]
  <2>1. PICK p \in 1..Len(d) : r[i] = d[p] /\ d[p] # "google"
    BY <1>2 DEF Selection
  <2>2. PICK a \in 1..Len(s) : s[a] = d[p]
    BY <1>1, <1>2, <2>1 DEF FirstMentions
  <2> QED  BY <1>1, <2>1, <2>2
<1>6. ASSUME NEW i \in DOMAIN r, NEW j \in DOMAIN r, i < j
      PROVE  \E a \in DOMAIN s : s[a] = r[i] /\ \A b \in 1..a : s[b] # r[j]
  <2>1. PICK p \in 1..Len(d), q \in 1..Len(d) : p < q /\ r[i] = d[p] /\ r[j] = d[q]
    BY <1>2, <1>6 DEF Selection
  <2>2. PICK a \in 1..Len(s) : s[a] = d[p] /\ \A b \in 1..a : s[b] # d[q]
    BY <1>1, <1>2, <2>1 DEF FirstMentions
  <2> QED  BY <1>1, <2>1, <2>2
<1>7. ASSUME NEW a \in DOMAIN s, s[a] # "google"
      PROVE  \E i \in DOMAIN r : r[i] = s[a]
  <2>1. PICK p \in 1..Len(d) : d[p] = s[a]
    BY <1>1, <1>2 DEF FirstMentions
  <2> QED  BY <1>2, <1>7, <2>1 DEF Selection
<1>8. Last(o) = "google"
  BY <1>4 DEF Last
<1>9. Range(o) = Range(s) \cup {"google"}
  <2>1. ASSUME NEW i \in DOMAIN o  PROVE o[i] \in Range(s) \cup {"google"}
    <3>1. CASE i \in DOMAIN r
      BY <1>4, <1>5, <3>1 DEF Range
    <3> QED  BY <1>4, <3>1
  <2>2. ASSUME NEW a \in DOMAIN s  PROVE \E i \in DOMAIN o : o[i] = s[a]
    <3>1. CASE s[a] # "google"
      <4>1. PICK i \in DOMAIN r : r[i] = s[a]
        BY <1>7, <3>1
      <4> QED  BY <1>4, <4>1
    <3> QED  BY <1>4, <3>1
  <2> QED  BY <1>4, <2>1, <2>2 DEF Range
<1>10. ASSUME NEW i \in DOMAIN o, NEW j \in DOMAIN o, i < j  PROVE o[i] # o[j]
  <2>1. i \in DOMAIN r
    BY <1>4, <1>10
  <2>2. CASE j \in DOMAIN r
    <3>1. PICK a \in DOMAIN s : s[a] = r[i] /\ \A b \in 1..a : s[b] # r[j]
      BY <1>6, <1>10, <2>1, <2>2
    <3>2. a \in 1..a
      BY <1>1, <3>1
    <3> QED  BY <1>4, <2>1, <2>2, <3>1, <3>2
  <2> QED  BY <1>4, <1>5, <2>1, <2>2
<1>11. IsInjective(o)
  <2>1. ASSUME NEW i \in DOMAIN o, NEW j \in DOMAIN o, i # j  PROVE o[i] # o[j]
    <3>1. i < j \/ j < i
      BY <1>4, <2>1
    <3> QED  BY <1>10, <3>1
  <2> QED  BY <2>1 DEF IsInjective
<1>12. ASSUME NEW i \in 1..(Len(o) - 1), NEW j \in 1..(Len(o) - 1), i < j
       PROVE  \E a \in DOMAIN s : s[a] = o[i] /\ \A b \in 1..a : s[b] # o[j]
  <2>1. i \in DOMAIN r /\ j \in DOMAIN r
    BY <1>4
  <2> QED  BY <1>4, <1>6, <1>12, <2>1
<1>13. Faithful(o, s)
  BY <1>8, <1>9, <1>11, <1>12 DEF Faithful
<1> QED  BY <1>3, <1>4, <1>13

-----------------------------------------------------------------------------
(* The inductive invariant of a search.                                    *)

\* The engines are in the order enforceGoogleLast gives them, from acceptance
\* to the answer.
InPlace ==
    /\ engines # <<>> => Faithful(engines, listed)
    /\ engines = <<>> => step \in {"received", "answered"} /\ attempts = <<>>
    /\ step \in {"received", "accepted"} => attempts = <<>>
    /\ step = "received" => engines = <<>>

\* The attempts are those on the engines before the one at hand, all in vain,
\* until an engine is selected; then the last is its own and says what it found.
Trail ==
    /\ \A i \in DOMAIN attempts :
         /\ attempts[i].engine = engines[i]
         /\ attempts[i].reason = "ok" => i = Len(attempts) /\ selected # None
    /\ selected = None => results = <<>> /\ Len(attempts) = next - 1
    /\ selected # None =>
         /\ step \in {"tried", "answered"}
         /\ next <= Len(engines) /\ Len(attempts) = next
         /\ attempts[next].engine = selected /\ attempts[next].reason = "ok"
         /\ attempts[next].resultCount = Len(results)
         /\ results # <<>> /\ Returnable(results)

\* The loop is left when an engine is selected or none remains, or by an error
\* that is no engine's on Node and ends the search on Rust.
Ending ==
    /\ step \in {"loaded", "settled", "inspected"} => next <= Len(engines)
    /\ (step = "tried" /\ selected = None) => next = Len(engines) + 1
    /\ answer # None => step = "answered"
    /\ (step = "answered" /\ selected = None) =>
         \/ Len(attempts) = Len(engines)
         \/ answer # "ok" /\ (runtime = "rust" \/ attempts = <<>>)

SearchInv == TypeOK /\ InPlace /\ Trail /\ Ending

LEMMA SearchInit ==
  ASSUME Init
  PROVE  SearchInv
<1>1. listed \in Seq(Engines \cup {Unknown})
  <2>1. PICK n \in 1..MaxListed : listed \in [1..n -> Engines \cup {Unknown}]
    BY DEF Init
  <2> QED  BY <2>1, SeqDef, SearchFallbackAssumption
<1>2. <<>> \in Seq(Engines) /\ <<>> \in Seq(Links) /\ Len(<<>>) = 0
      /\ <<>> \in Seq(Attempt)
  OBVIOUS
<1>3. TypeOK
  BY <1>1, <1>2 DEF Init, TypeOK
<1> QED  BY <1>2, <1>3
         DEF SearchInv, InPlace, Trail, Ending, Init

\* An attempt in vain on the engine at hand.
LEMMA RecordedStep ==
  ASSUME SearchInv, next <= Len(engines),
         step \in {"trying", "loaded", "settled", "inspected"},
         NEW reason \in {"no_results", "blocked", "error"}, NEW count \in 0..MaxResults,
         Record(reason, count)
  PROVE  SearchInv'
<1> DEFINE new == [ engine |-> engines[next], reason |-> reason,
                    resultCount |-> count, shown |-> page ]
<1>1. /\ attempts' = Append(attempts, new) /\ next' = next + 1 /\ page' = None
      /\ step' = "trying"
      /\ UNCHANGED <<runtime, listed, engines, selected, results, answer>>
  BY DEF Record, Engine
<1>2. /\ next \in Nat \ {0} /\ engines \in Seq(Engines) /\ engines # <<>>
      /\ attempts \in Seq(Attempt) /\ selected = None
      /\ Len(attempts) = next - 1 /\ next \in DOMAIN engines
      /\ Len(engines) \in Nat
  BY DEF SearchInv, TypeOK, Trail
<1>3. new \in Attempt
  BY <1>2 DEF SearchInv, TypeOK, Attempt
<1>4. /\ attempts' \in Seq(Attempt) /\ Len(attempts') = next
      /\ DOMAIN attempts' = 1..next /\ attempts'[next] = new
      /\ \A i \in DOMAIN attempts : attempts'[i] = attempts[i]
      /\ \A i \in 1..next : i # next => i \in DOMAIN attempts
  <2> HIDE DEF new
  <2> QED  BY <1>1, <1>2, <1>3
<1>5. TypeOK'
  BY <1>1, <1>2, <1>4 DEF SearchInv, TypeOK
<1>6. InPlace'
  BY <1>1, <1>2 DEF SearchInv, InPlace, Faithful
<1>7. Trail'
  BY <1>1, <1>2, <1>4 DEF SearchInv, Trail
<1>8. Ending'
  BY <1>1, <1>2 DEF SearchInv, Ending
<1> QED  BY <1>5, <1>6, <1>7, <1>8 DEF SearchInv

\* The steps that leave the order and the attempts alone.
LEMMA SameAttempts ==
  ASSUME SearchInv, UNCHANGED <<runtime, listed, engines, next, attempts, selected, results>>,
         step \notin {"received", "answered"}, step' \notin {"received", "accepted"},
         page' \in Pages \cup {None},
         step' \in {"trying", "loaded", "settled", "inspected", "tried", "answered"},
         answer' \in {None, "ok", "BROWSER_LAUNCH", "UPSTREAM_REQUEST"},
         step = "tried" => step' = "answered",
         Ending'
  PROVE  SearchInv'
<1>1. TypeOK'
  BY DEF SearchInv, TypeOK
<1>2. InPlace'
  BY DEF SearchInv, InPlace, Faithful
<1>3. Trail'
  BY DEF SearchInv, Trail, Returnable
<1> QED  BY <1>1, <1>2, <1>3 DEF SearchInv

LEMMA FailsHereStep ==
  ASSUME SearchInv, FailsHere,
         step \in {"loaded", "settled", "inspected"}
  PROVE  SearchInv'
<1>1. next <= Len(engines) /\ 0 \in 0..MaxResults
  BY SearchFallbackAssumption DEF SearchInv, Ending
<1>2. CASE runtime = "js" /\ Record("error", 0)
  BY <1>1, <1>2, RecordedStep
<1>3. CASE runtime = "rust" /\ Abort
  <2>1. Ending'
    BY <1>3 DEF SearchInv, Ending, Abort
  <2> QED  BY <1>3, <2>1, SameAttempts DEF SearchInv, TypeOK, Abort
<1> QED  BY <1>2, <1>3 DEF FailsHere

LEMMA NormalizeStep ==
  ASSUME SearchInv, Normalize
  PROVE  SearchInv'
<1>1. /\ step = "received" /\ engines = <<>> /\ attempts = <<>>
      /\ selected = None /\ results = <<>> /\ next = 1 /\ answer = None
  BY DEF Normalize, SearchInv, InPlace, Trail, Ending, TypeOK
<1>2. CASE Supported(listed)
  <2>1. /\ engines' = EnforceGoogleLast(listed) /\ step' = "accepted"
        /\ UNCHANGED <<runtime, listed, next, page, attempts, selected, results, answer>>
    BY <1>2 DEF Normalize
  <2>2. listed \in Seq(Engines) /\ "google" \in Engines
    <3>1. listed \in Seq(Engines \cup {Unknown})
      BY DEF SearchInv, TypeOK
    <3>2. \A i \in 1..Len(listed) : listed[i] \in Engines
      BY <1>2, <3>1 DEF Supported, Range
    <3> QED  BY <3>1, <3>2, SeqDef, SearchFallbackAssumption
  <2>3. engines' \in Seq(Engines) \ {<<>>} /\ Faithful(engines', listed)
    BY <2>1, <2>2, GoogleLast
  <2>4. TypeOK'
    <3>1. next' \in 1..(Len(engines') + 1)
      BY <1>1, <2>1, <2>3
    <3> QED  BY <2>1, <2>3, <3>1 DEF SearchInv, TypeOK
  <2>5. InPlace' /\ Trail' /\ Ending'
    BY <1>1, <2>1, <2>3 DEF SearchInv, InPlace, Trail, Ending
  <2> QED  BY <2>4, <2>5 DEF SearchInv
<1>3. CASE ~Supported(listed)
  <2>1. /\ step' = "answered" /\ answer' = "invalid_request"
        /\ UNCHANGED <<runtime, listed, engines, next, page, attempts, selected, results>>
    BY <1>3 DEF Normalize
  <2>2. TypeOK'
    BY <2>1 DEF SearchInv, TypeOK
  <2>3. InPlace' /\ Trail' /\ Ending'
    BY <1>1, <2>1 DEF SearchInv, InPlace, Trail, Ending
  <2> QED  BY <2>2, <2>3 DEF SearchInv
<1> QED  BY <1>2, <1>3

LEMMA ExtractStep ==
  ASSUME SearchInv, Extract
  PROVE  SearchInv'
<1>1. PICK raw \in IF page = "results" THEN BoundedSeq(Links, MaxResults)
                   ELSE {<<>>} :
        LET links == NormalizeSearchResults(Engine, raw) IN
        IF Finds(links)
          THEN /\ attempts' = Append(attempts,
                    [ engine |-> Engine, reason |-> "ok",
                      resultCount |-> Len(links), shown |-> page ])
               /\ selected' = Engine
               /\ results' = links
               /\ step' = "tried"
               /\ UNCHANGED <<runtime, listed, engines, next, page, answer>>
          ELSE Record("no_results", Len(links))
  BY DEF Extract
<1> DEFINE links == NormalizeSearchResults(Engine, raw)
<1>2. Returnable(links) /\ Len(links) \in 0..MaxResults
  <2>1. raw \in Seq(Links)
    <3>1. CASE page = "results"
      <4>1. PICK m \in 0..MaxResults : raw \in [1..m -> Links]
        BY <1>1, <3>1 DEF BoundedSeq, SeqOf
      <4> QED  BY <4>1, SeqDef, SearchFallbackAssumption
    <3>2. CASE page # "results"
      BY <1>1, <3>2
    <3> QED  BY <3>1, <3>2
  <2>2. Returnable(links)
    BY <2>1, ResultsReturnable, SearchFallbackAssumption
  <2> QED  BY <2>2, SearchFallbackAssumption DEF Returnable
<1> HIDE DEF links
<1>3. step = "inspected" /\ next <= Len(engines)
  BY DEF SearchInv, Ending, Extract
<1>4. CASE ~Finds(links)
  BY <1>1, <1>2, <1>3, <1>4, RecordedStep DEF links
<1>5. CASE Finds(links)
  <2> DEFINE new == [ engine |-> engines[next], reason |-> "ok",
                      resultCount |-> Len(links), shown |-> page ]
  <2>1. /\ attempts' = Append(attempts, new) /\ selected' = engines[next]
        /\ results' = links /\ step' = "tried" /\ links # <<>>
        /\ UNCHANGED <<runtime, listed, engines, next, page, answer>>
    BY <1>1, <1>5 DEF links, Engine, Finds
  <2>2. /\ next \in Nat \ {0} /\ engines \in Seq(Engines) /\ engines # <<>>
        /\ attempts \in Seq(Attempt) /\ selected = None
        /\ Len(attempts) = next - 1 /\ next \in DOMAIN engines
        /\ Len(engines) \in Nat /\ engines[next] \in Engines
    BY <1>3 DEF SearchInv, TypeOK, Trail
  <2>3. new \in Attempt
    BY <1>2, <2>2 DEF SearchInv, TypeOK, Attempt
  <2>4. /\ attempts' \in Seq(Attempt) /\ Len(attempts') = next
        /\ DOMAIN attempts' = 1..next /\ attempts'[next] = new
        /\ \A i \in DOMAIN attempts : attempts'[i] = attempts[i]
        /\ \A i \in 1..next : i # next => i \in DOMAIN attempts
    <3> HIDE DEF new
    <3> QED  BY <2>1, <2>2, <2>3
  <2>5. selected' # None
    BY <2>1, <2>2, SearchFallbackAssumption
  <2>6. TypeOK'
    BY <1>2, <2>1, <2>2, <2>4 DEF SearchInv, TypeOK, Returnable
  <2>7. InPlace'
    BY <2>1, <2>2 DEF SearchInv, InPlace, Faithful
  <2>8. Trail'
    BY <1>2, <1>3, <2>1, <2>2, <2>4, <2>5 DEF SearchInv, Trail, Returnable
  <2>9. Ending'
    BY <1>3, <2>1, <2>5 DEF SearchInv, Ending
  <2> QED  BY <2>6, <2>7, <2>8, <2>9 DEF SearchInv
<1> QED  BY <1>4, <1>5

LEMMA SearchStep ==
  ASSUME SearchInv, [Next]_vars
  PROVE  SearchInv'
<1>1. CASE UNCHANGED vars
  BY <1>1 DEF SearchInv, TypeOK, InPlace, Trail, Ending, Faithful, Returnable,
              vars
<1>2. CASE Normalize
  BY <1>2, NormalizeStep
<1>3. CASE Extract
  BY <1>3, ExtractStep
<1>4. CASE LoadFails
  <2>1. 0 \in 0..MaxResults
    BY SearchFallbackAssumption
  <2> QED  BY <1>4, <2>1, RecordedStep DEF LoadFails
<1>5. CASE SettleFails \/ InspectFails \/ ExtractFails
  BY <1>5, FailsHereStep
     DEF SettleFails, InspectFails, ExtractFails
<1>6. CASE Skip
  <2>1. 0 \in 0..MaxResults /\ next <= Len(engines)
    BY <1>6, SearchFallbackAssumption DEF Skip, SearchInv, Ending
  <2> QED  BY <1>6, <2>1, RecordedStep DEF Skip
<1>7. CASE Open
  <2>1. Ending'
    BY <1>7 DEF Open, SearchInv, Ending, InPlace, TypeOK
  <2> QED  BY <1>7, <2>1, SameAttempts DEF Open, SearchInv, TypeOK, Ending
<1>8. CASE Load
  <2>1. Ending'
    BY <1>8 DEF Load, SearchInv, Ending
  <2> QED  BY <1>8, <2>1, SameAttempts DEF Load, SearchInv, TypeOK, Ending
<1>9. CASE CookiesFail
  <2>1. Ending'
    BY <1>9 DEF CookiesFail, Abort, SearchInv, Ending
  <2> QED  BY <1>9, <2>1, SameAttempts
           DEF CookiesFail, Abort, SearchInv, TypeOK
<1>10. CASE Settle
  <2>1. Ending'
    BY <1>10 DEF Settle, SearchInv, Ending
  <2> QED  BY <1>10, <2>1, SameAttempts DEF Settle, SearchInv, TypeOK, Ending
<1>11. CASE Inspect
  <2>1. Ending'
    BY <1>11 DEF Inspect, SearchInv, Ending
  <2> QED  BY <1>11, <2>1, SameAttempts DEF Inspect, SearchInv, TypeOK, Ending
<1>12. CASE Exhausted
  <2>1. selected = None /\ next = Len(engines) + 1
    BY <1>12 DEF Exhausted, SearchInv, Trail, TypeOK
  <2>2. Ending'
    BY <1>12, <2>1 DEF Exhausted, SearchInv, Ending
  <2> QED  BY <1>12, <2>2, SameAttempts DEF Exhausted, SearchInv, TypeOK, Ending
<1>13. CASE Answer
  <2>1. selected = None => Len(attempts) = Len(engines)
    BY <1>13 DEF Answer, SearchInv, Trail, Ending, TypeOK
  <2>2. Ending'
    BY <1>13, <2>1 DEF Answer, SearchInv, Ending
  <2> QED  BY <1>13, <2>2, SameAttempts DEF Answer, SearchInv, TypeOK
<1> QED  BY <1>1, <1>2, <1>3, <1>4, <1>5, <1>6, <1>7, <1>8, <1>9, <1>10, <1>11,
            <1>12, <1>13 DEF Next

\* A search is in place, its trail true and its ending justified at every step.
THEOREM SearchInvariant == Spec => []SearchInv
BY SearchInit, SearchStep, PTL DEF Spec

\* The type invariant of a search.
THEOREM SearchTypeCorrect == Spec => []TypeOK
<1>1. SearchInv => TypeOK
  BY DEF SearchInv
<1> QED  BY <1>1, SearchInvariant, PTL

\* The engines tried are those asked for and Google, each once, in the order of
\* their first mention with Google last, however long the list and whatever it
\* repeats: unique and enforceGoogleLast.
THEOREM OrderKept == Spec => []OrderIsFaithful
<1>1. SearchInv => OrderIsFaithful
  BY DEF SearchInv, InPlace, Faithful, OrderIsFaithful
<1> QED  BY <1>1, SearchInvariant, PTL

\* The answer says what the attempts say: the links of the engine selected, all
\* of them http addresses once resolved, each once and no more than asked for, or
\* that no engine found any.
THEOREM AnswerTellsAttempts == Spec => []AnswerMatchesAttempts
<1>1. ASSUME SearchInv  PROVE AttemptsFollowOrder
  <2>1. /\ Len(attempts) \in Nat /\ DOMAIN attempts = 1..Len(attempts)
        /\ Len(attempts) <= Len(engines)
    BY <1>1 DEF SearchInv, TypeOK, Trail
  <2> QED  BY <1>1, <2>1 DEF SearchInv, Trail, AttemptsFollowOrder
<1>2. ASSUME SearchInv, answer = "ok", results # <<>>
      PROVE  /\ Last(attempts).engine = selected
             /\ Last(attempts).reason = "ok"
             /\ Last(attempts).resultCount = Len(results)
             /\ IsInjective(results) /\ Len(results) <= MaxResults
             /\ \A i \in DOMAIN results : Http(results[i])
  BY <1>2 DEF SearchInv, Trail, Returnable, Last, IsInjective
<1>3. ASSUME SearchInv, answer = "ok", results = <<>>
      PROVE  selected = None /\ Len(attempts) = Len(engines)
  <2>1. step = "answered" /\ selected = None
    BY <1>3, SearchFallbackAssumption DEF SearchInv, Trail, Ending
  <2> QED  BY <1>3, <2>1 DEF SearchInv, Ending
<1>4. SearchInv => AnswerMatchesAttempts
  BY <1>1, <1>2, <1>3 DEF AnswerMatchesAttempts
<1> QED  BY <1>4, SearchInvariant, PTL

\* On Node an engine's failure never costs the caller the engines after it: the
\* try block is the whole body of the loop.
THEOREM NodeGoesOn == Spec => []NodeTriesEveryEngine
<1>1. SearchInv => NodeTriesEveryEngine
  BY DEF SearchInv, Ending, NodeTriesEveryEngine
<1> QED  BY <1>1, SearchInvariant, PTL

=============================================================================
