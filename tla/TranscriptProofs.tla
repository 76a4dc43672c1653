-------------------------- MODULE TranscriptProofs --------------------------
(***************************************************************************)
(* Theorems about Transcript, for any number of requests and instances and *)
(* any answers of the providers: every request runs the chain of adapters  *)
(* it asked for, failed instances rest as long as they should and no       *)
(* longer, and captions made by hand come first.                           *)
(***************************************************************************)
EXTENDS Transcript, SequenceTheorems, WellFoundedInduction,
        TLAPS

-----------------------------------------------------------------------------
(* The inductive invariant.                                                *)

Distinct(s) == \A i, j \in DOMAIN s : s[i] = s[j] => i = j

\* How far a request is: it holds a list of adapters once it is accepted, a
\* record for each adapter before the one at hand, and while it talks to a
\* source that source is one of the adapter's.
InOrder(c) ==
    /\ c.step = "idle" => c = Idle
    /\ c.step # "idle" =>
         /\ c.wanted # <<>> /\ Distinct(c.wanted)
         /\ c.method \in DOMAIN c.wanted
         /\ c.source \in 1..(Len(Sources(c.wanted[c.method])) + 1)
    /\ c.step \in {"asked", "captions"} =>
         c.source <= Len(Sources(c.wanted[c.method]))
    /\ c.step \in {"source", "asked", "captions"} =>
         Len(c.attempts) = c.method - 1 /\ c.answer = None

\* ManualPreferred of one request on the runtime rt.
HandFirst(rt, c) ==
    (c.track # None /\ c.track.auto) =>
      \A t \in ToSet(c.offer) :
        \/ t.auto \/ t.lang = "other"
        \/ t.lang = "base" /\ rt = "js" /\ c.wanted[c.method] = "yt_dlp"

Chained(rt, c) == c \in Call /\ InOrder(c) /\ HandFirst(rt, c)

ChainInv ==
    /\ runtime \in {"js", "rust"} /\ now \in 0..MaxTime
    /\ \A r \in Requests : Chained(runtime, call[r])
    /\ call \in [Requests -> Call]

\* The instances that the runtime marks after each failure it counts as one.
Guarded == IF runtime = "js" THEN Instances ELSE ToSet(Piped)

\* What the map of instances remembers of their failures: an entry ends a
\* cooldown after the last of them, and is missing only if the instance has not
\* failed or has rested.
Breaker(i) ==
    /\ failedAt[i] \in Nat \cup {None}
    /\ expiry[i] # None =>
         /\ i \in Guarded
         /\ failedAt[i] # None /\ expiry[i] = failedAt[i] + Cooldown
    /\ (i \in Guarded /\ failedAt[i] # None /\ expiry[i] = None) =>
         now - failedAt[i] >= Cooldown

BreakerInv ==
    /\ now \in Nat
    /\ expiry \in [Instances -> Int \cup {None}]
    /\ failedAt \in [Instances -> Int \cup {None}]
    /\ \A i \in Instances : Breaker(i)

-----------------------------------------------------------------------------
(* Recursion along a sequence.  The induction theorems of the library take *)
(* an operator; these take a set and a function instead.                   *)

LEMMA LeastNatural ==
  ASSUME NEW T \in SUBSET Nat, T # {}
  PROVE  \E x \in T : \A y \in T : x <= y
<1>1. PICK x \in T : \A y \in T : ~(<<y, x>> \in OpToRel(<, Nat))
  BY NatLessThanWellFounded, WFMin
<1>2. \A y \in T : ~(y < x)
  BY <1>1, Zenon DEF OpToRel
<1> QED  BY <1>2

LEMMA Induction ==
  ASSUME NEW n \in Nat, NEW S, 0 \in S, \A k \in 1..n : k - 1 \in S => k \in S
  PROVE  \A k \in 0..n : k \in S
<1> DEFINE T == {k \in 0..n : k \notin S}
<1>1. SUFFICES ASSUME T # {}  PROVE FALSE
  OBVIOUS
<1>2. PICK x \in T : \A y \in T : x <= y
  <2>1. T \in SUBSET Nat
    OBVIOUS
  <2> QED  BY <1>1, <2>1, LeastNatural
<1>3. x \in 1..n /\ x - 1 \notin T /\ x - 1 \in 0..n
  BY <1>2
<1> QED  BY <1>2, <1>3

\* g is given at 0 and, from there on, by a step f from its predecessor.
Iterates(g, f, base, n) ==
    g = [k \in 0..n |-> IF k = 0 THEN base ELSE f[<<g[k - 1], k>>]]

\* There is such a function.
LEMMA Iteration ==
  ASSUME NEW X, NEW base \in X, NEW n \in Nat, NEW f \in [X \X (1..n) -> X]
  PROVE  \E g \in [0..n -> X] : Iterates(g, f, base, n)
<1> DEFINE Solves(g, m) ==
             /\ g \in [0..m -> X]
             /\ g[0] = base
             /\ \A k \in 1..m : g[k] = f[<<g[k - 1], k>>]
           S == {m \in 0..n : \E g : Solves(g, m)}
<1> HIDE DEF Solves
<1>1. 0 \in S
  <2> DEFINE h == [k \in {0} |-> base]
  <2>1. 0..0 = {0} /\ 1..0 = {}
    OBVIOUS
  <2>2. h \in [{0} -> X] /\ h[0] = base
    OBVIOUS
  <2>3. Solves(h, 0)
    BY <2>1, <2>2 DEF Solves
  <2> HIDE DEF h
  <2> QED  BY <2>3
<1>2. ASSUME NEW m \in 1..n, m - 1 \in S  PROVE m \in S
  <2>1. PICK g : Solves(g, m - 1)
    BY <1>2
  <2> DEFINE last == f[<<g[m - 1], m>>]
             h == [k \in 0..m |-> IF k = m THEN last ELSE g[k]]
  <2>2. /\ g \in [0..(m - 1) -> X] /\ g[0] = base
        /\ \A k \in 1..(m - 1) : g[k] = f[<<g[k - 1], k>>]
    BY <2>1 DEF Solves
  <2>3. m - 1 \in 0..(m - 1) /\ g[m - 1] \in X
    BY <2>2
  <2>4. last \in X
    BY <2>3
  <2>5. \A k \in 0..m : k # m => k \in 0..(m - 1)
    OBVIOUS
  <2>6. h \in [0..m -> X]
    <3> HIDE DEF last
    <3> QED  BY <2>2, <2>4, <2>5
  <2>7. h[0] = base
    BY <2>2
  <2>8. ASSUME NEW k \in 1..m  PROVE h[k] = f[<<h[k - 1], k>>]
    <3>1. k \in 0..m /\ k - 1 \in 0..m /\ k - 1 # m
      OBVIOUS
    <3>2. h[k - 1] = g[k - 1]
      <4> HIDE DEF last
      <4> QED  BY <3>1
    <3>3. CASE k = m
      <4>1. h[k] = last
        <5> HIDE DEF last
        <5> QED  BY <3>1, <3>3
      <4> HIDE DEF h
      <4> QED  BY <3>2, <3>3, <4>1
    <3>4. CASE k # m
      <4>1. h[k] = g[k] /\ k \in 1..(m - 1)
        <5> HIDE DEF last
        <5> QED  BY <3>1, <3>4
      <4> HIDE DEF h
      <4> QED  BY <2>2, <3>2, <4>1
    <3> QED  BY <3>3, <3>4
  <2> HIDE DEF h
  <2>9. Solves(h, m)
    BY <2>6, <2>7, <2>8 DEF Solves
  <2> QED  BY <2>9
<1>3. n \in S
  <2> HIDE DEF S
  <2>1. \A m \in 1..n : m - 1 \in S => m \in S
    BY <1>2
  <2> QED  BY <1>1, <2>1, Induction
<1>4. PICK g : Solves(g, n)
  BY <1>3
<1>5. g = [k \in 0..n |-> IF k = 0 THEN base ELSE f[<<g[k - 1], k>>]]
  <2>1. \A k \in 0..n : g[k] = IF k = 0 THEN base ELSE f[<<g[k - 1], k>>]
    BY <1>4 DEF Solves
  <2> QED  BY <1>4, <2>1 DEF Solves
<1> QED  BY <1>4, <1>5 DEF Solves, Iterates

-----------------------------------------------------------------------------
(* What the two loops over a sequence compute.                             *)

\* normalizeMethods drops repetitions only.
LEMMA UniqueList ==
  ASSUME NEW list \in Seq(Methods), list # <<>>
  PROVE  /\ Unique(list) \in Seq(Methods) \ {<<>>}
         /\ Distinct(Unique(list))
<1> DEFINE n == Len(list)
           Taken(out, k) == IF Contains(out, list[k]) THEN out
                            ELSE Append(out, list[k])
           Loop(g) == g = [k \in 0..n |-> IF k = 0 THEN <<>> ELSE Taken(g[k - 1], k)]
           out == CHOOSE g : Loop(g)
<1>1. n \in Nat \ {0} /\ \A k \in 1..n : list[k] \in Methods
  BY LenProperties, EmptySeq, ElementOfSeq
<1>2. ASSUME NEW s \in Seq(Methods), NEW k \in 1..n
      PROVE  Taken(s, k) \in Seq(Methods)
  BY <1>1
<1>3. \E g : Loop(g)
  <2> DEFINE f == [p \in Seq(Methods) \X (1..n) |-> Taken(p[1], p[2])]
  <2>1. f \in [Seq(Methods) \X (1..n) -> Seq(Methods)]
    <3> HIDE DEF Taken
    <3> QED  BY <1>2
  <2>2. \A s \in Seq(Methods), k \in 1..n : f[<<s, k>>] = Taken(s, k)
    <3> HIDE DEF Taken
    <3> QED  OBVIOUS
  <2> HIDE DEF f, Taken, n
  <2>3. PICK g \in [0..n -> Seq(Methods)] :
          g = [k \in 0..n |-> IF k = 0 THEN <<>> ELSE f[<<g[k - 1], k>>]]
    <3>1. <<>> \in Seq(Methods) /\ n \in Nat
      BY <1>1
    <3> DEFINE X == Seq(Methods)
    <3> HIDE DEF X
    <3>2. f \in [X \X (1..n) -> X] /\ <<>> \in X
      BY <2>1, <3>1 DEF X
    <3>3. PICK g \in [0..n -> X] : Iterates(g, f, <<>>, n)
      BY <3>1, <3>2, Iteration
    <3> QED  BY <3>3 DEF X, Iterates
  <2>4. ASSUME NEW k \in 0..n, k # 0  PROVE f[<<g[k - 1], k>>] = Taken(g[k - 1], k)
    <3>1. k \in 1..n /\ k - 1 \in 0..n
      BY <1>1, <2>4
    <3> QED  BY <2>2, <2>3, <3>1
  <2>5. g = [k \in 0..n |-> IF k = 0 THEN <<>> ELSE Taken(g[k - 1], k)]
    BY <2>3, <2>4
  <2> QED  BY <2>5
<1>4. Loop(out)
  <2> HIDE DEF Loop
  <2> QED  BY <1>3
<1>5. Unique(list) = out[n]
  BY Zenon DEF Unique
<1>6. out[0] = <<>> /\ \A k \in 1..n : out[k] = Taken(out[k - 1], k)
  <2> HIDE DEF out, Taken, n
  <2>1. \A k \in 1..n : k \in 0..n /\ k # 0
    BY <1>1
  <2> QED  BY <1>1, <1>4, <2>1
<1> HIDE DEF out
<1> DEFINE S == {k \in 0..n : /\ out[k] \in Seq(Methods) /\ Distinct(out[k])
                              /\ k # 0 => out[k] # <<>>}
<1>7. 0 \in S
  <2>1. <<>> \in Seq(Methods) /\ Distinct(<<>>)
    BY DEF Distinct
  <2>2. 0 \in 0..n
    BY <1>1
  <2> HIDE DEF n, Taken
  <2> QED  BY <1>6, <2>1, <2>2
<1>8. ASSUME NEW k \in 1..n, k - 1 \in S  PROVE k \in S
  <2> DEFINE before == out[k - 1]
  <2>1. out[k] = Taken(before, k)
    BY <1>6
  <2>2. before \in Seq(Methods) /\ Distinct(before) /\ list[k] \in Methods
    BY <1>1, <1>8
  <2>3. Taken(before, k) \in Seq(Methods)
    BY <1>2, <2>2
  <2>4. Distinct(Taken(before, k)) /\ Taken(before, k) # <<>>
    <3> HIDE DEF before
    <3>1. CASE Contains(before, list[k])
      BY <2>2, <3>1 DEF Contains
    <3>2. CASE ~Contains(before, list[k])
      <4>1. \A i \in DOMAIN before : before[i] # list[k]
        BY <2>2, <3>2 DEF Contains
      <4> QED  BY <2>2, <3>2, <4>1 DEF Distinct
    <3> QED  BY <3>1, <3>2
  <2> HIDE DEF Taken, n
  <2> QED  BY <1>1, <2>1, <2>3, <2>4
<1>9. n \in S
  <2> HIDE DEF S, n
  <2>1. \A k \in 1..n : k - 1 \in S => k \in S
    BY <1>8
  <2>2. n \in Nat /\ n \in 0..n
    BY <1>1
  <2>3. \A k \in 0..n : k \in S
    BY <1>7, <2>1, <2>2, Induction
  <2> QED  BY <2>2, <2>3
<1> QED  BY <1>1, <1>5, <1>9

\* push_ytdlp_tracks finds the tracks of one kind, and nothing else.
LEMMA PushedTracks ==
  ASSUME NEW offer \in Seq(Track), NEW auto \in BOOLEAN
  PROVE  /\ PushYtDlpTracks(offer, auto) \in Seq(Track)
         /\ \A i \in DOMAIN PushYtDlpTracks(offer, auto) :
              PushYtDlpTracks(offer, auto)[i].auto = auto
         /\ \A j \in DOMAIN offer : offer[j].auto = auto =>
              \E i \in DOMAIN PushYtDlpTracks(offer, auto) :
                PushYtDlpTracks(offer, auto)[i] = offer[j]
<1> DEFINE n == Len(offer)
           Pushed(out, k) == IF offer[k].auto = auto THEN Append(out, offer[k])
                             ELSE out
           Loop(g) == g = [k \in 0..n |-> IF k = 0 THEN <<>> ELSE Pushed(g[k - 1], k)]
           out == CHOOSE g : Loop(g)
<1>1. n \in Nat /\ DOMAIN offer = 1..n /\ \A k \in 1..n : offer[k] \in Track
  BY LenProperties, ElementOfSeq
<1>2. ASSUME NEW s \in Seq(Track), NEW k \in 1..n
      PROVE  Pushed(s, k) \in Seq(Track)
  BY <1>1
<1>3. \E g : Loop(g)
  <2> DEFINE f == [p \in Seq(Track) \X (1..n) |-> Pushed(p[1], p[2])]
  <2>1. f \in [Seq(Track) \X (1..n) -> Seq(Track)]
    <3> HIDE DEF Pushed
    <3> QED  BY <1>2
  <2>2. \A s \in Seq(Track), k \in 1..n : f[<<s, k>>] = Pushed(s, k)
    <3> HIDE DEF Pushed
    <3> QED  OBVIOUS
  <2> HIDE DEF f, n
  <2>3. PICK g \in [0..n -> Seq(Track)] : Iterates(g, f, <<>>, n)
    <3>1. <<>> \in Seq(Track)
      OBVIOUS
    <3> DEFINE X == Seq(Track)
    <3> HIDE DEF X
    <3>2. f \in [X \X (1..n) -> X] /\ <<>> \in X
      BY <2>1, <3>1 DEF X
    <3>3. PICK g \in [0..n -> X] : Iterates(g, f, <<>>, n)
      BY <1>1, <3>2, Iteration
    <3> QED  BY <3>3 DEF X
  <2>4. ASSUME NEW k \in 0..n, k # 0  PROVE f[<<g[k - 1], k>>] = Pushed(g[k - 1], k)
    <3>1. k \in 1..n /\ k - 1 \in 0..n
      BY <1>1, <2>4
    <3> HIDE DEF Pushed
    <3> QED  BY <2>2, <2>3, <3>1
  <2>5. Loop(g)
    <3> HIDE DEF Pushed
    <3> QED  BY <2>3, <2>4 DEF Iterates
  <2> QED  BY <2>5
<1>4. Loop(out)
  <2> HIDE DEF Loop
  <2> QED  BY <1>3
<1>5. PushYtDlpTracks(offer, auto) = out[n]
  BY Zenon DEF PushYtDlpTracks
<1>6. out[0] = <<>> /\ \A k \in 1..n : out[k] = Pushed(out[k - 1], k)
  <2> HIDE DEF out, Pushed, n
  <2>1. \A k \in 1..n : k \in 0..n /\ k # 0
    BY <1>1
  <2> QED  BY <1>1, <1>4, <2>1
<1> HIDE DEF out
<1> DEFINE Right(s, k) ==
             /\ s \in Seq(Track)
             /\ \A i \in DOMAIN s : s[i].auto = auto
             /\ \A j \in 1..k : offer[j].auto = auto =>
                  \E i \in DOMAIN s : s[i] = offer[j]
           S == {k \in 0..n : Right(out[k], k)}
<1>7. 0 \in S
  <2>1. Right(<<>>, 0) /\ 0 \in 0..n
    BY <1>1
  <2> HIDE DEF n, Right
  <2> QED  BY <1>6, <2>1
<1>8. ASSUME NEW k \in 1..n, k - 1 \in S  PROVE k \in S
  <2> DEFINE before == out[k - 1]
  <2>1. Right(before, k - 1)
    BY <1>8
  <2> HIDE DEF before
  <2>2. Right(Pushed(before, k), k)
    <3>1. CASE offer[k].auto = auto
      <4>1. Pushed(before, k) = Append(before, offer[k]) /\ offer[k] \in Track
        BY <1>1, <3>1
      <4>2. /\ Append(before, offer[k]) \in Seq(Track)
            /\ DOMAIN Append(before, offer[k]) = 1..(Len(before) + 1)
            /\ \A i \in DOMAIN before : /\ Append(before, offer[k])[i] = before[i]
                                        /\ i \in 1..(Len(before) + 1)
            /\ Append(before, offer[k])[Len(before) + 1] = offer[k]
            /\ DOMAIN before = 1..Len(before) /\ Len(before) \in Nat
        BY <2>1, <4>1
      <4>3. \A j \in 1..k : j # k => j \in 1..(k - 1)
        BY <1>1
      <4> DEFINE after == Append(before, offer[k])
      <4> HIDE DEF after
      <4>4. after \in Seq(Track) /\ \A i \in DOMAIN after : after[i].auto = auto
        BY <2>1, <3>1, <4>2 DEF after
      <4>5. ASSUME NEW j \in 1..k, offer[j].auto = auto
            PROVE  \E i \in DOMAIN after : after[i] = offer[j]
        <5>1. CASE j = k
          <6>1. Len(before) + 1 \in DOMAIN after
            BY <4>2 DEF after
          <6> QED  BY <4>2, <5>1, <6>1 DEF after
        <5>2. CASE j # k
          <6>1. PICK i \in DOMAIN before : before[i] = offer[j]
            BY <2>1, <4>3, <4>5, <5>2
          <6> QED  BY <4>2, <6>1 DEF after
        <5> QED  BY <5>1, <5>2
      <4>6. Pushed(before, k) = after
        BY <4>1 DEF after
      <4> HIDE DEF Pushed
      <4>7. Right(after, k)
        BY <4>4, <4>5
      <4> HIDE DEF Right
      <4> QED  BY <4>6, <4>7
    <3>2. CASE offer[k].auto # auto
      <4>1. Pushed(before, k) = before
        BY <3>2
      <4>2. \A j \in 1..k : j # k => j \in 1..(k - 1)
        BY <1>1
      <4> QED  BY <2>1, <3>2, <4>1, <4>2
    <3> QED  BY <3>1, <3>2
  <2>3. out[k] = Pushed(before, k)
    BY <1>6 DEF before
  <2> HIDE DEF Right, Pushed, n
  <2> QED  BY <1>1, <2>2, <2>3
<1>9. n \in S
  <2> HIDE DEF S, n
  <2>1. \A k \in 1..n : k - 1 \in S => k \in S
    BY <1>8
  <2>2. n \in Nat /\ n \in 0..n
    BY <1>1
  <2>3. \A k \in 0..n : k \in S
    BY <1>7, <2>1, <2>2, Induction
  <2> QED  BY <2>2, <2>3
<1> QED  BY <1>1, <1>5, <1>9

-----------------------------------------------------------------------------
(* The track that is picked.                                               *)

\* As many classes as pickTrack has rounds.
LEMMA Classes ==
  ASSUME NEW allowed \in BOOLEAN
  PROVE  /\ DOMAIN Preference(allowed) = IF allowed THEN 1..6 ELSE 1..4
         /\ Preference(allowed)[1] = Tracks({"exact"}, {FALSE})
         /\ Preference(allowed)[2] = Tracks({"exact", "base"}, {FALSE})
<1>1. DOMAIN Preference(allowed) = IF allowed THEN 1..6 ELSE 1..4
  BY DEF Preference
<1>2. CASE allowed
  BY <1>1, <1>2 DEF Preference
<1>3. CASE ~allowed
  BY <1>1, <1>3 DEF Preference
<1> QED  BY <1>1, <1>2, <1>3

\* The least of some natural numbers is one of them.
LEMMA MinIsLeast ==
  ASSUME NEW T \in SUBSET Nat, T # {}
  PROVE  Min(T) \in T /\ \A y \in T : Min(T) <= y
BY LeastNatural DEF Min

\* The track picked is the first of the best class that any track is in.
LEMMA PickedIsBest ==
  ASSUME NEW tracks \in Seq(Track), NEW allowed \in BOOLEAN,
         PickTrack(tracks, allowed) # 0
  PROVE  /\ PickTrack(tracks, allowed) \in DOMAIN tracks
         /\ \E c \in DOMAIN Preference(allowed) :
              /\ tracks[PickTrack(tracks, allowed)] \in Preference(allowed)[c]
              /\ \A j \in DOMAIN tracks :
                   /\ j < PickTrack(tracks, allowed) =>
                        tracks[j] \notin Preference(allowed)[c]
                   /\ \A d \in 1..(c - 1) : tracks[j] \notin Preference(allowed)[d]
<1> DEFINE pref == Preference(allowed)
           met == {c \in DOMAIN pref : \E t \in ToSet(tracks) : t \in pref[c]}
           best == {i \in DOMAIN tracks : tracks[i] \in pref[Min(met)]}
<1>1. \E n \in Nat : DOMAIN pref = 1..n
  BY Classes
<1> HIDE DEF pref
<1>2. ToSet(tracks) = {tracks[i] : i \in DOMAIN tracks}
      /\ \A i \in DOMAIN tracks : i \in Nat \ {0}
  BY LenProperties DEF ToSet
<1>3. met # {} /\ PickTrack(tracks, allowed) = Min(best)
  BY DEF PickTrack, pref
<1>4. met \in SUBSET Nat
  BY <1>1
<1>5. Min(met) \in met /\ \A y \in met : Min(met) <= y
  <2> HIDE DEF met
  <2> QED  BY <1>3, <1>4, MinIsLeast
<1>6. best # {} /\ best \in SUBSET Nat
  <2>1. PICK t \in ToSet(tracks) : t \in pref[Min(met)]
    BY <1>5
  <2> HIDE DEF met
  <2> QED  BY <1>2, <2>1
<1>7. Min(best) \in best /\ \A y \in best : Min(best) <= y
  <2> HIDE DEF best
  <2> QED  BY <1>6, MinIsLeast
<1>8. ASSUME NEW j \in DOMAIN tracks
      PROVE  /\ j < Min(best) => tracks[j] \notin pref[Min(met)]
             /\ \A d \in 1..(Min(met) - 1) : tracks[j] \notin pref[d]
  <2>1. ASSUME j < Min(best), tracks[j] \in pref[Min(met)]  PROVE FALSE
    <3>1. j \in best
      BY <2>1
    <3>2. j \in Nat /\ Min(best) \in Nat /\ Min(best) <= j
      <4> HIDE DEF best
      <4> QED  BY <1>2, <1>6, <1>7, <3>1
    <3> HIDE DEF best, met
    <3> QED  BY <2>1, <3>2
  <2>2. ASSUME NEW d \in 1..(Min(met) - 1), tracks[j] \in pref[d]  PROVE FALSE
    <3>1. Min(met) \in Nat /\ Min(met) \in DOMAIN pref
      BY <1>4, <1>5
    <3>2. d \in DOMAIN pref /\ d \in Nat /\ d < Min(met)
      <4> HIDE DEF met
      <4> QED  BY <1>1, <2>2, <3>1
    <3>3. d \in met
      BY <1>2, <2>2, <3>2
    <3> HIDE DEF met
    <3> QED  BY <1>5, <3>1, <3>2, <3>3
  <2> HIDE DEF best, met
  <2> QED  BY <2>1, <2>2
<1>9. Min(met) \in DOMAIN pref /\ Min(best) \in DOMAIN tracks
      /\ tracks[Min(best)] \in pref[Min(met)]
  BY <1>5, <1>7
<1> HIDE DEF met, best
<1> QED  BY <1>3, <1>8, <1>9 DEF pref

\* What is offered is all there to pick from; yt-dlp's tracks made by hand come
\* before its generated ones.
LEMMA OfferedTracks ==
  ASSUME NEW m \in Methods, NEW offer \in Seq(Track)
  PROVE  /\ Offered(m, offer) \in Seq(Track)
         /\ \A t \in ToSet(offer) : \E i \in DOMAIN Offered(m, offer) :
              Offered(m, offer)[i] = t
         /\ m = "yt_dlp" =>
              \A i, j \in DOMAIN Offered(m, offer) :
                (i < j /\ Offered(m, offer)[i].auto) => Offered(m, offer)[j].auto
<1>1. ToSet(offer) = {offer[j] : j \in DOMAIN offer}
  BY DEF ToSet
<1>2. CASE m # "yt_dlp"
  BY <1>1, <1>2 DEF Offered
<1>3. CASE m = "yt_dlp"
  <2> DEFINE hand == PushYtDlpTracks(offer, FALSE)
             made == PushYtDlpTracks(offer, TRUE)
             both == hand \o made
  <2>1. Offered(m, offer) = both
    BY <1>3 DEF Offered, CollectYtDlpTracks
  <2>2. /\ hand \in Seq(Track) /\ made \in Seq(Track)
        /\ \A i \in DOMAIN hand : ~hand[i].auto
        /\ \A i \in DOMAIN made : made[i].auto
        /\ \A j \in DOMAIN offer :
             /\ ~offer[j].auto => \E i \in DOMAIN hand : hand[i] = offer[j]
             /\ offer[j].auto => \E i \in DOMAIN made : made[i] = offer[j]
    <3>1. \A j \in DOMAIN offer : offer[j] \in Track
      BY ElementOfSeq, LenProperties
    <3>2. \A t \in Track : t.auto \in BOOLEAN
      BY DEF Track
    <3>3. /\ hand \in Seq(Track) /\ \A i \in DOMAIN hand : hand[i].auto = FALSE
          /\ \A j \in DOMAIN offer : offer[j].auto = FALSE =>
               \E i \in DOMAIN hand : hand[i] = offer[j]
      BY PushedTracks
    <3>4. /\ made \in Seq(Track) /\ \A i \in DOMAIN made : made[i].auto = TRUE
          /\ \A j \in DOMAIN offer : offer[j].auto = TRUE =>
               \E i \in DOMAIN made : made[i] = offer[j]
      BY PushedTracks
    <3> HIDE DEF hand, made
    <3> QED  BY <3>1, <3>2, <3>3, <3>4
  <2> HIDE DEF hand, made
  <2>3. /\ both \in Seq(Track)
        /\ DOMAIN hand = 1..Len(hand) /\ DOMAIN made = 1..Len(made)
        /\ DOMAIN both = 1..(Len(hand) + Len(made))
        /\ Len(hand) \in Nat /\ Len(made) \in Nat
        /\ \A i \in 1..(Len(hand) + Len(made)) :
             both[i] = IF i <= Len(hand) THEN hand[i] ELSE made[i - Len(hand)]
    BY <2>2, ConcatProperties, LenProperties
  <2> HIDE DEF both
  <2>4. ASSUME NEW j \in DOMAIN offer
        PROVE  \E i \in DOMAIN both : both[i] = offer[j]
    <3>1. CASE offer[j].auto
      <4>1. PICK i \in DOMAIN made : made[i] = offer[j]
        BY <2>2, <3>1
      <4>2. Len(hand) + i \in DOMAIN both /\ both[Len(hand) + i] = made[i]
        BY <2>3, <4>1
      <4> QED  BY <4>1, <4>2
    <3>2. CASE ~offer[j].auto
      <4>1. PICK i \in DOMAIN hand : hand[i] = offer[j]
        BY <2>2, <3>2
      <4>2. i \in DOMAIN both /\ both[i] = hand[i]
        BY <2>3, <4>1
      <4> QED  BY <4>1, <4>2
    <3> QED  BY <3>1, <3>2
  <2>5. ASSUME NEW i \in DOMAIN both, NEW j \in DOMAIN both, i < j, both[i].auto
        PROVE  both[j].auto
    <3>1. i > Len(hand)
      BY <2>2, <2>3, <2>5
    <3>2. j - Len(hand) \in DOMAIN made /\ both[j] = made[j - Len(hand)]
      BY <2>3, <2>5, <3>1
    <3> QED  BY <2>2, <3>2
  <2> QED  BY <1>1, <2>1, <2>3, <2>4, <2>5
<1> QED  BY <1>2, <1>3

LEMMA SeenTracks ==
  ASSUME NEW m \in Methods, NEW tracks \in Seq(Track)
  PROVE  /\ Seen(m, tracks) \in Seq(Track)
         /\ DOMAIN Seen(m, tracks) = DOMAIN tracks
         /\ \A i \in DOMAIN tracks :
              /\ Seen(m, tracks)[i].lang = tracks[i].lang
              /\ Seen(m, tracks)[i].auto =
                   IF runtime = "js" /\ m = "yt_dlp" THEN FALSE ELSE tracks[i].auto
<1>1. CASE runtime = "js" /\ m = "yt_dlp"
  <2> DEFINE hand == [i \in DOMAIN tracks |-> [tracks[i] EXCEPT !.auto = FALSE]]
  <2>1. Seen(m, tracks) = hand
    BY <1>1 DEF Seen
  <2>2. /\ Len(tracks) \in Nat /\ DOMAIN tracks = 1..Len(tracks)
        /\ \A i \in 1..Len(tracks) : tracks[i] \in Track
    BY LenProperties, ElementOfSeq
  <2>3. ASSUME NEW t \in Track
        PROVE  /\ [t EXCEPT !.auto = FALSE] \in Track
               /\ [t EXCEPT !.auto = FALSE].lang = t.lang
               /\ [t EXCEPT !.auto = FALSE].auto = FALSE
    BY DEF Track
  <2>4. hand \in [1..Len(tracks) -> Track]
    BY <2>2, <2>3
  <2>5. hand \in Seq(Track)
    BY <2>2, <2>4
  <2>6. \A i \in DOMAIN tracks : /\ hand[i] \in Track
                                 /\ hand[i].lang = tracks[i].lang
                                 /\ hand[i].auto = FALSE
    BY <2>2, <2>3
  <2> HIDE DEF hand
  <2> QED  BY <1>1, <2>1, <2>2, <2>4, <2>5, <2>6
<1>2. CASE ~(runtime = "js" /\ m = "yt_dlp")
  BY <1>2 DEF Seen
<1> QED  BY <1>1, <1>2

\* Captions made by hand come first, as far as ManualPreferred says.
LEMMA PickedTrack ==
  ASSUME NEW m \in Methods, NEW offer \in Seq(Track), NEW allowed \in BOOLEAN
  PROVE  /\ Picked(m, offer, allowed) \in Track \cup {None}
         /\ (Picked(m, offer, allowed) # None /\ Picked(m, offer, allowed).auto) =>
              \A t \in ToSet(offer) :
                \/ t.auto \/ t.lang = "other"
                \/ t.lang = "base" /\ runtime = "js" /\ m = "yt_dlp"
<1> DEFINE tracks == Offered(m, offer)
           seen == Seen(m, tracks)
           i == PickTrack(seen, allowed)
           pref == Preference(allowed)
<1>1. Picked(m, offer, allowed) = IF i = 0 THEN None ELSE tracks[i]
  BY DEF Picked
<1>2. SUFFICES ASSUME i # 0
               PROVE  /\ tracks[i] \in Track
                      /\ tracks[i].auto =>
                           \A t \in ToSet(offer) :
                             \/ t.auto \/ t.lang = "other"
                             \/ t.lang = "base" /\ runtime = "js" /\ m = "yt_dlp"
  <2> HIDE DEF i, tracks
  <2> QED  BY <1>1
<1>3. /\ tracks \in Seq(Track)
      /\ \A t \in ToSet(offer) : \E j \in DOMAIN tracks : tracks[j] = t
      /\ m = "yt_dlp" => \A j, k \in DOMAIN tracks :
                           (j < k /\ tracks[j].auto) => tracks[k].auto
  BY OfferedTracks
<1> HIDE DEF tracks
<1>4. /\ seen \in Seq(Track) /\ DOMAIN seen = DOMAIN tracks
      /\ \A j \in DOMAIN tracks :
           /\ seen[j].lang = tracks[j].lang
           /\ seen[j].auto = IF runtime = "js" /\ m = "yt_dlp" THEN FALSE
                             ELSE tracks[j].auto
  BY <1>3, SeenTracks
<1> HIDE DEF seen
<1>5. /\ i \in DOMAIN seen
      /\ \E c \in DOMAIN pref :
           /\ seen[i] \in pref[c]
           /\ \A j \in DOMAIN seen :
                /\ j < i => seen[j] \notin pref[c]
                /\ \A d \in 1..(c - 1) : seen[j] \notin pref[d]
  BY <1>2, <1>4, PickedIsBest
<1> HIDE DEF i
<1>6. PICK c \in DOMAIN pref :
        /\ seen[i] \in pref[c]
        /\ \A j \in DOMAIN seen :
             /\ j < i => seen[j] \notin pref[c]
             /\ \A d \in 1..(c - 1) : seen[j] \notin pref[d]
  BY <1>5
<1>7. \A j \in DOMAIN tracks : j \in Nat /\ tracks[j] \in Track /\ seen[j] \in Track
  BY <1>3, <1>4, LenProperties, ElementOfSeq
<1>8. ASSUME tracks[i].auto, NEW t \in ToSet(offer), ~t.auto
      PROVE  \/ t.lang = "other"
             \/ t.lang = "base" /\ runtime = "js" /\ m = "yt_dlp"
  <2>1. PICK j \in DOMAIN tracks : tracks[j] = t
    BY <1>3
  <2>2. t \in Track /\ t.lang \in {"exact", "base", "other"}
    BY <1>7, <2>1 DEF Track
  <2>3. CASE runtime = "js" /\ m = "yt_dlp"
    <3>1. SUFFICES ASSUME t.lang = "exact"  PROVE FALSE
      BY <2>2, <2>3
    <3>2. j < i
      BY <1>3, <1>4, <1>5, <1>7, <1>8, <2>1, <2>3
    <3>3. seen[j] \in pref[1] /\ 1 \in DOMAIN pref
      <4>1. seen[j] \in Track /\ seen[j].lang = "exact" /\ seen[j].auto = FALSE
        BY <1>4, <1>7, <2>1, <2>3, <3>1
      <4>2. seen[j] \in Tracks({"exact"}, {FALSE})
        BY <4>1 DEF Tracks
      <4> QED  BY <4>2, Classes
    <3>4. c \in Nat \ {0}
      BY <1>6, Classes
    <3>5. CASE c = 1
      BY <1>4, <1>6, <3>2, <3>3, <3>5
    <3>6. CASE c # 1
      BY <1>4, <1>6, <2>1, <3>3, <3>4, <3>6
    <3> QED  BY <3>5, <3>6
  <2>4. CASE ~(runtime = "js" /\ m = "yt_dlp")
    <3>1. SUFFICES ASSUME t.lang # "other"  PROVE FALSE
      OBVIOUS
    <3>2. seen[i].auto /\ seen[j].lang = t.lang /\ ~seen[j].auto
      BY <1>4, <1>5, <1>8, <2>1, <2>4
    <3>3. seen[j] \in pref[2]
      <4>1. seen[j] \in Track /\ seen[j].lang \in {"exact", "base"}
        BY <1>4, <1>7, <2>1, <2>2, <3>1, <3>2
      <4>2. seen[j].auto = FALSE
        BY <3>2, <4>1 DEF Track
      <4>3. seen[j] \in Tracks({"exact", "base"}, {FALSE})
        BY <4>1, <4>2 DEF Tracks
      <4> QED  BY <4>3, Classes
    <3>4. c \notin {1, 2}
      BY <1>6, <3>2, Classes DEF Tracks
    <3>5. c \in Nat \ {0}
      BY <1>6, Classes
    <3> QED  BY <1>4, <1>6, <2>1, <3>3, <3>4, <3>5
  <2> QED  BY <2>3, <2>4
<1> QED  BY <1>4, <1>5, <1>7, <1>8

-----------------------------------------------------------------------------
(* The steps of a request.                                                 *)

\* What a step of a request from c to d is to the chain of adapters.
Accepts(c, d) ==
    /\ c.wanted = <<>> /\ d.wanted \in Seq(Methods) \ {<<>>} /\ Distinct(d.wanted)
    /\ d.attempts = c.attempts /\ d.answer = c.answer

Stays(c, d) ==
    d.wanted = c.wanted /\ d.attempts = c.attempts /\ d.answer = c.answer

Attempts(c, d, status) ==
    /\ c.wanted # <<>> /\ c.answer = None /\ d.wanted = c.wanted
    /\ d.attempts = Append(c.attempts, [ method |-> c.wanted[Len(c.attempts) + 1],
                                         status |-> status ])

Moves(c, d) ==
    \/ Accepts(c, d)
    \/ Stays(c, d)
    \/ /\ Attempts(c, d, "error")
       /\ d.answer = IF Len(d.attempts) = Len(c.wanted) THEN "unavailable" ELSE None
    \/ /\ Attempts(c, d, "ok")
       /\ d.answer = c.wanted[Len(c.attempts) + 1]

Active == {"source", "asked", "captions"}

LEMMA SourceLists ==
  ASSUME NEW m \in Methods
  PROVE  /\ Len(Sources(m)) \in Nat
         /\ m \in Brokered => \A i \in 1..Len(Sources(m)) : Sources(m)[i] \in Instances
         /\ m = "piped" => \A i \in 1..Len(Sources(m)) : Sources(m)[i] \in ToSet(Piped)
         /\ m = "invidious" => \A i \in 1..Len(Sources(m)) : Sources(m)[i] \notin ToSet(Piped)
<1>1. Sources(m) \in {Invidious, Piped, Commands, <<"youtube">>}
  BY DEF Sources
<1>2. \A s \in {Invidious, Piped, Commands, <<"youtube">>} :
        DOMAIN s = 1..Len(s) /\ Len(s) \in Nat
  BY TranscriptAssumption, LenProperties
<1>3. m = "invidious" => Sources(m) = Invidious
  BY DEF Sources
<1>4. m = "piped" => Sources(m) = Piped
  BY DEF Sources
<1> QED  BY <1>1, <1>2, <1>3, <1>4, TranscriptAssumption
         DEF Brokered, Instances, ToSet

LEMMA MethodFailedMoves ==
  ASSUME NEW rt, NEW c, Chained(rt, c), c.step \in Active
  PROVE  Chained(rt, MethodFailed(c)) /\ Moves(c, MethodFailed(c))
<1> DEFINE n == Len(c.wanted)
           record == [method |-> c.wanted[c.method], status |-> "error"]
           d == [c EXCEPT !.attempts = Append(@, record), !.track = None,
                          !.offer = <<>>]
<1>1. /\ c \in Call /\ c.wanted \in Seq(Methods) /\ c.wanted # <<>>
      /\ Distinct(c.wanted) /\ c.method \in 1..n /\ n \in Nat
      /\ c.wanted[c.method] \in Methods
      /\ Len(c.attempts) = c.method - 1 /\ c.answer = None
      /\ c.attempts \in Seq([method: Methods, status: {"ok", "error"}])
  BY LenProperties, ElementOfSeq DEF Chained, InOrder, Call, Active
<1>2. /\ record \in [method: Methods, status: {"ok", "error"}]
      /\ Append(c.attempts, record) \in Seq([method: Methods, status: {"ok", "error"}])
      /\ Len(Append(c.attempts, record)) = c.method
      /\ record = [method |-> c.wanted[Len(c.attempts) + 1], status |-> "error"]
  BY <1>1
<1>3. CASE c.method < n
  <2> DEFINE e == [d EXCEPT !.method = @ + 1, !.source = 1, !.step = "source"]
  <2>1. MethodFailed(c) = e
    BY <1>3 DEF MethodFailed
  <2>2. /\ e \in Call /\ e.step = "source" /\ e.wanted = c.wanted
        /\ e.method = c.method + 1 /\ e.source = 1 /\ e.track = None
        /\ e.attempts = Append(c.attempts, record) /\ e.answer = None
    <3>1. c.method + 1 \in Nat /\ <<>> \in Seq(Track)
      BY <1>1
    <3> HIDE DEF record
    <3>2. e \in Call
      BY <1>1, <1>2, <3>1 DEF Call
    <3> QED  BY <1>1, <3>2 DEF Call
  <2> HIDE DEF e, record
  <2>3. e.method \in 1..n /\ e.wanted[e.method] \in Methods /\ DOMAIN c.wanted = 1..n
    BY <1>1, <1>3, <2>2, LenProperties, ElementOfSeq
  <2>4. Len(Sources(e.wanted[e.method])) \in Nat
    BY <2>3, SourceLists
  <2>5. InOrder(e)
    BY <1>1, <1>2, <2>2, <2>3, <2>4 DEF InOrder
  <2>6. HandFirst(rt, e)
    BY <2>2 DEF HandFirst
  <2>7. Moves(c, e)
    BY <1>1, <1>2, <1>3, <2>2 DEF Moves, Attempts
  <2> QED  BY <2>1, <2>2, <2>5, <2>6, <2>7 DEF Chained
<1>4. CASE c.method = n
  <2> DEFINE e == [d EXCEPT !.step = "done", !.answer = "unavailable"]
  <2>1. MethodFailed(c) = e
    BY <1>1, <1>4 DEF MethodFailed
  <2>2. /\ e \in Call /\ e.step = "done" /\ e.wanted = c.wanted
        /\ e.method = c.method /\ e.source = c.source /\ e.track = None
        /\ e.attempts = Append(c.attempts, record) /\ e.answer = "unavailable"
    <3>1. <<>> \in Seq(Track)
      OBVIOUS
    <3> HIDE DEF record
    <3>2. e \in Call
      BY <1>1, <1>2, <3>1 DEF Call
    <3> QED  BY <1>1, <3>2 DEF Call
  <2> HIDE DEF e, record
  <2>3. InOrder(e)
    BY <1>1, <2>2 DEF InOrder, Chained, Active
  <2>4. HandFirst(rt, e)
    BY <2>2 DEF HandFirst
  <2>5. Moves(c, e)
    BY <1>1, <1>2, <1>4, <2>2 DEF Moves, Attempts
  <2> QED  BY <2>1, <2>2, <2>3, <2>4, <2>5 DEF Chained
<1> QED  BY <1>1, <1>3, <1>4

LEMMA NextSourceMoves ==
  ASSUME NEW rt, NEW c, Chained(rt, c), c.step \in Active,
         c.source <= Len(Sources(c.wanted[c.method]))
  PROVE  Chained(rt, NextSource(c)) /\ Moves(c, NextSource(c))
<1> DEFINE d == NextSource(c)
<1>1. /\ c \in Call /\ c.wanted # <<>> /\ Distinct(c.wanted)
      /\ c.method \in DOMAIN c.wanted
      /\ c.source \in 1..Len(Sources(c.wanted[c.method]))
      /\ Len(c.attempts) = c.method - 1 /\ c.answer = None
  BY DEF Chained, InOrder, Active
<1>2. c.wanted[c.method] \in Methods
  BY <1>1, LenProperties, ElementOfSeq DEF Call
<1>3. Len(Sources(c.wanted[c.method])) \in Nat
  BY <1>2, SourceLists
<1>4. /\ d \in Call /\ d.step = "source" /\ d.wanted = c.wanted
      /\ d.method = c.method /\ d.source = c.source + 1 /\ d.track = None
      /\ d.attempts = c.attempts /\ d.answer = c.answer
  <2>1. c.source + 1 \in Nat /\ <<>> \in Seq(Track) /\ "source" \in Active
    BY <1>1 DEF Call, Active
  <2>2. d \in Call
    BY <1>1, <2>1 DEF NextSource, Call
  <2> QED  BY <1>1, <2>2 DEF NextSource, Call
<1> HIDE DEF d
<1>5. InOrder(d)
  BY <1>1, <1>3, <1>4 DEF InOrder
<1>6. HandFirst(rt, d) /\ Moves(c, d)
  BY <1>4 DEF HandFirst, Moves, Stays
<1> QED  BY <1>4, <1>5, <1>6 DEF d, Chained

\* A step of r leads from a state of r that is in order to another, and to the
\* chain it is a step or nothing.
Moved(r) == \E d : /\ Chained(runtime, d) /\ Moves(call[r], d)
                   /\ call' = [call EXCEPT ![r] = d]

LEMMA FailsMoved ==
  ASSUME ChainInv, NEW r \in Requests, NEW failure,
         call[r].step \in {"asked", "captions"}, Fails(r, failure)
  PROVE  Moved(r)
<1>1. /\ Chained(runtime, call[r]) /\ call[r].step \in Active
      /\ call[r].source <= Len(Sources(call[r].wanted[call[r].method]))
  BY DEF ChainInv, Active, Chained, InOrder
<1>2. \/ call' = [call EXCEPT ![r] = MethodFailed(call[r])]
      \/ call' = [call EXCEPT ![r] = NextSource(call[r])]
  BY DEF Fails
<1> QED  BY <1>1, <1>2, MethodFailedMoves, NextSourceMoves DEF Moved

LEMMA AcceptMoved ==
  ASSUME ChainInv, NEW r \in Requests, Accept(r)
  PROVE  Moved(r)
<1>1. PICK list \in MethodLists, allowed \in BOOLEAN :
        call' = [call EXCEPT ![r].wanted = Unique(list),
                             ![r].autoAllowed = allowed, ![r].step = "source"]
  BY DEF Accept
<1>2. call[r] = Idle /\ call \in [Requests -> Call]
  BY DEF ChainInv, Chained, InOrder, Accept
<1> DEFINE d == [Idle EXCEPT !.wanted = Unique(list), !.autoAllowed = allowed,
                             !.step = "source"]
<1>3. call' = [call EXCEPT ![r] = d]
  BY <1>1, <1>2
<1>4. Unique(list) \in Seq(Methods) \ {<<>>} /\ Distinct(Unique(list))
  BY TranscriptAssumption, UniqueList
<1>5. Idle \in Call
  BY <1>2 DEF ChainInv
<1>6. d \in Call
  BY <1>4, <1>5 DEF Call
<1>7. /\ d.step = "source" /\ d.wanted = Unique(list) /\ d.method = 1 /\ d.source = 1
      /\ d.attempts = <<>> /\ d.answer = None /\ d.track = None
      /\ Idle.wanted = <<>> /\ Idle.attempts = <<>> /\ Idle.answer = None
  BY DEF Idle
<1> HIDE DEF d
<1>8. 1 \in DOMAIN d.wanted /\ d.wanted[1] \in Methods
  <2>1. Len(Unique(list)) \in Nat \ {0} /\ DOMAIN Unique(list) = 1..Len(Unique(list))
    BY <1>4, LenProperties, EmptySeq
  <2> QED  BY <1>4, <1>7, <2>1, ElementOfSeq
<1>9. InOrder(d)
  BY <1>4, <1>7, <1>8, SourceLists DEF InOrder
<1>10. HandFirst(runtime, d) /\ Moves(call[r], d)
  BY <1>2, <1>4, <1>7 DEF HandFirst, Moves, Accepts
<1> QED  BY <1>3, <1>6, <1>9, <1>10 DEF Moved, Chained

LEMMA GetWatchPageMoved ==
  ASSUME ChainInv, NEW r \in Requests, GetWatchPage(r)
  PROVE  Moved(r)
<1>1. Chained(runtime, call[r]) /\ call[r].step = "source" /\ call[r] \in Call
  BY DEF ChainInv, Chained, GetWatchPage, AtSource
<1>2. CASE call' = [call EXCEPT ![r] = MethodFailed(call[r])]
  BY <1>1, <1>2, MethodFailedMoves DEF Moved, Active
<1>3. CASE call' = [call EXCEPT ![r].page = TRUE]
  <2> DEFINE d == [call[r] EXCEPT !.page = TRUE]
  <2>1. call' = [call EXCEPT ![r] = d]
    BY <1>3
  <2>2. /\ d \in Call /\ d.step = "source" /\ d.wanted = call[r].wanted
        /\ d.method = call[r].method /\ d.source = call[r].source
        /\ d.track = call[r].track /\ d.offer = call[r].offer
        /\ d.attempts = call[r].attempts /\ d.answer = call[r].answer
    BY <1>1 DEF Call
  <2> HIDE DEF d
  <2>3. InOrder(d) /\ HandFirst(runtime, d) /\ Moves(call[r], d)
    BY <1>1, <2>2 DEF Chained, InOrder, HandFirst, Moves, Stays
  <2> QED  BY <2>1, <2>2, <2>3 DEF Moved, Chained
<1>4. \E fetched \in BOOLEAN :
        call' = [call EXCEPT ![r] = IF fetched THEN [@ EXCEPT !.page = TRUE]
                                    ELSE MethodFailed(@)]
  BY DEF GetWatchPage
<1> QED  BY <1>2, <1>3, <1>4

LEMMA AskMoved ==
  ASSUME ChainInv, NEW r \in Requests, Ask(r)
  PROVE  Moved(r)
<1>1. /\ Chained(runtime, call[r]) /\ call[r].step = "source" /\ call[r] \in Call
      /\ call[r].source <= Len(Sources(call[r].wanted[call[r].method]))
  BY DEF ChainInv, Chained, Ask, AtSource, Method
<1> DEFINE d == [call[r] EXCEPT !.step = "asked"]
<1>2. call' = [call EXCEPT ![r] = d]
  BY DEF Ask
<1>3. /\ d \in Call /\ d.step = "asked" /\ d.wanted = call[r].wanted
      /\ d.method = call[r].method /\ d.source = call[r].source
      /\ d.track = call[r].track /\ d.offer = call[r].offer
      /\ d.attempts = call[r].attempts /\ d.answer = call[r].answer
  BY <1>1 DEF Call
<1> HIDE DEF d
<1>4. InOrder(d) /\ HandFirst(runtime, d) /\ Moves(call[r], d)
  BY <1>1, <1>3 DEF Chained, InOrder, HandFirst, Moves, Stays
<1> QED  BY <1>2, <1>3, <1>4 DEF Moved, Chained

LEMMA ReplyMoved ==
  ASSUME ChainInv, NEW r \in Requests, Reply(r)
  PROVE  Moved(r)
<1>1. PICK offer \in Offers :
        LET track == Picked(Method(r), offer, call[r].autoAllowed) IN
        IF track = None
          THEN Fails(r, "no_track")
          ELSE call' = [call EXCEPT ![r].step = "captions", ![r].offer = offer,
                                    ![r].track = track]
  BY DEF Reply
<1> DEFINE track == Picked(Method(r), offer, call[r].autoAllowed)
<1>2. CASE track = None
  BY <1>1, <1>2, FailsMoved DEF Reply
<1>3. CASE track # None
  <2> DEFINE d == [call[r] EXCEPT !.step = "captions", !.offer = offer, !.track = track]
  <2>1. /\ Chained(runtime, call[r]) /\ call[r].step = "asked" /\ call[r] \in Call
        /\ call[r].wanted # <<>> /\ call[r].method \in DOMAIN call[r].wanted
    BY DEF ChainInv, Chained, InOrder, Reply
  <2>2. /\ Method(r) \in Methods /\ Method(r) = call[r].wanted[call[r].method]
        /\ call[r].autoAllowed \in BOOLEAN
    BY <2>1, LenProperties, ElementOfSeq DEF Call, Method
  <2>3. offer \in Seq(Track)
    BY TranscriptAssumption
  <2>4. /\ track \in Track \cup {None}
        /\ (track # None /\ track.auto) =>
             \A t \in ToSet(offer) :
               \/ t.auto \/ t.lang = "other"
               \/ t.lang = "base" /\ runtime = "js" /\ Method(r) = "yt_dlp"
    BY <2>2, <2>3, PickedTrack
  <2>5. call' = [call EXCEPT ![r] = d]
    BY <1>1, <1>3
  <2> HIDE DEF track
  <2>6. d \in Call
    BY <2>1, <2>3, <2>4 DEF Call
  <2>7. /\ d.step = "captions" /\ d.wanted = call[r].wanted
        /\ d.method = call[r].method /\ d.source = call[r].source
        /\ d.track = track /\ d.offer = offer
        /\ d.attempts = call[r].attempts /\ d.answer = call[r].answer
    BY <2>1 DEF Call
  <2> HIDE DEF d
  <2>8. InOrder(d) /\ Moves(call[r], d)
    BY <2>1, <2>7 DEF Chained, InOrder, Moves, Stays
  <2>9. HandFirst(runtime, d)
    BY <2>2, <2>4, <2>7 DEF HandFirst
  <2> QED  BY <2>5, <2>6, <2>8, <2>9 DEF Moved, Chained
<1> QED  BY <1>2, <1>3

LEMMA DeliverMoved ==
  ASSUME ChainInv, NEW r \in Requests, Deliver(r)
  PROVE  Moved(r)
<1> DEFINE record == [method |-> Method(r), status |-> "ok"]
           d == [call[r] EXCEPT !.attempts = Append(@, record),
                                !.answer = Method(r), !.step = "done",
                                !.track = None, !.offer = <<>>]
<1>1. /\ Chained(runtime, call[r]) /\ call[r].step = "captions" /\ call[r] \in Call
      /\ call[r].wanted # <<>> /\ call[r].method \in DOMAIN call[r].wanted
      /\ Len(call[r].attempts) = call[r].method - 1 /\ call[r].answer = None
  BY DEF ChainInv, Chained, InOrder, Deliver
<1>2. /\ Method(r) \in Methods /\ Method(r) = call[r].wanted[call[r].method]
      /\ call[r].method \in Nat
      /\ call[r].attempts \in Seq([method: Methods, status: {"ok", "error"}])
  BY <1>1, LenProperties, ElementOfSeq DEF Call, Method
<1>3. call' = [call EXCEPT ![r] = d]
  BY DEF Deliver
<1>4. /\ record \in [method: Methods, status: {"ok", "error"}]
      /\ record = [ method |-> call[r].wanted[Len(call[r].attempts) + 1],
                    status |-> "ok" ]
      /\ Method(r) = call[r].wanted[Len(call[r].attempts) + 1]
  BY <1>1, <1>2
<1> HIDE DEF record
<1>5. /\ Append(call[r].attempts, record) \in Seq([method: Methods, status: {"ok", "error"}])
      /\ <<>> \in Seq(Track)
  BY <1>2, <1>4
<1>6. d \in Call
  BY <1>1, <1>2, <1>5 DEF Call
<1>7. /\ d.step = "done" /\ d.wanted = call[r].wanted
      /\ d.method = call[r].method /\ d.source = call[r].source /\ d.track = None
      /\ d.attempts = Append(call[r].attempts, record) /\ d.answer = Method(r)
  BY <1>1 DEF Call
<1> HIDE DEF d
<1>8. InOrder(d) /\ HandFirst(runtime, d)
  BY <1>1, <1>7 DEF Chained, InOrder, HandFirst
<1>9. Moves(call[r], d)
  BY <1>1, <1>4, <1>7 DEF Moves, Attempts
<1> QED  BY <1>3, <1>6, <1>8, <1>9 DEF Moved, Chained

LEMMA StepMoved ==
  ASSUME ChainInv, NEW r \in Requests, Accept(r) \/ Step(r)
  PROVE  Moved(r)
<1>1. Chained(runtime, call[r])
  BY DEF ChainInv
<1>2. CASE SkipInstance(r)
  BY <1>1, <1>2, NextSourceMoves DEF SkipInstance, AtSource, Method, Moved, Active
<1>3. CASE NoSourceLeft(r)
  BY <1>1, <1>3, MethodFailedMoves DEF NoSourceLeft, Moved, Active
<1>4. CASE NoReply(r)
  BY <1>4, FailsMoved DEF NoReply
<1>5. CASE Garbled(r)
  BY <1>5, FailsMoved DEF Garbled
<1>6. CASE CaptionsFail(r)
  BY <1>6, FailsMoved DEF CaptionsFail
<1> QED  BY <1>2, <1>3, <1>4, <1>5, <1>6, AcceptMoved, GetWatchPageMoved, AskMoved,
            ReplyMoved, DeliverMoved DEF Step

LEMMA MovedCall ==
  ASSUME call \in [Requests -> Call], NEW r \in Requests, NEW d,
         call' = [call EXCEPT ![r] = d]
  PROVE  \A q \in Requests : call'[q] = IF q = r THEN d ELSE call[q]
OBVIOUS

LEMMA ChainInit == Init => ChainInv
<1> SUFFICES ASSUME Init  PROVE ChainInv
  OBVIOUS
<1>1. Idle \in Call
  <2>1. <<>> \in Seq(Methods) /\ <<>> \in Seq(Track)
        /\ <<>> \in Seq([method: Methods, status: {"ok", "error"}])
    OBVIOUS
  <2> QED  BY <2>1 DEF Idle, Call
<1>2. InOrder(Idle) /\ HandFirst(runtime, Idle)
  BY DEF Idle, InOrder, HandFirst
<1> HIDE DEF Idle
<1>3. \A r \in Requests : call[r] = Idle
  BY DEF Init
<1>4. call \in [Requests -> Call]
  BY <1>1 DEF Init
<1> QED  BY <1>1, <1>2, <1>3, <1>4, TranscriptAssumption DEF Init, ChainInv, Chained

LEMMA ChainStep == ChainInv /\ [Next]_vars => ChainInv'
<1> SUFFICES ASSUME ChainInv, [Next]_vars  PROVE ChainInv'
  OBVIOUS
<1>1. CASE Tick
  BY <1>1, TranscriptAssumption DEF Tick, ChainInv
<1>2. CASE UNCHANGED vars
  BY <1>2 DEF vars, ChainInv
<1>3. ASSUME NEW r \in Requests, Accept(r) \/ Step(r)  PROVE ChainInv'
  <2>1. PICK d : Chained(runtime, d) /\ call' = [call EXCEPT ![r] = d]
    BY <1>3, StepMoved DEF Moved
  <2>2. UNCHANGED <<runtime, now>>
    BY <1>3 DEF Accept, Step, GetWatchPage, Ask, SkipInstance, NoSourceLeft, NoReply,
                Garbled, Reply, CaptionsFail, Deliver, Fails
  <2>3. \A q \in Requests : call'[q] = IF q = r THEN d ELSE call[q]
    BY <2>1, MovedCall DEF ChainInv
  <2>4. call' \in [Requests -> Call]
    BY <2>1 DEF ChainInv, Chained
  <2> QED  BY <2>1, <2>2, <2>3, <2>4 DEF ChainInv
<1> QED  BY <1>1, <1>2, <1>3 DEF Next

\* Every request is in order at every step.
THEOREM RequestsInOrder == Spec => []ChainInv
BY ChainInit, ChainStep, PTL DEF Spec

\* Captions made by hand in the language asked for are never passed over for
\* generated ones, nor, but for what Node takes from yt-dlp, those in its base
\* language: pickTrack on whatever the adapters collect.
THEOREM HandMadeFirst == Spec => []ManualPreferred
<1>1. ChainInv => ManualPreferred
  BY DEF ChainInv, Chained, HandFirst, ManualPreferred, Method
<1> QED  BY <1>1, RequestsInOrder, PTL

-----------------------------------------------------------------------------
(* Each request runs the chain of its adapters.                            *)

LEMMA ChainOfMoves ==
  ASSUME NEW r \in Requests, Moves(call[r], call'[r])
  PROVE  [C(r)!Next]_(C(r)!vars)
<1>1. CASE Accepts(call[r], call'[r])
  <2>1. C(r)!Accept
    BY <1>1 DEF Accepts, C!Accept, C!Distinct, Distinct
  <2> QED  BY <2>1 DEF C!Next
<1>2. CASE Stays(call[r], call'[r])
  BY <1>2 DEF Stays, C!vars
<1>3. CASE /\ Attempts(call[r], call'[r], "error")
           /\ call'[r].answer = IF Len(call'[r].attempts) = Len(call[r].wanted)
                                  THEN "unavailable" ELSE None
  <2>1. C(r)!Fail
    BY <1>3 DEF Attempts, C!Fail, C!Current
  <2> QED  BY <2>1 DEF C!Next
<1>4. CASE /\ Attempts(call[r], call'[r], "ok")
           /\ call'[r].answer = call[r].wanted[Len(call[r].attempts) + 1]
  <2>1. C(r)!Deliver
    BY <1>4 DEF Attempts, C!Deliver, C!Current
  <2> QED  BY <2>1 DEF C!Next
<1> QED  BY <1>1, <1>2, <1>3, <1>4 DEF Moves

\* Every transcript request is the chain of adapters it asked for: one record
\* per adapter, in order, none twice, no giving up before the last.
THEOREM RequestsAreChains == Spec => ImplementsChain
<1>1. Init => \A r \in Requests : C(r)!Init
  BY DEF Init, Idle, C!Init
<1>2. ChainInv /\ [Next]_vars => [\A r \in Requests : [C(r)!Next]_(C(r)!vars)]_vars
  <2> SUFFICES ASSUME ChainInv, Next, NEW q \in Requests
               PROVE  [C(q)!Next]_(C(q)!vars)
    OBVIOUS
  <2>1. CASE Tick
    BY <2>1, ChainOfMoves DEF Tick, Moves, Stays
  <2>2. ASSUME NEW r \in Requests, Accept(r) \/ Step(r)
        PROVE  [C(q)!Next]_(C(q)!vars)
    <3>1. PICK d : Moves(call[r], d) /\ call' = [call EXCEPT ![r] = d]
      BY <2>2, StepMoved DEF Moved
    <3>2. call'[q] = IF q = r THEN d ELSE call[q]
      BY <3>1, MovedCall DEF ChainInv
    <3>3. Moves(call[q], call'[q])
      BY <3>1, <3>2 DEF Moves, Stays
    <3> QED  BY <3>3, ChainOfMoves
  <2> QED  BY <2>1, <2>2 DEF Next
<1> QED  BY <1>1, <1>2, RequestsInOrder, PTL DEF Spec, ImplementsChain

-----------------------------------------------------------------------------
(* The circuit breaker.                                                    *)

\* The source that a request talks to, when its adapter has instances.
LEMMA InstanceAsked ==
  ASSUME ChainInv, NEW r \in Requests,
         AtSource(r) \/ call[r].step \in {"asked", "captions"}
  PROVE  /\ Method(r) \in Methods
         /\ Method(r) \in Brokered => Source(r) \in Instances
         /\ Method(r) = "piped" => Source(r) \in ToSet(Piped)
         /\ Method(r) = "invidious" => Source(r) \notin ToSet(Piped)
<1>1. /\ call[r] \in Call /\ call[r].wanted # <<>>
      /\ call[r].method \in DOMAIN call[r].wanted
      /\ call[r].source \in 1..(Len(Sources(Method(r))) + 1)
      /\ call[r].source <= Len(Sources(Method(r)))
  BY DEF ChainInv, Chained, InOrder, AtSource, Method
<1>2. Method(r) \in Methods
  BY <1>1, LenProperties, ElementOfSeq DEF Method, Call
<1>3. call[r].source \in 1..Len(Sources(Method(r)))
  BY <1>1, <1>2, SourceLists
<1> QED  BY <1>2, <1>3, SourceLists DEF Source

\* The failures after which an instance is marked are failures of an instance
\* that the runtime guards, and the other way round.
LEMMA MarksAreFailures ==
  ASSUME ChainInv, NEW r \in Requests, NEW failure,
         call[r].step \in {"asked", "captions"}
  PROVE  /\ Failed(Method(r), failure) => Source(r) \in Instances
         /\ Marks(Method(r), failure) <=>
              Failed(Method(r), failure) /\ Source(r) \in Guarded
<1>1. runtime \in {"js", "rust"}
  BY DEF ChainInv
<1>2. "js" # "rust" /\ Brokered = {"invidious", "piped"}
  BY DEF Brokered
<1>3. /\ Method(r) \in Brokered => Source(r) \in Instances
      /\ Method(r) = "piped" => Source(r) \in ToSet(Piped)
      /\ Method(r) = "invidious" => Source(r) \notin ToSet(Piped)
  BY InstanceAsked
<1>4. CASE runtime = "js"
  BY <1>2, <1>3, <1>4 DEF Failed, Marks, Guarded
<1>5. CASE runtime = "rust"
  BY <1>2, <1>3, <1>5 DEF Failed, Marks, Guarded
<1> QED  BY <1>1, <1>4, <1>5

LEMMA FailsBreaker ==
  ASSUME ChainInv, BreakerInv, NEW r \in Requests, NEW failure,
         call[r].step \in {"asked", "captions"}, Fails(r, failure)
  PROVE  BreakerInv'
<1> DEFINE m == Method(r)
           s == Source(r)
<1>1. /\ UNCHANGED <<runtime, now>>
      /\ expiry' = IF Marks(m, failure) THEN [expiry EXCEPT ![s] = now + Cooldown]
                   ELSE expiry
      /\ failedAt' = IF Failed(m, failure) THEN [failedAt EXCEPT ![s] = now]
                     ELSE failedAt
  BY DEF Fails, MarkInstance, MarkedUntil
<1>2. /\ Failed(m, failure) => s \in Instances
      /\ Marks(m, failure) <=> Failed(m, failure) /\ s \in Guarded
  BY MarksAreFailures
<1>3. now \in Nat /\ Cooldown \in Nat \ {0} /\ None \notin Int
  BY TranscriptAssumption DEF BreakerInv
<1>4. /\ expiry \in [Instances -> Int \cup {None}]
      /\ failedAt \in [Instances -> Int \cup {None}]
      /\ \A i \in Instances : Breaker(i)
  BY DEF BreakerInv
<1> HIDE DEF m, s
<1>5. /\ now' \in Nat
      /\ expiry' \in [Instances -> Int \cup {None}]
      /\ failedAt' \in [Instances -> Int \cup {None}]
  BY <1>1, <1>2, <1>3, <1>4
<1>6. Guarded' = Guarded
  BY <1>1 DEF Guarded
<1>7. ASSUME NEW i \in Instances  PROVE Breaker(i)'
  <2>1. CASE i = s /\ Failed(m, failure)
    <3>1. failedAt'[i] = now
      BY <1>1, <1>4, <2>1
    <3>2. expiry'[i] = IF i \in Guarded THEN now + Cooldown ELSE expiry[i]
      BY <1>1, <1>2, <1>4, <2>1
    <3>3. expiry[i] # None => i \in Guarded
      BY <1>4 DEF Breaker
    <3>4. now + Cooldown # None /\ now # None
      BY <1>3
    <3> QED  BY <1>1, <1>3, <1>6, <3>1, <3>2, <3>3, <3>4 DEF Breaker
  <2>2. CASE ~(i = s /\ Failed(m, failure))
    <3>1. failedAt'[i] = failedAt[i] /\ expiry'[i] = expiry[i]
      BY <1>1, <1>2, <1>4, <2>2
    <3> QED  BY <1>1, <1>4, <1>6, <3>1 DEF Breaker
  <2> QED  BY <2>1, <2>2
<1> QED  BY <1>5, <1>7 DEF BreakerInv

LEMMA AskBreaker ==
  ASSUME ChainInv, BreakerInv, NEW r \in Requests, Ask(r)
  PROVE  BreakerInv'
<1> DEFINE s == Source(r)
<1>1. UNCHANGED <<runtime, now, failedAt>> /\ Guarded' = Guarded
  BY DEF Ask, Guarded
<1>2. CASE expiry' = expiry
  BY <1>1, <1>2 DEF BreakerInv, Breaker
<1>3. CASE /\ runtime = "js" /\ Method(r) \in Brokered
           /\ expiry' = [expiry EXCEPT ![s] = None]
  <2>1. s \in Instances /\ ~IsInstanceDown(s)
    BY <1>3, InstanceAsked DEF Ask
  <2>2. expiry[s] # None => now > failedAt[s] + Cooldown
    <3>1. SUFFICES ASSUME expiry[s] # None  PROVE now > failedAt[s] + Cooldown
      OBVIOUS
    <3>2. expiry[s] = failedAt[s] + Cooldown /\ failedAt[s] \in Nat
      BY <2>1, <3>1 DEF BreakerInv, Breaker
    <3>3. ~(now <= expiry[s])
      BY <1>3, <2>1, <3>1 DEF IsInstanceDown
    <3> QED  BY <3>2, <3>3, TranscriptAssumption DEF BreakerInv
  <2>3. failedAt[s] # None => now - failedAt[s] >= Cooldown
    <3>1. s \in Guarded
      BY <1>3, <2>1 DEF Guarded
    <3> QED  BY <2>1, <2>2, <3>1, TranscriptAssumption DEF BreakerInv, Breaker
  <2>4. \A i \in Instances : expiry'[i] = IF i = s THEN None ELSE expiry[i]
    BY <1>3 DEF BreakerInv
  <2>5. expiry' \in [Instances -> Int \cup {None}]
    BY <1>3 DEF BreakerInv
  <2>6. \A i \in Instances : Breaker(i)'
    BY <1>1, <2>3, <2>4 DEF BreakerInv, Breaker
  <2> QED  BY <1>1, <2>5, <2>6 DEF BreakerInv
<1> QED  BY <1>2, <1>3 DEF Ask

LEMMA BreakerStep == ChainInv /\ BreakerInv /\ [Next]_vars => BreakerInv'
<1> SUFFICES ASSUME ChainInv, BreakerInv, [Next]_vars  PROVE BreakerInv'
  OBVIOUS
<1>1. CASE Tick
  <2>1. UNCHANGED <<runtime, expiry, failedAt>> /\ now' = now + 1 /\ Guarded' = Guarded
    BY <1>1 DEF Tick, Guarded
  <2>2. now' \in Nat
    BY <2>1 DEF BreakerInv
  <2>3. \A i \in Instances : Breaker(i)'
    BY <2>1, TranscriptAssumption DEF BreakerInv, Breaker
  <2> QED  BY <2>1, <2>2, <2>3 DEF BreakerInv
<1>2. CASE UNCHANGED <<runtime, now, expiry, failedAt>>
  BY <1>2 DEF BreakerInv, Breaker, Guarded
<1>3. ASSUME NEW r \in Requests, NEW failure,
             call[r].step \in {"asked", "captions"}, Fails(r, failure)
      PROVE  BreakerInv'
  BY <1>3, FailsBreaker
<1>4. ASSUME NEW r \in Requests, Accept(r) \/ Step(r)  PROVE BreakerInv'
  <2>1. CASE Ask(r)
    BY <2>1, AskBreaker
  <2>2. CASE NoReply(r)
    BY <1>3, <2>2 DEF NoReply
  <2>3. CASE Garbled(r)
    BY <1>3, <2>3 DEF Garbled
  <2>4. CASE CaptionsFail(r)
    BY <1>3, <2>4 DEF CaptionsFail
  <2>5. CASE Reply(r)
    <3>1. PICK offer \in Offers :
            \/ Fails(r, "no_track")
            \/ UNCHANGED <<runtime, now, expiry, failedAt>>
      BY <2>5 DEF Reply, NoMark
    <3> QED  BY <1>2, <1>3, <2>5, <3>1 DEF Reply
  <2> QED  BY <1>2, <1>4, <2>1, <2>2, <2>3, <2>4, <2>5
           DEF Step, Accept, GetWatchPage, SkipInstance, NoSourceLeft, Deliver, NoMark
<1> QED  BY <1>1, <1>2, <1>4 DEF Next, vars

\* What the map of instances says of each of them is what its last failure says.
THEOREM BreakerRemembers == Spec => []BreakerInv
<1>1. Init => BreakerInv
  BY TranscriptAssumption DEF Init, BreakerInv, Breaker
<1>2. Init /\ [][Next]_vars /\ []ChainInv => []BreakerInv
  BY <1>1, BreakerStep, PTL
<1> QED  BY <1>2, RequestsInOrder, PTL DEF Spec

\* The type invariant, from the two invariants above.
THEOREM TranscriptTypeCorrect == Spec => []TypeOK
<1>1. ChainInv /\ BreakerInv => TypeOK
  <2> SUFFICES ASSUME ChainInv, BreakerInv  PROVE TypeOK
    OBVIOUS
  <2>1. ASSUME NEW r \in Requests, call[r].wanted # <<>>
        PROVE  /\ call[r].method \in DOMAIN call[r].wanted
               /\ call[r].source \in 1..(Len(Sources(Method(r))) + 1)
    <3>1. call[r].step # "idle"
      BY <2>1 DEF ChainInv, Chained, InOrder, Idle
    <3> QED  BY <3>1 DEF ChainInv, Chained, InOrder, Method
  <2> QED  BY <2>1 DEF ChainInv, BreakerInv, TypeOK
<1> QED  BY <1>1, RequestsInOrder, BreakerRemembers, PTL

\* Only Ask asks a source.
LEMMA AsksByAsk ==
  ASSUME ChainInv, NEW r \in Requests, Next, Asks(r)
  PROVE  Ask(r)
<1>1. /\ call[r].step = "source" /\ call'[r].step = "asked" /\ call[r] \in Call
      /\ call'[r] # call[r] /\ call \in [Requests -> Call]
      /\ Method(r) \notin Watching
  BY DEF Asks, ChainInv, Chained, Brokered, Watching
<1>2. ~Tick
  BY <1>1 DEF Tick
<1>3. PICK q \in Requests : Accept(q) \/ Step(q)
  BY <1>2 DEF Next
<1>4. q = r
  <2>1. PICK d : call' = [call EXCEPT ![q] = d]
    BY <1>3, StepMoved DEF Moved
  <2> QED  BY <1>1, <2>1
<1>5. MethodFailed(call[r]).step # "asked" /\ NextSource(call[r]).step # "asked"
  BY <1>1 DEF MethodFailed, NextSource, Call
<1>6. ~SkipInstance(r) /\ ~NoSourceLeft(r) /\ ~GetWatchPage(r)
  BY <1>1, <1>5 DEF SkipInstance, NoSourceLeft, GetWatchPage
<1> QED  BY <1>1, <1>3, <1>4, <1>6
         DEF Accept, Step, NoReply, Garbled, Reply, CaptionsFail, Deliver

\* No request asks an instance within the cooldown of its last failure, whoever
\* met that failure: isInstanceDown before each fetch, with the entry of an
\* instance that has failed kept until it has rested.
THEOREM NoneAskedTooSoon == Spec => FailedInstanceRests
<1>1. ChainInv /\ BreakerInv /\ [Next]_vars =>
        [\A r \in Requests : (Asks(r) /\ (runtime = "js" \/ Method(r) = "piped")) =>
           Rested(Source(r))]_vars
  <2> SUFFICES ASSUME ChainInv, BreakerInv, Next, NEW r \in Requests, Asks(r),
                      runtime = "js" \/ Method(r) = "piped"
               PROVE  Rested(Source(r))
    OBVIOUS
  <2> DEFINE s == Source(r)
  <2>1. AtSource(r) /\ Method(r) \in Brokered /\ ~IsInstanceDown(s)
    BY AsksByAsk DEF Ask, Asks
  <2>2. s \in Instances /\ s \in Guarded
    BY <2>1, InstanceAsked DEF Guarded, ChainInv
  <2>3. Breaker(s) /\ now \in Nat /\ Cooldown \in Nat /\ None \notin Int
    BY <2>2, TranscriptAssumption DEF BreakerInv
  <2> HIDE DEF s
  <2>4. CASE failedAt[s] = None
    BY <2>4 DEF Rested, s
  <2>5. CASE failedAt[s] # None /\ expiry[s] = None
    BY <2>2, <2>3, <2>5 DEF Breaker, Rested, s
  <2>6. CASE failedAt[s] # None /\ expiry[s] # None
    <3>1. expiry[s] = failedAt[s] + Cooldown /\ failedAt[s] \in Nat
      BY <2>3, <2>6 DEF Breaker
    <3>2. ~(now < expiry[s])
      <4>1. runtime \in {"js", "rust"}
        BY DEF ChainInv
      <4> QED  BY <2>1, <2>3, <2>6, <3>1, <4>1 DEF IsInstanceDown
    <3>3. now - failedAt[s] >= Cooldown
      BY <2>3, <3>1, <3>2
    <3> QED  BY <3>3 DEF Rested, s
  <2> QED  BY <2>4, <2>5, <2>6
<1> QED  BY <1>1, RequestsInOrder, BreakerRemembers, PTL DEF Spec, FailedInstanceRests

\* Only SkipInstance passes over an instance that has not been asked.
LEMMA SkipsBySkip ==
  ASSUME ChainInv, NEW r \in Requests, Next, Skips(r)
  PROVE  SkipInstance(r)
<1>1. /\ call[r].step = "source" /\ call'[r].step = "source" /\ call[r] \in Call
      /\ call'[r] # call[r] /\ call \in [Requests -> Call]
      /\ Method(r) \notin Watching /\ AtSource(r)
  BY DEF Skips, AtSource, ChainInv, Chained, Brokered, Watching
<1>2. ~Tick
  BY <1>1 DEF Tick
<1>3. PICK q \in Requests : Accept(q) \/ Step(q)
  BY <1>2 DEF Next
<1>4. q = r
  <2>1. PICK d : call' = [call EXCEPT ![q] = d]
    BY <1>3, StepMoved DEF Moved
  <2> QED  BY <1>1, <2>1
<1>5. ~Ask(r) /\ ~NoSourceLeft(r) /\ ~GetWatchPage(r)
  BY <1>1 DEF Ask, NoSourceLeft, GetWatchPage, Call
<1> QED  BY <1>1, <1>3, <1>4, <1>5
         DEF Accept, Step, NoReply, Garbled, Reply, CaptionsFail, Deliver

\* An instance is passed over only within the cooldown of a failure, however
\* many requests have marked it.
THEOREM NoneRestsTooLong == Spec => RestIsBounded
<1>1. ChainInv /\ BreakerInv /\ [Next]_vars =>
        [\A r \in Requests : Skips(r) =>
           /\ failedAt[Source(r)] # None
           /\ now - failedAt[Source(r)] <= Cooldown]_vars
  <2> SUFFICES ASSUME ChainInv, BreakerInv, Next, NEW r \in Requests, Skips(r)
               PROVE  /\ failedAt[Source(r)] # None
                      /\ now - failedAt[Source(r)] <= Cooldown
    OBVIOUS
  <2> DEFINE s == Source(r)
  <2>1. AtSource(r) /\ Method(r) \in Brokered /\ IsInstanceDown(s)
    BY SkipsBySkip DEF SkipInstance
  <2>2. s \in Instances
    BY <2>1, InstanceAsked
  <2>3. /\ Breaker(s) /\ now \in Nat /\ Cooldown \in Nat /\ None \notin Int
        /\ runtime \in {"js", "rust"}
    BY <2>2, TranscriptAssumption DEF BreakerInv, ChainInv
  <2> HIDE DEF s
  <2>4. /\ expiry[s] # None /\ failedAt[s] # None
        /\ expiry[s] = failedAt[s] + Cooldown /\ failedAt[s] \in Nat
    BY <2>1, <2>3 DEF IsInstanceDown, Breaker
  <2>5. now <= expiry[s]
    BY <2>1, <2>3, <2>4 DEF IsInstanceDown
  <2>6. now - failedAt[s] <= Cooldown
    BY <2>3, <2>4, <2>5
  <2> QED  BY <2>4, <2>6 DEF s
<1> QED  BY <1>1, RequestsInOrder, BreakerRemembers, PTL DEF Spec, RestIsBounded

=============================================================================
