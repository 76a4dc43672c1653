---------------------------- MODULE ServingProofs ----------------------------
(***************************************************************************)
(* Theorems about Serving: what a call that is given up may cost, how many *)
(* runs a caller may leave behind, and that the counters of the server are *)
(* the calls it answered.                                                  *)
(***************************************************************************)
EXTENDS Serving, FiniteSetTheorems, SequenceTheorems,
        WellFoundedInduction, TLAPS

(* A call by itself, on runtime r at time t.  Whatever is urgent is done   *)
(* before the clock moves on: this bounds the age of a call at each stage. *)
CallInv(q, r, t) ==
    /\ q.sent <= t
    /\ q.server \in {"coming", "lost"} => q.run = "none" /\ q.code = None
    /\ q.server = "coming" => t - q.sent <= Lag
    /\ q.server \notin {"coming", "lost"} =>
         q.sent <= q.arrived /\ q.arrived <= q.sent + Lag /\ q.arrived <= t
    /\ q.caller = "waiting" => t - q.sent <= Patience
    /\ q.caller = "timed_out" => q.gaveUp >= q.sent + Patience
    /\ q.run = "running" =>
         t - q.arrived <= Longest /\ q.server \in {"running", "gone"}
    /\ q.server = "running" => q.run = "running"
    /\ q.server \in {"recording", "responding"} => t - q.arrived <= Longest
    /\ q.server = "recording" =>
         /\ q.run = "over"
         /\ q.result \in Outcomes /\ q.result.kind = q.kind
         /\ q.code = (IF q.result.success THEN "ok" ELSE "failed")
    /\ r = "js" /\ q.server = "gone" => q.run # "running"

CallsInv(cs, r, t) == \A i \in DOMAIN cs : CallInv(cs[i], r, t)

\* The calls that were let in, at t or later.
Since(cs, t) == {i \in DOMAIN cs : cs[i].run # "none" /\ cs[i].arrived >= t}

\* The window of the key: all that were let in came before its end, no more in
\* it than it counts, and no more than the rate in any of the k windows before.
WindowInv(row, cs, t) ==
    LET start == row.use.windowStart IN
    /\ row.use.windowCount <= row.rate
    /\ start = None =>
         row.use.windowCount = 0 /\ \A i \in DOMAIN cs : cs[i].run = "none"
    /\ start # None =>
         /\ start \in 1..t
         /\ \A i \in DOMAIN cs : cs[i].run # "none" => cs[i].arrived <= start + Window
         /\ \A k \in Nat : Cardinality(Since(cs, start - k * (Window + 1)))
                             <= k * row.rate + row.use.windowCount

\* The key is in force, and the last search it was charged for is a call.
KeyInv(row, cs, t) ==
    /\ row.active /\ row.expires = None /\ row.cooldown = MinCooldown
    /\ row.use.lastSearch # None =>
         \E j \in DOMAIN cs :
           /\ cs[j].kind = "search" /\ cs[j].run # "none"
           /\ cs[j].arrived = row.use.lastSearch
    /\ WindowInv(row, cs, t)

\* A refusal for the cooldown has a search that was charged.
Paid(cs) ==
    \A i \in DOMAIN cs : cs[i].code = "cooldown" =>
      \E j \in DOMAIN cs \ {i} :
        /\ cs[j].kind = "search" /\ cs[j].run # "none"
        /\ cs[i].arrived - cs[j].arrived \in 0..(MinCooldown * Second - 1)

CallerInv ==
    /\ runtime \in Runtimes /\ now \in Nat \ {0}
    /\ key \in [Callers -> Row] /\ call \in [Callers -> Seq(Call)]
    /\ \A c \in Callers :
         /\ Len(call[c]) <= MaxCalls
         /\ CallsInv(call[c], runtime, now)
         /\ KeyInv(key[c], call[c], now)
         /\ Paid(call[c])

\* What no step but an arrival may do to a call: a run that was started is not
\* taken back, none is started, and nothing is refused.
Follows(old, new) ==
    /\ new.kind = old.kind
    /\ old.run = "none" <=> new.run = "none"
    /\ old.run # "none" => new.arrived = old.arrived
    /\ new.code = "cooldown" => old.code = "cooldown" /\ new.arrived = old.arrived

-----------------------------------------------------------------------------
(* Sequences of calls.                                                     *)

LEMMA CallsKept ==
  ASSUME NEW cs \in Seq(Call), NEW i \in DOMAIN cs, NEW new \in Call,
         NEW r, NEW t, CallsInv(cs, r, t), CallInv(new, r, t)
  PROVE  CallsInv([cs EXCEPT ![i] = new], r, t)
<1> DEFINE ds == [cs EXCEPT ![i] = new]
<1>1. DOMAIN ds = DOMAIN cs
      /\ \A j \in DOMAIN cs : ds[j] = IF j = i THEN new ELSE cs[j]
  OBVIOUS
<1> HIDE DEF ds
<1>2. CallsInv(ds, r, t)
  BY <1>1 DEF CallsInv
<1> QED  BY <1>2 DEF ds

\* Calls that are let in by one sequence exactly when they are by the other.
LEMMA WindowKept ==
  ASSUME NEW row, NEW cs, NEW ds, NEW t, WindowInv(row, cs, t),
         \A j \in DOMAIN ds : ds[j].run # "none" =>
           j \in DOMAIN cs /\ cs[j].run # "none" /\ ds[j].arrived = cs[j].arrived,
         \A j \in DOMAIN cs : cs[j].run # "none" =>
           j \in DOMAIN ds /\ ds[j].run # "none" /\ ds[j].arrived = cs[j].arrived
  PROVE  WindowInv(row, ds, t)
<1>1. \A u : Since(ds, u) = Since(cs, u)
  BY DEF Since
<1> QED  BY <1>1 DEF WindowInv

LEMMA KeyKept ==
  ASSUME NEW cs \in Seq(Call), NEW i \in DOMAIN cs, NEW new \in Call,
         NEW row, NEW t, KeyInv(row, cs, t), Paid(cs), Follows(cs[i], new)
  PROVE  /\ KeyInv(row, [cs EXCEPT ![i] = new], t)
         /\ Paid([cs EXCEPT ![i] = new])
<1> DEFINE ds == [cs EXCEPT ![i] = new]
<1>1. DOMAIN ds = DOMAIN cs
      /\ \A j \in DOMAIN cs : ds[j] = IF j = i THEN new ELSE cs[j]
  OBVIOUS
<1>2. \A j \in DOMAIN cs : Follows(cs[j], ds[j])
  BY <1>1 DEF Follows
<1> HIDE DEF ds
<1>3. WindowInv(row, ds, t)
  BY <1>1, <1>2, WindowKept DEF KeyInv, Follows
<1>4. KeyInv(row, ds, t)
  BY <1>1, <1>2, <1>3 DEF KeyInv, Follows
<1>5. Paid(ds)
  <2> SUFFICES ASSUME NEW k \in DOMAIN ds, ds[k].code = "cooldown"
               PROVE  \E j \in DOMAIN ds \ {k} :
                        /\ ds[j].kind = "search" /\ ds[j].run # "none"
                        /\ ds[k].arrived - ds[j].arrived \in 0..(MinCooldown * Second - 1)
    BY DEF Paid
  <2>1. cs[k].code = "cooldown" /\ ds[k].arrived = cs[k].arrived
    BY <1>1, <1>2 DEF Follows
  <2>2. PICK j \in DOMAIN cs \ {k} :
          /\ cs[j].kind = "search" /\ cs[j].run # "none"
          /\ cs[k].arrived - cs[j].arrived \in 0..(MinCooldown * Second - 1)
    BY <1>1, <2>1 DEF Paid
  <2>3. /\ ds[j].kind = "search" /\ ds[j].run # "none"
        /\ ds[j].arrived = cs[j].arrived
    BY <1>2, <2>2 DEF Follows
  <2> QED  BY <1>1, <2>1, <2>2, <2>3
<1> QED  BY <1>4, <1>5 DEF ds

-----------------------------------------------------------------------------
(* The key of a caller.                                                    *)

LEMMA NoRowIsNoRow == NoRow \notin Row
BY DEF NoRow, Row

LEMMA Scaled ==
  ASSUME NEW a \in Int, NEW b \in Int
  PROVE a * b \in Int
OBVIOUS

LEMMA CreatedRowType ==
  ASSUME NEW r \in Runtimes, NEW t \in Int,
         NEW rate \in Int \cup {None}, NEW lifetime \in Int \cup {None},
         NEW cooldown \in Int \cup {None}
  PROVE CreatedRow(r, t, rate, lifetime, cooldown) \in Row
<1>1. JsRate(rate) \in 1..MaxRate /\ RsRate(rate) \in 1..MaxRate
  BY KeyRowAssumption DEF JsRate, RsRate, Clamp
<1>2. /\ JsCooldown(cooldown) \in MinCooldown..MaxCooldown
      /\ RsCooldown(cooldown) \in MinCooldown..MaxCooldown
  BY KeyRowAssumption DEF JsCooldown, RsCooldown, Clamp
<1>3. /\ JsExpires(t, lifetime) \in Int \cup {None}
      /\ RsExpires(t, lifetime) \in Int \cup {None}
  BY KeyRowAssumption, Scaled DEF JsExpires, RsExpires
<1>4. QED
  BY <1>1, <1>2, <1>3, KeyRowAssumption
  DEF CreatedRow, JsNewRow, RsNewRow, NewRow, Row, Use

LEMMA ChargedType ==
  ASSUME NEW row \in Row, NEW search \in BOOLEAN, NEW t \in Int
  PROVE JsCharged(row, search, t) \in Row /\ RsCharged(row, search, t) \in Row
<1> DEFINE last == IF search THEN t ELSE row.use.lastSearch
<1>1. row.use \in Use
  BY DEF Row
<1>2. last \in Int \cup {None} /\ row.use.uses + 1 \in Nat
  BY <1>1 DEF Use
<1>3. /\ JsWindow(row, t).start \in Int
      /\ JsWindow(row, t).count \in Nat
  BY <1>1, KeyRowAssumption DEF Use, Present, JsWindow, JsWindowOver
<1>4. RsWindowStart(row, t) \in Int /\ RsWindowCount(row, t) \in Nat
  BY <1>1, KeyRowAssumption DEF Use, RsWindowStart, RsWindowCount
<1>5. JsRate(row.rate) = row.rate /\ JsCooldown(row.cooldown) = row.cooldown
  BY DEF Row, JsRate, JsCooldown
<1> HIDE DEF last
<1>6. [ uses |-> row.use.uses + 1, windowStart |-> JsWindow(row, t).start,
        windowCount |-> JsWindow(row, t).count, lastSearch |-> last ] \in Use
  BY <1>2, <1>3 DEF Use
<1>7. [ uses |-> row.use.uses + 1, windowStart |-> RsWindowStart(row, t),
        windowCount |-> RsWindowCount(row, t), lastSearch |-> last ] \in Use
  BY <1>2, <1>4 DEF Use
<1>8. QED
  BY <1>5, <1>6, <1>7 DEF Row, JsCharged, RsCharged, last

LEMMA StoredRow ==
  ASSUME NEW r \in Runtimes, NEW row \in Row,
         NEW search \in BOOLEAN, NEW t \in Int
  PROVE Stored(r, row, search, t) \in Row
<1>1. [row EXCEPT !.active = FALSE, !.expired = TRUE] \in Row
  BY DEF Row
<1>2. QED
  BY <1>1, ChargedType DEF Stored, JsStored, RsStored

LEMMA Divided ==
  ASSUME NEW a \in Int, NEW b \in Nat \ {0}
  PROVE /\ a \div b \in Int
        /\ a = b * (a \div b) + (a % b)
        /\ a % b \in 0..(b - 1)
OBVIOUS

LEMMA ChargedFields ==
  ASSUME NEW row \in Row, NEW search \in BOOLEAN, NEW t \in Int
  PROVE LET rs == RsCharged(row, search, t)
            js == JsCharged(row, search, t)
        IN
        /\ rs.active = row.active /\ js.active = row.active
        /\ rs.rate = row.rate /\ js.rate = JsRate(row.rate)
        /\ rs.cooldown = row.cooldown /\ js.cooldown = JsCooldown(row.cooldown)
        /\ rs.expires = row.expires /\ js.expires = row.expires
        /\ rs.use.windowStart = RsWindowStart(row, t)
        /\ js.use.windowStart = JsWindow(row, t).start
        /\ rs.use.windowCount = RsWindowCount(row, t)
        /\ js.use.windowCount = JsWindow(row, t).count
        /\ rs.use.lastSearch = IF search THEN t ELSE row.use.lastSearch
        /\ js.use.lastSearch = IF search THEN t ELSE row.use.lastSearch
BY DEF RsCharged, JsCharged, Row

LEMMA CreatedKey ==
  ASSUME NEW r \in Runtimes
  PROVE  LET row == CreatedRow(r, 1, None, None, None) IN
         /\ row \in Row /\ row.active /\ row.expires = None
         /\ row.cooldown = MinCooldown /\ row.use.lastSearch = None
         /\ row.use.windowStart = None /\ row.use.windowCount = 0
<1>1. CreatedRow(r, 1, None, None, None) \in Row
  <2>1. 1 \in Int /\ None \in Int \cup {None}
    OBVIOUS
  <2> QED  BY <2>1, CreatedRowType
<1>2. JsCooldown(None) = MinCooldown /\ RsCooldown(None) = MinCooldown
  BY KeyRowAssumption DEF JsCooldown, RsCooldown, Clamp
<1>3. JsExpires(1, None) = None /\ RsExpires(1, None) = None
  BY DEF JsExpires, RsExpires
<1> QED  BY <1>1, <1>2, <1>3 DEF CreatedRow, JsNewRow, RsNewRow, NewRow

\* What the two runtimes make of a window: over or not, and how many calls in
\* it.  The clock has left 0 behind, which Node would take for no window.
LEMMA WindowOf ==
  ASSUME NEW row \in Row, NEW t \in Nat \ {0},
         row.use.windowStart = None => row.use.windowCount = 0,
         row.use.windowStart # None => row.use.windowStart \in Nat \ {0}
  PROVE  LET start == row.use.windowStart
             over == start = None \/ t - start > Window
         IN /\ RsWindowStart(row, t) = IF over THEN t ELSE start
            /\ JsWindow(row, t).start = IF over THEN t ELSE start
            /\ RsWindowCount(row, t) = IF over THEN 1 ELSE row.use.windowCount + 1
            /\ JsWindow(row, t).count = IF over THEN 1 ELSE row.use.windowCount + 1
<1>1. row.use.windowCount \in Nat /\ row.use.windowStart \in Int \cup {None}
      /\ None \notin Int /\ Window \in Nat
  BY KeyRowAssumption DEF Row, Use
<1>2. CASE row.use.windowStart = None
  BY <1>1, <1>2
     DEF RsWindowStart, RsWindowCount, JsWindow, JsWindowOver, Present
<1>3. CASE row.use.windowStart # None
  BY <1>1, <1>3
     DEF RsWindowStart, RsWindowCount, JsWindow, JsWindowOver, Present
<1> QED  BY <1>2, <1>3

LEMMA ArrivedKey ==
  ASSUME NEW r \in Runtimes, NEW row \in Row, NEW search \in BOOLEAN,
         NEW t \in Nat \ {0},
         row.active, row.expires = None, row.cooldown = MinCooldown,
         row.use.windowStart = None => row.use.windowCount = 0,
         row.use.windowStart # None => row.use.windowStart \in Nat \ {0}
  PROVE  LET new == Stored(r, row, search, t)
             reason == Reason(r, row, search, t)
             start == row.use.windowStart
             over == start = None \/ t - start > Window
         IN /\ new \in Row /\ new.active /\ new.expires = None
            /\ new.cooldown = MinCooldown /\ new.rate = row.rate
            /\ reason \in {"ok", "cooldown", "rate_limited"}
            /\ new.use.lastSearch =
                 IF reason = "ok" /\ search THEN t ELSE row.use.lastSearch
            /\ reason = "cooldown" =>
                 /\ search /\ row.use.lastSearch # None
                 /\ t - row.use.lastSearch < MinCooldown * Second
            /\ reason # "ok" => new = row
            /\ reason = "ok" =>
                 /\ new.use.windowStart = IF over THEN t ELSE start
                 /\ new.use.windowCount =
                      IF over THEN 1 ELSE row.use.windowCount + 1
                 /\ new.use.windowCount <= row.rate
<1> DEFINE start == row.use.windowStart
           first == IF start = None \/ t - start > Window THEN t ELSE start
           count == IF start = None \/ t - start > Window THEN 1
                    ELSE row.use.windowCount + 1
<1>1. row # NoRow /\ Stored(r, row, search, t) \in Row
  BY NoRowIsNoRow, StoredRow
<1>2. /\ JsCooldown(row.cooldown) = MinCooldown
      /\ JsRate(row.rate) = row.rate /\ Clamp(row.rate, 1, MaxRate) = row.rate
  BY KeyRowAssumption DEF JsCooldown, JsRate, Clamp, Row
<1>3. Reason(r, row, search, t) \in {"ok", "cooldown", "rate_limited"}
  BY <1>1 DEF Reason, JsReason, RsReason, JsPastExpiry, Present
<1>4. Reason(r, row, search, t) = "cooldown" =>
        /\ search /\ row.use.lastSearch # None
        /\ t - row.use.lastSearch < MinCooldown * Second
  BY <1>1, <1>2 DEF Reason, JsReason, RsReason, JsPastExpiry, JsCooling, RsCooling,
                    Present
<1>7. /\ RsWindowStart(row, t) = first /\ JsWindow(row, t).start = first
      /\ RsWindowCount(row, t) = count /\ JsWindow(row, t).count = count
  BY WindowOf
<1>8. count \in Nat /\ row.rate \in Nat
  BY DEF Row, Use
<1> HIDE DEF first, count
<1>5. CASE Reason(r, row, search, t) # "ok"
  <2>1. Stored(r, row, search, t) = row
    BY <1>3, <1>5 DEF Reason, Stored, JsStored, RsStored
  <2> QED  BY <1>1, <1>3, <1>4, <1>5, <2>1
<1>6. CASE Reason(r, row, search, t) = "ok"
  <2>1. Stored(r, row, search, t) =
          IF r = "js" THEN JsCharged(row, search, t) ELSE RsCharged(row, search, t)
    BY <1>6 DEF Reason, Stored, JsStored, RsStored
  <2>2. LET new == Stored(r, row, search, t) IN
        /\ new.active /\ new.expires = None /\ new.cooldown = MinCooldown
        /\ new.rate = row.rate
        /\ new.use.windowStart = first /\ new.use.windowCount = count
        /\ new.use.lastSearch = IF search THEN t ELSE row.use.lastSearch
    BY <1>2, <1>7, <2>1, ChargedFields
  <2>3. count <= row.rate
    BY <1>1, <1>2, <1>6, <1>7, <1>8 DEF Reason, JsReason, RsReason
  <2> QED  BY <1>1, <1>3, <1>6, <2>2, <2>3 DEF first, count
<1> QED  BY <1>5, <1>6

-----------------------------------------------------------------------------
(* The counters.                                                           *)

\* What is kept of the response times: the latest LatencyWindow of them.
Recent(times) ==
    SubSeq(times, IF Len(times) < LatencyWindow THEN 1
                  ELSE Len(times) - LatencyWindow + 1, Len(times))

LEMMA RecentIs ==
  ASSUME NEW times \in Seq(Nat)
  PROVE  LET n == Len(times)
             m == Len(Recent(times))
         IN /\ Recent(times) \in Seq(Nat)
            /\ m = IF n < LatencyWindow THEN n ELSE LatencyWindow
            /\ \A i \in 1..m : Recent(times)[i] = times[n - m + i]
<1> DEFINE n == Len(times)
           from == IF n < LatencyWindow THEN 1 ELSE n - LatencyWindow + 1
<1>1. n \in Nat /\ from \in Nat \ {0}
      /\ n - from + 1 = IF n < LatencyWindow THEN n ELSE LatencyWindow
  BY ObservabilityAssumption
<1>2. \A i \in from..n : times[i] \in Nat
  BY <1>1, ElementOfSeq
<1>4. Recent(times) = SubSeq(times, from, n)
  BY DEF Recent
<1> HIDE DEF n, from
<1>3. /\ SubSeq(times, from, n) \in Seq(Nat)
      /\ Len(SubSeq(times, from, n)) = IF from <= n THEN n - from + 1 ELSE 0
      /\ \A i \in 1..(n - from + 1) : SubSeq(times, from, n)[i] = times[from + i - 1]
  BY <1>1, <1>2, SubSeqProperties
<1>5. Len(Recent(times)) = n - from + 1
  BY <1>1, <1>3, <1>4, ObservabilityAssumption
<1>6. ASSUME NEW i \in 1..Len(Recent(times))
      PROVE  Recent(times)[i] = times[n - Len(Recent(times)) + i]
  BY <1>1, <1>3, <1>4, <1>5
<1> QED  BY <1>1, <1>3, <1>4, <1>5, <1>6 DEF n

\* A window that slides over the response times keeps the latest of them.
LEMMA LatestIsRecent ==
  ASSUME NEW times \in Seq(Nat), NEW took \in Nat
  PROVE  Latest(Append(Recent(times), took)) = Recent(Append(times, took))
<1> DEFINE n == Len(times)
           m == Len(Recent(times))
           more == Append(times, took)
           kept == Append(Recent(times), took)
<1>1. /\ n \in Nat /\ more \in Seq(Nat) /\ Len(more) = n + 1
      /\ \A i \in 1..n : more[i] = times[i]
      /\ more[n + 1] = took
  OBVIOUS
<1>2. /\ Recent(times) \in Seq(Nat)
      /\ m = IF n < LatencyWindow THEN n ELSE LatencyWindow
      /\ \A i \in 1..m : Recent(times)[i] = times[n - m + i]
  BY RecentIs
<1>3. /\ Recent(more) \in Seq(Nat)
      /\ Len(Recent(more)) =
           IF Len(more) < LatencyWindow THEN Len(more) ELSE LatencyWindow
      /\ \A i \in 1..Len(Recent(more)) :
           Recent(more)[i] = more[Len(more) - Len(Recent(more)) + i]
  <2> HIDE DEF n, more, m, kept
  <2>1. more \in Seq(Nat) /\ Len(more) = n + 1
    BY <1>1
  <2> QED  BY <2>1, RecentIs
<1>4. /\ m \in Nat /\ kept \in Seq(Nat) /\ Len(kept) = m + 1
      /\ \A i \in 1..m : kept[i] = Recent(times)[i]
      /\ kept[m + 1] = took
  BY <1>2
<1> HIDE DEF n, m, more, kept
<1>5. \A i \in 1..(m + 1) : kept[i] = more[n - m + i]
  <2> TAKE i \in 1..(m + 1)
  <2>1. CASE i = m + 1
    <3>1. n - m + i = n + 1
      BY <1>1, <1>4, <2>1
    <3>2. kept[i] = took /\ more[n + 1] = took
      BY <1>1, <1>4, <2>1
    <3> QED  BY <3>1, <3>2
  <2>2. CASE i # m + 1
    <3>1. i \in 1..m /\ n - m + i \in 1..n
      BY <1>1, <1>2, <1>4, <2>2, ObservabilityAssumption
    <3> QED  BY <1>1, <1>2, <1>4, <3>1
  <2> QED  BY <2>1, <2>2
<1>6. CASE m + 1 <= LatencyWindow
  <2>1. Latest(kept) = kept /\ m = n /\ Len(Recent(more)) = n + 1
    BY <1>1, <1>2, <1>3, <1>4, <1>6, ObservabilityAssumption DEF Latest
  <2>2. \A i \in 1..Len(kept) : kept[i] = Recent(more)[i]
    <3> TAKE i \in 1..Len(kept)
    <3>1. i \in 1..(m + 1) /\ i \in 1..Len(Recent(more))
          /\ n - m + i = i
      BY <1>1, <1>4, <2>1
    <3>2. Len(more) - Len(Recent(more)) + i = i
      BY <1>1, <1>4, <2>1
    <3>3. kept[i] = more[i]
      BY <1>5, <3>1
    <3>4. Recent(more)[i] = more[i]
      BY <1>3, <3>1, <3>2, Zenon
    <3> QED  BY <3>3, <3>4
  <2>3. kept = Recent(more)
    BY <1>3, <1>4, <2>1, <2>2, SeqEqual
  <2> QED  BY <2>1, <2>3 DEF kept, more
<1>7. CASE ~(m + 1 <= LatencyWindow)
  <2>1. Latest(kept) = Tail(kept) /\ m = LatencyWindow /\ kept # <<>>
        /\ Len(Recent(more)) = m
    BY <1>1, <1>2, <1>3, <1>4, <1>7, ObservabilityAssumption DEF Latest
  <2>2. /\ Tail(kept) \in Seq(Nat) /\ Len(Tail(kept)) = m
        /\ \A i \in 1..m : Tail(kept)[i] = kept[i + 1]
    BY <1>4, <2>1, HeadTailProperties
  <2>3. \A i \in 1..m : Tail(kept)[i] = Recent(more)[i]
    <3> TAKE i \in 1..m
    <3>1. kept[i + 1] = more[n - m + (i + 1)]
      BY <1>4, <1>5
    <3>2. Len(more) - Len(Recent(more)) + i = n - m + (i + 1)
      BY <1>1, <1>4, <2>1
    <3>3. Recent(more)[i] = more[Len(more) - Len(Recent(more)) + i]
      BY <1>3, <2>1, Zenon
    <3> QED  BY <2>2, <3>1, <3>2, <3>3
  <2>4. Tail(kept) = Recent(more)
    BY <1>3, <2>1, <2>2, <2>3, SeqEqual
  <2> QED  BY <2>1, <2>4 DEF kept, more
<1> QED  BY <1>6, <1>7

LEMMA LeastNatural ==
  ASSUME NEW T \in SUBSET Nat, T # {}
  PROVE  \E x \in T : \A y \in T : x <= y
<1>1. PICK x \in T : \A y \in T : ~(<<y, x>> \in OpToRel(<, Nat))
  BY NatLessThanWellFounded, WFMin
<1>2. \A y \in T : ~(y < x)
  BY <1>1, Zenon DEF OpToRel
<1> QED  BY <1>2

\* The percentile of a window is one of its samples.
LEMMA PercentileIsSample ==
  ASSUME NEW samples \in Seq(Nat), samples # <<>>, NEW p \in 0..100,
         NEW most \in Nat, \A i \in DOMAIN samples : samples[i] <= most
  PROVE  Percentile(samples, p) <= most
<1> DEFINE n == Len(samples)
           below(v) == Cardinality({i \in DOMAIN samples : samples[i] <= v})
           large == {v \in ToSet(samples) : below(v) >= CeilPercent(p, n)}
           bounds == {b \in Nat : \A i \in DOMAIN samples : samples[i] <= b}
<1>1. n \in Nat \ {0} /\ DOMAIN samples = 1..n
      /\ \A i \in 1..n : samples[i] \in Nat
  BY LenProperties, EmptySeq, ElementOfSeq
<1>2. ToSet(samples) = {samples[i] : i \in DOMAIN samples}
  BY DEF ToSet
<1>3. PICK b \in bounds : \A c \in bounds : b <= c
  <2>1. bounds \in SUBSET Nat /\ bounds # {}
    OBVIOUS
  <2> HIDE DEF bounds
  <2> QED  BY <2>1, LeastNatural
\* The least upper bound is a sample, and no sample exceeds it.
<1>5. PICK k \in 1..n : samples[k] = b
  <2>1. CASE b = 0
    BY <1>1, <1>3, <2>1
  <2>2. CASE b # 0
    <3>1. b - 1 \in Nat /\ b - 1 \notin bounds
      BY <1>3, <2>2
    <3>2. PICK k \in 1..n : ~(samples[k] <= b - 1)
      BY <1>1, <3>1
    <3> QED  BY <1>1, <1>3, <3>1, <3>2
  <2> QED  BY <2>1, <2>2
<1>6. below(b) = n
  <2>1. {i \in DOMAIN samples : samples[i] <= b} = 1..n
    BY <1>1, <1>3
  <2>2. Cardinality(1..n) = n
    BY <1>1, FS_Interval
  <2> QED  BY <2>1, <2>2
<1>7. CeilPercent(p, n) <= n
  <2>1. p * n \in Nat /\ p * n <= 100 * n
    BY <1>1
  <2>2. p * n + 99 < 100 * n + 100
    BY <1>1, <2>1
  <2> QED  BY <1>1, <2>1, <2>2 DEF CeilPercent
<1>8. b \in large
  BY <1>1, <1>2, <1>5, <1>6, <1>7
<1>9. large \subseteq Nat
  BY <1>1, <1>2
<1>10. PICK v \in large : \A w \in large : v <= w
  <2> HIDE DEF large
  <2> QED  BY <1>8, <1>9, LeastNatural
<1>12. Percentile(samples, p) \in large
  <2>1. Percentile(samples, p) = CHOOSE x \in large : \A w \in large : x <= w
    BY DEF Percentile
  <2> HIDE DEF large
  <2> QED  BY <1>10, <2>1
<1>13. \A x \in large : x <= most
  BY <1>1, <1>2
<1> HIDE DEF large
<1> QED  BY <1>12, <1>13

-----------------------------------------------------------------------------
(* Every step keeps the calls in order.                                    *)

LEMMA IdFacts ==
  ASSUME CallerInv, NEW id \in Ids
  PROVE  /\ id[1] \in Callers /\ id[2] \in DOMAIN call[id[1]]
         /\ id = <<id[1], id[2]>>
         /\ At(id) \in Call /\ CallInv(At(id), runtime, now)
<1>1. id[1] \in Callers /\ id[2] \in 1..MaxCalls /\ id[2] <= Len(call[id[1]])
      /\ id = <<id[1], id[2]>>
  BY DEF Ids
<1>2. call[id[1]] \in Seq(Call) /\ CallsInv(call[id[1]], runtime, now)
  BY <1>1 DEF CallerInv
<1>3. id[2] \in DOMAIN call[id[1]]
  BY <1>1, <1>2, LenProperties
<1> QED  BY <1>1, <1>2, <1>3, ElementOfSeq DEF At, CallsInv

\* A step that changes one call, and no key, and is no arrival.
LEMMA CallUpdated ==
  ASSUME CallerInv, NEW id \in Ids, NEW new \in Call, Update(id, new),
         UNCHANGED <<runtime, now, key>>,
         CallInv(new, runtime, now), Follows(At(id), new)
  PROVE  CallerInv'
<1> DEFINE o == id[1]
           i == id[2]
<1>1. o \in Callers /\ i \in DOMAIN call[o] /\ At(id) = call[o][i]
  BY IdFacts DEF At
<1>2. /\ call' = [call EXCEPT ![o] = [call[o] EXCEPT ![i] = new]]
      /\ call \in [Callers -> Seq(Call)]
  BY DEF Update, CallerInv
<1>3. /\ [call[o] EXCEPT ![i] = new] \in Seq(Call)
      /\ Len([call[o] EXCEPT ![i] = new]) = Len(call[o])
  BY <1>1, <1>2, ExceptSeq, LenProperties
<1>4. /\ CallsInv(call[o], runtime, now)
      /\ KeyInv(key[o], call[o], now) /\ Paid(call[o])
  BY <1>1 DEF CallerInv
<1>5. CallsInv([call[o] EXCEPT ![i] = new], runtime, now)
  BY <1>1, <1>2, <1>4, CallsKept
<1>6. /\ KeyInv(key[o], [call[o] EXCEPT ![i] = new], now)
      /\ Paid([call[o] EXCEPT ![i] = new])
  BY <1>1, <1>2, <1>4, KeyKept
<1> HIDE DEF o, i
<1>7. call' \in [Callers -> Seq(Call)]
  BY <1>1, <1>2, <1>3
<1>8. ASSUME NEW c \in Callers
      PROVE  /\ Len(call'[c]) <= MaxCalls
             /\ CallsInv(call'[c], runtime, now)
             /\ KeyInv(key[c], call'[c], now) /\ Paid(call'[c])
  <2>1. CASE c = o
    <3>1. call'[c] = [call[o] EXCEPT ![i] = new]
      BY <1>1, <1>2, <2>1
    <3> QED  BY <1>1, <1>3, <1>5, <1>6, <2>1, <3>1 DEF CallerInv
  <2>2. CASE c # o
    <3>1. call'[c] = call[c]
      BY <1>2, <2>2
    <3> QED  BY <3>1 DEF CallerInv
  <2> QED  BY <2>1, <2>2
<1> QED  BY <1>7, <1>8 DEF CallerInv

LEMMA InitCallers == Init => CallerInv
<1> SUFFICES ASSUME Init  PROVE  CallerInv
  OBVIOUS
<1>1. /\ runtime \in Runtimes /\ now = 1
      /\ key = [c \in Callers |-> CreatedRow(runtime, 1, None, None, None)]
      /\ call = [c \in Callers |-> <<>>]
  BY DEF Init
<1>2. <<>> \in Seq(Call) /\ Len(<<>>) = 0 /\ DOMAIN <<>> = {}
  OBVIOUS
<1>3. \A c \in Callers : key[c] \in Row /\ KeyInv(key[c], <<>>, now)
  BY <1>1, <1>2, CreatedKey DEF KeyInv, WindowInv, Row
<1>4. CallsInv(<<>>, runtime, now) /\ Paid(<<>>)
  BY <1>2 DEF CallsInv, Paid
<1>5. key \in [Callers -> Row] /\ call \in [Callers -> Seq(Call)]
  BY <1>1, <1>2, <1>3
<1>6. MaxCalls \in Nat
  BY ServingAssumption
<1>7. \A c \in Callers : call[c] = <<>>
  BY <1>1
<1> QED  BY <1>1, <1>2, <1>3, <1>4, <1>5, <1>6, <1>7 DEF CallerInv

\* The clock moves on when nothing is urgent.
LEMMA TickCallers == CallerInv /\ Tick => CallerInv'
<1> SUFFICES ASSUME CallerInv, Tick  PROVE  CallerInv'
  OBVIOUS
<1>1. /\ now' = now + 1 /\ runtime' = runtime /\ key' = key /\ call' = call
      /\ \A id \in Ids : ~Urgent(At(id))
      /\ now \in Nat \ {0} /\ runtime \in Runtimes
  BY DEF Tick, CallerInv
<1>2. ASSUME NEW c \in Callers
      PROVE  CallsInv(call[c], runtime, now + 1)
  <2>1. call[c] \in Seq(Call) /\ Len(call[c]) \in Nat /\ Len(call[c]) <= MaxCalls
        /\ DOMAIN call[c] = 1..Len(call[c]) /\ CallsInv(call[c], runtime, now)
    BY LenProperties DEF CallerInv
  <2>2. ASSUME NEW i \in DOMAIN call[c]
        PROVE  CallInv(call[c][i], runtime, now + 1)
    <3> DEFINE q == call[c][i]
    <3>1. <<c, i>> \in Ids /\ At(<<c, i>>) = q
      BY <2>1, ServingAssumption DEF Ids, At
    <3>2. ~Urgent(q)
      BY <1>1, <3>1
    <3>3. q \in Call /\ CallInv(q, runtime, now)
      BY <2>1, ElementOfSeq DEF CallsInv
    <3> HIDE DEF q
    <3>4. q.sent \in Nat /\ q.arrived \in Nat
      BY <3>3 DEF Call
    <3>5. /\ q.caller = "waiting" => now - q.sent < Patience
          /\ q.server = "coming" => now - q.sent < Lag
          /\ q.run = "running" => now - q.arrived < Longest
          /\ q.server \notin {"recording", "responding"}
      BY <1>1, <3>2, <3>4, ServingAssumption DEF Urgent, TimerDue
    <3>6. CallInv(q, runtime, now + 1)
      BY <1>1, <3>3, <3>4, <3>5, ServingAssumption DEF CallInv
    <3> QED  BY <3>6 DEF q
  <2> QED  BY <2>1, <2>2 DEF CallsInv
<1>3. ASSUME NEW c \in Callers
      PROVE  KeyInv(key[c], call[c], now + 1)
  <2>1. KeyInv(key[c], call[c], now) /\ 1..now \subseteq 1..(now + 1)
    BY <1>1 DEF CallerInv
  <2> QED  BY <2>1 DEF KeyInv, WindowInv
<1> QED  BY <1>1, <1>2, <1>3 DEF CallerInv

\* A new call joins those under way.
LEMMA SendCallers ==
  ASSUME CallerInv, NEW o \in Callers, Send(o)
  PROVE  CallerInv'
<1>1. PICK kind \in Kinds :
        call' = [call EXCEPT ![o] = Append(@,
          [ kind |-> kind, sent |-> now, arrived |-> 0, gaveUp |-> 0,
            caller |-> "waiting", server |-> "coming", open |-> TRUE,
            run |-> "none", result |-> None, code |-> None ])]
  BY DEF Send
<1> DEFINE cs == call[o]
           new == [ kind |-> kind, sent |-> now, arrived |-> 0, gaveUp |-> 0,
                    caller |-> "waiting", server |-> "coming", open |-> TRUE,
                    run |-> "none", result |-> None, code |-> None ]
           ds == Append(cs, new)
<1>2. /\ UNCHANGED <<runtime, now, key>> /\ now \in Nat
      /\ Len(cs) < MaxCalls
      /\ cs \in Seq(Call) /\ Len(cs) \in Nat /\ DOMAIN cs = 1..Len(cs)
      /\ call \in [Callers -> Seq(Call)]
  BY LenProperties DEF Send, CallerInv
<1>3. /\ CallsInv(cs, runtime, now) /\ KeyInv(key[o], cs, now) /\ Paid(cs)
  BY DEF CallerInv
<1>4. new \in Call
  BY <1>2 DEF Call
<1>5. CallInv(new, runtime, now)
  BY <1>2, ServingAssumption DEF CallInv
<1>6. new.code # "cooldown" /\ new.run = "none"
  BY ServingAssumption DEF Codes
<1> HIDE DEF new
<1>7. /\ ds \in Seq(Call) /\ Len(ds) = Len(cs) + 1 /\ DOMAIN ds = 1..(Len(cs) + 1)
      /\ \A i \in 1..Len(cs) : ds[i] = cs[i]
      /\ ds[Len(cs) + 1] = new
  BY <1>2, <1>4
<1> HIDE DEF cs, ds
<1>8. /\ \A i \in DOMAIN cs : i \in DOMAIN ds /\ ds[i] = cs[i]
      /\ \A i \in DOMAIN ds : i \in DOMAIN cs \/ ds[i] = new
  BY <1>2, <1>7
<1>9. CallsInv(ds, runtime, now)
  BY <1>3, <1>5, <1>8 DEF CallsInv
<1>10. KeyInv(key[o], ds, now)
  <2>1. WindowInv(key[o], ds, now)
    <3>1. WindowInv(key[o], cs, now)
      BY <1>3 DEF KeyInv
    <3> QED  BY <1>6, <1>8, <3>1, WindowKept
  <2> QED  BY <1>3, <1>8, <2>1 DEF KeyInv
<1>11. Paid(ds)
  BY <1>3, <1>6, <1>8 DEF Paid
<1>12. call' = [call EXCEPT ![o] = ds]
  BY <1>1 DEF ds, cs, new
<1>13. call' \in [Callers -> Seq(Call)]
  BY <1>2, <1>7, <1>12
<1>14. ASSUME NEW c \in Callers
       PROVE  /\ Len(call'[c]) <= MaxCalls
              /\ CallsInv(call'[c], runtime, now)
              /\ KeyInv(key[c], call'[c], now) /\ Paid(call'[c])
  <2>1. CASE c = o
    <3>1. call'[c] = ds /\ Len(ds) <= MaxCalls
      BY <1>2, <1>7, <1>12, <2>1, ServingAssumption
    <3> QED  BY <1>9, <1>10, <1>11, <2>1, <3>1
  <2>2. CASE c # o
    <3>1. call'[c] = call[c]
      BY <1>2, <1>12, <2>2
    <3> QED  BY <3>1 DEF CallerInv
  <2> QED  BY <2>1, <2>2
<1> QED  BY <1>2, <1>13, <1>14 DEF CallerInv

\* The steps on one call that charge no key.
LEMMA TimeOutCallers ==
  ASSUME CallerInv, NEW id \in Ids, TimeOut(id)
  PROVE  CallerInv'
<1> DEFINE q == At(id)
           new == [q EXCEPT !.caller = "timed_out", !.gaveUp = now]
<1>1. q \in Call /\ CallInv(q, runtime, now) /\ now \in Nat
  BY IdFacts DEF CallerInv
<1>2. /\ now - q.sent >= Patience /\ Update(id, new)
      /\ UNCHANGED <<runtime, now, key>>
  BY DEF TimeOut, TimerDue
<1> HIDE DEF q
<1>3. new \in Call
  BY <1>1 DEF Call
<1>4. q.sent \in Nat /\ Patience \in Nat
  BY <1>1, ServingAssumption DEF Call
<1>5. Follows(q, new) /\ CallInv(new, runtime, now)
  BY <1>1, <1>2, <1>4 DEF Follows, CallInv, Call
<1> QED  BY <1>2, <1>3, <1>5, CallUpdated DEF q

LEMMA FailCallers ==
  ASSUME CallerInv, NEW id \in Ids, Fail(id)
  PROVE  CallerInv'
<1> DEFINE q == At(id)
           new == [q EXCEPT !.caller = "failed"]
<1>1. q \in Call /\ CallInv(q, runtime, now)
  BY IdFacts
<1>2. Update(id, new) /\ UNCHANGED <<runtime, now, key>>
  BY DEF Fail
<1>3. new \in Call
  BY <1>1 DEF Call
<1>4. Follows(q, new) /\ CallInv(new, runtime, now)
  BY <1>1, <1>2 DEF Follows, CallInv, Call
<1> QED  BY <1>2, <1>3, <1>4, CallUpdated

\* A call whose connection is found closed, its handler then being at server.
CutOff(q, server) ==
    [q EXCEPT !.open = FALSE, !.server = server, !.run = RunAfter(q, server)]

LEMMA HungUp ==
  ASSUME NEW q \in Call, runtime \in Runtimes,
         q.server \in {"running", "recording", "responding"},
         NEW server \in HangUp(q)
  PROVE  LET new == CutOff(q, server)
         IN /\ new \in Call
            /\ new.server = server /\ new.run = RunAfter(q, server)
            /\ new.sent = q.sent /\ new.arrived = q.arrived
            /\ new.kind = q.kind /\ new.code = q.code /\ new.result = q.result
            /\ new.caller = q.caller /\ new.gaveUp = q.gaveUp
            /\ server # q.server =>
                 /\ server = "gone" /\ runtime = "rust"
                 /\ q.server \in {"running", "recording"}
            /\ new.run # q.run => new.run = "over" /\ new.server = "gone"
<1>1. server # q.server =>
        /\ server = "gone" /\ runtime = "rust"
        /\ q.server \in {"running", "recording"}
  BY DEF HangUp, Call, Runtimes
<1>2. /\ RunAfter(q, server) # q.run =>
           RunAfter(q, server) = "over" /\ server = "gone"
      /\ RunAfter(q, server) \in {"none", "running", "over"}
  BY DEF RunAfter, Call
<1> DEFINE run == RunAfter(q, server)
           new == [q EXCEPT !.open = FALSE, !.server = server, !.run = run]
<1> HIDE DEF run
<1>3. new \in Call
  BY <1>1, <1>2 DEF Call, run
<1>4. /\ new.server = server /\ new.run = run
      /\ new.sent = q.sent /\ new.arrived = q.arrived
      /\ new.kind = q.kind /\ new.code = q.code /\ new.result = q.result
      /\ new.caller = q.caller /\ new.gaveUp = q.gaveUp
  BY DEF Call
<1>5. CutOff(q, server) = new
  BY DEF CutOff, run
<1> HIDE DEF new
<1> QED  BY <1>1, <1>2, <1>3, <1>4, <1>5 DEF run

LEMMA CloseCallers ==
  ASSUME CallerInv, NEW id \in Ids, Close(id)
  PROVE  CallerInv'
<1> DEFINE q == At(id)
<1>1. q \in Call /\ CallInv(q, runtime, now) /\ runtime \in Runtimes
  BY IdFacts DEF CallerInv
<1>2. /\ q.server \in {"running", "recording", "responding"}
      /\ UNCHANGED <<runtime, now, key>>
  BY DEF Close
<1>3. PICK server \in HangUp(q) :
        Update(id, CutOff(q, server))
  BY DEF Close, CutOff
<1> DEFINE new == CutOff(q, server)
<1> HIDE DEF q
<1>4. /\ new \in Call /\ new.server = server
      /\ new.sent = q.sent /\ new.arrived = q.arrived
      /\ new.kind = q.kind /\ new.code = q.code /\ new.result = q.result
      /\ new.caller = q.caller /\ new.gaveUp = q.gaveUp
      /\ server # q.server =>
           /\ server = "gone" /\ runtime = "rust"
           /\ q.server \in {"running", "recording"}
      /\ new.run # q.run => new.run = "over" /\ new.server = "gone"
  BY <1>1, <1>2, <1>3, HungUp
<1> HIDE DEF new
<1>5. q.run = "none" => new.run = "none"
  BY <1>1, <1>2, <1>4 DEF CallInv
<1>6. Follows(q, new)
  BY <1>4, <1>5 DEF Follows
<1>7. CallInv(new, runtime, now)
  BY <1>1, <1>2, <1>4 DEF CallInv, Runtimes
<1> QED  BY <1>2, <1>3, <1>4, <1>6, <1>7, CallUpdated DEF new, q

LEMMA LoseCallers ==
  ASSUME CallerInv, NEW id \in Ids, Lose(id)
  PROVE  CallerInv'
<1> DEFINE q == At(id)
           new == [q EXCEPT !.server = "lost"]
<1>1. q \in Call /\ CallInv(q, runtime, now)
  BY IdFacts
<1>2. q.server = "coming" /\ Update(id, new) /\ UNCHANGED <<runtime, now, key>>
  BY DEF Lose
<1>3. new \in Call
  BY <1>1 DEF Call
<1>4. Follows(q, new) /\ CallInv(new, runtime, now)
  BY <1>1, <1>2 DEF Follows, CallInv, Call
<1> QED  BY <1>2, <1>3, <1>4, CallUpdated

LEMMA RunEndsCallers ==
  ASSUME CallerInv, NEW id \in Ids, RunEnds(id)
  PROVE  CallerInv'
<1> DEFINE q == At(id)
<1>1. q \in Call /\ CallInv(q, runtime, now) /\ runtime \in Runtimes
  BY IdFacts DEF CallerInv
<1>2. PICK result \in Outcomes :
        /\ result.kind = q.kind
        /\ Update(id, [q EXCEPT !.run = "over", !.result = result,
             !.server = IF @ = "gone" THEN "gone" ELSE "recording",
             !.code = IF result.success THEN "ok" ELSE "failed"])
  BY DEF RunEnds
<1> DEFINE new == [q EXCEPT !.run = "over", !.result = result,
                     !.server = IF @ = "gone" THEN "gone" ELSE "recording",
                     !.code = IF result.success THEN "ok" ELSE "failed"]
<1>3. q.run = "running" /\ UNCHANGED <<runtime, now, key>>
  BY DEF RunEnds
<1>4. new \in Call
  BY <1>1, <1>2 DEF Call, Codes
<1>5. Follows(q, new)
  BY <1>1, <1>2, <1>3 DEF Follows, Call
<1>6. CallInv(new, runtime, now)
  BY <1>1, <1>2, <1>3 DEF CallInv, Call, Runtimes
<1> HIDE DEF new
<1> QED  BY <1>2, <1>3, <1>4, <1>5, <1>6, CallUpdated DEF new

LEMMA RecordCallers ==
  ASSUME CallerInv, NEW id \in Ids, Record(id)
  PROVE  CallerInv'
<1> DEFINE q == At(id)
           new == [q EXCEPT !.server = "responding"]
<1>1. q \in Call /\ CallInv(q, runtime, now)
  BY IdFacts
<1>2. q.server = "recording" /\ Update(id, new) /\ UNCHANGED <<runtime, now, key>>
  BY DEF Record
<1>3. new \in Call
  BY <1>1 DEF Call
<1>4. Follows(q, new) /\ CallInv(new, runtime, now)
  BY <1>1, <1>2 DEF Follows, CallInv, Call
<1> QED  BY <1>2, <1>3, <1>4, CallUpdated

LEMMA RespondCallers ==
  ASSUME CallerInv, NEW id \in Ids, Respond(id)
  PROVE  CallerInv'
<1> DEFINE q == At(id)
<1>1. q \in Call /\ CallInv(q, runtime, now)
  BY IdFacts
<1>2. PICK caller \in {q.caller, "answered"} :
        Update(id, [q EXCEPT !.server = "done", !.caller = caller])
  BY DEF Respond
<1> DEFINE new == [q EXCEPT !.server = "done", !.caller = caller]
<1>3. q.server = "responding" /\ UNCHANGED <<runtime, now, key>>
  BY DEF Respond
<1>4. new \in Call
  BY <1>1 DEF Call
<1>5. Follows(q, new) /\ CallInv(new, runtime, now)
  BY <1>1, <1>2, <1>3 DEF Follows, CallInv, Call
<1> QED  BY <1>2, <1>3, <1>4, <1>5, CallUpdated

LEMMA DiscardCallers ==
  ASSUME CallerInv, NEW id \in Ids, Discard(id)
  PROVE  CallerInv'
<1> DEFINE q == At(id)
           new == [q EXCEPT !.server = "gone"]
<1>1. q \in Call /\ CallInv(q, runtime, now)
  BY IdFacts
<1>2. q.server = "responding" /\ Update(id, new) /\ UNCHANGED <<runtime, now, key>>
  BY DEF Discard
<1>3. new \in Call
  BY <1>1 DEF Call
<1>4. Follows(q, new) /\ CallInv(new, runtime, now)
  BY <1>1, <1>2 DEF Follows, CallInv, Call
<1> QED  BY <1>2, <1>3, <1>4, CallUpdated

-----------------------------------------------------------------------------
(* The arrival of a call.                                                  *)

LEMMA Product ==
  ASSUME NEW k \in Nat, NEW a \in Nat
  PROVE  k * a \in Nat /\ (k + 1) * a = k * a + a
OBVIOUS

\* A call is let in: it is the first of a new window, or one more in the old.
LEMMA WindowCharged ==
  ASSUME NEW cs \in Seq(Call), NEW i \in DOMAIN cs, cs[i].run = "none",
         NEW new \in Call, new.run # "none",
         NEW t \in Nat \ {0}, new.arrived = t,
         NEW row \in Row, WindowInv(row, cs, t),
         NEW charged \in Row, charged.rate = row.rate,
         charged.use.windowCount <= row.rate,
         LET start == row.use.windowStart
             over == start = None \/ t - start > Window
         IN /\ charged.use.windowStart = IF over THEN t ELSE start
            /\ charged.use.windowCount = IF over THEN 1 ELSE row.use.windowCount + 1
  PROVE  WindowInv(charged, [cs EXCEPT ![i] = new], t)
<1> DEFINE ds == [cs EXCEPT ![i] = new]
           start == row.use.windowStart
           first == charged.use.windowStart
           count == row.use.windowCount
           length == Window + 1
           rate == row.rate
<1>1. /\ DOMAIN ds = DOMAIN cs
      /\ \A j \in DOMAIN cs : ds[j] = IF j = i THEN new ELSE cs[j]
  OBVIOUS
<1>2. /\ count \in Nat /\ rate \in Nat /\ count <= rate
      /\ Window \in Nat /\ length \in Nat /\ None \notin Int
  BY KeyRowAssumption DEF Row, Use, WindowInv
<1>3. ASSUME NEW j \in DOMAIN cs  PROVE cs[j].arrived \in Nat
  <2>1. cs[j] \in Call
    BY ElementOfSeq, LenProperties
  <2> QED  BY <2>1 DEF Call
<1> HIDE DEF ds
<1>4. ASSUME NEW u
      PROVE  /\ IsFiniteSet(Since(cs, u)) /\ Cardinality(Since(cs, u)) \in Nat
             /\ Cardinality(Since(ds, u)) <= Cardinality(Since(cs, u)) + 1
             /\ Cardinality(Since(ds, u)) \in Nat
  <2>1. IsFiniteSet(DOMAIN cs)
    <3>1. DOMAIN cs = 1..Len(cs) /\ Len(cs) \in Nat
      BY LenProperties
    <3> QED  BY <3>1, FS_Interval
  <2>2. IsFiniteSet(Since(cs, u))
    BY <2>1, FS_Subset DEF Since
  <2>3. IsFiniteSet(Since(cs, u) \cup {i})
        /\ Cardinality(Since(cs, u) \cup {i}) = Cardinality(Since(cs, u)) + 1
    <3>1. i \notin Since(cs, u)
      BY DEF Since
    <3> QED  BY <2>2, <3>1, FS_AddElement
  <2>4. Since(ds, u) \subseteq Since(cs, u) \cup {i}
    BY <1>1 DEF Since
  <2>5. IsFiniteSet(Since(ds, u))
        /\ Cardinality(Since(ds, u)) <= Cardinality(Since(cs, u) \cup {i})
    BY <2>3, <2>4, FS_Subset
  <2> QED  BY <2>2, <2>3, <2>5, FS_CardinalityType
<1>5. ASSUME start = None \/ t - start > Window, NEW k \in Nat
      PROVE  Cardinality(Since(ds, first - k * length)) <= k * rate + 1
  <2> DEFINE u == t - k * length
  <2>1. first = t /\ k * rate \in Nat /\ k * length \in Nat
    BY <1>2, <1>5, Product
  <2>2. ASSUME Since(cs, u) = {}
        PROVE  Cardinality(Since(ds, u)) <= k * rate + 1
    <3>1. Cardinality(Since(cs, u)) = 0
      BY <2>2, FS_EmptySet
    <3>2. Cardinality(Since(ds, u)) <= 1 /\ Cardinality(Since(ds, u)) \in Nat
      BY <1>4, <3>1
    <3> QED  BY <2>1, <3>2
  <2>3. CASE start = None
    <3>1. Since(cs, u) = {}
      BY <2>3 DEF WindowInv, Since
    <3> QED  BY <2>1, <2>2, <3>1
  <2>4. CASE start # None /\ k = 0
    <3>1. start \in 1..t /\ t - start > Window
          /\ \A j \in DOMAIN cs : cs[j].run # "none" => cs[j].arrived <= start + Window
      BY <1>5, <2>4 DEF WindowInv
    <3>2. u = t
      BY <1>2, <2>4
    <3>3. Since(cs, u) = {}
      BY <1>2, <1>3, <3>1, <3>2 DEF Since
    <3> QED  BY <2>1, <2>2, <3>3
  <2>5. CASE start # None /\ k # 0
    <3> DEFINE m == k - 1
               v == start - m * length
    <3>1. m \in Nat /\ k = m + 1
      BY <2>5
    <3> HIDE DEF m
    <3>2. k * length = m * length + length /\ k * rate = m * rate + rate
          /\ m * length \in Nat /\ m * rate \in Nat
      BY <1>2, <3>1, Product
    <3>3. start \in 1..t /\ t - start > Window
          /\ Cardinality(Since(cs, v)) <= m * rate + count
      BY <1>5, <2>5, <3>1 DEF WindowInv
    <3>4. v <= u /\ v \in Int /\ u \in Int
      <4> DEFINE x == k * length
                 y == m * length
      <4>1. x = y + Window + 1 /\ x \in Nat /\ y \in Nat
        BY <1>2, <2>1, <3>2
      <4> HIDE DEF x, y
      <4>2. start - y <= t - x
        BY <1>2, <3>3, <4>1
      <4>3. start - y \in Int /\ t - x \in Int
        BY <3>3, <4>1
      <4> QED  BY <4>2, <4>3 DEF x, y
    <3> HIDE DEF v, u
    <3>5. Since(cs, u) \subseteq Since(cs, v)
      BY <1>3, <3>4 DEF Since
    <3>6. Cardinality(Since(cs, u)) <= Cardinality(Since(cs, v))
      BY <1>4, <3>5, FS_Subset
    <3>7. Cardinality(Since(cs, u)) \in Nat /\ Cardinality(Since(cs, v)) \in Nat
          /\ Cardinality(Since(ds, u)) \in Nat
          /\ Cardinality(Since(ds, u)) <= Cardinality(Since(cs, u)) + 1
      BY <1>4
    <3>8. Cardinality(Since(ds, u)) <= k * rate + 1
      <4> HIDE DEF length, rate, count
      <4> QED  BY <1>2, <3>2, <3>3, <3>6, <3>7
    <3> QED  BY <2>1, <3>8 DEF u
  <2> QED  BY <2>3, <2>4, <2>5
<1>6. ASSUME start # None, ~(t - start > Window), NEW k \in Nat
      PROVE  Cardinality(Since(ds, first - k * length)) <= k * rate + (count + 1)
  <2> DEFINE u == start - k * length
  <2>1. first = start /\ Cardinality(Since(cs, u)) <= k * rate + count
    BY <1>6 DEF WindowInv
  <2>2. k * rate \in Nat
    BY <1>2, Product
  <2>3. Cardinality(Since(cs, u)) \in Nat /\ Cardinality(Since(ds, u)) \in Nat
        /\ Cardinality(Since(ds, u)) <= Cardinality(Since(cs, u)) + 1
    BY <1>4
  <2> HIDE DEF u
  <2>4. Cardinality(Since(ds, u)) <= k * rate + (count + 1)
    <3> HIDE DEF rate, count
    <3> QED  BY <1>2, <2>1, <2>2, <2>3
  <2> QED  BY <2>1, <2>4 DEF u
<1>7. /\ first \in 1..t /\ first # None
      /\ \A j \in DOMAIN ds : ds[j].run # "none" => ds[j].arrived <= first + Window
  <2>1. CASE start = None
    <3>1. first = t /\ \A j \in DOMAIN cs : cs[j].run = "none"
      BY <2>1 DEF WindowInv
    <3> QED  BY <1>1, <1>2, <3>1
  <2>2. CASE start # None
    <3>1. /\ start \in 1..t
          /\ \A j \in DOMAIN cs : cs[j].run # "none" => cs[j].arrived <= start + Window
          /\ first = IF t - start > Window THEN t ELSE start
      BY <2>2 DEF WindowInv
    <3>2. first \in 1..t /\ start <= first /\ t <= first + Window
      BY <1>2, <3>1
    <3>3. \A j \in DOMAIN cs : cs[j].run # "none" => cs[j].arrived <= first + Window
      BY <1>2, <1>3, <3>1, <3>2
    <3> QED  BY <1>1, <1>2, <3>2, <3>3
  <2> QED  BY <2>1, <2>2
<1>8. \A k \in Nat : Cardinality(Since(ds, first - k * length))
                        <= k * rate + charged.use.windowCount
  BY <1>5, <1>6
<1>9. WindowInv(charged, ds, t)
  BY <1>7, <1>8 DEF WindowInv
<1> QED  BY <1>9 DEF ds

LEMMA ArriveCallers ==
  ASSUME CallerInv, NEW id \in Ids, Arrive(id)
  PROVE  CallerInv'
<1> DEFINE o == id[1]
           i == id[2]
           cs == call[o]
           q == cs[i]
           row == key[o]
           search == q.kind = "search"
           reason == Reason(runtime, row, search, now)
           here == [q EXCEPT !.arrived = now]
           new == IF reason = "ok"
                    THEN [here EXCEPT !.server = "running", !.run = "running"]
                    ELSE [here EXCEPT !.server = "responding", !.code = reason]
           stored == Stored(runtime, row, search, now)
           ds == [cs EXCEPT ![i] = new]
           start == row.use.windowStart
           over == start = None \/ now - start > Window
<1>1. /\ o \in Callers /\ i \in DOMAIN cs /\ At(id) = q
      /\ q \in Call /\ CallInv(q, runtime, now)
  BY IdFacts DEF At
<1>2. /\ q.server = "coming" /\ UNCHANGED <<runtime, now>>
      /\ key' = [key EXCEPT ![o] = stored]
      /\ call' = [call EXCEPT ![o] = ds]
  BY <1>1 DEF Arrive, Update
<1>3. /\ runtime \in Runtimes /\ now \in Nat \ {0} /\ row \in Row /\ search \in BOOLEAN
      /\ key \in [Callers -> Row] /\ call \in [Callers -> Seq(Call)]
      /\ cs \in Seq(Call) /\ Len(cs) <= MaxCalls
      /\ CallsInv(cs, runtime, now) /\ KeyInv(row, cs, now) /\ Paid(cs)
  BY <1>1 DEF CallerInv
<1>4. /\ row.active /\ row.expires = None /\ row.cooldown = MinCooldown
      /\ start = None => row.use.windowCount = 0
      /\ start # None => start \in Nat \ {0}
  BY <1>3 DEF KeyInv, WindowInv
<1> HIDE DEF o, i, cs, row, search, reason, stored, start
<1>5. /\ stored \in Row /\ stored.active /\ stored.expires = None
      /\ stored.cooldown = MinCooldown /\ stored.rate = row.rate
      /\ reason \in {"ok", "cooldown", "rate_limited"}
      /\ stored.use.lastSearch =
           IF reason = "ok" /\ search THEN now ELSE row.use.lastSearch
      /\ reason = "cooldown" =>
           /\ search /\ row.use.lastSearch # None
           /\ now - row.use.lastSearch < MinCooldown * Second
      /\ reason # "ok" => stored = row
      /\ reason = "ok" =>
           /\ stored.use.windowStart = IF over THEN now ELSE start
           /\ stored.use.windowCount = IF over THEN 1 ELSE row.use.windowCount + 1
           /\ stored.use.windowCount <= row.rate
  BY <1>3, <1>4, ArrivedKey DEF stored, reason, start
<1>6. /\ q.run = "none" /\ q.code = None /\ None \notin Codes
      /\ q.sent <= now /\ now - q.sent <= Lag /\ q.sent \in Nat
  BY <1>1, <1>2, ServingAssumption DEF CallInv, Call
<1>7. new \in Call
  BY <1>1, <1>3, <1>5 DEF Call, Codes
<1>8. /\ new.kind = q.kind /\ new.sent = q.sent /\ new.caller = q.caller
      /\ new.gaveUp = q.gaveUp /\ new.arrived = now
      /\ new.server = IF reason = "ok" THEN "running" ELSE "responding"
      /\ new.run = IF reason = "ok" THEN "running" ELSE "none"
      /\ new.code = IF reason = "ok" THEN None ELSE reason
  BY <1>1, <1>6 DEF Call
<1> HIDE DEF new, q
<1>9. now <= q.sent + Lag /\ Longest >= 0 /\ Longest \in Nat
  BY <1>3, <1>6, ServingAssumption
<1>11. CallInv(new, runtime, now)
  BY <1>1, <1>3, <1>5, <1>6, <1>8, <1>9 DEF CallInv
<1>12. CallsInv(ds, runtime, now)
  BY <1>1, <1>3, <1>7, <1>11, CallsKept
<1>13. /\ ds \in Seq(Call) /\ Len(ds) = Len(cs) /\ DOMAIN ds = DOMAIN cs
       /\ ds[i] = new /\ \A j \in DOMAIN cs : j # i => ds[j] = cs[j]
  BY <1>1, <1>3, <1>7, ExceptSeq, LenProperties
<1>14. \A j \in DOMAIN cs : cs[j].run # "none" => ds[j] = cs[j] /\ j # i
  BY <1>6, <1>13 DEF q
<1>19. WindowInv(stored, ds, now)
  <2>1. WindowInv(row, cs, now)
    BY <1>3 DEF KeyInv
  <2>2. CASE reason = "ok"
    <3>1. cs[i].run = "none" /\ new.run # "none" /\ new.arrived = now
      BY <1>6, <1>8, <2>2 DEF q
    <3> HIDE DEF ds
    <3>2. WindowInv(stored, [cs EXCEPT ![i] = new], now)
      BY <1>1, <1>3, <1>5, <1>7, <2>1, <2>2, <3>1, WindowCharged DEF start
    <3> QED  BY <3>2 DEF ds
  <2>3. CASE reason # "ok"
    <3>1. stored = row /\ new.run = "none"
      BY <1>5, <1>8, <2>3
    <3> HIDE DEF ds
    <3>2. WindowInv(row, ds, now)
      BY <1>13, <1>14, <2>1, <3>1, WindowKept
    <3> QED  BY <3>1, <3>2
  <2> QED  BY <2>2, <2>3
<1>15. KeyInv(stored, ds, now)
  <2>1. CASE reason = "ok" /\ search
    BY <1>1, <1>5, <1>8, <1>13, <1>19, <2>1 DEF KeyInv, search
  <2>2. CASE ~(reason = "ok" /\ search)
    BY <1>3, <1>5, <1>13, <1>14, <1>19, <2>2 DEF KeyInv
  <2> QED  BY <2>1, <2>2
<1>16. Paid(ds)
  <2> HIDE DEF ds
  <2> SUFFICES ASSUME NEW k \in DOMAIN ds, ds[k].code = "cooldown"
               PROVE  \E j \in DOMAIN ds \ {k} :
                        /\ ds[j].kind = "search" /\ ds[j].run # "none"
                        /\ ds[k].arrived - ds[j].arrived \in 0..(MinCooldown * Second - 1)
    BY DEF Paid
  <2>1. CASE k = i
    <3>1. reason = "cooldown" /\ ds[k].arrived = now
      BY <1>5, <1>6, <1>8, <1>13, <2>1 DEF Codes
    <3>2. PICK j \in DOMAIN cs :
            /\ cs[j].kind = "search" /\ cs[j].run # "none"
            /\ cs[j].arrived = row.use.lastSearch
      BY <1>3, <1>5, <3>1 DEF KeyInv
    <3>3. now - cs[j].arrived < MinCooldown * Second
      BY <1>5, <3>1, <3>2
    <3>4. cs[j].arrived <= now /\ cs[j].arrived \in Nat
      <4>1. cs[j] \in Call /\ CallInv(cs[j], runtime, now)
        BY <1>3, ElementOfSeq, LenProperties DEF CallsInv
      <4> QED  BY <3>2, <4>1 DEF CallInv, Call
    <3>5. MinCooldown * Second \in Int
      BY Scaled, KeyRowAssumption
    <3>6. now - cs[j].arrived \in 0..(MinCooldown * Second - 1)
      BY <1>3, <3>3, <3>4, <3>5
    <3> QED  BY <1>13, <1>14, <2>1, <3>1, <3>2, <3>6
  <2>2. CASE k # i
    <3>1. ds[k] = cs[k] /\ k \in DOMAIN cs
      BY <1>13, <2>2
    <3>2. PICK j \in DOMAIN cs \ {k} :
            /\ cs[j].kind = "search" /\ cs[j].run # "none"
            /\ cs[k].arrived - cs[j].arrived \in 0..(MinCooldown * Second - 1)
      BY <1>3, <3>1 DEF Paid
    <3>3. ds[j] = cs[j]
      BY <1>14, <3>2
    <3> QED  BY <1>13, <3>1, <3>2, <3>3
  <2> QED  BY <2>1, <2>2
<1> HIDE DEF ds
<1>17. key' \in [Callers -> Row] /\ call' \in [Callers -> Seq(Call)]
  BY <1>1, <1>2, <1>3, <1>5, <1>13
<1>18. ASSUME NEW c \in Callers
       PROVE  /\ Len(call'[c]) <= MaxCalls
              /\ CallsInv(call'[c], runtime, now)
              /\ KeyInv(key'[c], call'[c], now) /\ Paid(call'[c])
  <2>1. CASE c = o
    <3>1. call'[c] = ds /\ key'[c] = stored
      BY <1>1, <1>2, <1>3, <2>1
    <3> QED  BY <1>3, <1>12, <1>13, <1>15, <1>16, <2>1, <3>1
  <2>2. CASE c # o
    <3>1. call'[c] = call[c] /\ key'[c] = key[c]
      BY <1>2, <1>3, <2>2
    <3> QED  BY <3>1 DEF CallerInv
  <2> QED  BY <2>1, <2>2
<1> QED  BY <1>2, <1>3, <1>17, <1>18 DEF CallerInv

\* The age of a call at each stage, what a refusal for the cooldown stands for
\* and how many calls each window has let in: kept by every step.
THEOREM CallersInOrder == Spec => []CallerInv
<1>1. ASSUME CallerInv, [Next]_vars  PROVE CallerInv'
  <2>1. CASE Tick
    BY <1>1, <2>1, TickCallers
  <2>2. ASSUME NEW c \in Callers, Send(c)  PROVE CallerInv'
    BY <1>1, <2>2, SendCallers
  <2>3. ASSUME NEW id \in Ids,
               \/ TimeOut(id) \/ Fail(id) \/ Lose(id) \/ Close(id)
               \/ Arrive(id) \/ RunEnds(id) \/ Record(id) \/ Respond(id) \/ Discard(id)
        PROVE  CallerInv'
    BY <1>1, <2>3, TimeOutCallers, FailCallers, LoseCallers, CloseCallers,
       ArriveCallers, RunEndsCallers, RecordCallers, RespondCallers, DiscardCallers
  <2>4. CASE UNCHANGED vars
    BY <1>1, <2>4 DEF vars, CallerInv
  <2> QED  BY <1>1, <2>1, <2>2, <2>3, <2>4 DEF Next
<1> QED  BY <1>1, InitCallers, PTL DEF Spec

\* A caller that gives a search up for its timeout and retries is never refused
\* for the cooldown the abandoned search was charged for, whatever other calls
\* fail or are under way: api-client.js waits longer than a cooldown lasts.
THEOREM RetryAfterTimeout == Spec => []TimeoutCostsNoCooldown
<1>1. ASSUME CallerInv, NEW c \in Callers, NEW i \in DOMAIN call[c],
             call[c][i].code = "cooldown"
      PROVE  \E j \in DOMAIN call[c] \ {i} :
               /\ call[c][j].kind = "search" /\ call[c][j].run # "none"
               /\ call[c][i].arrived - call[c][j].arrived
                    \in 0..(key[c].cooldown * Second - 1)
               /\ call[c][j].caller = "timed_out" =>
                    call[c][i].sent < call[c][j].gaveUp
  <2> DEFINE cs == call[c]
  <2>1. /\ cs \in Seq(Call) /\ CallsInv(cs, runtime, now) /\ Paid(cs)
        /\ key[c].cooldown = MinCooldown
    BY <1>1 DEF CallerInv, KeyInv
  <2>2. PICK j \in DOMAIN cs \ {i} :
          /\ cs[j].kind = "search" /\ cs[j].run # "none"
          /\ cs[i].arrived - cs[j].arrived \in 0..(MinCooldown * Second - 1)
    BY <1>1, <2>1 DEF Paid
  <2>3. /\ cs[i] \in Call /\ CallInv(cs[i], runtime, now)
        /\ cs[j] \in Call /\ CallInv(cs[j], runtime, now)
    BY <1>1, <2>1, <2>2, ElementOfSeq, LenProperties DEF CallsInv
  <2> HIDE DEF cs
  <2>4. cs[i].sent <= cs[i].arrived
    BY <1>1, <2>3, ServingAssumption DEF CallInv, Codes, cs
  <2>5. cs[j].arrived <= cs[j].sent + Lag
        /\ (cs[j].caller = "timed_out" => cs[j].gaveUp >= cs[j].sent + Patience)
    BY <2>2, <2>3 DEF CallInv
  <2>6. /\ cs[i].sent \in Nat /\ cs[i].arrived \in Nat
        /\ cs[j].sent \in Nat /\ cs[j].arrived \in Nat /\ cs[j].gaveUp \in Nat
    BY <2>3 DEF Call
  <2>7. /\ MinCooldown * Second \in Int /\ Lag \in Nat /\ Patience \in Nat
        /\ Lag + MinCooldown * Second <= Patience
    BY Scaled, KeyRowAssumption, ServingAssumption
  <2>8. cs[j].caller = "timed_out" => cs[i].sent < cs[j].gaveUp
    BY <2>2, <2>4, <2>5, <2>6, <2>7
  <2> QED  BY <2>1, <2>2, <2>8 DEF cs
<1>2. CallerInv => TimeoutCostsNoCooldown
  BY <1>1 DEF TimeoutCostsNoCooldown
<1> QED  BY <1>2, CallersInOrder, PTL

-----------------------------------------------------------------------------
(* The runs a caller keeps busy.                                           *)

\* Every run was let in no longer ago than the longest run lasts: in the window
\* the key is in, or in one of the windows before it that reach so far.
LEMMA FewRuns ==
  ASSUME CallerInv, NEW c \in Callers
  PROVE  Cardinality({i \in DOMAIN call[c] : call[c][i].run = "running"})
           <= (1 + (Longest + Window) \div (Window + 1)) * key[c].rate
<1> DEFINE cs == call[c]
           row == key[c]
           start == row.use.windowStart
           runs == {i \in DOMAIN cs : cs[i].run = "running"}
           length == Window + 1
           k == (Longest + Window) \div length
           count == row.use.windowCount
           rate == row.rate
<1>1. /\ now \in Nat /\ cs \in Seq(Call) /\ CallsInv(cs, runtime, now)
      /\ row \in Row /\ WindowInv(row, cs, now)
  BY DEF CallerInv, KeyInv
<1>2. /\ count \in Nat /\ rate \in Nat /\ count <= rate
      /\ Window \in Nat /\ length \in Nat \ {0} /\ Longest \in Nat
  BY <1>1, KeyRowAssumption, ServingAssumption DEF Row, Use, WindowInv
<1>3. k \in Nat /\ length * k >= Longest /\ length * k = k * length
  <2> DEFINE a == Longest + Window
  <2>0. a \in Int
    BY <1>2
  <2> HIDE DEF length, a
  <2>1. /\ k \in Int /\ a = length * k + (a % length)
        /\ a % length \in 0..(length - 1)
    BY <1>2, <2>0, Divided DEF a
  <2> USE DEF length, a
  <2>2. length * k >= Longest /\ length * k \in Int
    BY <1>2, <2>1
  <2> HIDE DEF k
  <2>3. k >= 0
    <3>1. SUFFICES ASSUME k + 1 <= 0  PROVE FALSE
      BY <2>1
    <3>2. length * k + length <= 0
      BY <1>2, <2>1, <3>1
    <3> QED  BY <1>2, <2>2, <3>2
  <2> QED  BY <1>2, <2>1, <2>2, <2>3
<1> HIDE DEF k, length
<1>4. IsFiniteSet(DOMAIN cs)
  <2> HIDE DEF cs
  <2>1. DOMAIN cs = 1..Len(cs) /\ Len(cs) \in Nat
    BY <1>1, LenProperties
  <2> QED  BY <2>1, FS_Interval
<1>5. CASE start = None
  <2>1. runs = {}
    BY <1>1, <1>5 DEF WindowInv
  <2>2. Cardinality(runs) = 0
    BY <2>1, FS_EmptySet
  <2>3. (1 + k) * rate \in Nat
    BY <1>2, <1>3, Product
  <2> QED  BY <2>2, <2>3 DEF k, length
<1>6. CASE start # None
  <2> DEFINE u == start - k * length
  <2>1. start \in 1..now /\ Cardinality(Since(cs, u)) <= k * rate + count
    BY <1>1, <1>3, <1>6 DEF WindowInv, length
  <2>2. u <= now - Longest /\ u \in Int
    BY <1>1, <1>2, <1>3, <2>1
  <2> HIDE DEF u
  <2>3. runs \subseteq Since(cs, u)
    <3> SUFFICES ASSUME NEW i \in runs  PROVE i \in Since(cs, u)
      OBVIOUS
    <3>1. cs[i] \in Call /\ CallInv(cs[i], runtime, now) /\ cs[i].run = "running"
      BY <1>1, ElementOfSeq, LenProperties DEF CallsInv
    <3>2. now - cs[i].arrived <= Longest /\ cs[i].arrived \in Nat
      BY <3>1 DEF CallInv, Call
    <3>3. cs[i].arrived >= u
      BY <1>1, <1>2, <2>2, <3>2
    <3> QED  BY <3>1, <3>3 DEF Since
  <2>4. IsFiniteSet(Since(cs, u))
    BY <1>4, FS_Subset DEF Since
  <2>5. Cardinality(runs) <= Cardinality(Since(cs, u))
        /\ Cardinality(runs) \in Nat /\ Cardinality(Since(cs, u)) \in Nat
    BY <2>3, <2>4, FS_Subset, FS_CardinalityType
  <2> HIDE DEF runs, rate, count
  <2>6. k * rate \in Nat /\ (k + 1) * rate = k * rate + rate
    BY <1>2, <1>3, Product
  <2>7. Cardinality(runs) <= (k + 1) * rate
    BY <1>2, <2>1, <2>5, <2>6
  <2>8. k + 1 = 1 + k
    BY <1>3
  <2> QED  BY <2>7, <2>8 DEF runs, rate, k, length
<1> QED  BY <1>5, <1>6

\* However a caller retries, hangs up or calls in parallel, the engines that run
\* for it on the server, each with a browser of its own, are no more than the
\* rate limit lets through while the longest run lasts.
THEOREM FewRunsPerCaller == Spec => []RunsPerCaller
<1>1. CallerInv => RunsPerCaller
  BY FewRuns DEF RunsPerCaller
<1> QED  BY <1>1, CallersInOrder, PTL

-----------------------------------------------------------------------------
(* The counters and the calls.                                             *)

Refusal(q) == Limited(q) /\ q.server = "done"

Success(r, q) ==
    /\ Recorded(q)
    /\ r = "rust" => q.server # "gone" /\ q.kind # "transcript"

Refusals == {id \in Ids : Refusal(At(id))}

Successes == {id \in Ids : Success(runtime, At(id))}

CountInv ==
    /\ obs \in Counters
    /\ finished \in Seq(Nat)
    /\ \A i \in DOMAIN finished : finished[i] <= Longest
    /\ obs.latency = Recent(finished)
    /\ obs.status429 = Cardinality(Refusals)
    /\ obs.success = Cardinality(Successes)

LEMMA FallbackDepthType ==
  ASSUME NEW attempts \in Seq({"ok", "no_results", "blocked", "error"})
  PROVE  FallbackDepth(attempts) \in Nat
<1> DEFINE found == {i \in DOMAIN attempts : attempts[i] = "ok"}
<1>1. Len(attempts) \in Nat /\ DOMAIN attempts = 1..Len(attempts)
      /\ (attempts # <<>> => Len(attempts) # 0)
  BY LenProperties, EmptySeq
<1>2. CASE found # {}
  <2> DEFINE least == CHOOSE i \in found : \A j \in found : i <= j
  <2>1. found \in SUBSET Nat /\ \A i \in found : i \in Nat \ {0}
    BY <1>1
  <2>2. FallbackDepth(attempts) = least - 1
    BY <1>2 DEF FallbackDepth
  <2> HIDE DEF found
  <2>3. \E i \in found : \A j \in found : i <= j
    BY <1>2, <2>1, LeastNatural
  <2>4. least \in found
    BY <2>3
  <2> HIDE DEF least
  <2> QED  BY <2>1, <2>2, <2>4
<1>3. CASE found = {}
  BY <1>1, <1>3 DEF FallbackDepth
<1> QED  BY <1>2, <1>3

\* A success is one more in the counter, a failure none.
LEMMA OutcomeCounted ==
  ASSUME NEW r \in Runtimes, NEW o \in Counters, NEW result \in Results
  PROVE  LET new == RecordEngineOutcome(r, o, result) IN
         /\ new \in Counters
         /\ new.success = IF result.success THEN o.success + 1 ELSE o.success
         /\ new.status429 = o.status429 /\ new.latency = o.latency
<1>1. /\ FallbackDepth(result.attempts) \in Nat
      /\ Len(SelectSeq(result.attempts, LAMBDA a : a = "blocked")) \in Nat
  BY FallbackDepthType DEF Results
<1>2. LET new == WithAttempts(o, result.attempts)
      IN /\ new \in Counters /\ new.success = o.success + 1
         /\ new.status429 = o.status429 /\ new.latency = o.latency
  <2> DEFINE success == o.success + 1
             blocked == o.blocked
               + Len(SelectSeq(result.attempts, LAMBDA a : a = "blocked"))
             samples == o.depthSamples + 1
             sum == o.depthSum + FallbackDepth(result.attempts)
  <2>1. /\ success \in Nat /\ blocked \in Nat /\ samples \in Nat /\ sum \in Nat
    BY <1>1 DEF Counters
  <2>2. WithAttempts(o, result.attempts) =
          [o EXCEPT !.success = success, !.blocked = blocked,
                    !.depthSamples = samples, !.depthSum = sum]
    BY Zenon DEF WithAttempts
  <2> HIDE DEF success, blocked, samples, sum
  <2>3. LET new == WithAttempts(o, result.attempts)
        IN /\ new \in Counters /\ new.success = success
           /\ new.status429 = o.status429 /\ new.latency = o.latency
    BY <2>1, <2>2 DEF Counters
  <2> QED  BY <2>3 DEF success
<1>3. /\ [o EXCEPT !.success = @ + 1] \in Counters
      /\ [o EXCEPT !.success = @ + 1].success = o.success + 1
      /\ [o EXCEPT !.success = @ + 1].status429 = o.status429
      /\ [o EXCEPT !.success = @ + 1].latency = o.latency
  BY DEF Counters
<1> QED  BY <1>2, <1>3 DEF RecordEngineOutcome

LEMMA ResponseCounted ==
  ASSUME NEW o \in Counters, NEW limited \in BOOLEAN, NEW took \in Nat,
         NEW times \in Seq(Nat), o.latency = Recent(times)
  PROVE  LET new == RecordHttpResponse(o, limited, took) IN
         /\ new \in Counters
         /\ new.status429 = IF limited THEN o.status429 + 1 ELSE o.status429
         /\ new.latency = Recent(Append(times, took))
         /\ new.success = o.success
<1>1. Latest(Append(o.latency, took)) = Recent(Append(times, took))
  BY LatestIsRecent
<1>2. Recent(Append(times, took)) \in Seq(Nat)
  <2>1. Append(times, took) \in Seq(Nat)
    OBVIOUS
  <2> QED  BY <2>1, RecentIs
<1> DEFINE count == IF limited THEN o.status429 + 1 ELSE o.status429
           latency == Recent(Append(times, took))
<1>4. RecordHttpResponse(o, limited, took) =
        [o EXCEPT !.status429 = count, !.latency = latency]
  BY <1>1, Zenon DEF RecordHttpResponse
<1>5. count \in Nat
  BY DEF Counters
<1>6. latency \in Seq(Nat)
  BY <1>2
<1> HIDE DEF count, latency
<1>7. LET new == RecordHttpResponse(o, limited, took) IN
      /\ new \in Counters /\ new.success = o.success
      /\ new.status429 = count /\ new.latency = latency
  BY <1>4, <1>5, <1>6 DEF Counters
<1> QED  BY <1>7 DEF count, latency

LEMMA FiniteIds ==
  ASSUME CallerInv
  PROVE  /\ IsFiniteSet(Ids)
         /\ IsFiniteSet(Refusals) /\ Cardinality(Refusals) \in Nat
         /\ IsFiniteSet(Successes) /\ Cardinality(Successes) \in Nat
<1>1. IsFiniteSet(Callers) /\ IsFiniteSet(1..MaxCalls)
  BY ServingAssumption, FS_Interval
<1>2. IsFiniteSet(Callers \X (1..MaxCalls))
  BY <1>1, FS_Product
<1>3. Ids \subseteq Callers \X (1..MaxCalls)
  BY DEF Ids
<1>4. IsFiniteSet(Ids)
  BY <1>2, <1>3, FS_Subset
<1>5. Refusals \subseteq Ids /\ Successes \subseteq Ids
  BY DEF Refusals, Successes
<1>6. IsFiniteSet(Refusals) /\ IsFiniteSet(Successes)
  BY <1>4, <1>5, FS_Subset
<1> QED  BY <1>4, <1>6, FS_CardinalityType

\* A step on one call changes no other.
LEMMA OthersKept ==
  ASSUME CallerInv, NEW id \in Ids, NEW new \in Call, Update(id, new)
  PROVE  /\ Ids' = Ids /\ At(id)' = new
         /\ \A other \in Ids : other # id => At(other)' = At(other)
<1> DEFINE o == id[1]
           i == id[2]
<1>1. o \in Callers /\ i \in DOMAIN call[o] /\ id = <<o, i>>
  BY IdFacts
<1>2. /\ call' = [call EXCEPT ![o] = [call[o] EXCEPT ![i] = new]]
      /\ call \in [Callers -> Seq(Call)]
  BY DEF Update, CallerInv
<1>3. /\ [call[o] EXCEPT ![i] = new] \in Seq(Call)
      /\ Len([call[o] EXCEPT ![i] = new]) = Len(call[o])
  BY <1>1, <1>2, ExceptSeq, LenProperties
<1>4. \A c \in Callers : Len(call'[c]) = Len(call[c])
  BY <1>1, <1>2, <1>3
<1>5. Ids' = Ids
  BY <1>4 DEF Ids
<1>6. At(id)' = new
  BY <1>1, <1>2 DEF At
<1>7. ASSUME NEW other \in Ids, other # id  PROVE At(other)' = At(other)
  <2>1. other = <<other[1], other[2]>> /\ other[1] \in Callers
    BY DEF Ids
  <2>2. other[1] # o \/ other[2] # i
    BY <1>1, <1>7, <2>1
  <2> QED  BY <1>1, <1>2, <2>1, <2>2 DEF At
<1> QED  BY <1>5, <1>6, <1>7

LEMMA CountsMoved ==
  ASSUME CallerInv, NEW id \in Ids, NEW new \in Call, Update(id, new),
         runtime' = runtime
  PROVE  /\ (Refusal(new) <=> Refusal(At(id))) =>
              Cardinality(Refusals)' = Cardinality(Refusals)
         /\ Refusal(new) /\ ~Refusal(At(id)) =>
              Cardinality(Refusals)' = Cardinality(Refusals) + 1
         /\ (Success(runtime, new) <=> Success(runtime, At(id))) =>
              Cardinality(Successes)' = Cardinality(Successes)
         /\ Success(runtime, new) /\ ~Success(runtime, At(id)) =>
              Cardinality(Successes)' = Cardinality(Successes) + 1
<1>1. /\ Ids' = Ids /\ At(id)' = new
      /\ \A other \in Ids : other # id => At(other)' = At(other)
  BY OthersKept
<1>2. Refusals' = {other \in Ids : Refusal(At(other)')}
  BY <1>1 DEF Refusals, Refusal, Limited
<1>3. Successes' = {other \in Ids : Success(runtime, At(other)')}
  BY <1>1 DEF Successes, Success, Recorded
<1>4. (Refusal(new) <=> Refusal(At(id))) => Refusals' = Refusals
  BY <1>1, <1>2 DEF Refusals
<1>5. Refusal(new) /\ ~Refusal(At(id)) =>
        Refusals' = Refusals \cup {id} /\ id \notin Refusals
  BY <1>1, <1>2 DEF Refusals
<1>6. (Success(runtime, new) <=> Success(runtime, At(id))) => Successes' = Successes
  BY <1>1, <1>3 DEF Successes
<1>7. Success(runtime, new) /\ ~Success(runtime, At(id)) =>
        Successes' = Successes \cup {id} /\ id \notin Successes
  BY <1>1, <1>3 DEF Successes
<1>8. IsFiniteSet(Refusals) /\ IsFiniteSet(Successes)
  BY FiniteIds
<1>9. /\ id \notin Refusals =>
           Cardinality(Refusals \cup {id}) = Cardinality(Refusals) + 1
      /\ id \notin Successes =>
           Cardinality(Successes \cup {id}) = Cardinality(Successes) + 1
  BY <1>8, FS_AddElement
<1> QED  BY <1>4, <1>5, <1>6, <1>7, <1>9

\* A step that the counters are told nothing of.
LEMMA QuietCounts ==
  ASSUME CallerInv, CountInv, NEW id \in Ids, NEW new \in Call, Update(id, new),
         UNCHANGED <<runtime, obs, finished>>,
         Refusal(new) <=> Refusal(At(id)),
         Success(runtime, new) <=> Success(runtime, At(id))
  PROVE  CountInv'
<1>1. /\ Cardinality(Refusals)' = Cardinality(Refusals)
      /\ Cardinality(Successes)' = Cardinality(Successes)
  BY CountsMoved
<1> QED  BY <1>1 DEF CountInv, Recent

LEMMA InitCounts == Init => CountInv
<1> SUFFICES ASSUME Init  PROVE CountInv
  OBVIOUS
<1>1. obs = NoCounters /\ finished = <<>> /\ \A c \in Callers : call[c] = <<>>
  BY DEF Init
<1>2. Ids = {}
  BY <1>1 DEF Ids
<1>3. Cardinality(Refusals) = 0 /\ Cardinality(Successes) = 0
  BY <1>2, FS_EmptySet DEF Refusals, Successes
<1>4. <<>> \in Seq(Nat) /\ Len(<<>>) = 0 /\ DOMAIN <<>> = {}
  OBVIOUS
<1>5. Recent(<<>>) = <<>>
  <2>1. Recent(<<>>) = SubSeq(<<>>, 1, 0)
    BY <1>4, ObservabilityAssumption DEF Recent
  <2> QED  BY <2>1, SubSeqEmpty
<1>6. /\ NoCounters \in Counters /\ NoCounters.latency = <<>>
      /\ NoCounters.status429 = 0 /\ NoCounters.success = 0
  BY <1>4 DEF NoCounters, Counters
<1> QED  BY <1>1, <1>3, <1>4, <1>5, <1>6 DEF CountInv

LEMMA TickCounts == CountInv /\ Tick => CountInv'
<1> SUFFICES ASSUME CountInv, Tick  PROVE CountInv'
  OBVIOUS
<1>1. UNCHANGED <<runtime, key, call, obs, finished>>
  BY DEF Tick
<1>2. Refusals' = Refusals /\ Successes' = Successes
  BY <1>1 DEF Refusals, Successes, Ids, At, Refusal, Success, Limited, Recorded
<1> QED  BY <1>1, <1>2 DEF CountInv, Recent

LEMMA SendCounts ==
  ASSUME CallerInv, CountInv, NEW o \in Callers, Send(o)
  PROVE  CountInv'
<1>1. PICK kind \in Kinds :
        call' = [call EXCEPT ![o] = Append(@,
          [ kind |-> kind, sent |-> now, arrived |-> 0, gaveUp |-> 0,
            caller |-> "waiting", server |-> "coming", open |-> TRUE,
            run |-> "none", result |-> None, code |-> None ])]
  BY DEF Send
<1> DEFINE cs == call[o]
           new == [ kind |-> kind, sent |-> now, arrived |-> 0, gaveUp |-> 0,
                    caller |-> "waiting", server |-> "coming", open |-> TRUE,
                    run |-> "none", result |-> None, code |-> None ]
           next == <<o, Len(cs) + 1>>
<1>2. /\ UNCHANGED <<runtime, obs, finished>> /\ now \in Nat /\ Len(cs) < MaxCalls
      /\ cs \in Seq(Call) /\ Len(cs) \in Nat
      /\ call \in [Callers -> Seq(Call)]
  BY LenProperties DEF Send, CallerInv
<1>3. new \in Call /\ new.server = "coming"
  BY <1>2 DEF Call
<1> HIDE DEF new
<1>4. /\ Append(cs, new) \in Seq(Call) /\ Len(Append(cs, new)) = Len(cs) + 1
      /\ \A i \in 1..Len(cs) : Append(cs, new)[i] = cs[i]
  BY <1>2, <1>3
<1>5. Append(cs, new)[Len(cs) + 1] = new
  BY <1>2, <1>3
<1>6. call' = [call EXCEPT ![o] = Append(cs, new)]
  BY <1>1 DEF new
<1>7. /\ call'[o] = Append(cs, new)
      /\ \A c \in Callers : c # o => call'[c] = call[c]
  BY <1>2, <1>6
<1>8. \A id \in Ids : id \in Ids' /\ At(id)' = At(id)
  <2> SUFFICES ASSUME NEW id \in Ids  PROVE id \in Ids' /\ At(id)' = At(id)
    OBVIOUS
  <2>1. id[1] \in Callers /\ id[2] \in 1..MaxCalls /\ id[2] <= Len(call[id[1]])
    BY DEF Ids
  <2>2. CASE id[1] = o
    BY <1>2, <1>4, <1>7, <2>1, <2>2 DEF Ids, At
  <2>3. CASE id[1] # o
    BY <1>7, <2>1, <2>3 DEF Ids, At
  <2> QED  BY <2>2, <2>3
<1>9. ASSUME NEW id \in Ids', id \notin Ids
      PROVE  At(id)' = new
  <2>1. id \in Callers \X (1..MaxCalls) /\ id[2] <= Len(call'[id[1]])
        /\ ~(id[2] <= Len(call[id[1]]))
    BY <1>9 DEF Ids
  <2>2. id[1] = o
    BY <1>7, <2>1
  <2>3. id[2] = Len(cs) + 1
    BY <1>2, <1>4, <1>7, <2>1, <2>2
  <2> QED  BY <1>5, <1>7, <2>2, <2>3 DEF At
<1>10. ~Refusal(new) /\ ~Success(runtime, new)
  BY <1>3 DEF Refusal, Success, Recorded
<1>11. Refusals' = Refusals
  <2>1. Refusals' = {id \in Ids' : Refusal(At(id)')}
    BY DEF Refusals, Refusal, Limited
  <2> QED  BY <1>8, <1>9, <1>10, <2>1 DEF Refusals
<1>12. Successes' = Successes
  <2>1. Successes' = {id \in Ids' : Success(runtime, At(id)')}
    BY <1>2 DEF Successes, Success, Recorded
  <2> QED  BY <1>8, <1>9, <1>10, <2>1 DEF Successes
<1> QED  BY <1>2, <1>11, <1>12 DEF CountInv, Recent

\* What the caller learns is nothing to the server.
LEMMA TimeOutCounts ==
  ASSUME CallerInv, CountInv, NEW id \in Ids, TimeOut(id) \/ Fail(id)
  PROVE  CountInv'
<1> DEFINE q == At(id)
<1>1. q \in Call /\ now \in Nat
  BY IdFacts DEF CallerInv
<1>2. PICK caller \in {"timed_out", "failed"}, time \in {now, q.gaveUp} :
        Update(id, [q EXCEPT !.caller = caller, !.gaveUp = time])
  <2>1. [q EXCEPT !.caller = "failed"] =
          [q EXCEPT !.caller = "failed", !.gaveUp = q.gaveUp]
    BY <1>1 DEF Call
  <2> QED  BY <2>1 DEF TimeOut, Fail
<1> DEFINE new == [q EXCEPT !.caller = caller, !.gaveUp = time]
<1>3. UNCHANGED <<runtime, obs, finished>>
  BY DEF TimeOut, Fail
<1> HIDE DEF q
<1>4. new \in Call
  BY <1>1, <1>2 DEF Call
<1>5. new.server = q.server /\ new.kind = q.kind /\ new.code = q.code
  BY <1>1 DEF Call
<1> HIDE DEF new
<1>6. (Refusal(new) <=> Refusal(q)) /\ (Success(runtime, new) <=> Success(runtime, q))
  BY <1>5 DEF Refusal, Success, Limited, Recorded
<1> QED  BY <1>2, <1>3, <1>4, <1>6, QuietCounts DEF new, q

LEMMA CloseCounts ==
  ASSUME CallerInv, CountInv, NEW id \in Ids, Close(id)
  PROVE  CountInv'
<1> DEFINE q == At(id)
<1>1. q \in Call /\ runtime \in Runtimes
  BY IdFacts DEF CallerInv
<1>2. /\ q.server \in {"running", "recording", "responding"}
      /\ UNCHANGED <<runtime, obs, finished>>
  BY DEF Close
<1>3. PICK server \in HangUp(q) :
        Update(id, CutOff(q, server))
  BY DEF Close, CutOff
<1> DEFINE new == CutOff(q, server)
<1> HIDE DEF q
<1>4. /\ new \in Call /\ new.server = server
      /\ new.kind = q.kind /\ new.code = q.code
      /\ server # q.server =>
           /\ server = "gone" /\ runtime = "rust"
           /\ q.server \in {"running", "recording"}
  BY <1>1, <1>2, <1>3, HungUp
<1> HIDE DEF new
<1>5. (Refusal(new) <=> Refusal(q)) /\ (Success(runtime, new) <=> Success(runtime, q))
  BY <1>2, <1>4 DEF Refusal, Success, Limited, Recorded
<1> QED  BY <1>2, <1>3, <1>4, <1>5, QuietCounts DEF new, q

LEMMA LoseCounts ==
  ASSUME CallerInv, CountInv, NEW id \in Ids, Lose(id)
  PROVE  CountInv'
<1> DEFINE q == At(id)
           new == [q EXCEPT !.server = "lost"]
<1>1. q \in Call
  BY IdFacts
<1>2. q.server = "coming" /\ Update(id, new) /\ UNCHANGED <<runtime, obs, finished>>
  BY DEF Lose
<1>3. new \in Call /\ new.server = "lost"
  BY <1>1 DEF Call
<1>4. ~Refusal(new) /\ ~Refusal(q) /\ ~Success(runtime, new) /\ ~Success(runtime, q)
  BY <1>2, <1>3 DEF Refusal, Success, Recorded
<1> QED  BY <1>2, <1>3, <1>4, QuietCounts

LEMMA ArriveCounts ==
  ASSUME CallerInv, CountInv, NEW id \in Ids, Arrive(id)
  PROVE  CountInv'
<1> DEFINE c == id[1]
           q == At(id)
           search == q.kind = "search"
           reason == Reason(runtime, key[c], search, now)
           here == [q EXCEPT !.arrived = now]
           new == IF reason = "ok"
                    THEN [here EXCEPT !.server = "running", !.run = "running"]
                    ELSE [here EXCEPT !.server = "responding", !.code = reason]
<1>1. c \in Callers /\ q \in Call /\ CallInv(q, runtime, now)
  BY IdFacts
<1>2. /\ runtime \in Runtimes /\ now \in Nat \ {0} /\ key[c] \in Row
      /\ key[c].active /\ key[c].expires = None /\ key[c].cooldown = MinCooldown
      /\ key[c].use.windowStart = None => key[c].use.windowCount = 0
      /\ key[c].use.windowStart # None => key[c].use.windowStart \in Nat \ {0}
  BY <1>1 DEF CallerInv, KeyInv, WindowInv
<1>3. q.server = "coming" /\ Update(id, new) /\ UNCHANGED <<runtime, obs, finished>>
  BY DEF Arrive
<1>4. reason \in {"ok", "cooldown", "rate_limited"}
  BY <1>2, ArrivedKey
<1> HIDE DEF q, reason
<1>5. /\ new \in Call
      /\ new.server \in {"running", "responding"}
      /\ new.server = "responding" => new.code \in {"cooldown", "rate_limited"}
  BY <1>1, <1>2, <1>4 DEF Call, Codes
<1> HIDE DEF new
<1>6. ~Refusal(new) /\ ~Refusal(q) /\ ~Success(runtime, new) /\ ~Success(runtime, q)
  BY <1>3, <1>5 DEF Refusal, Success, Recorded
<1> QED  BY <1>3, <1>5, <1>6, QuietCounts DEF q

LEMMA RunEndsCounts ==
  ASSUME CallerInv, CountInv, NEW id \in Ids, RunEnds(id)
  PROVE  CountInv'
<1> DEFINE q == At(id)
<1>1. q \in Call /\ CallInv(q, runtime, now) /\ runtime \in Runtimes
  BY IdFacts DEF CallerInv
<1>2. PICK result \in Outcomes :
        Update(id, [q EXCEPT !.run = "over", !.result = result,
             !.server = IF @ = "gone" THEN "gone" ELSE "recording",
             !.code = IF result.success THEN "ok" ELSE "failed"])
  BY DEF RunEnds
<1> DEFINE new == [q EXCEPT !.run = "over", !.result = result,
                     !.server = IF @ = "gone" THEN "gone" ELSE "recording",
                     !.code = IF result.success THEN "ok" ELSE "failed"]
<1>3. q.run = "running" /\ UNCHANGED <<runtime, obs, finished>>
  BY DEF RunEnds
<1>4. /\ new \in Call
      /\ new.server = IF q.server = "gone" THEN "gone" ELSE "recording"
  BY <1>1, <1>2 DEF Call, Codes
<1>5. q.server \in {"running", "gone"} /\ (q.server = "gone" => runtime = "rust")
  BY <1>1, <1>3 DEF CallInv, Runtimes
<1> HIDE DEF new, q
<1>6. ~Refusal(new) /\ ~Refusal(q) /\ ~Success(runtime, new) /\ ~Success(runtime, q)
  BY <1>4, <1>5 DEF Refusal, Success, Recorded
<1> QED  BY <1>2, <1>3, <1>4, <1>6, QuietCounts DEF new, q

LEMMA RecordCounts ==
  ASSUME CallerInv, CountInv, NEW id \in Ids, Record(id)
  PROVE  CountInv'
<1> DEFINE q == At(id)
           new == [q EXCEPT !.server = "responding"]
<1>1. q \in Call /\ CallInv(q, runtime, now) /\ runtime \in Runtimes
  BY IdFacts DEF CallerInv
<1>2. /\ q.server = "recording" /\ Update(id, new) /\ obs' = Counted(q)
      /\ UNCHANGED <<runtime, finished>>
  BY DEF Record
<1>3. /\ new \in Call /\ new.server = "responding"
      /\ new.kind = q.kind /\ new.code = q.code
  BY <1>1 DEF Call
<1>4. /\ q.result \in Results /\ q.result.kind = q.kind
      /\ q.code = (IF q.result.success THEN "ok" ELSE "failed")
  BY <1>1, <1>2, ServingAssumption DEF CallInv
<1> HIDE DEF new, q
<1>5. ~Refusal(new) /\ ~Refusal(q) /\ ~Success(runtime, q)
  BY <1>2, <1>3 DEF Refusal, Success, Recorded
<1>6. Success(runtime, new) <=>
        q.result.success /\ ~(runtime = "rust" /\ q.kind = "transcript")
  BY <1>1, <1>3, <1>4 DEF Success, Recorded, Runtimes
<1>7. /\ Cardinality(Refusals)' = Cardinality(Refusals)
      /\ Cardinality(Successes)' =
           IF Success(runtime, new) THEN Cardinality(Successes) + 1
           ELSE Cardinality(Successes)
  BY <1>2, <1>3, <1>5, CountsMoved DEF q
<1>8. obs \in Counters
  BY DEF CountInv
<1>9. /\ Counted(q) \in Counters
      /\ Counted(q).success = IF Success(runtime, new) THEN obs.success + 1
                              ELSE obs.success
      /\ Counted(q).status429 = obs.status429 /\ Counted(q).latency = obs.latency
  <2>1. CASE runtime = "rust" /\ q.kind = "transcript"
    BY <1>6, <1>8, <2>1 DEF Counted
  <2>2. CASE ~(runtime = "rust" /\ q.kind = "transcript")
    BY <1>1, <1>4, <1>6, <1>8, <2>2, OutcomeCounted DEF Counted
  <2> QED  BY <2>1, <2>2
<1> QED  BY <1>2, <1>7, <1>9 DEF CountInv, Recent

LEMMA RespondCounts ==
  ASSUME CallerInv, CountInv, NEW id \in Ids, Respond(id)
  PROVE  CountInv'
<1> DEFINE q == At(id)
           took == now - q.arrived
<1>1. q \in Call /\ CallInv(q, runtime, now) /\ runtime \in Runtimes /\ now \in Nat
  BY IdFacts DEF CallerInv
<1>2. /\ q.server = "responding"
      /\ obs' = RecordHttpResponse(obs, Limited(q), took)
      /\ finished' = Append(finished, took)
      /\ UNCHANGED runtime
  BY DEF Respond
<1>12. PICK caller \in {q.caller, "answered"} :
         Update(id, [q EXCEPT !.server = "done", !.caller = caller])
  BY DEF Respond
<1> DEFINE new == [q EXCEPT !.server = "done", !.caller = caller]
<1>3. /\ new \in Call /\ new.server = "done"
      /\ new.kind = q.kind /\ new.code = q.code
  BY <1>1 DEF Call
\* A response is sent in the tick in which the run has come to its end.
<1>4. took \in Nat /\ took <= Longest
  BY <1>1, <1>2 DEF CallInv, Call
<1>5. Limited(q) \in BOOLEAN
  BY DEF Limited
<1> HIDE DEF new, q, took
<1>6. /\ ~Refusal(q) /\ (Refusal(new) <=> Limited(q))
      /\ (Success(runtime, new) <=> Success(runtime, q))
  BY <1>2, <1>3 DEF Refusal, Success, Recorded, Limited
<1>7. /\ Cardinality(Successes)' = Cardinality(Successes)
      /\ Cardinality(Refusals)' =
           IF Limited(q) THEN Cardinality(Refusals) + 1 ELSE Cardinality(Refusals)
  BY <1>2, <1>3, <1>6, <1>12, CountsMoved DEF q, new
<1>8. /\ obs \in Counters /\ finished \in Seq(Nat) /\ obs.latency = Recent(finished)
      /\ obs.status429 = Cardinality(Refusals)
      /\ obs.success = Cardinality(Successes)
      /\ \A i \in DOMAIN finished : finished[i] <= Longest
  BY DEF CountInv
<1>9. /\ obs' \in Counters
      /\ obs'.status429 = IF Limited(q) THEN obs.status429 + 1 ELSE obs.status429
      /\ obs'.latency = Recent(Append(finished, took))
      /\ obs'.success = obs.success
  BY <1>2, <1>4, <1>5, <1>8, ResponseCounted
<1>10. /\ finished' \in Seq(Nat)
       /\ \A i \in DOMAIN finished' : finished'[i] <= Longest
  BY <1>2, <1>4, <1>8
<1>11. Recent(finished)' = Recent(finished')
  BY DEF Recent
<1> QED  BY <1>2, <1>7, <1>8, <1>9, <1>10, <1>11 DEF CountInv

LEMMA DiscardCounts ==
  ASSUME CallerInv, CountInv, NEW id \in Ids, Discard(id)
  PROVE  CountInv'
<1> DEFINE q == At(id)
           new == [q EXCEPT !.server = "gone"]
<1>1. q \in Call
  BY IdFacts
<1>2. /\ q.server = "responding" /\ Update(id, new) /\ runtime = "js"
      /\ UNCHANGED <<runtime, obs, finished>>
  BY DEF Discard, Finishes
<1>3. /\ new \in Call /\ new.server = "gone"
      /\ new.kind = q.kind /\ new.code = q.code
  BY <1>1 DEF Call
<1> HIDE DEF new, q
<1>4. ~Refusal(new) /\ ~Refusal(q) /\ (Success(runtime, new) <=> Success(runtime, q))
  BY <1>2, <1>3 DEF Refusal, Success, Recorded
<1> QED  BY <1>2, <1>3, <1>4, QuietCounts DEF q, new

LEMMA CountStep == CallerInv /\ CountInv /\ [Next]_vars => CountInv'
<1> SUFFICES ASSUME CallerInv, CountInv, [Next]_vars  PROVE CountInv'
  OBVIOUS
<1>1. CASE Tick
  BY <1>1, TickCounts
<1>2. ASSUME NEW c \in Callers, Send(c)  PROVE CountInv'
  BY <1>2, SendCounts
<1>3. ASSUME NEW id \in Ids,
             \/ TimeOut(id) \/ Fail(id) \/ Lose(id) \/ Close(id)
             \/ Arrive(id) \/ RunEnds(id) \/ Record(id) \/ Respond(id) \/ Discard(id)
      PROVE  CountInv'
  BY <1>3, TimeOutCounts, LoseCounts, CloseCounts, ArriveCounts, RunEndsCounts,
     RecordCounts, RespondCounts, DiscardCounts
<1>4. CASE UNCHANGED vars
  <2>1. Refusals' = Refusals /\ Successes' = Successes
    BY <1>4 DEF vars, Refusals, Successes, Ids, At, Refusal, Success, Limited,
                Recorded
  <2> QED  BY <1>4, <2>1 DEF vars, CountInv, Recent
<1> QED  BY <1>1, <1>2, <1>3, <1>4 DEF Next

\* The counters of observability are those of the calls the server has recorded,
\* with any number of callers and calls under way.
THEOREM CountsAreCalls == Spec => [](CallerInv /\ CountInv)
<1>1. Init => CountInv
  BY InitCounts
<1>2. CallerInv /\ CountInv /\ [Next]_vars => CountInv'
  BY CountStep
<1>3. Init /\ [][Next]_vars /\ []CallerInv => []CountInv
  BY <1>1, <1>2, PTL
<1> QED  BY <1>3, CallersInOrder, PTL DEF Spec

LEMMA PercentileBounded ==
  ASSUME CountInv
  PROVE  GetSnapshot(obs).p95 <= Longest
<1>1. /\ finished \in Seq(Nat) /\ obs.latency = Recent(finished)
      /\ \A i \in DOMAIN finished : finished[i] <= Longest
      /\ Longest \in Nat
  BY ServingAssumption DEF CountInv
<1>2. /\ obs.latency \in Seq(Nat)
      /\ \A i \in DOMAIN obs.latency : obs.latency[i] <= Longest
  <2> DEFINE n == Len(finished)
             m == Len(Recent(finished))
  <2>1. /\ Recent(finished) \in Seq(Nat)
        /\ m = IF n < LatencyWindow THEN n ELSE LatencyWindow
        /\ \A i \in 1..m : Recent(finished)[i] = finished[n - m + i]
    BY <1>1, RecentIs
  <2>2. n \in Nat /\ DOMAIN finished = 1..n /\ DOMAIN Recent(finished) = 1..m
    BY <1>1, <2>1, LenProperties
  <2>3. \A i \in 1..m : n - m + i \in 1..n
    BY <2>1, <2>2, ObservabilityAssumption
  <2> QED  BY <1>1, <2>1, <2>2, <2>3
<1>3. Percentile(obs.latency, 95) <= Longest
  <2>1. CASE obs.latency = <<>>
    BY <1>1, <2>1 DEF Percentile
  <2>2. CASE obs.latency # <<>>
    BY <1>1, <1>2, <2>2, PercentileIsSample
  <2> QED  BY <2>1, <2>2
<1> QED  BY <1>3 DEF GetSnapshot

\* Type correctness: the ring of latencies holds no more than its window.
THEOREM ServingTypeCorrect == Spec => []ServingTypeOK
<1>1. CallerInv /\ CountInv => ServingTypeOK
  <2> SUFFICES ASSUME CallerInv, CountInv  PROVE ServingTypeOK
    OBVIOUS
  <2>1. Len(obs.latency) <= LatencyWindow
    BY RecentIs, ObservabilityAssumption DEF CountInv
  <2> QED  BY <2>1 DEF CallerInv, CountInv, ServingTypeOK
<1> QED  BY <1>1, CountsAreCalls, PTL

\* What /health/observability tells is what happened to the calls, whoever has
\* hung up meanwhile, and no latency in it exceeds the longest run.
THEOREM MetricsTellTheCalls == Spec => []MetricsMatch
<1>1. CallerInv /\ CountInv => MetricsMatch
  <2> SUFFICES ASSUME CallerInv, CountInv  PROVE MetricsMatch
    OBVIOUS
  <2>1. obs.status429 = Number(LAMBDA q : Limited(q) /\ q.server = "done")
    BY DEF CountInv, Refusals, Refusal, Number
  <2>2. CASE runtime = "rust"
    <3>1. Successes = {id \in Ids : /\ Recorded(At(id)) /\ At(id).server # "gone"
                                    /\ At(id).kind # "transcript"}
      BY <2>2 DEF Successes, Success
    <3> QED  BY <2>1, <2>2, <3>1, PercentileBounded
             DEF MetricsMatch, CountInv, Number, Recent
  <2>3. CASE runtime # "rust"
    <3>1. Successes = {id \in Ids : Recorded(At(id))}
      BY <2>3 DEF Successes, Success
    <3> QED  BY <2>1, <2>3, <3>1, PercentileBounded
             DEF MetricsMatch, CountInv, Number, Recent
  <2> QED  BY <2>2, <2>3
<1> QED  BY <1>1, CountsAreCalls, PTL

=============================================================================
