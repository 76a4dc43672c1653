--------------------------- MODULE KeyStoreProofs ---------------------------
(***************************************************************************)
(* Theorems about KeyStore, for every value of its constants.  They rest   *)
(* on lemmas about the operators of KeyRow: the types of the rows they     *)
(* make, and that both runtimes decide alike.                              *)
(***************************************************************************)
EXTENDS KeyStore, TLAPS

-----------------------------------------------------------------------------
(* Rows.                                                                   *)

LEMMA NoRowIsNoRow == NoRow \notin Row
BY DEF NoRow, Row

LEMMA Scaled ==
  ASSUME NEW a \in Int, NEW b \in Int
  PROVE a * b \in Int
OBVIOUS

LEMMA Divided ==
  ASSUME NEW a \in Int, NEW b \in Nat \ {0}
  PROVE /\ a \div b \in Int
        /\ a = b * (a \div b) + (a % b)
        /\ a % b \in 0..(b - 1)
OBVIOUS

\* Math.ceil: the advice in seconds covers what is left of the cooldown.
LEMMA RoundedUp ==
  ASSUME NEW a \in Int, NEW b \in Nat \ {0}
  PROVE CeilDiv(a, b) * b \in Int /\ CeilDiv(a, b) * b >= a
BY Divided DEF CeilDiv

LEMMA CreatedRowType ==
  ASSUME NEW r \in Runtimes, NEW t \in Int,
         NEW rate \in Int \cup {None}, NEW lifetime \in Int \cup {None},
         NEW cooldown \in Int \cup {None}
  PROVE CreatedRow(r, t, rate, lifetime, cooldown) \in Row
<1>1. JsRate(rate) \in 1..MaxRate /\ RsRate(rate) \in 1..MaxRate
  BY KeyRowAssumption DEF JsRate, RsRate, Clamp
<1>2. /\ JsCooldown(cooldown) \in MinCooldown..MaxCooldown
      /\ RsCooldown(cooldown) \in MinCooldown..MaxCooldown
  BY KeyRowAssumption DEF JsCooldown, RsCooldown, Clamp
<1>3. /\ JsExpires(t, lifetime) \in Int \cup {None}
      /\ RsExpires(t, lifetime) \in Int \cup {None}
  BY KeyRowAssumption, Scaled DEF JsExpires, RsExpires
<1>4. QED
  BY <1>1, <1>2, <1>3, KeyRowAssumption
  DEF CreatedRow, JsNewRow, RsNewRow, NewRow, Row, Use

LEMMA ChargedType ==
  ASSUME NEW row \in Row, NEW search \in BOOLEAN, NEW t \in Int
  PROVE JsCharged(row, search, t) \in Row /\ RsCharged(row, search, t) \in Row
<1> DEFINE last == IF search THEN t ELSE row.use.lastSearch
<1>1. row.use \in Use
  BY DEF Row
<1>2. last \in Int \cup {None} /\ row.use.uses + 1 \in Nat
  BY <1>1 DEF Use
<1>3. /\ JsWindow(row, t).start \in Int
      /\ JsWindow(row, t).count \in Nat
  BY <1>1, KeyRowAssumption DEF Use, Present, JsWindow, JsWindowOver
<1>4. RsWindowStart(row, t) \in Int /\ RsWindowCount(row, t) \in Nat
  BY <1>1, KeyRowAssumption DEF Use, RsWindowStart, RsWindowCount
<1>5. JsRate(row.rate) = row.rate /\ JsCooldown(row.cooldown) = row.cooldown
  BY DEF Row, JsRate, JsCooldown
<1> HIDE DEF last
<1>6. [ uses |-> row.use.uses + 1, windowStart |-> JsWindow(row, t).start,
        windowCount |-> JsWindow(row, t).count, lastSearch |-> last ] \in Use
  BY <1>2, <1>3 DEF Use
<1>7. [ uses |-> row.use.uses + 1, windowStart |-> RsWindowStart(row, t),
        windowCount |-> RsWindowCount(row, t), lastSearch |-> last ] \in Use
  BY <1>2, <1>4 DEF Use
<1>8. QED
  BY <1>5, <1>6, <1>7 DEF Row, JsCharged, RsCharged, last

LEMMA StoredRow ==
  ASSUME NEW r \in Runtimes, NEW row \in Row,
         NEW search \in BOOLEAN, NEW t \in Int
  PROVE Stored(r, row, search, t) \in Row
<1>1. [row EXCEPT !.active = FALSE, !.expired = TRUE] \in Row
  BY DEF Row
<1>2. QED
  BY <1>1, ChargedType DEF Stored, JsStored, RsStored

LEMMA StoredType ==
  ASSUME NEW r \in Runtimes, NEW row \in Row \cup {NoRow},
         NEW search \in BOOLEAN, NEW t \in Int
  PROVE Stored(r, row, search, t) \in Row \cup {NoRow}
<1>1. CASE row = NoRow
  BY <1>1 DEF Stored, JsStored, RsStored, JsReason, RsReason
<1>2. CASE row \in Row
  BY <1>2, StoredRow
<1>3. QED
  BY <1>1, <1>2

LEMMA RevokedType ==
  ASSUME NEW row \in Row
  PROVE RevokedRow(row) \in Row
BY DEF RevokedRow, Row

-----------------------------------------------------------------------------
(* The two runtimes take the same decisions.  They agree on a row whose    *)
(* window has never been opened only because its count is then zero, and   *)
(* on stored timestamps only because none of them is 0, which Node reads   *)
(* as NULL.                                                                *)

Fresh(row) ==
    /\ row.use.windowStart = None => row.use.windowCount = 0
    /\ row.use.windowStart # 0 /\ row.use.lastSearch # 0 /\ row.expires # 0

LEMMA SameWindow ==
  ASSUME NEW row \in Row, NEW t \in Int, Fresh(row)
  PROVE /\ JsWindow(row, t).start = RsWindowStart(row, t)
        /\ JsWindow(row, t).count = RsWindowCount(row, t)
<1>1. row.use \in Use
  BY DEF Row
<1>2. QED
  BY <1>1, KeyRowAssumption
  DEF Use, Fresh, Present, JsWindow, JsWindowOver, RsWindowStart, RsWindowCount

LEMMA SameDecision ==
  ASSUME NEW row \in Row, NEW search \in BOOLEAN, NEW t \in Int,
         Fresh(row)
  PROVE /\ JsReason(row, search, t) = RsReason(row, search, t)
        /\ JsStored(row, search, t) = RsStored(row, search, t)
<1>1. JsRate(row.rate) = row.rate /\ Clamp(row.rate, 1, MaxRate) = row.rate
  BY KeyRowAssumption DEF Row, JsRate, Clamp
<1>2. JsCooldown(row.cooldown) = row.cooldown
  BY KeyRowAssumption DEF Row, JsCooldown
<1>3. JsReason(row, search, t) = RsReason(row, search, t)
  BY <1>1, <1>2, SameWindow
  DEF Fresh, Present, JsReason, RsReason, JsPastExpiry, JsCooling, RsCooling
<1>4. JsCharged(row, search, t) = RsCharged(row, search, t)
  BY <1>1, <1>2, SameWindow DEF JsCharged, RsCharged, Row
<1>5. QED
  BY <1>3, <1>4 DEF JsStored, RsStored

\* What an admission tells about the row it was decided on.
LEMMA Admitted ==
  ASSUME NEW r \in Runtimes, NEW row \in Row, NEW search \in BOOLEAN,
         NEW t \in Int, Fresh(row), Reason(r, row, search, t) = "ok"
  PROVE /\ Stored(r, row, search, t) = RsCharged(row, search, t)
        /\ row.active
        /\ row.expires # None => t <= row.expires
        /\ ~RsCooling(row, search, t)
        /\ RsWindowCount(row, t) <= row.rate
<1>1. RsReason(row, search, t) = "ok"
  BY SameDecision DEF Reason
<1>2. Clamp(row.rate, 1, MaxRate) = row.rate
  BY KeyRowAssumption DEF Row, Clamp
<1>3. /\ row.active
      /\ ~(row.expires # None /\ t > row.expires)
      /\ ~RsCooling(row, search, t)
      /\ ~(RsWindowCount(row, t) > row.rate)
  BY <1>1, <1>2 DEF RsReason
<1>4. row.expires # None => t <= row.expires
  BY <1>3 DEF Row
<1>5. RsWindowCount(row, t) \in Int /\ row.rate \in Int
  BY KeyRowAssumption DEF RsWindowCount, Row, Use
<1>6. Stored(r, row, search, t) = RsStored(row, search, t)
  BY SameDecision DEF Stored
<1>7. QED
  BY <1>1, <1>3, <1>4, <1>5, <1>6 DEF RsStored

\* A refusal keeps the accounting and never brings a key back.
LEMMA RefusedFields ==
  ASSUME NEW r \in Runtimes, NEW row \in Row, NEW search \in BOOLEAN,
         NEW t \in Int, Reason(r, row, search, t) # "ok"
  PROVE LET new == Stored(r, row, search, t) IN
        /\ new.use = row.use
        /\ new.rate = row.rate /\ new.cooldown = row.cooldown
        /\ new.expires = row.expires
        /\ new.active => row.active
        /\ ~row.active => new.expired = row.expired
BY NoRowIsNoRow DEF Reason, Stored, JsStored, RsStored, JsReason, RsReason, Row

LEMMA ChargedFields ==
  ASSUME NEW row \in Row, NEW search \in BOOLEAN, NEW t \in Int
  PROVE LET new == RsCharged(row, search, t) IN
        /\ new.active = row.active /\ new.expired = row.expired
        /\ new.rate = row.rate /\ new.cooldown = row.cooldown
        /\ new.expires = row.expires
        /\ new.use.uses = row.use.uses + 1
        /\ new.use.windowStart = RsWindowStart(row, t)
        /\ new.use.windowCount = RsWindowCount(row, t)
        /\ new.use.lastSearch = IF search THEN t ELSE row.use.lastSearch
BY DEF RsCharged, Row

-----------------------------------------------------------------------------
(* Type correctness.                                                       *)

LEMMA TypeStep == TypeOK /\ [Next]_vars => TypeOK'
<1> SUFFICES ASSUME TypeOK, [Next]_vars PROVE TypeOK'
  OBVIOUS
<1>1. CASE UNCHANGED vars
  BY <1>1 DEF TypeOK, vars
<1>2. ASSUME NEW k \in Keys, NEW r \in Runtimes, NEW t \in Times,
             NEW rate \in Rates, NEW lifetime \in Lifetimes,
             NEW cooldown \in Cooldowns,
             CreateKey(r, k, t, rate, lifetime, cooldown)
      PROVE TypeOK'
  <2>1. CreatedRow(r, t, rate, lifetime, cooldown) \in Row
    BY CreatedRowType, KeyStoreAssumption
  <2>2. QED
    BY <1>2, <2>1, KeyStoreAssumption DEF CreateKey, TypeOK
<1>3. ASSUME NEW k \in Keys, NEW r \in Runtimes, NEW t \in Times,
             NEW search \in BOOLEAN, ValidateKey(r, k, search, t)
      PROVE TypeOK'
  <2>1. t \in Int
    BY KeyStoreAssumption
  <2>2. Stored(r, rows[k], search, t) \in Row \cup {NoRow}
    BY <2>1, StoredType DEF TypeOK
  <2>3. rows' \in [Keys -> Row \cup {NoRow}]
    BY <1>3, <2>2 DEF ValidateKey, TypeOK
  <2>4. clock' \in [Keys -> Int]
    BY <1>3, <2>1 DEF ValidateKey, TypeOK
  <2>5. admitted' \in [Keys -> Seq(Admission)]
    <3>1. Append(admitted[k], [at |-> t, search |-> search]) \in Seq(Admission)
      BY <2>1 DEF TypeOK, Admission
    <3>2. QED
      BY <1>3, <3>1 DEF ValidateKey, TypeOK
  <2>6. QED
    BY <2>3, <2>4, <2>5 DEF TypeOK
<1>4. ASSUME NEW k \in Keys, RevokeKey(k) PROVE TypeOK'
  BY <1>4, RevokedType DEF RevokeKey, TypeOK
<1>5. QED
  BY <1>1, <1>2, <1>3, <1>4 DEF Next

\* Every reachable row, clock reading and admission has its type: in
\* particular a stored rate and cooldown stay within their documented ranges.
THEOREM TypeCorrect == Spec => []TypeOK
<1>1. Init => TypeOK
  BY DEF Init, TypeOK
<1>2. QED
  BY <1>1, TypeStep, PTL DEF Spec

-----------------------------------------------------------------------------
(* What holds of one key however the clock is set: LatestSearch is what    *)
(* makes SearchSpacing inductive.  A new search is compared with           *)
(* last_search_at alone, which therefore has to bound every earlier one.   *)

LatestSearch(row, adm) ==
    \A i \in DOMAIN adm : adm[i].search =>
      row.use.lastSearch # None /\ adm[i].at <= row.use.lastSearch

Spaced(row, adm) ==
    \A i, j \in DOMAIN adm : (i < j /\ adm[i].search /\ adm[j].search) =>
      adm[j].at - adm[i].at >= row.cooldown * Second

InTime(row, adm) ==
    \A i \in DOMAIN adm : row.expires # None => adm[i].at <= row.expires

ClockFree(row, adm) ==
    IF row = NoRow THEN adm = <<>>
    ELSE Fresh(row) /\ LatestSearch(row, adm)
           /\ Spaced(row, adm) /\ InTime(row, adm)

ClockFreeInv == TypeOK /\ \A k \in Keys : ClockFree(rows[k], admitted[k])

\* The history after one more admission.
LEMMA Appended ==
  ASSUME NEW adm \in Seq(Admission), NEW t \in Int, NEW search \in BOOLEAN
  PROVE LET new == Append(adm, [at |-> t, search |-> search]) IN
        /\ new \in Seq(Admission)
        /\ Len(adm) \in Nat /\ Len(new) = Len(adm) + 1
        /\ DOMAIN adm = 1..Len(adm)
        /\ DOMAIN new = 1..(Len(adm) + 1)
        /\ \A i \in 1..Len(adm) : new[i] = adm[i] /\ adm[i] \in Admission
        /\ new[Len(adm) + 1] = [at |-> t, search |-> search]
<1> DEFINE a == [at |-> t, search |-> search]
<1>1. a \in Admission
  BY DEF Admission
<1> HIDE DEF a
<1>2. /\ Append(adm, a) \in Seq(Admission)
      /\ Len(adm) \in Nat /\ Len(Append(adm, a)) = Len(adm) + 1
      /\ DOMAIN adm = 1..Len(adm)
      /\ DOMAIN Append(adm, a) = 1..(Len(adm) + 1)
      /\ \A i \in 1..Len(adm) :
           Append(adm, a)[i] = adm[i] /\ adm[i] \in Admission
      /\ Append(adm, a)[Len(adm) + 1] = a
  BY <1>1
<1>3. QED
  BY <1>2 DEF a

LEMMA ClockFreeAdmit ==
  ASSUME NEW r \in Runtimes, NEW row \in Row, NEW adm \in Seq(Admission),
         NEW search \in BOOLEAN, NEW t \in Int, t # 0,
         ClockFree(row, adm), Reason(r, row, search, t) = "ok"
  PROVE ClockFree(Stored(r, row, search, t),
                  Append(adm, [at |-> t, search |-> search]))
<1> DEFINE new == RsCharged(row, search, t)
           later == Append(adm, [at |-> t, search |-> search])
           n == Len(adm)
           gap == row.cooldown * Second
<1>1. /\ row # NoRow /\ Fresh(row) /\ LatestSearch(row, adm)
      /\ Spaced(row, adm) /\ InTime(row, adm)
  BY NoRowIsNoRow DEF ClockFree
<1>2. /\ Stored(r, row, search, t) = new
      /\ row.expires # None => t <= row.expires
      /\ ~RsCooling(row, search, t)
  BY <1>1, Admitted
<1>3. gap \in Nat /\ row.use.lastSearch \in Int \cup {None}
  <2>1. row.cooldown \in Nat /\ row.use \in Use
    BY KeyRowAssumption DEF Row
  <2>2. \A a, b \in Nat : a * b \in Nat
    OBVIOUS
  <2>3. QED
    BY <2>1, <2>2, KeyRowAssumption DEF Use
<1>4. /\ new.cooldown = row.cooldown /\ new.expires = row.expires
      /\ new.use.lastSearch = IF search THEN t ELSE row.use.lastSearch
      /\ new.use.windowStart \in Int
  BY ChargedFields, KeyRowAssumption DEF RsWindowStart, Row, Use
<1>5. /\ n \in Nat /\ DOMAIN adm = 1..n /\ DOMAIN later = 1..(n + 1)
      /\ \A i \in 1..n : later[i] = adm[i] /\ adm[i] \in Admission
      /\ later[n + 1] = [at |-> t, search |-> search]
  BY Appended
<1>6. \A i \in 1..n : (search /\ adm[i].search) => t - adm[i].at >= gap
  <2> SUFFICES ASSUME NEW i \in 1..n, search, adm[i].search
               PROVE t - adm[i].at >= gap
    OBVIOUS
  <2>1. row.use.lastSearch # None /\ adm[i].at <= row.use.lastSearch
    BY <1>1, <1>5 DEF LatestSearch
  <2>2. ~(t - row.use.lastSearch < gap)
    BY <1>2, <2>1 DEF RsCooling
  <2>3. adm[i].at \in Int
    BY <1>5 DEF Admission
  <2>4. QED
    BY <1>3, <2>1, <2>2, <2>3
<1> HIDE DEF new, later, n, gap
<1>7. LatestSearch(new, later)
  <2> SUFFICES ASSUME NEW i \in 1..(n + 1), later[i].search
               PROVE new.use.lastSearch # None
                     /\ later[i].at <= new.use.lastSearch
    BY <1>5 DEF LatestSearch
  <2>1. CASE i = n + 1
    BY <1>4, <1>5, <2>1, KeyRowAssumption
  <2>2. CASE i \in 1..n
    <3>1. /\ row.use.lastSearch # None /\ adm[i].at <= row.use.lastSearch
          /\ later[i] = adm[i] /\ adm[i].at \in Int
      BY <1>1, <1>5, <2>2 DEF LatestSearch, Admission
    <3>2. CASE search
      BY <1>3, <1>4, <1>6, <2>2, <3>1, <3>2, KeyRowAssumption
    <3>3. CASE ~search
      BY <1>4, <3>1, <3>3
    <3>4. QED
      BY <3>2, <3>3
  <2>3. QED
    BY <1>5, <2>1, <2>2
<1>8. Spaced(new, later)
  <2> SUFFICES ASSUME NEW i \in 1..(n + 1), NEW j \in 1..(n + 1),
                      i < j, later[i].search, later[j].search
               PROVE later[j].at - later[i].at >= gap
    BY <1>4, <1>5 DEF Spaced, gap
  <2>1. i \in 1..n /\ later[i] = adm[i]
    BY <1>5
  <2>2. CASE j = n + 1
    BY <1>5, <1>6, <2>1, <2>2
  <2>3. CASE j \in 1..n
    BY <1>1, <1>5, <2>1, <2>3 DEF Spaced, gap
  <2>4. QED
    BY <1>5, <2>2, <2>3
<1>9. InTime(new, later)
  <2> SUFFICES ASSUME NEW i \in 1..(n + 1), row.expires # None
               PROVE later[i].at <= row.expires
    BY <1>4, <1>5 DEF InTime
  <2>1. CASE i = n + 1
    BY <1>2, <1>5, <2>1
  <2>2. CASE i \in 1..n
    BY <1>1, <1>5, <2>2 DEF InTime
  <2>3. QED
    BY <1>5, <2>1, <2>2
<1>10. Fresh(new)
  <2>1. new.use.windowStart = t \/ new.use.windowStart = row.use.windowStart
    BY ChargedFields DEF RsWindowStart, new
  <2>2. QED
    BY <1>1, <1>4, <2>1, KeyRowAssumption DEF Fresh
<1>11. QED
  BY <1>1, <1>2, <1>7, <1>8, <1>9, <1>10, ChargedType, NoRowIsNoRow
  DEF ClockFree, new, later

LEMMA ClockFreeRefuse ==
  ASSUME NEW r \in Runtimes, NEW row \in Row \cup {NoRow}, NEW adm,
         NEW search \in BOOLEAN, NEW t \in Int,
         ClockFree(row, adm), Reason(r, row, search, t) # "ok"
  PROVE ClockFree(Stored(r, row, search, t), adm)
<1>1. CASE row = NoRow
  BY <1>1 DEF Stored, JsStored, RsStored, JsReason, RsReason
<1>2. CASE row \in Row
  <2>1. Stored(r, row, search, t) # NoRow
    BY <1>2, StoredRow, NoRowIsNoRow
  <2>2. row # NoRow
    BY <1>2, NoRowIsNoRow
  <2>3. QED
    BY <1>2, <2>1, <2>2, RefusedFields
    DEF ClockFree, Fresh, LatestSearch, Spaced, InTime
<1>3. QED
  BY <1>1, <1>2

LEMMA ClockFreeCreate ==
  ASSUME NEW r \in Runtimes, NEW t \in Times,
         NEW rate \in Int \cup {None}, NEW lifetime \in Lifetimes,
         NEW cooldown \in Int \cup {None}
  PROVE ClockFree(CreatedRow(r, t, rate, lifetime, cooldown), <<>>)
<1>1. JsExpires(t, lifetime) # 0 /\ RsExpires(t, lifetime) # 0
  BY NoEpochExpiry, KeyRowAssumption DEF JsExpires, RsExpires
<1>2. Fresh(CreatedRow(r, t, rate, lifetime, cooldown))
  BY <1>1, KeyRowAssumption
  DEF Fresh, CreatedRow, JsNewRow, RsNewRow, NewRow
<1>3. CreatedRow(r, t, rate, lifetime, cooldown) # NoRow
  BY CreatedRowType, NoRowIsNoRow, KeyStoreAssumption
<1>4. QED
  BY <1>2, <1>3 DEF ClockFree, LatestSearch, Spaced, InTime

LEMMA ClockFreeRevoke ==
  ASSUME NEW row \in Row, NEW adm, ClockFree(row, adm)
  PROVE ClockFree(RevokedRow(row), adm)
<1>1. /\ RevokedRow(row).use = row.use
      /\ RevokedRow(row).cooldown = row.cooldown
      /\ RevokedRow(row).expires = row.expires
  BY DEF RevokedRow, Row
<1>2. QED
  BY <1>1, RevokedType, NoRowIsNoRow
  DEF ClockFree, Fresh, LatestSearch, Spaced, InTime

LEMMA ClockFreeStep == ClockFreeInv /\ [Next]_vars => ClockFreeInv'
<1> SUFFICES ASSUME ClockFreeInv, [Next]_vars PROVE ClockFreeInv'
  OBVIOUS
<1>1. TypeOK /\ TypeOK'
  BY TypeStep DEF ClockFreeInv
<1> SUFFICES ASSUME NEW q \in Keys PROVE ClockFree(rows'[q], admitted'[q])
  BY <1>1 DEF ClockFreeInv
<1>2. ClockFree(rows[q], admitted[q])
  BY DEF ClockFreeInv
<1>3. CASE UNCHANGED vars
  BY <1>2, <1>3 DEF vars
<1>4. ASSUME NEW k \in Keys, NEW r \in Runtimes, NEW t \in Times,
             NEW rate \in Rates, NEW lifetime \in Lifetimes,
             NEW cooldown \in Cooldowns,
             CreateKey(r, k, t, rate, lifetime, cooldown)
      PROVE ClockFree(rows'[q], admitted'[q])
  <2>1. ClockFree(CreatedRow(r, t, rate, lifetime, cooldown), <<>>)
    BY ClockFreeCreate, KeyStoreAssumption
  <2>2. CASE q = k
    BY <1>1, <1>2, <1>4, <2>1, <2>2 DEF CreateKey, TypeOK, ClockFree
  <2>3. CASE q # k
    BY <1>1, <1>2, <1>4, <2>3 DEF CreateKey, TypeOK
  <2>4. QED
    BY <2>2, <2>3
<1>5. ASSUME NEW k \in Keys, NEW r \in Runtimes, NEW t \in Times,
             NEW search \in BOOLEAN, ValidateKey(r, k, search, t)
      PROVE ClockFree(rows'[q], admitted'[q])
  <2>1. t \in Int /\ t # 0 /\ rows[k] \in Row \cup {NoRow}
        /\ admitted[k] \in Seq(Admission)
    BY <1>1, KeyStoreAssumption DEF TypeOK
  <2>2. CASE q # k
    BY <1>1, <1>2, <1>5, <2>2 DEF ValidateKey, TypeOK
  <2>3. CASE q = k /\ Reason(r, rows[k], search, t) = "ok"
    <3>1. rows[k] \in Row
      BY <2>1, <2>3 DEF Reason, JsReason, RsReason
    <3>2. ClockFree(Stored(r, rows[k], search, t),
                    Append(admitted[k], [at |-> t, search |-> search]))
      BY <1>2, <2>1, <2>3, <3>1, ClockFreeAdmit
    <3>3. QED
      BY <1>1, <1>5, <2>3, <3>2 DEF ValidateKey, TypeOK
  <2>4. CASE q = k /\ Reason(r, rows[k], search, t) # "ok"
    <3>1. ClockFree(Stored(r, rows[k], search, t), admitted[k])
      BY <1>2, <2>1, <2>4, ClockFreeRefuse
    <3>2. QED
      BY <1>1, <1>5, <2>4, <3>1 DEF ValidateKey, TypeOK
  <2>5. QED
    BY <2>2, <2>3, <2>4
<1>6. ASSUME NEW k \in Keys, RevokeKey(k)
      PROVE ClockFree(rows'[q], admitted'[q])
  <2>1. rows[k] \in Row
    BY <1>1, <1>6 DEF RevokeKey, TypeOK
  <2>2. CASE q = k
    BY <1>1, <1>2, <1>6, <2>1, <2>2, ClockFreeRevoke DEF RevokeKey, TypeOK
  <2>3. CASE q # k
    BY <1>1, <1>2, <1>6, <2>3 DEF RevokeKey, TypeOK
  <2>4. QED
    BY <2>2, <2>3
<1>7. QED
  BY <1>3, <1>4, <1>5, <1>6 DEF Next

LEMMA ClockFreeHolds == Spec => []ClockFreeInv
<1>1. Init => ClockFreeInv
  BY DEF Init, ClockFreeInv, TypeOK, ClockFree
<1>2. QED
  BY <1>1, ClockFreeStep, PTL DEF Spec

\* Searches on one key stay a cooldown apart whatever the wall clock does:
\* nothing is assumed of StepBack.
THEOREM SearchesSpaced == Spec => []SearchSpacing
<1>1. ClockFreeInv => SearchSpacing
  <2> SUFFICES ASSUME ClockFreeInv, NEW k \in Keys, rows[k] # NoRow
               PROVE /\ rows[k].cooldown >= MinCooldown
                     /\ Spaced(rows[k], admitted[k])
    BY DEF SearchSpacing, Spaced
  <2>1. rows[k] \in Row
    BY DEF ClockFreeInv, TypeOK
  <2>2. QED
    BY <2>1, KeyRowAssumption DEF ClockFreeInv, ClockFree, Row
<1>2. QED
  BY <1>1, ClockFreeHolds, PTL

\* No call is ever admitted after the key's expiry, on any clock.
THEOREM AdmittedInTime == Spec => []NeverPastExpiry
<1>1. ClockFreeInv => NeverPastExpiry
  <2> SUFFICES ASSUME ClockFreeInv, NEW k \in Keys,
                      NEW i \in DOMAIN admitted[k], rows[k].expires # None
               PROVE admitted[k][i].at <= rows[k].expires
    BY DEF NeverPastExpiry
  <2>1. ClockFree(rows[k], admitted[k])
    BY DEF ClockFreeInv
  <2>2. CASE rows[k] = NoRow
    BY <2>1, <2>2 DEF ClockFree
  <2>3. CASE rows[k] # NoRow
    BY <2>1, <2>3 DEF ClockFree, InTime
  <2>4. QED
    BY <2>2, <2>3
<1>2. QED
  BY <1>1, ClockFreeHolds, PTL

\* Node and Rust decide alike, and write alike, on every row that any
\* sequence of their operations can produce.
THEOREM SameOnBothRuntimes == Spec => []RuntimesAgree
<1>1. ClockFreeInv => RuntimesAgree
  <2> SUFFICES ASSUME ClockFreeInv, NEW k \in Keys, NEW search \in BOOLEAN,
                      NEW t \in Times
               PROVE /\ JsReason(rows[k], search, t)
                          = RsReason(rows[k], search, t)
                     /\ JsStored(rows[k], search, t)
                          = RsStored(rows[k], search, t)
    BY DEF RuntimesAgree
  <2>1. CASE rows[k] = NoRow
    BY <2>1 DEF JsReason, RsReason, JsStored, RsStored
  <2>2. CASE rows[k] # NoRow
    <3>1. rows[k] \in Row /\ Fresh(rows[k]) /\ t \in Int
      BY <2>2, KeyStoreAssumption DEF ClockFreeInv, TypeOK, ClockFree
    <3>2. QED
      BY <3>1, SameDecision
  <2>3. QED
    BY <2>1, <2>2
<1>2. QED
  BY <1>1, ClockFreeHolds, PTL

\* A key that has been revoked or has expired admits nothing ever again, and
\* keeps the reason it is refused for.
THEOREM NoWayBack == Spec => RefusalIsFinal
<1>1. TypeOK /\ [Next]_vars =>
        \A k \in Keys : (rows[k] # NoRow /\ ~rows[k].active) =>
          /\ rows'[k] # NoRow /\ ~rows'[k].active
          /\ rows'[k].expired = rows[k].expired
          /\ admitted'[k] = admitted[k]
  <2> SUFFICES ASSUME TypeOK, [Next]_vars, NEW q \in Keys,
                      rows[q] # NoRow, ~rows[q].active
               PROVE /\ rows'[q] # NoRow /\ ~rows'[q].active
                     /\ rows'[q].expired = rows[q].expired
                     /\ admitted'[q] = admitted[q]
    OBVIOUS
  <2>1. rows[q] \in Row
    BY DEF TypeOK
  <2>2. CASE UNCHANGED vars
    BY <2>2 DEF vars
  <2>3. ASSUME NEW k \in Keys, NEW r \in Runtimes, NEW t \in Times,
               NEW rate \in Rates, NEW lifetime \in Lifetimes,
               NEW cooldown \in Cooldowns,
               CreateKey(r, k, t, rate, lifetime, cooldown)
        PROVE rows'[q] = rows[q] /\ admitted'[q] = admitted[q]
    BY <2>3 DEF CreateKey, TypeOK
  <2>4. ASSUME NEW k \in Keys, NEW r \in Runtimes, NEW t \in Times,
               NEW search \in BOOLEAN, ValidateKey(r, k, search, t)
        PROVE /\ rows'[q] # NoRow /\ ~rows'[q].active
              /\ rows'[q].expired = rows[q].expired
              /\ admitted'[q] = admitted[q]
    <3>1. CASE q # k
      BY <2>4, <3>1 DEF ValidateKey, TypeOK
    <3>2. CASE q = k
      <4>1. t \in Int
        BY KeyStoreAssumption
      <4>2. Reason(r, rows[q], search, t) # "ok"
        BY DEF Reason, JsReason, RsReason
      <4>3. LET new == Stored(r, rows[q], search, t) IN
              ~new.active /\ new.expired = rows[q].expired
        BY <2>1, <4>1, <4>2, RefusedFields
      <4>4. Stored(r, rows[q], search, t) # NoRow
        BY <2>1, <4>1, StoredRow, NoRowIsNoRow
      <4>5. rows'[q] = Stored(r, rows[q], search, t)
            /\ admitted'[q] = admitted[q]
        BY <2>4, <3>2, <4>2 DEF ValidateKey, TypeOK
      <4>6. QED
        BY <4>3, <4>4, <4>5
    <3>3. QED
      BY <3>1, <3>2
  <2>5. ASSUME NEW k \in Keys, RevokeKey(k)
        PROVE /\ rows'[q] # NoRow /\ ~rows'[q].active
              /\ rows'[q].expired = rows[q].expired
              /\ admitted'[q] = admitted[q]
    <3>1. RevokedRow(rows[q]) # NoRow /\ ~RevokedRow(rows[q]).active
          /\ RevokedRow(rows[q]).expired = rows[q].expired
      BY <2>1, RevokedType, NoRowIsNoRow DEF RevokedRow, Row
    <3>2. QED
      BY <2>5, <3>1 DEF RevokeKey, TypeOK
  <2>6. QED
    BY <2>2, <2>3, <2>4, <2>5 DEF Next
<1>2. QED
  BY <1>1, TypeCorrect, PTL DEF Spec, RefusalIsFinal

-----------------------------------------------------------------------------
(* What the fixed window guarantees when the clock is never set back.      *)
(* Older is the key: an admission that is a whole limit older than the     *)
(* current window was made in a window that ended before this one began,   *)
(* so that whoever admits one more call knows how far back it lies.        *)

Counted(row, adm, clk) ==
    /\ row.use.uses = Len(adm)
    /\ row.use.windowCount <= row.rate
    /\ row.use.windowStart = None => Len(adm) = 0
    /\ row.use.windowStart # None => row.use.windowStart <= clk
    /\ row.use.lastSearch # None => row.use.lastSearch <= clk
    /\ \A i \in DOMAIN adm :
         /\ adm[i].at <= row.use.windowStart + Window
         /\ i > Len(adm) - row.use.windowCount
              <=> adm[i].at >= row.use.windowStart

Older(row, adm) ==
    \A i \in DOMAIN adm :
      i <= Len(adm) - row.use.windowCount - row.rate =>
        adm[i].at + Window < row.use.windowStart

Spread(row, adm) ==
    \A i, j \in DOMAIN adm :
      j - i >= 2 * row.rate => adm[j].at - adm[i].at > Window

Windowed(row, adm, clk) ==
    row # NoRow => Counted(row, adm, clk) /\ Older(row, adm) /\ Spread(row, adm)

WindowInv ==
    ClockFreeInv /\ \A k \in Keys : Windowed(rows[k], admitted[k], clock[k])

LEMMA WindowedAdmit ==
  ASSUME NEW r \in Runtimes, NEW row \in Row, NEW adm \in Seq(Admission),
         NEW search \in BOOLEAN, NEW clk \in Int, NEW t \in Int, t >= clk,
         ClockFree(row, adm), Windowed(row, adm, clk),
         Reason(r, row, search, t) = "ok"
  PROVE Windowed(Stored(r, row, search, t),
                 Append(adm, [at |-> t, search |-> search]), t)
<1> DEFINE new == RsCharged(row, search, t)
           later == Append(adm, [at |-> t, search |-> search])
           n == Len(adm)
           wc == row.use.windowCount
           ws == row.use.windowStart
<1>1. /\ row # NoRow /\ Fresh(row) /\ Counted(row, adm, clk)
      /\ Older(row, adm) /\ Spread(row, adm)
  BY NoRowIsNoRow DEF ClockFree, Windowed
<1>2. Stored(r, row, search, t) = new /\ RsWindowCount(row, t) <= row.rate
  BY <1>1, Admitted
<1>3. /\ n \in Nat /\ DOMAIN adm = 1..n /\ DOMAIN later = 1..(n + 1)
      /\ Len(later) = n + 1
      /\ \A i \in 1..n : later[i] = adm[i] /\ adm[i].at \in Int
      /\ later[n + 1].at = t
  <2>1. \A a \in Admission : a.at \in Int
    BY DEF Admission
  <2>2. QED
    BY <2>1, Appended
<1>4. /\ new.rate = row.rate /\ new.use.uses = row.use.uses + 1
      /\ new.use.windowStart = RsWindowStart(row, t)
      /\ new.use.windowCount = RsWindowCount(row, t)
  BY ChargedFields
<1>5. /\ wc \in Nat /\ ws \in Int \cup {None} /\ row.rate \in Nat
      /\ row.rate >= 1 /\ row.use.uses = n /\ Window \in Nat /\ None \notin Int
  BY <1>1, KeyRowAssumption DEF Row, Use, Counted
<1> HIDE DEF new, later, n, wc, ws
<1>6. /\ \A i \in 1..n : /\ later[i].at <= ws + Window
                         /\ i > n - wc <=> later[i].at >= ws
      /\ \A i \in 1..n : i <= n - wc - row.rate => later[i].at + Window < ws
      /\ \A i, j \in 1..n :
           j - i >= 2 * row.rate => later[j].at - later[i].at > Window
      /\ wc <= row.rate
      /\ ws = None => n = 0 /\ wc = 0
      /\ ws # None => ws <= t
  <2>1. \A i \in 1..n : /\ later[i].at <= ws + Window
                        /\ i > n - wc <=> later[i].at >= ws
    BY <1>1, <1>3 DEF Counted, n, wc, ws
  <2>2. \A i \in 1..n : i <= n - wc - row.rate => later[i].at + Window < ws
    BY <1>1, <1>3 DEF Older, n, wc, ws
  <2>3. \A i, j \in 1..n :
          j - i >= 2 * row.rate => later[j].at - later[i].at > Window
    BY <1>1, <1>3 DEF Spread
  <2>4. wc <= row.rate /\ (ws = None => n = 0 /\ wc = 0)
    BY <1>1 DEF Counted, Fresh, n, wc, ws
  <2>5. ws # None => ws <= t
    BY <1>1, <1>5 DEF Counted, ws
  <2>6. QED
    BY <2>1, <2>2, <2>3, <2>4, <2>5
<1>7. new.use.lastSearch # None => new.use.lastSearch <= t
  <2>1. row.use.lastSearch # None => row.use.lastSearch \in Int /\ row.use.lastSearch <= clk
    BY <1>1 DEF Counted, Row, Use
  <2>2. new.use.lastSearch = IF search THEN t ELSE row.use.lastSearch
    BY ChargedFields DEF new
  <2>3. QED
    BY <2>1, <2>2
<1>8. CASE ws = None
  <2>1. /\ new.use.windowStart = t /\ new.use.windowCount = 1
        /\ n = 0
    BY <1>4, <1>5, <1>6, <1>8 DEF RsWindowStart, RsWindowCount, wc, ws
  <2>2. \A i \in DOMAIN later : i = 1 /\ later[i].at = t
    BY <1>3, <2>1
  <2>3. Counted(new, later, t) /\ Older(new, later) /\ Spread(new, later)
    BY <1>3, <1>4, <1>5, <1>7, <2>1, <2>2 DEF Counted, Older, Spread
  <2>4. QED
    BY <1>2, <2>3 DEF Windowed, later
<1>9. CASE ws # None /\ t - ws <= Window
  <2>1. /\ new.use.windowStart = ws /\ new.use.windowCount = wc + 1
        /\ wc + 1 <= row.rate
    BY <1>2, <1>4, <1>5, <1>9 DEF RsWindowStart, RsWindowCount, wc, ws
  <2>2. Counted(new, later, t)
    <3> SUFFICES ASSUME NEW i \in 1..(n + 1)
                 PROVE /\ later[i].at <= ws + Window
                       /\ i > n - wc <=> later[i].at >= ws
      BY <1>3, <1>4, <1>5, <1>6, <1>7, <1>9, <2>1 DEF Counted
    <3>1. CASE i = n + 1
      BY <1>3, <1>5, <1>6, <1>9, <3>1
    <3>2. CASE i \in 1..n
      BY <1>6, <3>2
    <3>3. QED
      BY <1>3, <3>1, <3>2
  <2>3. Older(new, later)
    <3> SUFFICES ASSUME NEW i \in 1..(n + 1), i <= n - wc - row.rate
                 PROVE later[i].at + Window < ws
      BY <1>3, <1>4, <1>5, <2>1 DEF Older
    <3>1. i \in 1..n
      BY <1>3, <1>5
    <3>2. QED
      BY <1>6, <3>1
  <2>4. Spread(new, later)
    <3> SUFFICES ASSUME NEW i \in 1..(n + 1), NEW j \in 1..(n + 1),
                        j - i >= 2 * row.rate
                 PROVE later[j].at - later[i].at > Window
      BY <1>3, <1>4 DEF Spread
    <3>1. i \in 1..n
      BY <1>3, <1>5
    <3>2. CASE j \in 1..n
      BY <1>6, <3>1, <3>2
    <3>3. CASE j = n + 1
      <4>1. i <= n - wc - row.rate
        BY <1>3, <1>5, <2>1, <3>1, <3>3
      <4>2. later[i].at + Window < ws /\ later[i].at \in Int
        BY <1>3, <1>6, <3>1, <4>1
      <4>3. QED
        BY <1>3, <1>5, <1>6, <1>9, <3>3, <4>2
    <3>4. QED
      BY <1>3, <3>2, <3>3
  <2>5. QED
    BY <1>2, <2>2, <2>3, <2>4 DEF Windowed, later
<1>10. CASE ws # None /\ t - ws > Window
  <2>1. new.use.windowStart = t /\ new.use.windowCount = 1
    BY <1>4, <1>5, <1>10 DEF RsWindowStart, RsWindowCount, wc, ws
  <2>2. \A i \in 1..n : /\ later[i].at \in Int /\ later[i].at < t
                        /\ i <= n - row.rate => later[i].at + Window < t
    <3> SUFFICES ASSUME NEW i \in 1..n
                 PROVE /\ later[i].at \in Int /\ later[i].at < t
                       /\ i <= n - row.rate => later[i].at + Window < t
      OBVIOUS
    <3>1. later[i].at \in Int
      BY <1>3
    <3>2. later[i].at <= ws + Window /\ (i > n - wc <=> later[i].at >= ws)
      BY <1>6
    <3>3. QED
      BY <1>3, <1>5, <1>6, <1>10, <3>1, <3>2
  <2>3. Counted(new, later, t)
    <3> SUFFICES ASSUME NEW i \in 1..(n + 1)
                 PROVE later[i].at <= t + Window /\ (i > n <=> later[i].at >= t)
      BY <1>3, <1>4, <1>5, <1>7, <2>1 DEF Counted
    <3>1. CASE i = n + 1
      BY <1>3, <1>5, <3>1
    <3>2. CASE i \in 1..n
      BY <1>3, <1>5, <2>2, <3>2
    <3>3. QED
      BY <1>3, <3>1, <3>2
  <2>4. Older(new, later)
    <3> SUFFICES ASSUME NEW i \in 1..(n + 1), i <= n - row.rate
                 PROVE later[i].at + Window < t
      BY <1>3, <1>4, <1>5, <2>1 DEF Older
    <3>1. i \in 1..n
      BY <1>3, <1>5
    <3>2. QED
      BY <2>2, <3>1
  <2>5. Spread(new, later)
    <3> SUFFICES ASSUME NEW i \in 1..(n + 1), NEW j \in 1..(n + 1),
                        j - i >= 2 * row.rate
                 PROVE later[j].at - later[i].at > Window
      BY <1>3, <1>4 DEF Spread
    <3>1. i \in 1..n
      BY <1>3, <1>5
    <3>2. CASE j \in 1..n
      BY <1>6, <3>1, <3>2
    <3>3. CASE j = n + 1
      <4>1. i <= n - row.rate
        BY <1>3, <1>5, <3>1, <3>3
      <4>2. QED
        BY <1>3, <1>5, <2>2, <3>1, <3>3, <4>1
    <3>4. QED
      BY <1>3, <3>2, <3>3
  <2>6. QED
    BY <1>2, <2>3, <2>4, <2>5 DEF Windowed, later
<1>11. QED
  BY <1>5, <1>8, <1>9, <1>10

LEMMA WindowedRefuse ==
  ASSUME NEW r \in Runtimes, NEW row \in Row \cup {NoRow}, NEW adm,
         NEW search \in BOOLEAN, NEW clk \in Int, NEW later \in Int,
         later >= clk, NEW t \in Int,
         Windowed(row, adm, clk), Reason(r, row, search, t) # "ok"
  PROVE Windowed(Stored(r, row, search, t), adm, later)
<1>1. CASE row = NoRow
  BY <1>1 DEF Windowed, Stored, JsStored, RsStored, JsReason, RsReason
<1>2. CASE row \in Row
  <2>1. /\ Stored(r, row, search, t).use = row.use
        /\ Stored(r, row, search, t).rate = row.rate
    BY <1>2, RefusedFields
  <2>2. /\ row # NoRow /\ row.use.windowStart \in Int \cup {None}
        /\ row.use.lastSearch \in Int \cup {None}
    BY <1>2, NoRowIsNoRow DEF Row, Use
  <2>3. Counted(row, adm, later)
    BY <2>2, KeyRowAssumption DEF Windowed, Counted
  <2>4. QED
    BY <2>1, <2>2, <2>3 DEF Windowed, Counted, Older, Spread
<1>3. QED
  BY <1>1, <1>2

LEMMA WindowedCreate ==
  ASSUME NEW r \in Runtimes, NEW t \in Int,
         NEW rate \in Int \cup {None}, NEW lifetime \in Int \cup {None},
         NEW cooldown \in Int \cup {None}
  PROVE Windowed(CreatedRow(r, t, rate, lifetime, cooldown), <<>>, t)
<1> DEFINE row == CreatedRow(r, t, rate, lifetime, cooldown)
<1>1. /\ row.use.uses = 0 /\ row.use.windowStart = None
      /\ row.use.windowCount = 0 /\ row.use.lastSearch = None
  BY DEF CreatedRow, JsNewRow, RsNewRow, NewRow
<1>2. row.rate \in Nat /\ row.rate >= 1
  <2>1. row \in Row
    BY CreatedRowType
  <2> HIDE DEF row
  <2>2. QED
    BY <2>1, KeyRowAssumption DEF Row
<1> HIDE DEF row
<1>3. Counted(row, <<>>, t) /\ Older(row, <<>>) /\ Spread(row, <<>>)
  BY <1>1, <1>2 DEF Counted, Older, Spread
<1>4. QED
  BY <1>3 DEF Windowed, row

LEMMA WindowedRevoke ==
  ASSUME NEW row \in Row, NEW adm, NEW clk, Windowed(row, adm, clk)
  PROVE Windowed(RevokedRow(row), adm, clk)
<1>1. RevokedRow(row).use = row.use /\ RevokedRow(row).rate = row.rate
  BY DEF RevokedRow, Row
<1>2. QED
  BY <1>1, NoRowIsNoRow DEF Windowed, Counted, Older, Spread

LEMMA WindowStep ==
  ASSUME StepBack = 0
  PROVE WindowInv /\ [Next]_vars => WindowInv'
<1> SUFFICES ASSUME WindowInv, [Next]_vars PROVE WindowInv'
  OBVIOUS
<1>1. TypeOK /\ TypeOK' /\ ClockFreeInv'
  BY ClockFreeStep DEF WindowInv, ClockFreeInv
<1> SUFFICES ASSUME NEW q \in Keys
             PROVE Windowed(rows'[q], admitted'[q], clock'[q])
  BY <1>1 DEF WindowInv
<1>2. Windowed(rows[q], admitted[q], clock[q]) /\ ClockFree(rows[q], admitted[q])
  BY DEF WindowInv, ClockFreeInv
<1>3. CASE UNCHANGED vars
  BY <1>2, <1>3 DEF vars
<1>4. ASSUME NEW k \in Keys, NEW r \in Runtimes, NEW t \in Times,
             NEW rate \in Rates, NEW lifetime \in Lifetimes,
             NEW cooldown \in Cooldowns,
             CreateKey(r, k, t, rate, lifetime, cooldown)
      PROVE Windowed(rows'[q], admitted'[q], clock'[q])
  <2>1. Windowed(CreatedRow(r, t, rate, lifetime, cooldown), <<>>, t)
    BY WindowedCreate, KeyStoreAssumption
  <2>2. CASE q = k
    BY <1>1, <1>2, <1>4, <2>1, <2>2 DEF CreateKey, TypeOK, ClockFree
  <2>3. CASE q # k
    BY <1>1, <1>2, <1>4, <2>3 DEF CreateKey, TypeOK
  <2>4. QED
    BY <2>2, <2>3
<1>5. ASSUME NEW k \in Keys, NEW r \in Runtimes, NEW t \in Times,
             NEW search \in BOOLEAN, ValidateKey(r, k, search, t)
      PROVE Windowed(rows'[q], admitted'[q], clock'[q])
  <2>1. /\ t \in Int /\ rows[k] \in Row \cup {NoRow}
        /\ admitted[k] \in Seq(Admission) /\ clock[k] \in Int
    BY <1>1, KeyStoreAssumption DEF TypeOK
  <2>2. t >= clock[k]
    BY <1>5, <2>1 DEF ValidateKey, Reading
  <2>3. CASE q # k
    BY <1>1, <1>2, <1>5, <2>3 DEF ValidateKey, TypeOK
  <2>4. CASE q = k /\ Reason(r, rows[k], search, t) = "ok"
    <3>1. rows[k] \in Row
      BY <2>1, <2>4 DEF Reason, JsReason, RsReason
    <3>2. Fresh(rows[k])
      BY <1>2, <2>4, <3>1, NoRowIsNoRow DEF ClockFree
    <3>3. Windowed(Stored(r, rows[k], search, t),
                   Append(admitted[k], [at |-> t, search |-> search]), t)
      BY <1>2, <2>1, <2>2, <2>4, <3>1, WindowedAdmit
    <3>4. Stored(r, rows[k], search, t).use.uses = rows[k].use.uses + 1
      BY <2>1, <2>4, <3>1, <3>2, Admitted, ChargedFields
    <3>5. rows[k].use.uses \in Nat
      BY <3>1 DEF Row, Use
    <3>6. Stored(r, rows[k], search, t) # rows[k]
      BY <3>4, <3>5
    <3>7. QED
      BY <1>1, <1>5, <2>4, <3>3, <3>6 DEF ValidateKey, TypeOK
  <2>5. CASE q = k /\ Reason(r, rows[k], search, t) # "ok"
    <3>1. clock'[k] \in Int /\ clock'[k] >= clock[k]
      BY <1>1, <1>5, <2>1, <2>2 DEF ValidateKey, TypeOK
    <3>2. Windowed(Stored(r, rows[k], search, t), admitted[k], clock'[k])
      BY <1>2, <2>1, <2>5, <3>1, WindowedRefuse
    <3>3. QED
      BY <1>1, <1>5, <2>5, <3>2 DEF ValidateKey, TypeOK
  <2>6. QED
    BY <2>3, <2>4, <2>5
<1>6. ASSUME NEW k \in Keys, RevokeKey(k)
      PROVE Windowed(rows'[q], admitted'[q], clock'[q])
  <2>1. rows[k] \in Row
    BY <1>1, <1>6 DEF RevokeKey, TypeOK
  <2>2. CASE q = k
    BY <1>1, <1>2, <1>6, <2>1, <2>2, WindowedRevoke DEF RevokeKey, TypeOK
  <2>3. CASE q # k
    BY <1>1, <1>2, <1>6, <2>3 DEF RevokeKey, TypeOK
  <2>4. QED
    BY <2>2, <2>3
<1>7. QED
  BY <1>3, <1>4, <1>5, <1>6 DEF Next

LEMMA WindowHolds ==
  ASSUME StepBack = 0
  PROVE Spec => []WindowInv
<1>1. Init => WindowInv
  BY DEF Init, WindowInv, ClockFreeInv, TypeOK, ClockFree, Windowed
<1>2. QED
  BY <1>1, WindowStep, PTL DEF Spec

\* On a clock that is never set back no span of the window's length holds
\* more than twice the limit, for every limit and every window.
THEOREM AtMostTwiceTheRate ==
  ASSUME StepBack = 0
  PROVE Spec => []TwiceRatePerSpan
<1>1. WindowInv => TwiceRatePerSpan
  <2> SUFFICES ASSUME WindowInv, NEW k \in Keys,
                      NEW i \in DOMAIN admitted[k], NEW j \in DOMAIN admitted[k],
                      j - i >= 2 * rows[k].rate
               PROVE admitted[k][j].at - admitted[k][i].at > Window
    BY DEF TwiceRatePerSpan
  <2>1. ClockFree(rows[k], admitted[k])
        /\ Windowed(rows[k], admitted[k], clock[k])
    BY DEF WindowInv, ClockFreeInv
  <2>2. CASE rows[k] = NoRow
    BY <2>1, <2>2 DEF ClockFree
  <2>3. CASE rows[k] # NoRow
    BY <2>1, <2>3 DEF Windowed, Spread
  <2>4. QED
    BY <2>2, <2>3
<1>2. QED
  BY <1>1, WindowHolds, PTL

\* On such a clock the stored counters are the history of the key.
THEOREM CountersAreExact ==
  ASSUME StepBack = 0
  PROVE Spec => []CountersExact
<1>1. WindowInv => CountersExact
  <2> SUFFICES ASSUME WindowInv, NEW k \in Keys, rows[k] # NoRow
               PROVE /\ rows[k].use.uses = Len(admitted[k])
                     /\ rows[k].use.windowCount <= rows[k].rate
                     /\ \A i \in DOMAIN admitted[k] :
                          i > rows[k].use.uses - rows[k].use.windowCount
                            <=> admitted[k][i].at >= rows[k].use.windowStart
    BY DEF CountersExact
  <2>1. Counted(rows[k], admitted[k], clock[k])
    BY DEF WindowInv, Windowed
  <2>2. QED
    BY <2>1 DEF Counted
<1>2. QED
  BY <1>1, WindowHolds, PTL

\* A caller that has kept quiet for a window and a cooldown is let in again: no
\* sequence of calls, refusals or windows locks an active key out.
THEOREM NobodyLockedOut ==
  ASSUME StepBack = 0
  PROVE Spec => []QuietCallerAdmitted
<1>1. WindowInv => QuietCallerAdmitted
  <2> SUFFICES ASSUME WindowInv, NEW k \in Keys, NEW r \in Runtimes,
                      rows[k] # NoRow, rows[k].active, NEW t \in Times,
                      t - clock[k] > Window,
                      t - clock[k] >= rows[k].cooldown * Second,
                      rows[k].expires = None \/ t <= rows[k].expires
               PROVE Reason(r, rows[k], TRUE, t) = "ok"
    BY DEF QuietCallerAdmitted
  <2> DEFINE row == rows[k]
  <2>1. row \in Row /\ clock[k] \in Int /\ t \in Int
    BY KeyStoreAssumption DEF WindowInv, ClockFreeInv, TypeOK
  <2>2. Fresh(row) /\ Counted(row, admitted[k], clock[k])
    BY DEF WindowInv, ClockFreeInv, ClockFree, Windowed
  <2>3. /\ row.use.windowStart \in Int \cup {None} /\ row.use.windowCount \in Nat
        /\ row.use.lastSearch \in Int \cup {None} /\ row.rate \in 1..MaxRate
        /\ row.expires \in Int \cup {None} /\ row.cooldown * Second \in Int
    BY <2>1, Scaled, KeyRowAssumption DEF Row, Use
  <2>4. ~RsCooling(row, TRUE, t)
    <3>1. row.use.lastSearch # None => row.use.lastSearch <= clock[k]
      BY <2>2 DEF Counted
    <3>2. QED
      BY <2>1, <2>3, <3>1 DEF RsCooling
  <2>5. RsWindowCount(row, t) = 1
    <3>1. /\ row.use.windowStart = None => row.use.windowCount = 0
          /\ row.use.windowStart # None => row.use.windowStart <= clock[k]
      BY <2>2 DEF Counted, Fresh
    <3>2. QED
      BY <2>1, <2>3, <3>1, KeyRowAssumption DEF RsWindowCount
  <2>6. ~(1 > Clamp(row.rate, 1, MaxRate))
    BY <2>3, KeyRowAssumption DEF Clamp
  <2>7. ~(row.expires # None /\ t > row.expires)
    BY <2>1, <2>3
  <2>8. RsReason(row, TRUE, t) = "ok"
    BY <2>4, <2>5, <2>6, <2>7 DEF RsReason
  <2>9. QED
    BY <2>1, <2>2, <2>8, SameDecision DEF Reason
<1>2. QED
  BY <1>1, WindowHolds, PTL

\* The advice of a refusal for the cooldown is enough on every row that is
\* reachable, whichever runtime gives it and whichever is asked next.
THEOREM AdviceIsEnough == Spec => []CooldownAdviceHolds
<1>1. ClockFreeInv => CooldownAdviceHolds
  <2> SUFFICES ASSUME ClockFreeInv, NEW k \in Keys, NEW r \in Runtimes,
                      NEW t \in Times, Reason(r, rows[k], TRUE, t) = "cooldown"
               PROVE Reason(r, rows[k], TRUE,
                       t + RetryAfter(r, rows[k], TRUE, t) * Second) # "cooldown"
    BY DEF CooldownAdviceHolds
  <2> DEFINE row == rows[k]
             left == row.cooldown * Second - (t - row.use.lastSearch)
             back == t + CeilDiv(left, Second) * Second
  <2>1. row \in Row /\ Fresh(row) /\ t \in Int
    <3>1. row # NoRow
      BY DEF Reason, JsReason, RsReason
    <3>2. QED
      BY <3>1, KeyStoreAssumption DEF ClockFreeInv, TypeOK, ClockFree
  <2>2. RsReason(row, TRUE, t) = "cooldown"
    BY <2>1, SameDecision DEF Reason
  <2>3. RsCooling(row, TRUE, t)
    BY <2>2 DEF RsReason
  <2>4. JsCooldown(row.cooldown) = row.cooldown
    BY <2>1 DEF Row, JsCooldown
  <2>5. RetryAfter(r, row, TRUE, t) = CeilDiv(left, Second)
    BY <2>2, <2>4 DEF Reason, RetryAfter, JsRetryAfter, RsRetryAfter
  <2>6. row.use.lastSearch \in Int /\ row.cooldown * Second \in Int
    <3>1. row.use.lastSearch \in Int \cup {None} /\ row.cooldown \in Int
      BY <2>1, KeyRowAssumption DEF Row, Use
    <3>2. QED
      BY <2>3, <3>1, Scaled, KeyRowAssumption DEF RsCooling
  <2>7. left \in Int
    BY <2>1, <2>6
  <2>8. CeilDiv(left, Second) * Second \in Int /\ CeilDiv(left, Second) * Second >= left
    BY <2>7, RoundedUp, KeyRowAssumption
  <2>9. back \in Int /\ back - row.use.lastSearch >= row.cooldown * Second
    BY <2>1, <2>6, <2>8
  <2>10. ~RsCooling(row, TRUE, back)
    BY <2>6, <2>9 DEF RsCooling
  <2> HIDE DEF back
  <2>11. RsReason(row, TRUE, back) # "cooldown"
    BY <2>10 DEF RsReason
  <2>12. Reason(r, row, TRUE, back) # "cooldown"
    BY <2>1, <2>9, <2>11, SameDecision DEF Reason
  <2>13. QED
    BY <2>5, <2>12 DEF back
<1>2. QED
  BY <1>1, ClockFreeHolds, PTL
=============================================================================
