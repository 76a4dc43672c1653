------------------------------- MODULE KeyRow -------------------------------
(***************************************************************************)
(* One row of the api_keys table and the decisions taken on it, as pure    *)
(* operators.  The repository implements the same key store twice:         *)
(* server/db/keys.js (Js...) and rust/src/db.rs (Rs...).  Both are         *)
(* translated here, each from its own source, so that they can be compared *)
(* and so that either can drive the store of KeyStore and KeyStoreTx.      *)
(* Labels, masked hashes and ISO copies of timestamps are left out;        *)
(* revoked_at and expired_at are only ever tested for presence.            *)
(*                                                                         *)
(* An operator named Definition_Fault is Definition with a plausible bug.  *)
(* No module uses it: it stands for Definition when a run is repeated to   *)
(* see that the property aimed at the bug is violated.                     *)
(***************************************************************************)
EXTENDS Integers

CONSTANTS
    None,         \* SQL NULL, or an optional argument that is absent
    Second,       \* clock units in a second (1000 in the code)
    Window,       \* RATE_LIMIT_WINDOW_MS, in clock units
    DefaultRate,  \* DEFAULT_RATE_LIMIT
    MaxRate,      \* MAX_RATE_LIMIT
    MinCooldown,  \* MIN_SEARCH_COOLDOWN_SECONDS
    MaxCooldown   \* MAX_SEARCH_COOLDOWN_SECONDS

ASSUME KeyRowAssumption ==
    /\ None \notin Int
    /\ Second \in Nat \ {0}
    /\ Window \in Nat \ {0}
    /\ MaxRate \in Nat \ {0}
    /\ DefaultRate \in 1..MaxRate
    /\ MinCooldown \in Nat \ {0}
    /\ MaxCooldown \in Nat /\ MinCooldown <= MaxCooldown

Runtimes == {"js", "rust"}

\* The accounting columns: use_count, window_start, window_count and
\* last_search_at.
Use == [ uses: Nat, windowStart: Int \cup {None}, windowCount: Nat,
         lastSearch: Int \cup {None} ]

Row == [ active: BOOLEAN, expired: BOOLEAN, revoked: BOOLEAN,
         rate: 1..MaxRate, cooldown: MinCooldown..MaxCooldown,
         expires: Int \cup {None}, use: Use ]

\* The result of looking up a hash that is not in the table.
NoRow == [absent |-> TRUE]

-----------------------------------------------------------------------------
(* Normalisation of the arguments of createKey.                            *)

JsRate(v) == IF v \in 1..MaxRate THEN v ELSE DefaultRate

JsCooldown(v) == IF v \in MinCooldown..MaxCooldown THEN v ELSE MinCooldown

JsExpires(t, s) == IF s = None THEN None
                   ELSE IF s <= 0 THEN None ELSE t + s * Second

\* i64::clamp.
Clamp(v, lo, hi) == IF v < lo THEN lo ELSE IF v > hi THEN hi ELSE v

\* Fault: the limit is stored as asked for.
RsRate_Unclamped(v) == IF v = None THEN DefaultRate ELSE v

RsRate(v) == Clamp(IF v = None THEN DefaultRate ELSE v, 1, MaxRate)

RsCooldown(v) ==
    Clamp(IF v = None THEN MinCooldown ELSE v, MinCooldown, MaxCooldown)

\* Rust keeps a zero or negative lifetime: such a key is born expired.
RsExpires(t, s) == IF s = None THEN None ELSE t + s * Second

NewRow(rate, cooldown, expires) ==
    [ active |-> TRUE, expired |-> FALSE, revoked |-> FALSE,
      rate |-> rate, cooldown |-> cooldown, expires |-> expires,
      use |-> [ uses |-> 0, windowStart |-> None, windowCount |-> 0,
                lastSearch |-> None ] ]

JsNewRow(t, rate, lifetime, cooldown) ==
    NewRow(JsRate(rate), JsCooldown(cooldown), JsExpires(t, lifetime))

RsNewRow(t, rate, lifetime, cooldown) ==
    NewRow(RsRate(rate), RsCooldown(cooldown), RsExpires(t, lifetime))

CreatedRow(r, t, rate, lifetime, cooldown) ==
    IF r = "js" THEN JsNewRow(t, rate, lifetime, cooldown)
                ELSE RsNewRow(t, rate, lifetime, cooldown)

RevokedRow(row) == [row EXCEPT !.active = FALSE, !.revoked = TRUE]

-----------------------------------------------------------------------------
(* validateKey of server/db/keys.js, run on the row read in the            *)
(* transaction, a search flag and the clock reading t.                     *)

\* `value || null`: NULL and 0 are both absent.
Present(v) == v \notin {None, 0}

\* Fault: an open window is never closed.
JsWindowOver_Never(row, t) == ~Present(row.use.windowStart)

\* Fault: a window is over a moment too early.
JsWindowOver_Inclusive(row, t) ==
    ~Present(row.use.windowStart) \/ t - row.use.windowStart >= Window

JsWindowOver(row, t) ==
    ~Present(row.use.windowStart) \/ t - row.use.windowStart > Window

JsWindow(row, t) ==
    IF JsWindowOver(row, t)
      THEN [start |-> t, count |-> 1]
      ELSE [start |-> row.use.windowStart, count |-> row.use.windowCount + 1]

\* Fault: a second's grace.
JsPastExpiry_Grace(row, t) == Present(row.expires) /\ t - Second > row.expires

JsPastExpiry(row, t) == Present(row.expires) /\ t > row.expires

JsCooling(row, search, t) ==
    /\ search /\ Present(row.use.lastSearch)
    /\ t - row.use.lastSearch < JsCooldown(row.cooldown) * Second

\* Fault: a deactivated key is still looked at.
JsReason_IgnoresActive(row, search, t) ==
    IF row = NoRow THEN "not_found"
    ELSE IF JsPastExpiry(row, t) THEN "expired"
    ELSE IF JsCooling(row, search, t) THEN "cooldown"
    ELSE IF JsWindow(row, t).count > JsRate(row.rate) THEN "rate_limited"
    ELSE "ok"

JsReason(row, search, t) ==
    IF row = NoRow THEN "not_found"
    ELSE IF ~row.active THEN IF row.expired THEN "expired" ELSE "revoked"
    ELSE IF JsPastExpiry(row, t) THEN "expired"
    ELSE IF JsCooling(row, search, t) THEN "cooldown"
    ELSE IF JsWindow(row, t).count > JsRate(row.rate) THEN "rate_limited"
    ELSE "ok"

\* Fault: the fraction of a second is dropped.
CeilDiv_Floor(a, b) == a \div b

\* Math.ceil(a / b) for b > 0.
CeilDiv(a, b) == (a + b - 1) \div b

JsRetryAfter(row, search, t) ==
    LET reason == JsReason(row, search, t) IN
    IF reason = "cooldown"
      THEN CeilDiv(JsCooldown(row.cooldown) * Second - (t - row.use.lastSearch), Second)
    ELSE IF reason = "rate_limited"
      THEN CeilDiv(Window - (t - JsWindow(row, t).start), Second)
    ELSE None

\* The row the transaction leaves behind: the accounting of an admitted call,
\* the deactivation of a key first seen past its expiry, else no change.
JsCharged(row, search, t) ==
    [row EXCEPT !.rate = JsRate(@), !.cooldown = JsCooldown(@),
                !.use = [ uses |-> row.use.uses + 1,
                          windowStart |-> JsWindow(row, t).start,
                          windowCount |-> JsWindow(row, t).count,
                          lastSearch |->
                            IF search THEN t ELSE row.use.lastSearch ]]

JsStored(row, search, t) ==
    IF JsReason(row, search, t) = "ok" THEN JsCharged(row, search, t)
    ELSE IF row # NoRow /\ JsReason(row, search, t) = "expired"
      THEN [row EXCEPT !.active = FALSE, !.expired = TRUE]
    ELSE row

-----------------------------------------------------------------------------
(* validate_key of rust/src/db.rs.                                         *)

\* Fault: a new window counts from the old window's start.
RsWindowStart_Kept(row, t) ==
    IF row.use.windowStart = None THEN t ELSE row.use.windowStart

RsWindowStart(row, t) ==
    LET start == IF row.use.windowStart = None THEN t ELSE row.use.windowStart IN
    IF t - start > Window THEN t ELSE start

\* Fault: a new window inherits the old window's count.
RsWindowCount_Inherited(row, t) == 1 + row.use.windowCount

RsWindowCount(row, t) ==
    1 + IF row.use.windowStart # None /\ t - row.use.windowStart > Window
          THEN 0 ELSE row.use.windowCount

\* Fault: every key cools down for the minimum only.
RsCooling_MinimumOnly(row, search, t) ==
    /\ search /\ row.use.lastSearch # None
    /\ t - row.use.lastSearch < MinCooldown * Second

RsCooling(row, search, t) ==
    /\ search /\ row.use.lastSearch # None
    /\ t - row.use.lastSearch < row.cooldown * Second

\* Fault: the moment of expiry already counts as expired.
RsReason_ExpiresEarly(row, search, t) ==
    IF row = NoRow THEN "not_found"
    ELSE IF ~row.active THEN IF row.expired THEN "expired" ELSE "revoked"
    ELSE IF row.expires # None /\ t >= row.expires THEN "expired"
    ELSE IF RsCooling(row, search, t) THEN "cooldown"
    ELSE IF RsWindowCount(row, t) > Clamp(row.rate, 1, MaxRate)
      THEN "rate_limited"
    ELSE "ok"

RsReason(row, search, t) ==
    IF row = NoRow THEN "not_found"
    ELSE IF ~row.active THEN IF row.expired THEN "expired" ELSE "revoked"
    ELSE IF row.expires # None /\ t > row.expires THEN "expired"
    ELSE IF RsCooling(row, search, t) THEN "cooldown"
    ELSE IF RsWindowCount(row, t) > Clamp(row.rate, 1, MaxRate)
      THEN "rate_limited"
    ELSE "ok"

\* A rate-limited caller is always told a minute, whatever is left of it.
RsRetryAfter(row, search, t) ==
    LET reason == RsReason(row, search, t) IN
    IF reason = "cooldown"
      THEN CeilDiv(row.cooldown * Second - (t - row.use.lastSearch), Second)
    ELSE IF reason = "rate_limited" THEN Window \div Second
    ELSE None

RsCharged(row, search, t) ==
    [row EXCEPT !.use = [ uses |-> row.use.uses + 1,
                          windowStart |-> RsWindowStart(row, t),
                          windowCount |-> RsWindowCount(row, t),
                          lastSearch |->
                            IF search THEN t ELSE row.use.lastSearch ]]

RsStored(row, search, t) ==
    IF RsReason(row, search, t) = "ok" THEN RsCharged(row, search, t)
    ELSE IF row # NoRow /\ RsReason(row, search, t) = "expired"
      THEN [row EXCEPT !.active = FALSE, !.expired = TRUE]
    ELSE row

-----------------------------------------------------------------------------
(* The decision of whichever runtime serves the call.                      *)

Reason(r, row, search, t) ==
    IF r = "js" THEN JsReason(row, search, t) ELSE RsReason(row, search, t)

RetryAfter(r, row, search, t) ==
    IF r = "js" THEN JsRetryAfter(row, search, t)
                ELSE RsRetryAfter(row, search, t)

Stored(r, row, search, t) ==
    IF r = "js" THEN JsStored(row, search, t) ELSE RsStored(row, search, t)

=============================================================================
