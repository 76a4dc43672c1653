------------------------------ MODULE KeyStore ------------------------------
(***************************************************************************)
(* The key store as its callers see it: every operation is one step on the *)
(* api_keys table.  KeyStoreTx shows that the SQLite transactions of both  *)
(* runtimes implement this module.                                         *)
(*                                                                         *)
(* Time passes between operations and is observed only when an operation   *)
(* reads the wall clock (Date.now, Utc::now): clock[k] is the reading used *)
(* by the last operation that wrote row k, and the next reading is not     *)
(* earlier than that less StepBack, the amount by which the host's clock   *)
(* may be set back (0 for a clock that never goes back).                   *)
(***************************************************************************)
EXTENDS KeyRow, Sequences

CONSTANTS
    Keys,        \* the keys that may be created
    Times,       \* the clock readings
    StepBack,    \* how far the wall clock may be set back
    Rates,       \* the rate limits,
    Lifetimes,   \* lifetimes in seconds
    Cooldowns    \* and search cooldowns an operator may ask for

ASSUME KeyStoreAssumption ==
    /\ Times \subseteq Nat \ {0}
    /\ StepBack \in Nat
    /\ Rates \subseteq Int \cup {None}
    /\ Lifetimes \subseteq Int \cup {None}
    /\ Cooldowns \subseteq Int \cup {None}

\* Node takes a stored 0 for NULL: no key is given the epoch as its expiry.
ASSUME NoEpochExpiry ==
    \A t \in Times, s \in Lifetimes : s # None => t + s * Second # 0

VARIABLES
    rows,     \* the table: a row for each created key, NoRow for the others
    clock,    \* clock[k]: the clock reading of the last write of row k
    admitted  \* admitted[k]: every call admitted on k, oldest first (history)

vars == <<rows, clock, admitted>>

Admission == [at: Int, search: BOOLEAN]

TypeOK ==
    /\ rows \in [Keys -> Row \cup {NoRow}]
    /\ clock \in [Keys -> Int]
    /\ admitted \in [Keys -> Seq(Admission)]

Init ==
    /\ rows = [k \in Keys |-> NoRow]
    /\ clock = [k \in Keys |-> 0]
    /\ admitted = [k \in Keys |-> <<>>]

\* POST /api/keys: a fresh secret, so a hash that is not in the table yet.
CreateKey(r, k, t, rate, lifetime, cooldown) ==
    /\ rows[k] = NoRow
    /\ rows' = [rows EXCEPT ![k] = CreatedRow(r, t, rate, lifetime, cooldown)]
    /\ clock' = [clock EXCEPT ![k] = t]
    /\ UNCHANGED admitted

Reading(k, t) == t >= clock[k] - StepBack

\* The validation transaction of one engine or transcript request.
ValidateKey(r, k, search, t) ==
    /\ Reading(k, t)
    /\ rows' = [rows EXCEPT ![k] = Stored(r, @, search, t)]
    /\ clock' = [clock EXCEPT ![k] = IF rows'[k] # rows[k] THEN t ELSE @]
    /\ admitted' =
         IF Reason(r, rows[k], search, t) = "ok"
           THEN [admitted EXCEPT ![k] = Append(@, [at |-> t, search |-> search])]
           ELSE admitted

\* DELETE /api/keys/:key on a key that exists, whatever state it is in.
RevokeKey(k) ==
    /\ rows[k] # NoRow
    /\ rows' = [rows EXCEPT ![k] = RevokedRow(@)]
    /\ UNCHANGED <<clock, admitted>>

Next ==
    \E k \in Keys :
      \/ \E r \in Runtimes, t \in Times, rate \in Rates,
            lifetime \in Lifetimes, cooldown \in Cooldowns :
           CreateKey(r, k, t, rate, lifetime, cooldown)
      \/ \E r \in Runtimes, t \in Times, search \in BOOLEAN :
           ValidateKey(r, k, search, t)
      \/ RevokeKey(k)

Spec == Init /\ [][Next]_vars

-----------------------------------------------------------------------------
(* Safety.                                                                 *)

\* Two searches admitted on one key are at least the key's cooldown apart,
\* and that cooldown is never below the documented minimum of six seconds,
\* even when the wall clock is set back between them: the stamp a search
\* leaves in last_search_at is compared with, never overwritten early.
SearchSpacing ==
    \A k \in Keys : rows[k] # NoRow =>
      /\ rows[k].cooldown >= MinCooldown
      /\ \A i, j \in DOMAIN admitted[k] :
           (i < j /\ admitted[k][i].search /\ admitted[k][j].search) =>
             admitted[k][j].at - admitted[k][i].at >= rows[k].cooldown * Second

\* What the fixed window really guarantees: no span of Window holds more than
\* twice the key's rate limit, because such a span meets at most two windows.
TwiceRatePerSpan ==
    \A k \in Keys : \A i, j \in DOMAIN admitted[k] :
      j - i >= 2 * rows[k].rate => admitted[k][j].at - admitted[k][i].at > Window

\* The stored counters are exact: use_count counts every admitted call, and
\* window_count those of the current window, which never exceed the limit.
CountersExact ==
    \A k \in Keys : rows[k] # NoRow =>
      /\ rows[k].use.uses = Len(admitted[k])
      /\ rows[k].use.windowCount <= rows[k].rate
      /\ \A i \in DOMAIN admitted[k] :
           i > rows[k].use.uses - rows[k].use.windowCount
             <=> admitted[k][i].at >= rows[k].use.windowStart

\* No call is admitted later than the key's expiry, and a key once reported
\* expired or revoked stays refused, for the same reason, for ever.
NeverPastExpiry ==
    \A k \in Keys : \A i \in DOMAIN admitted[k] :
      rows[k].expires # None => admitted[k][i].at <= rows[k].expires

RefusalIsFinal ==
    [][\A k \in Keys : (rows[k] # NoRow /\ ~rows[k].active) =>
         /\ rows'[k] # NoRow /\ ~rows'[k].active
         /\ rows'[k].expired = rows[k].expired
         /\ admitted'[k] = admitted[k]]_vars

\* A call refused for the search cooldown that comes back after exactly the
\* advised retryAfter seconds is not refused for the cooldown again.
CooldownAdviceHolds ==
    \A k \in Keys, r \in Runtimes, t \in Times :
      Reason(r, rows[k], TRUE, t) = "cooldown" =>
        Reason(r, rows[k], TRUE, t + RetryAfter(r, rows[k], TRUE, t) * Second)
          # "cooldown"

\* Both runtimes take the same decision on every row that either can leave in
\* a shared database, and store the same row: only rate-limit advice differs.
RuntimesAgree ==
    \A k \in Keys, search \in BOOLEAN, t \in Times :
      /\ JsReason(rows[k], search, t) = RsReason(rows[k], search, t)
      /\ JsStored(rows[k], search, t) = RsStored(rows[k], search, t)

\* Nobody is locked out: once a caller has kept quiet for longer than both the
\* window and the cooldown, an active key that has not expired is admitted.
QuietCallerAdmitted ==
    \A k \in Keys, r \in Runtimes :
      LET row == rows[k] IN
      (row # NoRow /\ row.active) =>
        \A t \in Times :
          (/\ t - clock[k] > Window
           /\ t - clock[k] >= row.cooldown * Second
           /\ row.expires = None \/ t <= row.expires)
            => Reason(r, row, TRUE, t) = "ok"

=============================================================================
