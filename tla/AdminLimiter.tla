---------------------------- MODULE AdminLimiter ----------------------------
(***************************************************************************)
(* The in-memory limiter of the admin routes: adminRateLimiter of          *)
(* server/middleware/auth.js and admin_rate_limit_allows of                *)
(* rust/src/auth.rs.  Node serves one call at a time; in Rust every worker *)
(* reads the clock first and takes the mutex afterwards, so calls may be   *)
(* counted in another order than their readings.  Rust's duration_since    *)
(* is 0 for a reading before the window's start; on Node the difference is *)
(* negative: both count such a call in the window.                         *)
(***************************************************************************)
EXTENDS Integers, Sequences, FiniteSets

CONSTANTS
    Ips,
    Workers,   \* one for Node, the threads of the runtime for Rust
    Window,    \* ADMIN_RATE_LIMIT_WINDOW_MS, in clock units
    Max,       \* ADMIN_RATE_LIMIT_MAX
    MaxTime,   \* bound on the clock
    MaxCalls,  \* bound on the calls of one address
    None

ASSUME AdminLimiterAssumption ==
    /\ IsFiniteSet(Workers)
    /\ Window \in Nat \ {0}
    /\ Max \in Nat \ {0}
    /\ MaxTime \in Nat
    /\ MaxCalls \in Nat
    /\ None \notin [start: Nat, count: Nat]
    /\ None \notin [ip: Ips, at: Nat]

VARIABLES
    now,      \* the clock
    call,     \* the call a worker serves: its address and clock reading
    windows,  \* the map: an entry for each address that has called
    served    \* served[ip]: every call counted, oldest first (history)

vars == <<now, call, windows, served>>

Entry == [start: Nat, count: Nat]
Served == [at: Nat, allowed: BOOLEAN, window: Nat]

TypeOK ==
    /\ now \in 0..MaxTime
    /\ call \in [Workers -> [ip: Ips, at: 0..MaxTime] \cup {None}]
    /\ windows \in [Ips -> Entry \cup {None}]
    /\ served \in [Ips -> Seq(Served)]

Init ==
    /\ now = 0
    /\ call = [w \in Workers |-> None]
    /\ windows = [ip \in Ips |-> None]
    /\ served = [ip \in Ips |-> <<>>]

Tick ==
    /\ now < MaxTime
    /\ now' = now + 1
    /\ UNCHANGED <<call, windows, served>>

\* Date.now(), Instant::now().
ReadClock(w, ip) ==
    /\ call[w] = None
    /\ Len(served[ip])
         + Cardinality({v \in Workers : call[v] # None /\ call[v].ip = ip})
           < MaxCalls
    /\ call' = [call EXCEPT ![w] = [ip |-> ip, at |-> now]]
    /\ UNCHANGED <<now, windows, served>>

\* Fault: a reading from before the window's start opens a new one.
Over_Absolute(entry, t) ==
    \/ entry = None
    \/ t - entry.start > Window \/ t < entry.start

\* No window, or one that has ended.
Over(entry, t) == entry = None \/ t - entry.start > Window

\* Fault: the stored time is that at which the previous window ended.
Counted_Predated(entry, t) ==
    IF Over(entry, t) THEN [start |-> t - Window, count |-> 1]
    ELSE [entry EXCEPT !.count = @ + 1]

Counted(entry, t) ==
    IF Over(entry, t) THEN [start |-> t, count |-> 1]
    ELSE [entry EXCEPT !.count = @ + 1]

\* Fault: the call after the last one allowed is allowed as well.
Allowed_OneMore(entry) == entry.count <= Max + 1

Allowed(entry) == entry.count <= Max

Serve(w) ==
    /\ call[w] # None
    /\ LET ip == call[w].ip
           entry == Counted(windows[ip], call[w].at) IN
         /\ windows' = [windows EXCEPT ![ip] = entry]
         /\ served' = [served EXCEPT ![ip] = Append(@,
              [ at |-> call[w].at, allowed |-> Allowed(entry),
                window |-> entry.start ])]
    /\ call' = [call EXCEPT ![w] = None]
    /\ UNCHANGED now

Next ==
    \/ Tick
    \/ \E w \in Workers : Serve(w) \/ \E ip \in Ips : ReadClock(w, ip)

Spec == Init /\ [][Next]_vars

-----------------------------------------------------------------------------
Granted(ip, Test(_)) ==
    Cardinality({i \in DOMAIN served[ip] :
                   served[ip][i].allowed /\ Test(served[ip][i])})

\* No window allows more than Max calls of an address, and windows follow one
\* another: a call that was served later never reopens an earlier window, in
\* whatever order the workers that read the clock get the mutex.
QuotaPerWindow ==
    \A ip \in Ips : \A i \in DOMAIN served[ip] :
      LET window == served[ip][i].window IN
      /\ Granted(ip, LAMBDA c : c.window = window) <= Max
      /\ \A j \in 1..i : served[ip][j].window <= window

\* A span of Window readings holds fewer than twice Max allowed calls, as it
\* cannot hold the first call of both windows it meets, and one more for each
\* other worker that may come late with an older reading.
SpanBounded ==
    \A ip \in Ips : \A i \in DOMAIN served[ip] :
      LET at == served[ip][i].at IN
      Granted(ip, LAMBDA c : c.at \in at..(at + Window))
        < 2 * Max + Cardinality(Workers) - 1

=============================================================================
