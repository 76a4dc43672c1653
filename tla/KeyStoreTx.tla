----------------------------- MODULE KeyStoreTx -----------------------------
(***************************************************************************)
(* The key store as the transactions that run it.  Several server          *)
(* processes, each Node or Rust, share one SQLite file in WAL mode; inside *)
(* a process calls are serialised (synchronous better-sqlite3 on Node's    *)
(* single thread, the connection mutex in Rust), so a process is one       *)
(* connection with at most one transaction.                                *)
(*                                                                         *)
(* Node opens BEGIN IMMEDIATE: the write lock is taken before the row is   *)
(* read.  Rust opens a deferred transaction: SELECT fixes a snapshot and   *)
(* the write lock is asked for at the UPDATE, which SQLite refuses when    *)
(* another connection has committed since the snapshot.  A caller that     *)
(* cannot have the lock within the busy timeout gets an error.  A process  *)
(* may die at any point; SQLite then drops its transaction and its lock.   *)
(***************************************************************************)
EXTENDS KeyRow, Sequences

CONSTANTS
    Keys, Conns,
    RuntimeOf,    \* RuntimeOf[c]: the runtime of process c
    Nobody,       \* the write lock is free
    MaxTime,      \* bound on the clock
    Rates, Lifetimes, Cooldowns

ASSUME KeyStoreTxAssumption ==
    /\ RuntimeOf \in [Conns -> Runtimes]
    /\ Nobody \notin Conns
    /\ MaxTime \in Nat \ {0}
    /\ Rates \subseteq Int \cup {None}
    /\ Lifetimes \subseteq Int \cup {None}
    /\ Cooldowns \subseteq Int \cup {None}

VARIABLES
    rows,      \* the committed table
    admitted,  \* the calls whose admission was committed (history)
    stamp,     \* the clock reading of the last commit on each row (history)
    now,       \* the wall clock
    writer,    \* the connection that holds SQLite's write lock
    call       \* the transaction of each connection

vars == <<rows, admitted, stamp, now, writer, call>>
table == <<rows, admitted, stamp>>

Steps == {"called", "begun", "read", "decided", "writing"}
Idle == [step |-> "idle"]

\* row: the row as read; at: the clock reading the decision uses; stale:
\* another connection has committed since the row was read.
Call == [ step: Steps, key: Keys, search: BOOLEAN, row: Row \cup {NoRow},
          at: Nat, stale: BOOLEAN ]

TypeOK ==
    /\ rows \in [Keys -> Row \cup {NoRow}]
    /\ admitted \in [Keys -> Seq([at: Int, search: BOOLEAN])]
    /\ stamp \in [Keys -> Int]
    /\ now \in 0..MaxTime
    /\ writer \in Conns \cup {Nobody}
    /\ call \in [Conns -> Call \cup {Idle}]

Init ==
    /\ rows = [k \in Keys |-> NoRow]
    /\ admitted = [k \in Keys |-> <<>>]
    /\ stamp = [k \in Keys |-> 0]
    /\ now = 1
    /\ writer = Nobody
    /\ call = [c \in Conns |-> Idle]

At(c, step) == call[c].step = step
Js(c) == RuntimeOf[c] = "js"
Verdict(c) == Reason(RuntimeOf[c], call[c].row, call[c].search, call[c].at)

\* What the transaction of c wants the row to be.
Wanted(c) == Stored(RuntimeOf[c], call[c].row, call[c].search, call[c].at)
Writes(c) == Wanted(c) # call[c].row

\* The UPDATE statements name their columns.  Node writes every column but
\* revoked_at from its copy of the row, "active" included; Rust writes the
\* accounting columns, or "active" and expired_at when the key has expired.
JsUpdate(current, new) == [new EXCEPT !.revoked = current.revoked]

RsUpdate(current, new) ==
    IF new.active
      THEN [current EXCEPT !.use = new.use]
      ELSE [current EXCEPT !.active = FALSE, !.expired = TRUE]

\* A commit: the snapshots other connections have open are now stale.
Open(d) == call[d].step \in {"read", "decided"}

Committed(c) ==
    [d \in Conns |-> IF d = c THEN Idle
                     ELSE IF Open(d) THEN [call[d] EXCEPT !.stale = TRUE]
                     ELSE call[d]]

-----------------------------------------------------------------------------
Tick ==
    /\ now < MaxTime
    /\ now' = now + 1
    /\ UNCHANGED <<table, writer, call>>

\* The INSERT of a fresh key is one statement; no other process knows the key.
Create(c, k, rate, lifetime, cooldown) ==
    /\ call[c] = Idle /\ writer = Nobody
    /\ rows[k] = NoRow
    /\ rows' = [rows EXCEPT
         ![k] = CreatedRow(RuntimeOf[c], now, rate, lifetime, cooldown)]
    /\ stamp' = [stamp EXCEPT ![k] = now]
    /\ call' = Committed(c)
    /\ UNCHANGED <<admitted, now, writer>>

Revoke(c, k) ==
    /\ call[c] = Idle /\ writer = Nobody
    /\ rows[k] # NoRow
    /\ rows' = [rows EXCEPT ![k] = RevokedRow(@)]
    /\ call' = Committed(c)
    /\ UNCHANGED <<admitted, stamp, now, writer>>

\* A request reaches the process: validateKey is called.
Receive(c, k, search) ==
    /\ call[c] = Idle
    /\ call' = [call EXCEPT ![c] =
         [ step |-> "called", key |-> k, search |-> search, row |-> NoRow,
           at |-> 0, stale |-> FALSE ]]
    /\ UNCHANGED <<table, now, writer>>

\* Fault: a plain BEGIN, which waits for no writer.
LockFree_Deferred(c) == TRUE

\* db.exec("BEGIN IMMEDIATE").
LockFree(c) == writer = Nobody

JsBegin(c) ==
    /\ At(c, "called") /\ Js(c)
    /\ LockFree(c)
    /\ writer' = c
    /\ call' = [call EXCEPT ![c].step = "begun"]
    /\ UNCHANGED <<table, now>>

\* The SELECT, which in a deferred transaction fixes the snapshot.
Read(c) ==
    /\ At(c, IF Js(c) THEN "begun" ELSE "called")
    /\ call' = [call EXCEPT ![c].step = "read", ![c].row = rows[call[c].key]]
    /\ UNCHANGED <<table, now, writer>>

\* Date.now(), Utc::now(): everything after it is computed from this reading.
Decide(c) ==
    /\ At(c, "read")
    /\ call' = [call EXCEPT ![c].step = "decided", ![c].at = now]
    /\ UNCHANGED <<table, now, writer>>

\* Fault: the upgrade of a stale snapshot is let through.
SnapshotCurrent_Unchecked(c) == TRUE

\* Rust: the UPDATE asks for the write lock.
SnapshotCurrent(c) == ~call[c].stale

RsUpgrade(c) ==
    /\ At(c, "decided") /\ ~Js(c) /\ Writes(c)
    /\ SnapshotCurrent(c) /\ writer = Nobody
    /\ writer' = c
    /\ call' = [call EXCEPT ![c].step = "writing"]
    /\ UNCHANGED <<table, now>>

\* COMMIT of a transaction that changed the row.
Commit(c) ==
    LET k == call[c].key IN
    /\ At(c, IF Js(c) THEN "decided" ELSE "writing")
    /\ Writes(c)
    /\ rows' = [rows EXCEPT ![k] = IF Js(c) THEN JsUpdate(@, Wanted(c))
                                            ELSE RsUpdate(@, Wanted(c))]
    /\ stamp' = [stamp EXCEPT ![k] = call[c].at]
    /\ admitted' = IF Verdict(c) = "ok"
                     THEN [admitted EXCEPT ![k] =
                       Append(@, [at |-> call[c].at, search |-> call[c].search])]
                     ELSE admitted
    /\ writer' = Nobody
    /\ call' = Committed(c)
    /\ UNCHANGED now

Release(c) == IF writer = c THEN Nobody ELSE writer

\* The end of a transaction that leaves no trace: its refusal is answered.
Refuse(c) ==
    /\ At(c, "decided") /\ ~Writes(c)
    /\ writer' = Release(c)
    /\ call' = [call EXCEPT ![c] = Idle]
    /\ UNCHANGED <<table, now>>

\* Fault: a caller with a stale snapshot waits for a lock it cannot be given.
Busy_LockOnly(c) ==
    /\ \/ Js(c) /\ At(c, "called") /\ writer # Nobody
       \/ ~Js(c) /\ At(c, "decided") /\ Writes(c) /\ writer # Nobody
    /\ call' = [call EXCEPT ![c] = Idle]
    /\ UNCHANGED <<table, now, writer>>

\* SQLITE_BUSY after the busy timeout, or at once on a stale snapshot: the
\* caller gets a 500 and the transaction is rolled back.
Busy(c) ==
    /\ \/ Js(c) /\ At(c, "called") /\ writer # Nobody
       \/ ~Js(c) /\ At(c, "decided") /\ Writes(c)
            /\ (writer # Nobody \/ ~SnapshotCurrent(c))
    /\ call' = [call EXCEPT ![c] = Idle]
    /\ UNCHANGED <<table, now, writer>>

\* The process dies and restarts.
Crash(c) ==
    /\ call[c] # Idle
    /\ writer' = Release(c)
    /\ call' = [call EXCEPT ![c] = Idle]
    /\ UNCHANGED <<table, now>>

Progress(c) ==
    JsBegin(c) \/ Read(c) \/ Decide(c) \/ RsUpgrade(c) \/ Commit(c)
      \/ Refuse(c) \/ Busy(c)

Next ==
    \/ Tick
    \/ \E c \in Conns :
         \/ Progress(c)
         \/ Crash(c)
         \/ \E k \in Keys :
              \/ Revoke(c, k)
              \/ \E search \in BOOLEAN : Receive(c, k, search)
              \/ \E rate \in Rates, lifetime \in Lifetimes,
                    cooldown \in Cooldowns :
                   Create(c, k, rate, lifetime, cooldown)

Spec == Init /\ [][Next]_vars

\* A call in progress runs on: threads are scheduled and the busy handler
\* gives up in the end.  Nothing is assumed of clocks, callers or crashes.
FairSpec == Spec /\ \A c \in Conns : WF_vars(Progress(c))

-----------------------------------------------------------------------------
\* A connection that holds the write lock decides on the row as it is in the
\* table: no commit can have slipped in between its SELECT and its COMMIT.
HolderSeesCurrentRow ==
    \A c \in Conns :
      (writer = c /\ call[c].step \in {"read", "decided", "writing"})
        => call[c].row = rows[call[c].key]

\* A revocation is never undone by a request in flight in another process,
\* although Node's UPDATE writes "active" back from its own copy of the row.
RevocationSticks ==
    \A k \in Keys : rows[k] # NoRow => ~(rows[k].revoked /\ rows[k].active)

\* Every call is answered (admitted, refused or failed), or its process died.
EveryCallEnds == \A c \in Conns : call[c] # Idle ~> call[c] = Idle

\* The transactions of both runtimes implement the one-step operations.
KS == INSTANCE KeyStore WITH clock <- stamp, Times <- 1..MaxTime, StepBack <- 0
ImplementsKeyStore == KS!Spec

=============================================================================
