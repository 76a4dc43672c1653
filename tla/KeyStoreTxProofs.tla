-------------------------- MODULE KeyStoreTxProofs --------------------------
(***************************************************************************)
(* Theorems about KeyStoreTx, for any number of processes of either        *)
(* runtime: whoever writes a row has read it as it is in the table, so a   *)
(* revocation is never undone, and every commit is one step of KeyStore.   *)
(***************************************************************************)
EXTENDS KeyStoreTx, SequenceTheorems, TLAPS

-----------------------------------------------------------------------------
(* The inductive invariant.  TypeOK alone says nothing of the order of the *)
(* steps.  The lock belongs to the transactions that have asked for it, a  *)
(* snapshot that is not stale is the row in the table, and the reading a   *)
(* decision uses is no earlier than the last write of that row.            *)

\* The steps at which a transaction holds the write lock.
Locking(c) ==
    \/ Js(c) /\ call[c].step \in {"begun", "read", "decided"}
    \/ ~Js(c) /\ At(c, "writing")

\* Steps that only one runtime takes, and what is fresh at the start.
Ordered(c) ==
    /\ At(c, "begun") => Js(c)
    /\ At(c, "writing") => ~Js(c)
    /\ (At(c, "called") \/ Locking(c)) => ~call[c].stale

Snapshot(c) ==
    (call[c].step \in {"read", "decided", "writing"} /\ ~call[c].stale)
      => call[c].row = rows[call[c].key]

Timed(c) ==
    call[c].step \in {"decided", "writing"} =>
      /\ call[c].at \in 1..now
      /\ ~call[c].stale => stamp[call[c].key] <= call[c].at

LockInv == \A c \in Conns : writer = c <=> Locking(c)

ClockInv == now \in 1..MaxTime /\ \A k \in Keys : stamp[k] \in 0..now

TxInv ==
    /\ TypeOK
    /\ LockInv
    /\ ClockInv
    /\ RevocationSticks
    /\ \A c \in Conns : Ordered(c) /\ Snapshot(c) /\ Timed(c)

-----------------------------------------------------------------------------
(* The types of rows: what each operation on one leaves is a row.          *)

LEMMA NoRowIsNoRow == NoRow \notin Row
BY DEF NoRow, Row

LEMMA Scaled ==
  ASSUME NEW a \in Int, NEW b \in Int
  PROVE a * b \in Int
OBVIOUS

LEMMA CreatedRowType ==
  ASSUME NEW r \in Runtimes, NEW t \in Int,
         NEW rate \in Int \cup {None}, NEW lifetime \in Int \cup {None},
         NEW cooldown \in Int \cup {None}
  PROVE CreatedRow(r, t, rate, lifetime, cooldown) \in Row
<1>1. JsRate(rate) \in 1..MaxRate /\ RsRate(rate) \in 1..MaxRate
  BY KeyRowAssumption DEF JsRate, RsRate, Clamp
<1>2. /\ JsCooldown(cooldown) \in MinCooldown..MaxCooldown
      /\ RsCooldown(cooldown) \in MinCooldown..MaxCooldown
  BY KeyRowAssumption DEF JsCooldown, RsCooldown, Clamp
<1>3. /\ JsExpires(t, lifetime) \in Int \cup {None}
      /\ RsExpires(t, lifetime) \in Int \cup {None}
  BY KeyRowAssumption, Scaled DEF JsExpires, RsExpires
<1>4. QED
  BY <1>1, <1>2, <1>3, KeyRowAssumption
  DEF CreatedRow, JsNewRow, RsNewRow, NewRow, Row, Use

LEMMA ChargedType ==
  ASSUME NEW row \in Row, NEW search \in BOOLEAN, NEW t \in Int
  PROVE JsCharged(row, search, t) \in Row /\ RsCharged(row, search, t) \in Row
<1> DEFINE last == IF search THEN t ELSE row.use.lastSearch
<1>1. row.use \in Use
  BY DEF Row
<1>2. last \in Int \cup {None} /\ row.use.uses + 1 \in Nat
  BY <1>1 DEF Use
<1>3. /\ JsWindow(row, t).start \in Int
      /\ JsWindow(row, t).count \in Nat
  BY <1>1, KeyRowAssumption DEF Use, Present, JsWindow, JsWindowOver
<1>4. RsWindowStart(row, t) \in Int /\ RsWindowCount(row, t) \in Nat
  BY <1>1, KeyRowAssumption DEF Use, RsWindowStart, RsWindowCount
<1>5. JsRate(row.rate) = row.rate /\ JsCooldown(row.cooldown) = row.cooldown
  BY DEF Row, JsRate, JsCooldown
<1> HIDE DEF last
<1>6. [ uses |-> row.use.uses + 1, windowStart |-> JsWindow(row, t).start,
        windowCount |-> JsWindow(row, t).count, lastSearch |-> last ] \in Use
  BY <1>2, <1>3 DEF Use
<1>7. [ uses |-> row.use.uses + 1, windowStart |-> RsWindowStart(row, t),
        windowCount |-> RsWindowCount(row, t), lastSearch |-> last ] \in Use
  BY <1>2, <1>4 DEF Use
<1>8. QED
  BY <1>5, <1>6, <1>7 DEF Row, JsCharged, RsCharged, last

LEMMA StoredRow ==
  ASSUME NEW r \in Runtimes, NEW row \in Row,
         NEW search \in BOOLEAN, NEW t \in Int
  PROVE Stored(r, row, search, t) \in Row
<1>1. [row EXCEPT !.active = FALSE, !.expired = TRUE] \in Row
  BY DEF Row
<1>2. QED
  BY <1>1, ChargedType DEF Stored, JsStored, RsStored

LEMMA RevokedType ==
  ASSUME NEW row \in Row
  PROVE RevokedRow(row) \in Row
BY DEF RevokedRow, Row

-----------------------------------------------------------------------------
(* Calls.                                                                  *)

LEMMA IdleCall ==
  ASSUME NEW x \in Call
  PROVE x # Idle /\ x.step # "idle"
BY DEF Call, Steps, Idle

\* A commit of c ends its transaction and makes open snapshots stale.
LEMMA CommittedCalls ==
  ASSUME TypeOK, NEW c \in Conns
  PROVE /\ Committed(c) \in [Conns -> Call \cup {Idle}]
        /\ Committed(c)[c] = Idle
        /\ \A d \in Conns \ {c} :
             IF Open(d) THEN /\ Committed(c)[d] = [call[d] EXCEPT !.stale = TRUE]
                             /\ Committed(c)[d] \in Call
                             /\ Committed(c)[d].stale
                             /\ Committed(c)[d].step = call[d].step
                             /\ Committed(c)[d].at = call[d].at
             ELSE Committed(c)[d] = call[d]
<1>1. ASSUME NEW d \in Conns, Open(d)
      PROVE LET new == [call[d] EXCEPT !.stale = TRUE] IN
            /\ new \in Call /\ new.stale
            /\ new.step = call[d].step /\ new.at = call[d].at
  <2>1. call[d] \in Call
    BY <1>1 DEF TypeOK, Open, Idle
  <2>2. QED
    BY <2>1 DEF Call
<1>2. \A d \in Conns : call[d] \in Call \cup {Idle}
  BY DEF TypeOK
<1>3. QED
  BY <1>1, <1>2 DEF Committed

\* The write of either runtime, on the row it has read, is the row it wants.
LEMMA WantedWritten ==
  ASSUME NEW r \in Runtimes, NEW row \in Row \cup {NoRow},
         NEW search \in BOOLEAN, NEW t \in Int
  PROVE LET new == Stored(r, row, search, t) IN
        new # row =>
          /\ row \in Row /\ row.active
          /\ new \in Row /\ new.revoked = row.revoked
          /\ r = "js" => JsUpdate(row, new) = new
          /\ r = "rust" => RsUpdate(row, new) = new
<1> SUFFICES ASSUME Stored(r, row, search, t) # row
    PROVE LET new == Stored(r, row, search, t) IN
          /\ row \in Row /\ row.active
          /\ new \in Row /\ new.revoked = row.revoked
          /\ r = "js" => JsUpdate(row, new) = new
          /\ r = "rust" => RsUpdate(row, new) = new
  OBVIOUS
<1>1. row \in Row
  BY DEF Stored, JsStored, RsStored, JsReason, RsReason
<1>2. Stored(r, row, search, t) \in Row
  BY <1>1, StoredRow
<1>3. CASE r = "js" /\ JsReason(row, search, t) = "ok"
  <2>1. Stored(r, row, search, t) = JsCharged(row, search, t)
    BY <1>3 DEF Stored, JsStored
  <2>2. row.active
    BY <1>1, <1>3, NoRowIsNoRow DEF JsReason
  <2>3. JsCharged(row, search, t).revoked = row.revoked
    BY <1>1 DEF JsCharged, Row
  <2>4. \A new \in Row : [new EXCEPT !.revoked = new.revoked] = new
    BY DEF Row
  <2>5. QED
    BY <1>1, <1>2, <1>3, <2>1, <2>2, <2>3, <2>4 DEF JsUpdate
<1>4. CASE r = "rust" /\ RsReason(row, search, t) = "ok"
  <2>1. Stored(r, row, search, t) = RsCharged(row, search, t)
    BY <1>4 DEF Stored, RsStored
  <2>2. row.active
    BY <1>1, <1>4, NoRowIsNoRow DEF RsReason
  <2>3. /\ RsCharged(row, search, t).revoked = row.revoked
        /\ RsCharged(row, search, t).active
        /\ [row EXCEPT !.use = RsCharged(row, search, t).use] = RsCharged(row, search, t)
    BY <1>1, <2>2 DEF RsCharged, Row
  <2>4. QED
    BY <1>1, <1>2, <1>4, <2>1, <2>2, <2>3 DEF RsUpdate
<1>5. CASE Reason(r, row, search, t) # "ok"
  <2> DEFINE new == [row EXCEPT !.active = FALSE, !.expired = TRUE]
  <2>1. Stored(r, row, search, t) = new
    BY <1>1, <1>5 DEF Stored, JsStored, RsStored, Reason
  <2>2. Reason(r, row, search, t) = "expired"
    BY <1>5 DEF Stored, JsStored, RsStored, Reason
  <2>3. row.active \/ row.expired
    BY <1>1, <2>2, NoRowIsNoRow DEF Reason, JsReason, RsReason
  <2>4. row.active
    BY <1>1, <2>1, <2>3 DEF Row
  <2>5. new.revoked = row.revoked /\ ~new.active
    BY <1>1 DEF Row
  <2>6. [new EXCEPT !.revoked = row.revoked] = new
    BY <1>1 DEF Row
  <2>7. QED
    BY <1>1, <1>2, <2>1, <2>4, <2>5, <2>6 DEF JsUpdate, RsUpdate
<1>6. QED
  BY <1>3, <1>4, <1>5 DEF Runtimes, Reason

-----------------------------------------------------------------------------
(* Every action preserves the invariant.                                   *)

LEMMA TxInit == Init => TxInv
<1> SUFFICES ASSUME Init PROVE TxInv
  OBVIOUS
<1>1. TypeOK
  BY KeyStoreTxAssumption DEF Init, TypeOK
<1>2. \A c \in Conns : call[c].step = "idle"
  BY DEF Init, Idle
<1>3. QED
  BY <1>1, <1>2, KeyStoreTxAssumption, NoRowIsNoRow
  DEF Init, TxInv, LockInv, ClockInv, RevocationSticks, Ordered, Snapshot, Timed,
      Locking, At

\* A step that touches neither the table nor the clock, and no call but that
\* of c, is left with what it does to c.
LEMMA OwnStep ==
  ASSUME TxInv, NEW c \in Conns, UNCHANGED <<table, now>>,
         NEW new \in Call \cup {Idle}, call' = [call EXCEPT ![c] = new],
         writer' \in Conns \cup {Nobody},
         \A d \in Conns \ {c} : writer' = d <=> writer = d,
         writer' = c <=> Locking(c)',
         Ordered(c)', Snapshot(c)', Timed(c)'
  PROVE TxInv'
<1>1. TypeOK'
  BY DEF TxInv, TypeOK, table
<1>2. \A d \in Conns \ {c} : call'[d] = call[d]
  BY DEF TxInv, TypeOK
<1>3. LockInv'
  BY <1>2 DEF TxInv, LockInv, Locking, Js, At
<1>4. ClockInv' /\ RevocationSticks'
  BY DEF TxInv, ClockInv, RevocationSticks, table
<1>5. \A d \in Conns \ {c} : Ordered(d)' /\ Snapshot(d)' /\ Timed(d)'
  BY <1>2 DEF TxInv, Ordered, Snapshot, Timed, Locking, Js, At, table
<1>6. QED
  BY <1>1, <1>3, <1>4, <1>5 DEF TxInv

LEMMA TxTick == TxInv /\ Tick => TxInv'
<1> SUFFICES ASSUME TxInv, Tick PROVE TxInv'
  OBVIOUS
<1>1. TypeOK' /\ ClockInv'
  BY KeyStoreTxAssumption DEF TxInv, TypeOK, ClockInv, Tick, table
<1>2. LockInv' /\ RevocationSticks'
  BY DEF TxInv, LockInv, RevocationSticks, Locking, Js, At, Tick, table
<1>3. ASSUME NEW c \in Conns
      PROVE Ordered(c)' /\ Snapshot(c)' /\ Timed(c)'
  BY KeyStoreTxAssumption
  DEF TxInv, Ordered, Snapshot, Timed, Locking, Js, At, Tick, table, ClockInv
<1>4. QED
  BY <1>1, <1>2, <1>3 DEF TxInv

\* The end of a call of c that changes nothing in the table.
LEMMA TxEnd ==
  ASSUME TxInv, NEW c \in Conns, UNCHANGED <<table, now>>,
         call' = [call EXCEPT ![c] = Idle],
         writer' = Release(c)
  PROVE TxInv'
<1>1. call'[c].step = "idle"
  BY DEF TxInv, TypeOK, Idle
<1>2. /\ writer' \in Conns \cup {Nobody} /\ writer' # c
      /\ \A d \in Conns \ {c} : writer' = d <=> writer = d
  BY KeyStoreTxAssumption DEF Release, TxInv, TypeOK
<1>3. /\ ~Locking(c)' /\ Ordered(c)' /\ Snapshot(c)' /\ Timed(c)'
  BY <1>1 DEF Locking, Ordered, Snapshot, Timed, Js, At
<1>4. QED
  BY <1>2, <1>3, OwnStep

LEMMA TxReceive ==
  ASSUME TxInv, NEW c \in Conns, NEW k \in Keys, NEW search \in BOOLEAN,
         Receive(c, k, search)
  PROVE TxInv'
<1> DEFINE new == [ step |-> "called", key |-> k, search |-> search,
                    row |-> NoRow, at |-> 0, stale |-> FALSE ]
<1>1. new \in Call
  BY DEF Call, Steps
<1>2. call'[c] = new
  BY DEF Receive, TxInv, TypeOK
<1>3. ~Locking(c)
  BY DEF Receive, Locking, At, Idle
<1>4. writer # c
  BY <1>3 DEF TxInv, LockInv
<1>5. /\ ~Locking(c)' /\ Ordered(c)' /\ Snapshot(c)' /\ Timed(c)'
  BY <1>2 DEF Locking, Ordered, Snapshot, Timed, Js, At
<1>6. QED
  BY <1>1, <1>4, <1>5, OwnStep DEF Receive, TxInv, TypeOK

LEMMA TxJsBegin ==
  ASSUME TxInv, NEW c \in Conns, JsBegin(c)
  PROVE TxInv'
<1> DEFINE new == [call[c] EXCEPT !.step = "begun"]
<1>1. call[c] \in Call
  BY DEF JsBegin, TxInv, TypeOK, At, Idle
<1>2. new \in Call /\ new.step = "begun" /\ new.stale = call[c].stale
  BY <1>1 DEF Call, Steps
<1>3. call' = [call EXCEPT ![c] = new] /\ call'[c] = new
  BY DEF JsBegin, TxInv, TypeOK
<1>4. Locking(c)' /\ Ordered(c)' /\ Snapshot(c)' /\ Timed(c)'
  BY <1>2, <1>3 DEF JsBegin, TxInv, Locking, Ordered, Snapshot, Timed, Js, At
<1>5. /\ writer' = c
      /\ \A d \in Conns \ {c} : writer' = d <=> writer = d
  BY KeyStoreTxAssumption DEF JsBegin, LockFree
<1>6. QED
  BY <1>2, <1>3, <1>4, <1>5, OwnStep DEF JsBegin

LEMMA TxRead ==
  ASSUME TxInv, NEW c \in Conns, Read(c)
  PROVE TxInv'
<1> DEFINE new == [call[c] EXCEPT !.step = "read", !.row = rows[call[c].key]]
<1>1. call[c] \in Call
  BY DEF Read, TxInv, TypeOK, At, Idle
<1>2. rows[call[c].key] \in Row \cup {NoRow}
  BY <1>1 DEF TxInv, TypeOK, Call
<1>3. /\ new \in Call /\ new.step = "read" /\ new.stale = call[c].stale
      /\ new.key = call[c].key /\ new.row = rows[call[c].key]
  BY <1>1, <1>2 DEF Call, Steps
<1>4. call' = [call EXCEPT ![c] = new] /\ call'[c] = new
  BY DEF Read, TxInv, TypeOK
<1>5. ~call[c].stale
  BY DEF Read, TxInv, Ordered, Locking, At
<1> HIDE DEF new
<1>6. Ordered(c)' /\ Snapshot(c)' /\ Timed(c)'
  BY <1>3, <1>4, <1>5 DEF Read, Locking, Ordered, Snapshot, Timed, Js, At, table
<1>7. writer' = c <=> Locking(c)'
  BY <1>3, <1>4 DEF Read, TxInv, LockInv, Locking, Js, At
<1>8. QED
  BY <1>3, <1>4, <1>6, <1>7, OwnStep DEF Read, TxInv, TypeOK

LEMMA TxDecide ==
  ASSUME TxInv, NEW c \in Conns, Decide(c)
  PROVE TxInv'
<1> DEFINE new == [call[c] EXCEPT !.step = "decided", !.at = now]
<1>1. call[c] \in Call
  BY DEF Decide, TxInv, TypeOK, At, Idle
<1>2. now \in Nat /\ call[c].key \in Keys
  BY <1>1 DEF TxInv, TypeOK, Call
<1>3. /\ new \in Call /\ new.step = "decided" /\ new.stale = call[c].stale
      /\ new.key = call[c].key /\ new.row = call[c].row /\ new.at = now
  BY <1>1, <1>2 DEF Call, Steps
<1>4. call' = [call EXCEPT ![c] = new] /\ call'[c] = new
  BY DEF Decide, TxInv, TypeOK
<1> HIDE DEF new
<1>5. Ordered(c)' /\ Snapshot(c)'
  BY <1>3, <1>4 DEF Decide, TxInv, Locking, Ordered, Snapshot, Js, At, table
<1>6. Timed(c)'
  BY <1>2, <1>3, <1>4 DEF Decide, TxInv, Timed, ClockInv, table
<1>7. writer' = c <=> Locking(c)'
  BY <1>3, <1>4 DEF Decide, TxInv, LockInv, Locking, Js, At
<1>8. QED
  BY <1>3, <1>4, <1>5, <1>6, <1>7, OwnStep DEF Decide, TxInv, TypeOK

LEMMA TxRsUpgrade ==
  ASSUME TxInv, NEW c \in Conns, RsUpgrade(c)
  PROVE TxInv'
<1> DEFINE new == [call[c] EXCEPT !.step = "writing"]
<1>1. call[c] \in Call
  BY DEF RsUpgrade, TxInv, TypeOK, At, Idle
<1>2. /\ new \in Call /\ new.step = "writing" /\ new.stale = call[c].stale
      /\ new.key = call[c].key /\ new.row = call[c].row /\ new.at = call[c].at
  BY <1>1 DEF Call, Steps
<1>3. call' = [call EXCEPT ![c] = new] /\ call'[c] = new
  BY DEF RsUpgrade, TxInv, TypeOK
<1> HIDE DEF new
<1>4. Locking(c)' /\ Ordered(c)' /\ Snapshot(c)'
  BY <1>2, <1>3
  DEF RsUpgrade, SnapshotCurrent, TxInv, Locking, Ordered, Snapshot, Js, At, table
<1>5. Timed(c)'
  BY <1>2, <1>3 DEF RsUpgrade, TxInv, Timed, At, table
<1>6. /\ writer' = c
      /\ \A d \in Conns \ {c} : writer' = d <=> writer = d
  BY KeyStoreTxAssumption DEF RsUpgrade
<1>7. QED
  BY <1>2, <1>3, <1>4, <1>5, <1>6, OwnStep DEF RsUpgrade

\* A write to the table: every snapshot that was open becomes stale, and no
\* other transaction can hold the lock.
LEMMA TxWrite ==
  ASSUME TxInv, NEW c \in Conns, call' = Committed(c), writer' = Nobody,
         writer \in {c, Nobody}, UNCHANGED now,
         rows' \in [Keys -> Row \cup {NoRow}],
         admitted' \in [Keys -> Seq([at: Int, search: BOOLEAN])],
         stamp' \in [Keys -> Int], \A k \in Keys : stamp'[k] \in 0..now,
         RevocationSticks'
  PROVE TxInv'
<1>1. TypeOK'
  BY CommittedCalls DEF TxInv, TypeOK
<1>2. call'[c].step = "idle"
  BY CommittedCalls DEF TxInv, Idle
<1>3. ~Locking(c)' /\ Ordered(c)' /\ Snapshot(c)' /\ Timed(c)'
  BY <1>2 DEF Locking, Ordered, Snapshot, Timed, Js, At
<1>4. ASSUME NEW d \in Conns \ {c}
      PROVE ~Locking(d)' /\ Ordered(d)' /\ Snapshot(d)' /\ Timed(d)'
  <2>1. ~Locking(d)
    BY KeyStoreTxAssumption DEF TxInv, LockInv
  <2>2. CASE Open(d)
    <3>1. call'[d].stale /\ call'[d].step = call[d].step /\ call'[d].at = call[d].at
      BY <2>2, CommittedCalls DEF TxInv
    <3>2. ~Js(d) /\ ~Js(d)'
      BY <2>1, <2>2 DEF Locking, Open, Js
    <3>3. ~Locking(d)' /\ Ordered(d)' /\ Snapshot(d)'
      BY <2>2, <3>1, <3>2 DEF Locking, Ordered, Snapshot, At, Open
    <3>4. Timed(d)'
      BY <2>2, <3>1 DEF TxInv, Timed, Open
    <3>5. QED
      BY <3>3, <3>4
  <2>3. CASE ~Open(d)
    <3>1. call'[d] = call[d]
      BY <2>3, CommittedCalls DEF TxInv
    <3>2. call[d].step \notin {"begun", "read", "decided", "writing"}
      BY <2>1, <2>3 DEF TxInv, Ordered, Locking, Open, At
    <3>3. Ordered(d)
      BY DEF TxInv
    <3>4. QED
      BY <3>1, <3>2, <3>3 DEF Locking, Ordered, Snapshot, Timed, Js, At
  <2>4. QED
    BY <2>2, <2>3
<1>5. LockInv'
  BY <1>3, <1>4, KeyStoreTxAssumption DEF LockInv
<1>6. ClockInv'
  BY DEF TxInv, ClockInv
<1>7. QED
  BY <1>1, <1>3, <1>4, <1>5, <1>6 DEF TxInv

\* Whoever commits holds the lock, has read the row as it is in the table, and
\* replaces it by the row its decision asks for.
LEMMA CommitWrites ==
  ASSUME TxInv, NEW c \in Conns, Commit(c)
  PROVE LET k == call[c].key
            new == Wanted(c)
        IN /\ call[c] \in Call /\ writer = c
           /\ call[c].row = rows[k] /\ new # rows[k]
           /\ new \in Row /\ rows[k] \in Row /\ rows[k].active
           /\ new.revoked = rows[k].revoked
           /\ rows' = [rows EXCEPT ![k] = new]
           /\ call[c].at \in 1..now /\ stamp[k] <= call[c].at
<1> DEFINE k == call[c].key
           new == Wanted(c)
<1>1. call[c] \in Call
  BY DEF Commit, TxInv, TypeOK, At, Idle
<1>2. Locking(c) /\ call[c].step \in {"decided", "writing"}
  BY DEF Commit, Locking, At
<1>3. writer = c /\ ~call[c].stale
  BY <1>2 DEF TxInv, LockInv, Ordered
<1>4. call[c].row = rows[k]
  BY <1>2, <1>3 DEF TxInv, Snapshot
<1>5. call[c].at \in 1..now /\ stamp[k] <= call[c].at
  BY <1>2, <1>3 DEF TxInv, Timed
<1>6. RuntimeOf[c] \in Runtimes
  BY KeyStoreTxAssumption
<1>7. /\ call[c].row \in Row \cup {NoRow} /\ call[c].search \in BOOLEAN
      /\ call[c].at \in Int /\ k \in Keys
  BY <1>1 DEF Call
<1>8. new # call[c].row
  BY DEF Commit, Writes
<1>9. /\ call[c].row \in Row /\ call[c].row.active
      /\ new \in Row /\ new.revoked = call[c].row.revoked
      /\ Js(c) => JsUpdate(call[c].row, new) = new
      /\ ~Js(c) => RsUpdate(call[c].row, new) = new
  BY <1>6, <1>7, <1>8, WantedWritten DEF Wanted, Js, Runtimes
<1>10. rows' = [rows EXCEPT ![k] = new]
  BY <1>4, <1>9 DEF Commit
<1>11. QED
  BY <1>1, <1>3, <1>4, <1>5, <1>8, <1>9, <1>10

LEMMA TxCommit ==
  ASSUME TxInv, NEW c \in Conns, Commit(c)
  PROVE TxInv'
<1> DEFINE k == call[c].key
           new == Wanted(c)
<1>1. /\ call[c] \in Call /\ writer = c
      /\ new \in Row /\ rows[k] \in Row /\ rows[k].active
      /\ new.revoked = rows[k].revoked
      /\ rows' = [rows EXCEPT ![k] = new]
      /\ call[c].at \in 1..now
  BY CommitWrites
<1>2. k \in Keys /\ call[c].search \in BOOLEAN /\ call[c].at \in Int
  BY <1>1 DEF Call
<1> HIDE DEF new, k
<1>3. rows' \in [Keys -> Row \cup {NoRow}]
  BY <1>1 DEF TxInv, TypeOK
<1>4. admitted' \in [Keys -> Seq([at: Int, search: BOOLEAN])]
  <2> DEFINE entry == [at |-> call[c].at, search |-> call[c].search]
  <2>1. entry \in [at: Int, search: BOOLEAN]
    BY <1>2
  <2>2. Append(admitted[k], entry) \in Seq([at: Int, search: BOOLEAN])
    BY <1>2, <2>1, AppendProperties DEF TxInv, TypeOK
  <2>3. QED
    BY <1>2, <2>2 DEF TxInv, TypeOK, Commit, k
<1>5. stamp' \in [Keys -> Int] /\ \A j \in Keys : stamp'[j] \in 0..now
  <2>1. stamp' = [stamp EXCEPT ![k] = call[c].at]
    BY DEF Commit, k
  <2>2. stamp \in [Keys -> Int] /\ \A j \in Keys : stamp[j] \in 0..now
    BY DEF TxInv, TypeOK, ClockInv
  <2>3. call[c].at \in 0..now
    BY <1>1
  <2>4. QED
    BY <1>2, <2>1, <2>2, <2>3
<1>6. RevocationSticks'
  <2>1. rows \in [Keys -> Row \cup {NoRow}] /\ RevocationSticks
    BY DEF TxInv, TypeOK
  <2>2. ~new.revoked
    BY <1>1, <1>2, <2>1, NoRowIsNoRow DEF RevocationSticks
  <2>3. \A j \in Keys : rows'[j] = IF j = k THEN new ELSE rows[j]
    BY <1>1, <2>1
  <2>4. QED
    BY <2>1, <2>2, <2>3 DEF RevocationSticks
<1>7. call' = Committed(c) /\ writer' = Nobody /\ UNCHANGED now
  BY DEF Commit
<1>8. QED
  BY <1>1, <1>3, <1>4, <1>5, <1>6, <1>7, TxWrite

LEMMA TxCreate ==
  ASSUME TxInv, NEW c \in Conns, NEW k \in Keys, NEW rate \in Rates,
         NEW lifetime \in Lifetimes, NEW cooldown \in Cooldowns,
         Create(c, k, rate, lifetime, cooldown)
  PROVE TxInv'
<1> DEFINE new == CreatedRow(RuntimeOf[c], now, rate, lifetime, cooldown)
<1>1. RuntimeOf[c] \in Runtimes /\ now \in Int
  BY KeyStoreTxAssumption DEF TxInv, TypeOK
<1>2. new \in Row
  BY <1>1, CreatedRowType, KeyStoreTxAssumption
<1>3. ~new.revoked
  BY DEF CreatedRow, JsNewRow, RsNewRow, NewRow
<1>4. rows' = [rows EXCEPT ![k] = new] /\ stamp' = [stamp EXCEPT ![k] = now]
  BY DEF Create
<1> HIDE DEF new
<1>5. rows' \in [Keys -> Row \cup {NoRow}] /\ stamp' \in [Keys -> Int]
  BY <1>1, <1>2, <1>4 DEF TxInv, TypeOK
<1>6. RevocationSticks'
  BY <1>2, <1>3, <1>4 DEF TxInv, TypeOK, RevocationSticks
<1>7. \A j \in Keys : stamp'[j] \in 0..now
  BY <1>4 DEF TxInv, TypeOK, ClockInv
<1>8. QED
  BY <1>5, <1>6, <1>7, TxWrite DEF Create, TxInv, TypeOK

LEMMA TxRevoke ==
  ASSUME TxInv, NEW c \in Conns, NEW k \in Keys, Revoke(c, k)
  PROVE TxInv'
<1> DEFINE new == RevokedRow(rows[k])
<1>1. rows[k] \in Row
  BY DEF Revoke, TxInv, TypeOK
<1>2. new \in Row /\ ~new.active
  BY <1>1, RevokedType DEF RevokedRow, Row
<1>3. rows' = [rows EXCEPT ![k] = new]
  BY DEF Revoke
<1> HIDE DEF new
<1>4. rows' \in [Keys -> Row \cup {NoRow}]
  BY <1>2, <1>3 DEF TxInv, TypeOK
<1>5. RevocationSticks'
  BY <1>2, <1>3 DEF TxInv, TypeOK, RevocationSticks
<1>6. QED
  BY <1>4, <1>5, TxWrite DEF Revoke, TxInv, TypeOK, ClockInv

LEMMA TxBusy ==
  ASSUME TxInv, NEW c \in Conns, Busy(c)
  PROVE TxInv'
<1>1. ~Locking(c)
  BY DEF Busy, Locking, At
<1>2. writer' = Release(c)
  BY <1>1 DEF TxInv, LockInv, Release, Busy
<1>3. QED
  BY <1>2, TxEnd DEF Busy

LEMMA TxStep == TxInv /\ [Next]_vars => TxInv'
<1> SUFFICES ASSUME TxInv, [Next]_vars PROVE TxInv'
  OBVIOUS
<1>1. CASE Tick
  BY <1>1, TxTick
<1>2. ASSUME NEW c \in Conns, Progress(c) PROVE TxInv'
  <2>1. CASE JsBegin(c)
    BY <2>1, TxJsBegin
  <2>2. CASE Read(c)
    BY <2>2, TxRead
  <2>3. CASE Decide(c)
    BY <2>3, TxDecide
  <2>4. CASE RsUpgrade(c)
    BY <2>4, TxRsUpgrade
  <2>5. CASE Commit(c)
    BY <2>5, TxCommit
  <2>6. CASE Refuse(c)
    BY <2>6, TxEnd DEF Refuse
  <2>7. CASE Busy(c)
    BY <2>7, TxBusy
  <2>8. QED
    BY <1>2, <2>1, <2>2, <2>3, <2>4, <2>5, <2>6, <2>7 DEF Progress
<1>3. ASSUME NEW c \in Conns, Crash(c) PROVE TxInv'
  BY <1>3, TxEnd DEF Crash
<1>4. ASSUME NEW c \in Conns, NEW k \in Keys, Revoke(c, k) PROVE TxInv'
  BY <1>4, TxRevoke
<1>5. ASSUME NEW c \in Conns, NEW k \in Keys, NEW search \in BOOLEAN,
             Receive(c, k, search)
      PROVE TxInv'
  BY <1>5, TxReceive
<1>6. ASSUME NEW c \in Conns, NEW k \in Keys, NEW rate \in Rates,
             NEW lifetime \in Lifetimes, NEW cooldown \in Cooldowns,
             Create(c, k, rate, lifetime, cooldown)
      PROVE TxInv'
  BY <1>6, TxCreate
<1>7. CASE UNCHANGED vars
  BY <1>7 DEF TxInv, TypeOK, LockInv, ClockInv, RevocationSticks, Ordered, Snapshot,
              Timed, Locking, Js, At, vars
<1>8. QED
  BY <1>1, <1>2, <1>3, <1>4, <1>5, <1>6, <1>7 DEF Next

\* The lock, the copies of the row and the grants agree, whatever the processes of
\* both runtimes do and wherever one of them dies.
THEOREM TxInvariant == Spec => []TxInv
BY TxInit, TxStep, PTL DEF Spec

\* Type correctness of the table, the processes and their copies of the row.
THEOREM TxTypeCorrect == Spec => []TypeOK
BY TxInvariant, PTL DEF TxInv

\* Whatever the processes do, and wherever one of them dies: a key that was
\* revoked is never active again, although Node writes "active" back from its
\* own copy of the row.
THEOREM RevocationNeverUndone == Spec => []RevocationSticks
BY TxInvariant, PTL DEF TxInv

\* The holder of SQLite's write lock decides on the row as it is in the table:
\* no commit can slip in between its SELECT and its COMMIT.
THEOREM HolderReadsTable == Spec => []HolderSeesCurrentRow
<1>1. TxInv => HolderSeesCurrentRow
  BY DEF TxInv, LockInv, Ordered, Snapshot, HolderSeesCurrentRow
<1>2. QED
  BY <1>1, TxInvariant, PTL

-----------------------------------------------------------------------------
(* The refinement.  The table, the history and the last clock reading of a *)
(* row change at the commit only, and a commit is the step of KeyStore     *)
(* with the reading taken before it: that is where the snapshot and the    *)
(* order of readings are needed.                                           *)

\* KeyStore decides with the same operators.
LEMMA SameOperators ==
  ASSUME NEW r, NEW row, NEW search, NEW t
  PROVE /\ KS!NoRow = NoRow
        /\ KS!RevokedRow(row) = RevokedRow(row)
        /\ KS!Reason(r, row, search, t) = Reason(r, row, search, t)
        /\ KS!Stored(r, row, search, t) = Stored(r, row, search, t)
<1>1. KS!NoRow = NoRow /\ KS!RevokedRow(row) = RevokedRow(row)
  BY DEF KS!NoRow, NoRow, KS!RevokedRow, RevokedRow
<1>2. \A v : KS!JsRate(v) = JsRate(v) /\ KS!JsCooldown(v) = JsCooldown(v)
  BY DEF KS!JsRate, JsRate, KS!JsCooldown, JsCooldown
<1>3. KS!JsWindow(row, t) = JsWindow(row, t)
  BY DEF KS!JsWindow, JsWindow, KS!JsWindowOver, JsWindowOver, KS!Present, Present
<1>4. KS!JsReason(row, search, t) = JsReason(row, search, t)
  BY <1>1, <1>2, <1>3
  DEF KS!JsReason, JsReason, KS!JsPastExpiry, JsPastExpiry, KS!JsCooling, JsCooling,
      KS!Present, Present
<1>5. KS!RsWindowCount(row, t) = RsWindowCount(row, t)
  BY DEF KS!RsWindowCount, RsWindowCount
<1>6. KS!RsReason(row, search, t) = RsReason(row, search, t)
  BY <1>1, <1>5
  DEF KS!RsReason, RsReason, KS!RsCooling, RsCooling, KS!Clamp, Clamp
<1>7. KS!JsCharged(row, search, t) = JsCharged(row, search, t)
  BY <1>2, <1>3 DEF KS!JsCharged, JsCharged
<1>8. KS!RsCharged(row, search, t) = RsCharged(row, search, t)
  BY <1>5 DEF KS!RsCharged, RsCharged, KS!RsWindowStart, RsWindowStart
<1>9. KS!JsStored(row, search, t) = JsStored(row, search, t)
  BY <1>1, <1>4, <1>7 DEF KS!JsStored, JsStored
<1>10. KS!RsStored(row, search, t) = RsStored(row, search, t)
  BY <1>1, <1>6, <1>8 DEF KS!RsStored, RsStored
<1>11. QED
  BY <1>1, <1>4, <1>6, <1>9, <1>10 DEF KS!Reason, Reason, KS!Stored, Stored

LEMMA SameCreated ==
  ASSUME NEW r, NEW t, NEW rate, NEW lifetime, NEW cooldown
  PROVE KS!CreatedRow(r, t, rate, lifetime, cooldown)
          = CreatedRow(r, t, rate, lifetime, cooldown)
<1>1. /\ KS!JsRate(rate) = JsRate(rate) /\ KS!RsRate(rate) = RsRate(rate)
      /\ KS!JsCooldown(cooldown) = JsCooldown(cooldown)
      /\ KS!RsCooldown(cooldown) = RsCooldown(cooldown)
  BY DEF KS!JsRate, JsRate, KS!RsRate, RsRate, KS!JsCooldown, JsCooldown,
         KS!RsCooldown, RsCooldown, KS!Clamp, Clamp
<1>2. /\ KS!JsExpires(t, lifetime) = JsExpires(t, lifetime)
      /\ KS!RsExpires(t, lifetime) = RsExpires(t, lifetime)
  BY DEF KS!JsExpires, JsExpires, KS!RsExpires, RsExpires
<1>3. QED
  BY <1>1, <1>2
  DEF KS!CreatedRow, CreatedRow, KS!JsNewRow, JsNewRow, KS!RsNewRow, RsNewRow,
      KS!NewRow, NewRow

LEMMA CommitIsValidate ==
  ASSUME TxInv, NEW c \in Conns, Commit(c)
  PROVE /\ call[c] \in Call /\ call[c].at \in 1..MaxTime
        /\ KS!ValidateKey(RuntimeOf[c], call[c].key, call[c].search, call[c].at)
<1> DEFINE k == call[c].key
           t == call[c].at
           new == Wanted(c)
<1>1. /\ call[c] \in Call /\ call[c].row = rows[k] /\ new # rows[k]
      /\ rows' = [rows EXCEPT ![k] = new]
      /\ t \in 1..now /\ stamp[k] <= t
  BY CommitWrites
<1>2. k \in Keys /\ t \in Int
  BY <1>1 DEF Call
<1>3. t \in 1..MaxTime
  BY <1>1, KeyStoreTxAssumption DEF TxInv, TypeOK
<1>4. rows[k] # rows'[k] /\ stamp[k] \in Int
  BY <1>1, <1>2 DEF TxInv, TypeOK
<1>5. KS!Reading(k, t)
  BY <1>1, <1>2, <1>4 DEF KS!Reading
<1>6. new = KS!Stored(RuntimeOf[c], rows[k], call[c].search, t)
  BY <1>1, SameOperators DEF Wanted
<1>7. Verdict(c) = KS!Reason(RuntimeOf[c], rows[k], call[c].search, t)
  BY <1>1, SameOperators DEF Verdict
<1>8. stamp' = [stamp EXCEPT ![k] = IF rows'[k] # rows[k] THEN t ELSE @]
  BY <1>4 DEF Commit
<1>9. admitted' = IF Verdict(c) = "ok"
                    THEN [admitted EXCEPT ![k] =
                            Append(@, [at |-> t, search |-> call[c].search])]
                    ELSE admitted
  BY DEF Commit
<1>10. KS!ValidateKey(RuntimeOf[c], k, call[c].search, t)
  BY <1>1, <1>5, <1>6, <1>7, <1>8, <1>9 DEF KS!ValidateKey
<1>11. QED
  BY <1>1, <1>3, <1>10

LEMMA TxRefines == TxInv /\ [Next]_vars => [KS!Next]_(KS!vars)
<1> SUFFICES ASSUME TxInv, [Next]_vars PROVE [KS!Next]_(KS!vars)
  OBVIOUS
<1>1. UNCHANGED table => UNCHANGED KS!vars
  BY DEF table, KS!vars
<1>2. ASSUME NEW c \in Conns, Commit(c) PROVE KS!Next
  <2>1. RuntimeOf[c] \in KS!Runtimes
    BY KeyStoreTxAssumption DEF Runtimes, KS!Runtimes
  <2>2. call[c].key \in Keys /\ call[c].search \in BOOLEAN
    BY <1>2, CommitIsValidate DEF Call
  <2>3. QED
    BY <1>2, <2>1, <2>2, CommitIsValidate DEF KS!Next
<1>3. ASSUME NEW c \in Conns, NEW k \in Keys, Revoke(c, k) PROVE KS!Next
  BY <1>3, SameOperators DEF Revoke, KS!RevokeKey, KS!Next
<1>4. ASSUME NEW c \in Conns, NEW k \in Keys, NEW rate \in Rates,
             NEW lifetime \in Lifetimes, NEW cooldown \in Cooldowns,
             Create(c, k, rate, lifetime, cooldown)
      PROVE KS!Next
  <2>1. RuntimeOf[c] \in KS!Runtimes /\ now \in 1..MaxTime
    BY KeyStoreTxAssumption DEF Runtimes, KS!Runtimes, TxInv, ClockInv
  <2>2. KS!CreateKey(RuntimeOf[c], k, now, rate, lifetime, cooldown)
    BY <1>4, SameOperators, SameCreated DEF Create, KS!CreateKey
  <2>3. QED
    BY <2>1, <2>2 DEF KS!Next
<1>5. ASSUME NEW c \in Conns, Progress(c), ~Commit(c) PROVE UNCHANGED table
  BY <1>5 DEF Progress, JsBegin, Read, Decide, RsUpgrade, Refuse, Busy
<1>6. ASSUME NEW c \in Conns, Crash(c) PROVE UNCHANGED table
  BY <1>6 DEF Crash
<1>7. ASSUME NEW c \in Conns, NEW k \in Keys, NEW search \in BOOLEAN,
             Receive(c, k, search)
      PROVE UNCHANGED table
  BY <1>7 DEF Receive
<1>8. Tick \/ UNCHANGED vars => UNCHANGED table
  BY DEF Tick, vars, table
<1>9. QED
  BY <1>1, <1>2, <1>3, <1>4, <1>5, <1>6, <1>7, <1>8 DEF Next

\* The transactions of any number of Node and Rust processes on one database,
\* with their locks, snapshots, refusals and crashes, implement the key store
\* whose every operation is one step.
THEOREM TransactionsAreAtomic == Spec => ImplementsKeyStore
<1>1. Init => KS!Init
  BY SameOperators DEF Init, KS!Init
<1>2. QED
  BY <1>1, TxInvariant, TxRefines, PTL DEF Spec, ImplementsKeyStore, KS!Spec

-----------------------------------------------------------------------------
(* What is proved of the one-step store holds of the transactions.         *)

Store == INSTANCE KeyStoreProofs
           WITH clock <- stamp, Times <- 1..MaxTime, StepBack <- 0

\* Node takes a stored 0 for NULL: no key is given the epoch as its expiry.
NoEpoch == \A t \in 1..MaxTime, s \in Lifetimes : s # None => t + s * Second # 0

\* The store that is implemented is the store the theorems are about.
LEMMA SameStore == KS!Spec <=> Store!Spec
BY DEF
  KS!Spec, KS!Init, KS!Next, KS!vars, KS!CreateKey, KS!ValidateKey, KS!Reading,
  KS!RevokeKey, KS!RevokedRow, KS!Runtimes, KS!CreatedRow, KS!JsNewRow,
  KS!RsNewRow, KS!NewRow, KS!JsExpires, KS!RsExpires, KS!RsRate, KS!RsCooldown,
  KS!Reason, KS!Stored, KS!JsStored, KS!JsReason, KS!JsPastExpiry, KS!NoRow,
  KS!JsCharged, KS!JsWindow, KS!JsWindowOver, KS!Present, KS!JsRate,
  KS!JsCooling, KS!JsCooldown, KS!RsStored, KS!RsReason, KS!RsCharged,
  KS!RsWindowStart, KS!RsWindowCount, KS!RsCooling, KS!Clamp,
  Store!Spec, Store!Init, Store!Next, Store!vars, Store!CreateKey,
  Store!ValidateKey, Store!Reading, Store!RevokeKey, Store!RevokedRow,
  Store!Runtimes, Store!CreatedRow, Store!JsNewRow, Store!RsNewRow,
  Store!NewRow, Store!JsExpires, Store!RsExpires, Store!RsRate,
  Store!RsCooldown, Store!Reason, Store!Stored, Store!JsStored, Store!JsReason,
  Store!JsPastExpiry, Store!NoRow, Store!JsCharged, Store!JsWindow,
  Store!JsWindowOver, Store!Present, Store!JsRate, Store!JsCooling,
  Store!JsCooldown, Store!RsStored, Store!RsReason, Store!RsCharged,
  Store!RsWindowStart, Store!RsWindowCount, Store!RsCooling, Store!Clamp

\* On one database shared by any number of Node and Rust processes, which may
\* die at any point: searches of a key are its cooldown apart, no span of a
\* window holds more than twice its rate, the stored counters are exact, none
\* is admitted past its expiry, and a refused key stays refused.
THEOREM SharedStoreIsSafe ==
  ASSUME NoEpoch
  PROVE /\ Spec => []Store!SearchSpacing
        /\ Spec => []Store!TwiceRatePerSpan
        /\ Spec => []Store!CountersExact
        /\ Spec => []Store!NeverPastExpiry
        /\ Spec => []Store!QuietCallerAdmitted
        /\ Spec => Store!RefusalIsFinal
<1>1. Store!KeyStoreAssumption /\ Store!KeyRowAssumption /\ Store!NoEpochExpiry
  BY KeyStoreTxAssumption, KeyRowAssumption
  DEF Store!KeyStoreAssumption, Store!KeyRowAssumption, Store!NoEpochExpiry, NoEpoch
<1>2. Spec => Store!Spec
  BY TransactionsAreAtomic, SameStore DEF ImplementsKeyStore
<1>3. Store!Spec => []Store!SearchSpacing
  BY <1>1, Store!SearchesSpaced
<1>4. Store!Spec => []Store!TwiceRatePerSpan
  BY <1>1, Store!AtMostTwiceTheRate
<1>5. Store!Spec => []Store!CountersExact
  BY <1>1, Store!CountersAreExact
<1>6. Store!Spec => []Store!NeverPastExpiry
  BY <1>1, Store!AdmittedInTime
<1>7. Store!Spec => []Store!QuietCallerAdmitted
  BY <1>1, Store!NobodyLockedOut
<1>8. Store!Spec => Store!RefusalIsFinal
  BY <1>1, Store!NoWayBack
<1>9. QED
  BY <1>2, <1>3, <1>4, <1>5, <1>6, <1>7, <1>8
=============================================================================
