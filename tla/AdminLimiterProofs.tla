------------------------- MODULE AdminLimiterProofs -------------------------
(***************************************************************************)
(* Theorems about AdminLimiter, for any number of workers, any quota and   *)
(* any window: the quota of a window, and what a span of its length may    *)
(* hold when workers are counted in another order than their readings.     *)
(***************************************************************************)
EXTENDS AdminLimiter, FiniteSetTheorems, SequenceTheorems, TLAPS

-----------------------------------------------------------------------------
(* The inductive invariant, about the history s of one address.            *)

\* The calls allowed in window w.
AllowedIn(s, w) == {i \in DOMAIN s : s[i].allowed /\ s[i].window = w}

\* Windows follow one another, more than a window apart; each was opened by a
\* call that was allowed, and counts no call that comes after its end.
Sequential(s) ==
    \A i, j \in DOMAIN s :
      /\ j <= i => s[j].window <= s[i].window
      /\ s[j].window < s[i].window => s[i].window - s[j].window > Window

Opened(s) ==
    \A i \in DOMAIN s :
      /\ s[i].at <= s[i].window + Window
      /\ \E j \in DOMAIN s :
           s[j].allowed /\ s[j].window = s[i].window /\ s[j].at = s[j].window

\* The entry of the map is the last window, and its counter is exact up to
\* the quota: this is what makes the quota inductive.
Current(s, entry) ==
    IF entry = None THEN s = <<>>
    ELSE /\ entry.start <= now
         /\ entry.count >= 1
         /\ s # <<>> /\ s[Len(s)].window = entry.start
         /\ Cardinality(AllowedIn(s, entry.start))
              = IF entry.count <= Max THEN entry.count ELSE Max

Quota(s) == \A w \in Nat : Cardinality(AllowedIn(s, w)) <= Max

\* Calls with a reading from before m that are counted at m or later, and the
\* workers that still hold such a reading: when the first window at m or later
\* was opened, each was held by another worker than the one that opened it.
Late(s, m) == {i \in DOMAIN s : s[i].at < m /\ s[i].window >= m}

Holding(ip, m) ==
    {w \in Workers : call[w] # None /\ call[w].ip = ip /\ call[w].at < m}

FewLate(ip, s) ==
    \A m \in Nat :
      (\E i \in DOMAIN s : s[i].window >= m) =>
        Cardinality(Late(s, m)) + Cardinality(Holding(ip, m))
          <= Cardinality(Workers) - 1

AddressInv(ip) ==
    /\ Sequential(served[ip])
    /\ Opened(served[ip])
    /\ Current(served[ip], windows[ip])
    /\ Quota(served[ip])
    /\ FewLate(ip, served[ip])

\* No reading is from the future.
Read == \A w \in Workers : call[w] # None => call[w].at <= now

LimiterInv == TypeOK /\ Read /\ \A ip \in Ips : AddressInv(ip)

-----------------------------------------------------------------------------
(* Histories and sets of calls.                                            *)

LEMMA Grown ==
  ASSUME NEW s \in Seq(Served), NEW e \in Served
  PROVE LET t == Append(s, e) IN
        /\ Len(s) \in Nat /\ DOMAIN s = 1..Len(s)
        /\ t \in Seq(Served) /\ t # <<>> /\ Len(t) = Len(s) + 1
        /\ DOMAIN t = DOMAIN s \cup {Len(s) + 1}
        /\ Len(s) + 1 \notin DOMAIN s
        /\ \A i \in DOMAIN s : t[i] = s[i] /\ s[i] \in Served
        /\ t[Len(s) + 1] = e
BY AppendProperties, LenProperties, ElementOfSeq

LEMMA Finite ==
  ASSUME NEW s \in Seq(Served), NEW S \in SUBSET DOMAIN s
  PROVE IsFiniteSet(S) /\ Cardinality(S) \in Nat
<1>1. IsFiniteSet(1..Len(s)) /\ DOMAIN s = 1..Len(s)
  BY FS_Interval, LenProperties
<1>2. QED
  BY <1>1, FS_Subset, FS_CardinalityType

\* One more call in the window it is counted in, and in no other.
LEMMA OneMoreAllowed ==
  ASSUME NEW s \in Seq(Served), NEW e \in Served, NEW w \in Nat
  PROVE /\ Cardinality(AllowedIn(s, w)) \in Nat
        /\ Cardinality(AllowedIn(Append(s, e), w)) =
             IF e.allowed /\ e.window = w THEN Cardinality(AllowedIn(s, w)) + 1
             ELSE Cardinality(AllowedIn(s, w))
<1>1. IsFiniteSet(AllowedIn(s, w)) /\ Cardinality(AllowedIn(s, w)) \in Nat
  BY Finite DEF AllowedIn
<1>2. Len(s) + 1 \notin AllowedIn(s, w)
  BY Grown DEF AllowedIn
<1>3. CASE e.allowed /\ e.window = w
  <2>1. AllowedIn(Append(s, e), w) = AllowedIn(s, w) \cup {Len(s) + 1}
    BY <1>3, Grown DEF AllowedIn
  <2>2. QED
    BY <1>1, <1>2, <1>3, <2>1, FS_AddElement
<1>4. CASE ~(e.allowed /\ e.window = w)
  <2>1. AllowedIn(Append(s, e), w) = AllowedIn(s, w)
    BY <1>4, Grown DEF AllowedIn
  <2>2. QED
    BY <1>1, <1>4, <2>1
<1>5. QED
  BY <1>3, <1>4

LEMMA OneMoreLate ==
  ASSUME NEW s \in Seq(Served), NEW e \in Served, NEW m \in Nat
  PROVE /\ Cardinality(Late(s, m)) \in Nat
        /\ Cardinality(Late(Append(s, e), m)) =
             IF e.at < m /\ e.window >= m THEN Cardinality(Late(s, m)) + 1
             ELSE Cardinality(Late(s, m))
<1>1. IsFiniteSet(Late(s, m)) /\ Cardinality(Late(s, m)) \in Nat
  BY Finite DEF Late
<1>2. Len(s) + 1 \notin Late(s, m)
  BY Grown DEF Late
<1>3. CASE e.at < m /\ e.window >= m
  <2>1. Late(Append(s, e), m) = Late(s, m) \cup {Len(s) + 1}
    BY <1>3, Grown DEF Late
  <2>2. QED
    BY <1>1, <1>2, <1>3, <2>1, FS_AddElement
<1>4. CASE ~(e.at < m /\ e.window >= m)
  <2>1. Late(Append(s, e), m) = Late(s, m)
    BY <1>4, Grown DEF Late
  <2>2. QED
    BY <1>1, <1>4, <2>1
<1>5. QED
  BY <1>3, <1>4

LEMMA HoldersFinite ==
  ASSUME NEW ip, NEW m
  PROVE /\ Cardinality(Workers) \in Nat
        /\ IsFiniteSet(Holding(ip, m)) /\ Cardinality(Holding(ip, m)) \in Nat
        /\ Cardinality(Holding(ip, m)) <= Cardinality(Workers)
<1>1. Holding(ip, m) \in SUBSET Workers
  BY DEF Holding
<1>2. QED
  BY <1>1, AdminLimiterAssumption, FS_Subset, FS_CardinalityType

-----------------------------------------------------------------------------
(* A call that is counted.                                                 *)

\* What the state tells of the call of worker w and of its address.
ServedEntry(w) == Counted(windows[call[w].ip], call[w].at)

ServedCall(w) ==
    [ at |-> call[w].at, allowed |-> Allowed(ServedEntry(w)),
      window |-> ServedEntry(w).start ]

LEMMA ServeFacts ==
  ASSUME LimiterInv, NEW w \in Workers, Serve(w)
  PROVE LET ip == call[w].ip
            t == call[w].at
            e == ServedCall(w)
        IN /\ ip \in Ips /\ t \in Nat /\ now \in Nat /\ t <= now
           /\ served[ip] \in Seq(Served) /\ windows[ip] \in Entry \cup {None}
           /\ AddressInv(ip)
           /\ ServedEntry(w) \in Entry /\ e \in Served
           /\ e.at = t /\ e.window = ServedEntry(w).start
           /\ e.allowed <=> ServedEntry(w).count <= Max
           /\ served' = [served EXCEPT ![ip] = Append(served[ip], e)]
           /\ windows' = [windows EXCEPT ![ip] = ServedEntry(w)]
           /\ call' = [call EXCEPT ![w] = None] /\ now' = now
<1> DEFINE ip == call[w].ip
           t == call[w].at
<1>1. call[w] \in [ip: Ips, at: 0..MaxTime]
  BY DEF LimiterInv, TypeOK, Serve
<1>2. ip \in Ips /\ t \in Nat /\ now \in Nat /\ t <= now
  BY <1>1, AdminLimiterAssumption DEF LimiterInv, TypeOK, Read, Serve
<1>3. /\ served[ip] \in Seq(Served) /\ windows[ip] \in Entry \cup {None}
      /\ AddressInv(ip)
  BY <1>2 DEF LimiterInv, TypeOK
<1>4. ServedEntry(w) \in Entry
  BY <1>2, <1>3 DEF ServedEntry, Counted, Over, Entry
<1>5. /\ ServedCall(w) \in Served
      /\ ServedCall(w).at = t /\ ServedCall(w).window = ServedEntry(w).start
      /\ ServedCall(w).allowed <=> ServedEntry(w).count <= Max
  <2>1. ServedEntry(w).start \in Nat /\ Allowed(ServedEntry(w)) \in BOOLEAN
    BY <1>4 DEF Entry, Allowed
  <2>2. ServedCall(w).allowed = Allowed(ServedEntry(w))
    BY DEF ServedCall
  <2>3. ServedCall(w).allowed <=> ServedEntry(w).count <= Max
    BY <2>2 DEF Allowed
  <2>4. QED
    BY <1>2, <2>1, <2>3 DEF ServedCall, Served
<1>6. /\ served' = [served EXCEPT ![ip] = Append(served[ip], ServedCall(w))]
      /\ windows' = [windows EXCEPT ![ip] = ServedEntry(w)]
      /\ call' = [call EXCEPT ![w] = None] /\ now' = now
  BY DEF Serve, ServedCall, ServedEntry
<1>7. QED
  BY <1>2, <1>3, <1>4, <1>5, <1>6

\* The call opens a window that lies more than a window after all others, or
\* is one more in the last.
LEMMA OpensOrJoins ==
  ASSUME NEW ip, NEW s \in Seq(Served), NEW entry \in Entry \cup {None},
         NEW t \in Nat, Sequential(s), Current(s, entry)
  PROVE LET new == Counted(entry, t)
            n == Len(s)
        IN \/ /\ new = [start |-> t, count |-> 1]
              /\ \A i \in DOMAIN s : t - s[i].window > Window
           \/ /\ entry \in Entry /\ new.start = entry.start
              /\ new.count = entry.count + 1
              /\ t <= entry.start + Window
              /\ n \in DOMAIN s /\ s[n].window = entry.start
              /\ \A i \in DOMAIN s : s[i].window <= entry.start
<1>1. DOMAIN s = 1..Len(s) /\ Len(s) \in Nat /\ \A i \in DOMAIN s : s[i] \in Served
  BY LenProperties, ElementOfSeq
<1>2. CASE entry = None
  <2>1. s = <<>>
    BY <1>2 DEF Current
  <2>2. DOMAIN s = {}
    BY <2>1
  <2>3. QED
    BY <1>2, <2>2 DEF Counted, Over
<1>3. CASE entry # None
  <2>1. entry \in Entry /\ entry.start \in Nat /\ s # <<>> /\ s[Len(s)].window = entry.start
    BY <1>3 DEF Current, Entry
  <2>2. Len(s) \in DOMAIN s
    BY <1>1, <2>1, EmptySeq
  <2>3. \A i \in DOMAIN s : s[i].window <= entry.start /\ s[i].window \in Nat
    BY <1>1, <2>1, <2>2 DEF Sequential, Served
  <2>4. CASE Over(entry, t)
    BY <1>3, <2>1, <2>3, <2>4, AdminLimiterAssumption DEF Counted, Over
  <2>5. CASE ~Over(entry, t)
    <3>1. Counted(entry, t) = [entry EXCEPT !.count = @ + 1] /\ t <= entry.start + Window
      BY <2>1, <2>5, AdminLimiterAssumption DEF Counted, Over
    <3>2. Counted(entry, t).start = entry.start /\ Counted(entry, t).count = entry.count + 1
      BY <2>1, <3>1 DEF Entry
    <3>3. QED
      BY <2>1, <2>2, <2>3, <3>1, <3>2
  <2>6. QED
    BY <2>4, <2>5
<1>4. QED
  BY <1>2, <1>3

\* The first call of a window.
LEMMA OpensWindow ==
  ASSUME NEW s \in Seq(Served), NEW e \in Served, NEW entry,
         Sequential(s), Opened(s), Quota(s),
         entry = [start |-> e.at, count |-> 1], e.window = e.at, e.allowed,
         e.at <= now, \A i \in DOMAIN s : e.at - s[i].window > Window
  PROVE LET t == Append(s, e) IN
        Sequential(t) /\ Opened(t) /\ Quota(t) /\ Current(t, entry)
<1> DEFINE t == Append(s, e)
           n == Len(s) + 1
<1>1. /\ DOMAIN t = DOMAIN s \cup {n} /\ t[n] = e /\ n \notin DOMAIN s
      /\ DOMAIN s = 1..Len(s) /\ Len(s) \in Nat
      /\ \A i \in DOMAIN s : t[i] = s[i] /\ s[i] \in Served
      /\ t # <<>> /\ Len(t) = n
  BY Grown
<1>2. e.at \in Nat /\ \A i \in DOMAIN s : s[i].window \in Nat /\ s[i].at \in Nat
  BY <1>1 DEF Served
<1>3. Window \in Nat /\ Max \in Nat \ {0}
  BY AdminLimiterAssumption
<1> HIDE DEF t
<1>4. Sequential(t)
  <2> SUFFICES ASSUME NEW i \in DOMAIN t, NEW j \in DOMAIN t
               PROVE /\ j <= i => t[j].window <= t[i].window
                     /\ t[j].window < t[i].window => t[i].window - t[j].window > Window
    BY DEF Sequential
  <2>1. CASE i \in DOMAIN s /\ j \in DOMAIN s
    BY <1>1, <2>1 DEF Sequential
  <2>2. CASE i = n /\ j \in DOMAIN s
    BY <1>1, <1>2, <1>3, <2>2
  <2>3. CASE i \in DOMAIN s /\ j = n
    BY <1>1, <1>2, <1>3, <2>3
  <2>4. CASE i = n /\ j = n
    BY <1>1, <1>2, <2>4
  <2>5. QED
    BY <1>1, <2>1, <2>2, <2>3, <2>4
<1>5. Opened(t)
  <2>1. \A i \in DOMAIN s :
          /\ t[i].at <= t[i].window + Window
          /\ \E j \in DOMAIN s :
               t[j].allowed /\ t[j].window = t[i].window /\ t[j].at = t[j].window
    BY <1>1 DEF Opened
  <2>2. t[n].at <= t[n].window + Window
    BY <1>1, <1>2, <1>3
  <2>3. QED
    BY <1>1, <2>1, <2>2 DEF Opened
<1>6. Cardinality(AllowedIn(s, e.at)) = 0
  <2>1. AllowedIn(s, e.at) = {}
    BY <1>2, <1>3 DEF AllowedIn
  <2>2. QED
    BY <2>1, FS_EmptySet
<1>7. Quota(t)
  <2> SUFFICES ASSUME NEW w \in Nat PROVE Cardinality(AllowedIn(t, w)) <= Max
    BY DEF Quota
  <2>1. Cardinality(AllowedIn(s, w)) <= Max
    BY DEF Quota
  <2>2. Cardinality(AllowedIn(t, w)) = IF w = e.at THEN Cardinality(AllowedIn(s, w)) + 1
                                       ELSE Cardinality(AllowedIn(s, w))
    BY OneMoreAllowed DEF t
  <2>3. QED
    BY <1>3, <1>6, <2>1, <2>2
<1>8. Current(t, entry)
  <2>1. entry.start = e.at /\ entry.count = 1 /\ entry # None
    BY <1>2, AdminLimiterAssumption
  <2>2. Cardinality(AllowedIn(t, e.at)) = 1
    BY <1>2, <1>6, OneMoreAllowed DEF t
  <2>3. QED
    BY <1>1, <1>3, <2>1, <2>2 DEF Current
<1>9. QED
  BY <1>4, <1>5, <1>7, <1>8 DEF t

\* One more call of the last window, allowed while its counter is within Max.
LEMMA JoinsWindow ==
  ASSUME NEW s \in Seq(Served), NEW e \in Served, NEW entry \in Entry,
         NEW new \in Entry, Sequential(s), Opened(s), Quota(s), Current(s, entry),
         new.start = entry.start, new.count = entry.count + 1,
         e.window = entry.start, e.allowed <=> new.count <= Max,
         e.at <= entry.start + Window,
         Len(s) \in DOMAIN s, s[Len(s)].window = entry.start,
         \A i \in DOMAIN s : s[i].window <= entry.start
  PROVE LET t == Append(s, e) IN
        Sequential(t) /\ Opened(t) /\ Quota(t) /\ Current(t, new)
<1> DEFINE t == Append(s, e)
           n == Len(s) + 1
<1>1. /\ DOMAIN t = DOMAIN s \cup {n} /\ t[n] = e /\ n \notin DOMAIN s
      /\ DOMAIN s = 1..Len(s) /\ Len(s) \in Nat
      /\ \A i \in DOMAIN s : t[i] = s[i] /\ s[i] \in Served
      /\ t # <<>> /\ Len(t) = n
  BY Grown
<1>2. /\ entry.start \in Nat /\ entry.count \in Nat
      /\ \A i \in DOMAIN s : s[i].window \in Nat /\ s[i].at \in Nat
  BY <1>1 DEF Served, Entry
<1>3. Window \in Nat /\ Max \in Nat \ {0} /\ new # None /\ entry # None
  BY AdminLimiterAssumption DEF Entry
<1>4. /\ entry.start <= now /\ entry.count >= 1
      /\ Cardinality(AllowedIn(s, entry.start))
           = IF entry.count <= Max THEN entry.count ELSE Max
  BY <1>3 DEF Current
<1>5. \A w \in Nat :
        Cardinality(AllowedIn(t, w)) =
          IF e.allowed /\ entry.start = w THEN Cardinality(AllowedIn(s, w)) + 1
          ELSE Cardinality(AllowedIn(s, w))
  BY OneMoreAllowed
<1> HIDE DEF t
<1>6. Sequential(t)
  <2> SUFFICES ASSUME NEW i \in DOMAIN t, NEW j \in DOMAIN t
               PROVE /\ j <= i => t[j].window <= t[i].window
                     /\ t[j].window < t[i].window => t[i].window - t[j].window > Window
    BY DEF Sequential
  <2>1. CASE i \in DOMAIN s /\ j \in DOMAIN s
    BY <1>1, <2>1 DEF Sequential
  <2>2. CASE i = n /\ j \in DOMAIN s
    BY <1>1, <1>2, <2>2 DEF Sequential
  <2>3. CASE i \in DOMAIN s /\ j = n
    BY <1>1, <1>2, <1>3, <2>3
  <2>4. CASE i = n /\ j = n
    BY <1>1, <1>2, <2>4
  <2>5. QED
    BY <1>1, <2>1, <2>2, <2>3, <2>4
<1>7. Opened(t)
  <2>1. \A i \in DOMAIN s :
          /\ t[i].at <= t[i].window + Window
          /\ \E j \in DOMAIN s :
               t[j].allowed /\ t[j].window = t[i].window /\ t[j].at = t[j].window
    BY <1>1 DEF Opened
  <2>2. PICK j \in DOMAIN s :
          t[j].allowed /\ t[j].window = t[Len(s)].window /\ t[j].at = t[j].window
    BY <2>1
  <2>3. t[n].at <= t[n].window + Window /\ t[n].window = t[Len(s)].window
    BY <1>1
  <2>4. QED
    BY <1>1, <2>1, <2>2, <2>3 DEF Opened
<1>8. Quota(t)
  <2> SUFFICES ASSUME NEW w \in Nat PROVE Cardinality(AllowedIn(t, w)) <= Max
    BY DEF Quota
  <2>1. Cardinality(AllowedIn(s, w)) <= Max
    BY DEF Quota
  <2>2. QED
    BY <1>2, <1>3, <1>4, <1>5, <2>1
<1>9. Current(t, new)
  <2>1. Cardinality(AllowedIn(t, entry.start))
          = IF new.count <= Max THEN new.count ELSE Max
    BY <1>2, <1>3, <1>4, <1>5
  <2>2. QED
    BY <1>1, <1>2, <1>3, <1>4, <2>1 DEF Current
<1>10. QED
  BY <1>6, <1>7, <1>8, <1>9 DEF t

\* The worker that is served no longer holds a reading.
LEMMA HoldsNoMore ==
  ASSUME LimiterInv, NEW w \in Workers, Serve(w), NEW m \in Nat, NEW ip \in Ips
  PROVE /\ Holding(ip, m)' = Holding(ip, m) \ {w}
        /\ w \in Holding(ip, m) <=> call[w].ip = ip /\ call[w].at < m
<1>1. call' = [call EXCEPT ![w] = None] /\ call[w] # None
  BY DEF Serve
<1>2. call \in [Workers -> [ip: Ips, at: 0..MaxTime] \cup {None}]
  BY DEF LimiterInv, TypeOK
<1>3. \A v \in Workers \ {w} : call'[v] = call[v]
  BY <1>1, <1>2
<1>4. call'[w] = None
  BY <1>1, <1>2
<1>5. QED
  BY <1>1, <1>3, <1>4 DEF Holding

\* A call with an old reading stops being held as it starts being late; the
\* first window at m or later is opened by a worker that holds no such reading.
LEMMA ServedFewLate ==
  ASSUME LimiterInv, NEW w \in Workers, Serve(w),
         NEW ip \in Ips, ip = call[w].ip
  PROVE FewLate(ip, served[ip])'
<1> DEFINE s == served[ip]
           e == ServedCall(w)
           t == Append(s, e)
<1>1. /\ call[w].at \in Nat /\ s \in Seq(Served) /\ e \in Served
      /\ e.at = call[w].at /\ e.window = ServedEntry(w).start
      /\ AddressInv(ip) /\ windows[ip] \in Entry \cup {None}
      /\ served' = [served EXCEPT ![ip] = t]
  BY ServeFacts
<1>2. served'[ip] = t
  BY <1>1 DEF LimiterInv, TypeOK
<1> SUFFICES ASSUME NEW m \in Nat, \E i \in DOMAIN t : t[i].window >= m
             PROVE Cardinality(Late(t, m)) + Cardinality(Holding(ip, m)')
                     <= Cardinality(Workers) - 1
  BY <1>2 DEF FewLate, Holding
<1>3. /\ Cardinality(Workers) \in Nat /\ Cardinality(Holding(ip, m)) \in Nat
      /\ IsFiniteSet(Holding(ip, m)) /\ Cardinality(Late(s, m)) \in Nat
      /\ e.at \in Nat /\ e.window \in Nat
  BY <1>1, HoldersFinite, OneMoreLate DEF Served
<1>4. Cardinality(Holding(ip, m)') =
        IF e.at < m THEN Cardinality(Holding(ip, m)) - 1
        ELSE Cardinality(Holding(ip, m))
  BY <1>1, <1>3, HoldsNoMore, FS_RemoveElement
<1>5. Cardinality(Late(t, m)) =
        IF e.at < m /\ e.window >= m THEN Cardinality(Late(s, m)) + 1
        ELSE Cardinality(Late(s, m))
  BY <1>1, OneMoreLate
<1>6. CASE \E i \in DOMAIN s : s[i].window >= m
  <2>1. Cardinality(Late(s, m)) + Cardinality(Holding(ip, m))
          <= Cardinality(Workers) - 1
    BY <1>1, <1>6 DEF AddressInv, FewLate
  <2>2. QED
    BY <1>3, <1>4, <1>5, <2>1
<1>7. CASE ~ \E i \in DOMAIN s : s[i].window >= m
  <2>1. e.window >= m
    BY <1>1, <1>7, Grown
  <2>2. e.window = e.at
    <3>1. Sequential(s) /\ Current(s, windows[ip])
      BY <1>1 DEF AddressInv
    <3>2. \/ ServedEntry(w) = [start |-> e.at, count |-> 1]
          \/ /\ Len(s) \in DOMAIN s
             /\ s[Len(s)].window = ServedEntry(w).start
      BY <1>1, <3>1, OpensOrJoins DEF ServedEntry
    <3>3. QED
      BY <1>1, <1>7, <2>1, <3>2
  <2>3. Cardinality(Late(s, m)) = 0
    <3>1. Late(s, m) = {}
      BY <1>7 DEF Late
    <3>2. QED
      BY <3>1, FS_EmptySet
  <2>4. Cardinality(Holding(ip, m)') <= Cardinality(Workers) - 1
    <3>1. Holding(ip, m)' \in SUBSET (Workers \ {w})
      BY HoldsNoMore DEF Holding
    <3>2. /\ IsFiniteSet(Workers \ {w})
          /\ Cardinality(Workers \ {w}) = Cardinality(Workers) - 1
      BY AdminLimiterAssumption, FS_RemoveElement
    <3>3. QED
      BY <3>1, <3>2, FS_Subset
  <2>5. QED
    BY <1>3, <1>4, <1>5, <2>1, <2>2, <2>3, <2>4
<1>8. QED
  BY <1>6, <1>7

-----------------------------------------------------------------------------
(* The invariant, step by step.                                            *)

\* The address whose call is counted.
LEMMA ServedAddress ==
  ASSUME LimiterInv, NEW w \in Workers, Serve(w),
         NEW ip \in Ips, ip = call[w].ip
  PROVE AddressInv(ip)'
<1> DEFINE s == served[ip]
           e == ServedCall(w)
           entry == ServedEntry(w)
<1>1. /\ e.at \in Nat /\ now \in Nat /\ e.at <= now
      /\ s \in Seq(Served) /\ windows[ip] \in Entry \cup {None}
      /\ AddressInv(ip) /\ entry \in Entry /\ e \in Served
      /\ e.at = call[w].at /\ e.window = entry.start
      /\ e.allowed <=> entry.count <= Max
      /\ served' = [served EXCEPT ![ip] = Append(s, e)]
      /\ windows' = [windows EXCEPT ![ip] = entry] /\ now' = now
  BY ServeFacts
<1>2. served'[ip] = Append(s, e) /\ windows'[ip] = entry
  BY <1>1 DEF LimiterInv, TypeOK
<1>3. /\ Sequential(s) /\ Opened(s) /\ Quota(s) /\ Current(s, windows[ip])
  BY <1>1 DEF AddressInv
<1>4. entry = Counted(windows[ip], e.at)
  BY <1>1 DEF ServedEntry
<1> HIDE DEF e, entry
<1>5. /\ Sequential(Append(s, e)) /\ Opened(Append(s, e)) /\ Quota(Append(s, e))
      /\ Current(Append(s, e), entry)
  <2>1. CASE /\ entry = [start |-> e.at, count |-> 1]
             /\ \A i \in DOMAIN s : e.at - s[i].window > Window
    <3>1. e.window = e.at /\ e.allowed
      BY <1>1, <2>1, AdminLimiterAssumption
    <3>2. QED
      BY <1>1, <1>3, <2>1, <3>1, OpensWindow
  <2>2. CASE /\ windows[ip] \in Entry /\ entry.start = windows[ip].start
             /\ entry.count = windows[ip].count + 1
             /\ e.at <= windows[ip].start + Window
             /\ Len(s) \in DOMAIN s /\ s[Len(s)].window = windows[ip].start
             /\ \A i \in DOMAIN s : s[i].window <= windows[ip].start
    BY <1>1, <1>3, <2>2, JoinsWindow
  <2>3. QED
    BY <1>1, <1>3, <1>4, <2>1, <2>2, OpensOrJoins
<1>6. Sequential(served[ip])' /\ Opened(served[ip])' /\ Quota(served[ip])'
  BY <1>2, <1>5
<1>7. Current(served[ip], windows[ip])'
  BY <1>1, <1>2, <1>5 DEF Current, AllowedIn
<1>8. FewLate(ip, served[ip])'
  BY ServedFewLate
<1>9. QED
  BY <1>6, <1>7, <1>8 DEF AddressInv

LEMMA LimiterInit == Init => LimiterInv
<1> SUFFICES ASSUME Init PROVE LimiterInv
  OBVIOUS
<1>1. TypeOK /\ Read
  BY AdminLimiterAssumption DEF Init, TypeOK, Read
<1>2. ASSUME NEW ip \in Ips PROVE AddressInv(ip)
  <2>1. served[ip] = <<>> /\ windows[ip] = None /\ DOMAIN served[ip] = {}
    BY <1>2 DEF Init
  <2>2. \A w \in Nat : AllowedIn(served[ip], w) = {}
    BY <2>1 DEF AllowedIn
  <2>3. Quota(served[ip])
    BY <2>2, FS_EmptySet, AdminLimiterAssumption DEF Quota
  <2>4. QED
    BY <2>1, <2>3 DEF AddressInv, Sequential, Opened, Current, FewLate
<1>3. QED
  BY <1>1, <1>2 DEF LimiterInv

LEMMA LimiterType == LimiterInv /\ [Next]_vars => TypeOK'
<1> SUFFICES ASSUME LimiterInv, [Next]_vars PROVE TypeOK'
  OBVIOUS
<1>1. CASE Tick \/ UNCHANGED vars
  BY <1>1, AdminLimiterAssumption DEF Tick, vars, LimiterInv, TypeOK
<1>2. ASSUME NEW w \in Workers, NEW ip \in Ips, ReadClock(w, ip) PROVE TypeOK'
  BY <1>2 DEF ReadClock, LimiterInv, TypeOK
<1>3. ASSUME NEW w \in Workers, Serve(w) PROVE TypeOK'
  <2>1. /\ call[w].ip \in Ips /\ ServedEntry(w) \in Entry
        /\ Append(served[call[w].ip], ServedCall(w)) \in Seq(Served)
        /\ served' = [served EXCEPT ![call[w].ip] =
                        Append(served[call[w].ip], ServedCall(w))]
        /\ windows' = [windows EXCEPT ![call[w].ip] = ServedEntry(w)]
        /\ call' = [call EXCEPT ![w] = None] /\ now' = now
    BY <1>3, ServeFacts, AppendProperties
  <2>2. QED
    BY <2>1 DEF LimiterInv, TypeOK
<1>4. QED
  BY <1>1, <1>2, <1>3 DEF Next

\* All windows of an address have been opened by now.
LEMMA WindowsOpen ==
  ASSUME LimiterInv, NEW ip \in Ips, NEW i \in DOMAIN served[ip]
  PROVE /\ served[ip][i].window \in Nat /\ now \in Nat
        /\ served[ip][i].window <= now
<1> DEFINE s == served[ip]
<1>1. /\ s \in Seq(Served) /\ windows[ip] \in Entry \cup {None} /\ now \in Nat
      /\ Sequential(s) /\ Current(s, windows[ip])
  BY AdminLimiterAssumption DEF LimiterInv, TypeOK, AddressInv
<1>2. DOMAIN s = 1..Len(s) /\ Len(s) \in Nat /\ s[i] \in Served
  BY <1>1, LenProperties, ElementOfSeq
<1>3. windows[ip] # None
  BY <1>1, <1>2 DEF Current
<1>4. s[Len(s)].window = windows[ip].start /\ windows[ip].start <= now
      /\ windows[ip].start \in Nat
  BY <1>1, <1>3 DEF Current, Entry
<1>5. s[i].window <= s[Len(s)].window
  BY <1>1, <1>2 DEF Sequential
<1>6. QED
  BY <1>1, <1>2, <1>4, <1>5 DEF Served

LEMMA LimiterTick == LimiterInv /\ Tick => LimiterInv'
<1> SUFFICES ASSUME LimiterInv, Tick PROVE LimiterInv'
  OBVIOUS
<1>1. TypeOK'
  BY LimiterType DEF Next
<1>2. now \in Nat /\ now' = now + 1 /\ UNCHANGED <<call, windows, served>>
  BY AdminLimiterAssumption DEF LimiterInv, TypeOK, Tick
<1>3. Read'
  BY <1>2 DEF LimiterInv, TypeOK, Read
<1>4. ASSUME NEW ip \in Ips PROVE AddressInv(ip)'
  <2>1. AddressInv(ip) /\ windows[ip] \in Entry \cup {None}
    BY DEF LimiterInv, TypeOK
  <2>2. Current(served[ip], windows[ip])'
    BY <1>2, <2>1 DEF AddressInv, Current, AllowedIn, Entry
  <2>3. FewLate(ip, served[ip])'
    BY <1>2, <2>1 DEF AddressInv, FewLate, Late, Holding
  <2>4. QED
    BY <1>2, <2>1, <2>2, <2>3
    DEF AddressInv, Sequential, Opened, Quota, AllowedIn
<1>5. QED
  BY <1>1, <1>3, <1>4 DEF LimiterInv

\* A reading is taken after every window was opened: it is not an old one.
LEMMA LimiterRead ==
  ASSUME LimiterInv, NEW w \in Workers, NEW q \in Ips, ReadClock(w, q)
  PROVE LimiterInv'
<1>1. TypeOK'
  BY LimiterType DEF Next
<1>2. now \in Nat /\ UNCHANGED <<now, windows, served>>
  BY AdminLimiterAssumption DEF LimiterInv, TypeOK, ReadClock
<1>3. /\ call[w] = None /\ call'[w] = [ip |-> q, at |-> now] /\ call'[w] # None
      /\ \A v \in Workers \ {w} : call'[v] = call[v]
  <2>1. now \in Nat /\ [ip |-> q, at |-> now] # None
    BY <1>2, AdminLimiterAssumption
  <2>2. QED
    BY <2>1 DEF LimiterInv, TypeOK, ReadClock
<1>4. Read'
  BY <1>2, <1>3 DEF LimiterInv, Read
<1>5. ASSUME NEW ip \in Ips PROVE AddressInv(ip)'
  <2>1. AddressInv(ip)
    BY DEF LimiterInv
  <2>2. FewLate(ip, served[ip])'
    <3> SUFFICES ASSUME NEW m \in Nat, NEW i \in DOMAIN served[ip],
                        served[ip][i].window >= m
                 PROVE Cardinality(Late(served[ip], m)) + Cardinality(Holding(ip, m)')
                         <= Cardinality(Workers) - 1
      BY <1>2 DEF FewLate, Late, Holding
    <3>1. m <= now
      BY <1>2, WindowsOpen
    <3>2. Holding(ip, m)' = Holding(ip, m)
      BY <1>2, <1>3, <3>1 DEF Holding
    <3>3. QED
      BY <2>1, <3>2 DEF AddressInv, FewLate
  <2>3. QED
    BY <1>2, <2>1, <2>2
    DEF AddressInv, Sequential, Opened, Current, Quota, AllowedIn
<1>6. QED
  BY <1>1, <1>4, <1>5 DEF LimiterInv

LEMMA LimiterServe ==
  ASSUME LimiterInv, NEW w \in Workers, Serve(w)
  PROVE LimiterInv'
<1>1. TypeOK'
  BY LimiterType DEF Next
<1>2. /\ served' = [served EXCEPT ![call[w].ip] =
                      Append(served[call[w].ip], ServedCall(w))]
      /\ windows' = [windows EXCEPT ![call[w].ip] = ServedEntry(w)]
      /\ call' = [call EXCEPT ![w] = None] /\ now' = now
  BY ServeFacts
<1>3. Read'
  BY <1>2 DEF LimiterInv, TypeOK, Read
<1>4. ASSUME NEW ip \in Ips, ip # call[w].ip PROVE AddressInv(ip)'
  <2>1. AddressInv(ip)
    BY DEF LimiterInv
  <2>2. served'[ip] = served[ip] /\ windows'[ip] = windows[ip]
    BY <1>2, <1>4 DEF LimiterInv, TypeOK
  <2>3. FewLate(ip, served[ip])'
    <3> SUFFICES ASSUME NEW m \in Nat, NEW i \in DOMAIN served[ip],
                        served[ip][i].window >= m
                 PROVE Cardinality(Late(served[ip], m)) + Cardinality(Holding(ip, m)')
                         <= Cardinality(Workers) - 1
      BY <2>2 DEF FewLate, Late, Holding
    <3>1. w \notin Holding(ip, m)
      BY <1>4, HoldsNoMore
    <3>2. Holding(ip, m)' = Holding(ip, m)
      BY <3>1, HoldsNoMore
    <3>3. QED
      BY <2>1, <3>2 DEF AddressInv, FewLate
  <2>4. Current(served[ip], windows[ip])'
    BY <1>2, <2>1, <2>2 DEF AddressInv, Current
  <2>5. QED
    BY <2>1, <2>2, <2>3, <2>4 DEF AddressInv
<1>5. QED
  BY <1>1, <1>3, <1>4, ServedAddress DEF LimiterInv

LEMMA LimiterStep == LimiterInv /\ [Next]_vars => LimiterInv'
<1>1. LimiterInv /\ UNCHANGED vars => LimiterInv'
  <2> SUFFICES ASSUME LimiterInv, UNCHANGED vars PROVE LimiterInv'
    OBVIOUS
  <2>1. TypeOK' /\ Read'
    BY DEF vars, LimiterInv, TypeOK, Read
  <2>2. ASSUME NEW ip \in Ips PROVE AddressInv(ip)'
    BY DEF vars, LimiterInv, AddressInv, Current, FewLate, Holding
  <2>3. QED
    BY <2>1, <2>2 DEF LimiterInv
<1>2. QED
  BY <1>1, LimiterTick, LimiterRead, LimiterServe DEF Next

\* The entry of an address accounts for the calls served in its window, whichever
\* workers made them.
THEOREM LimiterInvariant == Spec => []LimiterInv
BY LimiterInit, LimiterStep, PTL DEF Spec

\* Type correctness: every worker is at one of its steps, with a reading of the
\* clock no later than now.
THEOREM LimiterTypeCorrect == Spec => []TypeOK
BY LimiterInvariant, PTL DEF LimiterInv

\* No window grants an address more than Max calls and none is ever opened
\* again, for any number of workers and in whatever order they get the mutex.
THEOREM QuotaKept == Spec => []QuotaPerWindow
<1>1. LimiterInv => QuotaPerWindow
  <2> SUFFICES ASSUME LimiterInv, NEW ip \in Ips, NEW i \in DOMAIN served[ip]
               PROVE /\ Cardinality({j \in DOMAIN served[ip] :
                                      served[ip][j].allowed
                                      /\ served[ip][j].window = served[ip][i].window})
                          <= Max
                     /\ \A j \in 1..i : served[ip][j].window <= served[ip][i].window
    BY DEF QuotaPerWindow, Granted
  <2>1. Sequential(served[ip]) /\ Quota(served[ip]) /\ served[ip] \in Seq(Served)
    BY DEF LimiterInv, TypeOK, AddressInv
  <2>2. DOMAIN served[ip] = 1..Len(served[ip]) /\ Len(served[ip]) \in Nat
    BY <2>1, LenProperties
  <2>3. Cardinality(AllowedIn(served[ip], served[ip][i].window)) <= Max
    BY <2>1, WindowsOpen DEF Quota
  <2>4. \A j \in 1..i : served[ip][j].window <= served[ip][i].window
    BY <2>1, <2>2 DEF Sequential
  <2>5. QED
    BY <2>3, <2>4 DEF AllowedIn
<1>2. QED
  BY <1>1, LimiterInvariant, PTL

-----------------------------------------------------------------------------
(* What a span of readings may hold.                                       *)

\* The calls allowed with a reading in the span from a on, and those of them
\* that were counted in a window that begins in it or before.
Span(s, a) == {i \in DOMAIN s : s[i].allowed /\ s[i].at \in a..(a + Window)}

InTime(s, a) == {i \in Span(s, a) : s[i].window <= a + Window}

LEMMA Readings ==
  ASSUME NEW s \in Seq(Served), NEW i \in DOMAIN s
  PROVE s[i] \in Served /\ s[i].window \in Nat /\ s[i].at \in Nat
<1>1. s[i] \in Served
  BY ElementOfSeq, LenProperties
<1>2. QED
  BY <1>1 DEF Served

LEMMA SpanShape ==
  ASSUME NEW s \in Seq(Served), NEW a \in Nat, Opened(s), NEW i \in InTime(s, a)
  PROVE /\ i \in DOMAIN s /\ s[i].allowed
        /\ a <= s[i].at /\ s[i].at <= a + Window
        /\ a <= s[i].window + Window /\ s[i].window <= a + Window
<1>1. i \in DOMAIN s /\ s[i].allowed /\ s[i].window <= a + Window
      /\ s[i].at \in a..(a + Window)
  BY DEF InTime, Span
<1>2. s[i].at <= s[i].window + Window
  BY <1>1 DEF Opened
<1>3. s[i].window \in Nat /\ s[i].at \in Nat /\ Window \in Nat
  BY <1>1, Readings, AdminLimiterAssumption
<1>4. QED
  BY <1>1, <1>2, <1>3

\* There are at most two such windows.  The first of two begins before the
\* span does, so that the span misses the call that opened it.
LEMMA TwoWindows ==
  ASSUME NEW s \in Seq(Served), NEW a \in Nat, Sequential(s), Opened(s), Quota(s),
         NEW p \in InTime(s, a), NEW q \in InTime(s, a),
         s[p].window < s[q].window
  PROVE Cardinality(InTime(s, a)) <= 2 * Max - 1
<1> DEFINE v == s[p].window
           w == s[q].window
           A == InTime(s, a)
<1>1. /\ \A i \in DOMAIN s : s[i].window \in Nat /\ s[i].at \in Nat
      /\ A \in SUBSET DOMAIN s /\ Window \in Nat \ {0} /\ Max \in Nat \ {0}
  BY Readings, AdminLimiterAssumption DEF InTime, Span
<1>2. \A i \in A : a <= s[i].window + Window /\ s[i].window <= a + Window
  BY SpanShape
<1>3. w - v > Window /\ v \in Nat /\ w \in Nat /\ v < a
  BY <1>1, <1>2 DEF Sequential
<1>4. \A i \in A : s[i].window \in {v, w}
  <2> SUFFICES ASSUME NEW i \in A, s[i].window # v, s[i].window # w PROVE FALSE
    OBVIOUS
  <2> DEFINE u == s[i].window
  <2>1. /\ v < u => u - v > Window
        /\ u < v => v - u > Window
        /\ u < w => w - u > Window
        /\ w < u => u - w > Window
    BY <1>1 DEF Sequential
  <2>2. /\ a <= u + Window /\ u <= a + Window /\ u \in Nat
        /\ a <= v + Window /\ w <= a + Window /\ u # v /\ u # w
    BY <1>1, <1>2
  <2> HIDE DEF u, v, w
  <2>3. QED
    BY <1>1, <1>3, <2>1, <2>2
<1>5. PICK j \in DOMAIN s : s[j].allowed /\ s[j].window = v /\ s[j].at = v
  BY <1>1 DEF Opened
<1>6. j \notin A /\ j \in AllowedIn(s, v)
  BY <1>1, <1>3, <1>5 DEF InTime, Span, AllowedIn
<1>7. A \subseteq (AllowedIn(s, v) \ {j}) \cup AllowedIn(s, w)
  BY <1>1, <1>4, <1>6 DEF InTime, Span, AllowedIn
<1>8. /\ IsFiniteSet(AllowedIn(s, v)) /\ Cardinality(AllowedIn(s, v)) \in Nat
      /\ IsFiniteSet(AllowedIn(s, w)) /\ Cardinality(AllowedIn(s, w)) \in Nat
      /\ Cardinality(AllowedIn(s, v)) <= Max /\ Cardinality(AllowedIn(s, w)) <= Max
  BY <1>3, Finite DEF AllowedIn, Quota
<1> DEFINE B == AllowedIn(s, v) \ {j}
           C == AllowedIn(s, w)
<1>9. IsFiniteSet(B) /\ Cardinality(B) \in Nat /\ Cardinality(B) <= Max - 1
  <2>1. IsFiniteSet(B) /\ Cardinality(B) = Cardinality(AllowedIn(s, v)) - 1
    BY <1>6, <1>8, FS_RemoveElement
  <2>2. QED
    BY <1>1, <1>8, <2>1, FS_CardinalityType
<1>10. IsFiniteSet(B \cup C) /\ Cardinality(B \cup C) <= 2 * Max - 1
  <2>1. /\ IsFiniteSet(B \cup C)
        /\ Cardinality(B \cup C)
             = Cardinality(B) + Cardinality(C) - Cardinality(B \cap C)
    BY <1>8, <1>9, FS_Union
  <2>2. Cardinality(B \cap C) \in Nat
    BY <1>9, FS_Intersection, FS_CardinalityType
  <2> HIDE DEF B
  <2>3. QED
    BY <1>1, <1>8, <1>9, <2>1, <2>2
<1>11. Cardinality(A) \in Nat /\ Cardinality(A) <= Cardinality(B \cup C)
  BY <1>1, <1>7, <1>10, Finite, FS_Subset
<1>12. Cardinality(B \cup C) \in Nat
  BY <1>10, FS_CardinalityType
<1> HIDE DEF A, B, C
<1>13. Cardinality(A) <= 2 * Max - 1
  BY <1>1, <1>10, <1>11, <1>12
<1>14. QED
  BY <1>13 DEF A

LEMMA SpanInTime ==
  ASSUME NEW s \in Seq(Served), NEW a \in Nat, Sequential(s), Opened(s), Quota(s)
  PROVE /\ IsFiniteSet(InTime(s, a)) /\ Cardinality(InTime(s, a)) \in Nat
        /\ Cardinality(InTime(s, a)) <= 2 * Max - 1
<1>1. /\ \A i \in DOMAIN s : s[i].window \in Nat
      /\ InTime(s, a) \in SUBSET DOMAIN s /\ Max \in Nat \ {0}
  BY Readings, AdminLimiterAssumption DEF InTime, Span
<1>2. IsFiniteSet(InTime(s, a)) /\ Cardinality(InTime(s, a)) \in Nat
  BY <1>1, Finite
<1>3. CASE \E p, q \in InTime(s, a) : s[p].window # s[q].window
  <2>1. PICK p \in InTime(s, a), q \in InTime(s, a) : s[p].window < s[q].window
    BY <1>1, <1>3
  <2>2. QED
    BY <1>2, <2>1, TwoWindows
<1>4. CASE InTime(s, a) = {}
  BY <1>1, <1>2, <1>4, FS_EmptySet
<1>5. CASE /\ InTime(s, a) # {}
           /\ \A p, q \in InTime(s, a) : s[p].window = s[q].window
  <2>1. PICK p \in InTime(s, a) : TRUE
    BY <1>5
  <2>2. s[p].window \in Nat /\ InTime(s, a) \subseteq AllowedIn(s, s[p].window)
    BY <1>1, <1>5, <2>1 DEF InTime, Span, AllowedIn
  <2>3. /\ IsFiniteSet(AllowedIn(s, s[p].window))
        /\ Cardinality(AllowedIn(s, s[p].window)) \in Nat
        /\ Cardinality(AllowedIn(s, s[p].window)) <= Max
    BY <2>2, Finite DEF AllowedIn, Quota
  <2>4. Cardinality(InTime(s, a)) <= Cardinality(AllowedIn(s, s[p].window))
    BY <2>2, <2>3, FS_Subset
  <2>5. QED
    BY <1>1, <1>2, <2>3, <2>4
<1>6. QED
  BY <1>2, <1>3, <1>4, <1>5

\* However the workers interleave, a span as long as a window holds fewer than
\* twice Max allowed calls of an address, and one more for each other worker.
THEOREM SpanKept == Spec => []SpanBounded
<1>1. LimiterInv => SpanBounded
  <2> SUFFICES ASSUME LimiterInv, NEW ip \in Ips, NEW k \in DOMAIN served[ip]
               PROVE Cardinality(Span(served[ip], served[ip][k].at))
                       < 2 * Max + Cardinality(Workers) - 1
    BY DEF SpanBounded, Granted, Span
  <2> DEFINE s == served[ip]
             a == s[k].at
             m == a + Window + 1
  <2>1. /\ s \in Seq(Served) /\ Sequential(s) /\ Opened(s) /\ Quota(s)
        /\ FewLate(ip, s)
    BY DEF LimiterInv, TypeOK, AddressInv
  <2>2. /\ a \in Nat /\ m \in Nat /\ Window \in Nat \ {0} /\ Max \in Nat \ {0}
        /\ \A i \in DOMAIN s : s[i].window \in Nat /\ s[i].at \in Nat
        /\ Late(s, m) \in SUBSET DOMAIN s
    BY <2>1, Readings, AdminLimiterAssumption DEF Late
  <2> HIDE DEF s
  <2>3. Span(s, a) \subseteq InTime(s, a) \cup Late(s, m)
    BY <2>2 DEF Span, InTime, Late
  <2>4. /\ IsFiniteSet(InTime(s, a)) /\ Cardinality(InTime(s, a)) \in Nat
        /\ Cardinality(InTime(s, a)) <= 2 * Max - 1
    BY <2>1, <2>2, SpanInTime
  <2>5. IsFiniteSet(Late(s, m)) /\ Cardinality(Late(s, m)) \in Nat
    BY <2>1, <2>2, Finite
  <2>6. /\ Cardinality(Workers) \in Nat
        /\ \A n \in Nat : Cardinality(Late(s, n)) \in Nat
                          /\ Cardinality(Holding(ip, n)) \in Nat
    BY <2>1, HoldersFinite, Finite DEF Late
  <2>7. Cardinality(Late(s, m)) <= Cardinality(Workers) - 1
    <3>1. CASE \E i \in DOMAIN s : s[i].window >= m
      <4>1. Cardinality(Late(s, m)) + Cardinality(Holding(ip, m))
              <= Cardinality(Workers) - 1
        BY <2>1, <2>2, <3>1 DEF FewLate
      <4>2. Cardinality(Late(s, m)) \in Nat /\ Cardinality(Holding(ip, m)) \in Nat
        BY <2>2, <2>6
      <4>3. QED
        BY <2>6, <4>1, <4>2
    <3>2. CASE ~ \E i \in DOMAIN s : s[i].window >= m
      <4>1. Late(s, m) = {}
        BY <3>2 DEF Late
      <4>2. Cardinality(Late(s, m)) = 0
        BY <4>1, FS_EmptySet
      <4>3. s[k].window >= 0 /\ k \in DOMAIN s
        BY <2>2 DEF s
      <4>4. 0 \in Nat /\ Cardinality(Late(s, 0)) + Cardinality(Holding(ip, 0))
                           <= Cardinality(Workers) - 1
        BY <2>1, <4>3 DEF FewLate
      <4>5. Cardinality(Late(s, 0)) \in Nat /\ Cardinality(Holding(ip, 0)) \in Nat
        BY <2>6
      <4>6. 0 <= Cardinality(Workers) - 1
        BY <2>6, <4>4, <4>5
      <4>7. QED
        BY <4>2, <4>6
    <3>3. QED
      BY <3>1, <3>2
  <2>8. /\ IsFiniteSet(InTime(s, a) \cup Late(s, m))
        /\ Cardinality(InTime(s, a) \cup Late(s, m))
             <= Cardinality(InTime(s, a)) + Cardinality(Late(s, m))
    <3>1. /\ IsFiniteSet(InTime(s, a) \cup Late(s, m))
          /\ Cardinality(InTime(s, a) \cup Late(s, m))
               = Cardinality(InTime(s, a)) + Cardinality(Late(s, m))
                   - Cardinality(InTime(s, a) \cap Late(s, m))
      BY <2>4, <2>5, FS_Union
    <3>2. Cardinality(InTime(s, a) \cap Late(s, m)) \in Nat
      BY <2>4, FS_Intersection, FS_CardinalityType
    <3> HIDE DEF m, a
    <3>3. QED
      BY <2>4, <2>5, <3>1, <3>2
  <2>9. /\ Cardinality(Span(s, a)) \in Nat
        /\ Cardinality(Span(s, a)) <= Cardinality(InTime(s, a) \cup Late(s, m))
        /\ Cardinality(InTime(s, a) \cup Late(s, m)) \in Nat
    BY <2>3, <2>8, FS_Subset, FS_CardinalityType
  <2> HIDE DEF m, a
  <2>10. Cardinality(Span(s, a)) < 2 * Max + Cardinality(Workers) - 1
    BY <2>2, <2>4, <2>5, <2>6, <2>7, <2>8, <2>9
  <2>11. QED
    BY <2>10 DEF s, a
<1>2. QED
  BY <1>1, LimiterInvariant, PTL

=============================================================================
