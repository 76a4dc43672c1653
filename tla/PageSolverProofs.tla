-------------------------- MODULE PageSolverProofs --------------------------
(***************************************************************************)
(* Theorems about a page request, with the exchange with the solver's      *)
(* provider and without it: for every budget, timeout and HTTP limit, and  *)
(* whatever the page and the provider do.                                  *)
(***************************************************************************)
EXTENDS PageSolver, TLAPS

-----------------------------------------------------------------------------
(* The inductive invariant of PageEngine.  The two properties speak of the *)
(* answer; the invariant says what each step already knows of it.          *)

\* What is there at each step: a page in the tab, an open browser, an answer.
Present ==
    /\ step \in {"navigated", "waiting", "handled", "settled", "solving", "ready",
                 "guarding", "extracted"} => page \in SitePages
    /\ answer # None <=> step \in {"closing", "answered"}
    /\ browser = "open" <=> step \notin {"received", "answered"}
    /\ step = "guarding" => extracted # None

\* A challenge is on record as unresolved between the first look and the
\* decision only, and one that may clear has then been given its budget.
Known ==
    /\ challenge.detected => challenge.kind \in Kinds
    /\ step \in {"received", "launched", "primed", "navigated", "ready",
                 "guarding", "extracted"} => ~Unresolved
    /\ step = "waiting" => Unresolved /\ challenge.kind \in {"auto", "shield"}
    /\ step = "solving" => Unresolved
    /\ (step \in {"handled", "settled", "solving"} /\ Unresolved
          /\ challenge.kind \in {"auto", "shield"}) => elapsed = Budget

\* The requests of NoChallengeAsContent.
Watched == HandlesChallenges /\ ~req.solver /\ ~req.relapses /\ Listed

\* Their page is a real one as soon as nothing unresolved is on record.
Clean ==
    Watched =>
      /\ step \in {"handled", "settled"} =>
           Unresolved \/ page \in {"content", "brief"}
      /\ step # "solving"
      /\ step = "ready" => page \in {"content", "brief"}
      /\ extracted \notin Challenging

PageInv == TypeOK /\ Present /\ Known /\ Clean /\ BlockedForCause

-----------------------------------------------------------------------------
(* The invariant of the exchange: what it has taken so far is the call     *)
(* that created the task and the time since.                               *)

Limit == HttpLimit[req.runtime]

Spent ==
    /\ solve.phase \notin {"creating", "polling"} => solve.calling = 0
    /\ solve.phase = "idle" => solve.polling = 0 /\ solve.spent = 0
    /\ solve.phase = "creating" =>
         solve.polling = 0 /\ solve.spent = solve.calling
    /\ solve.phase \in {"pausing", "polling", "injecting"} =>
         /\ solve.spent <= Limit + solve.polling
         /\ solve.polling <= SolverTimeout + Limit
    /\ solve.phase = "polling" => solve.polling <= SolverTimeout + solve.calling

SolveInv == SolverTypeOK /\ Spent

-----------------------------------------------------------------------------
(* Every action of PageEngine preserves its invariant.                     *)

LEMMA PageStart == Init => PageInv
BY NoneAssumption, PageEngineAssumption
DEF Init, NoChallenge, PageInv, TypeOK, Present, Known, Clean, BlockedForCause,
    Unresolved, Pages, Real, Challenging, Codes

\* What a site may show, and what is detected there, belong to the request.
LEMMA SameSite ==
  /\ UNCHANGED req => SitePages' = SitePages
  /\ UNCHANGED <<req, page>> => Detect(page)' = Detect(page)
BY DEF SitePages, Pages, Real, Challenging, Detect

\* An answer is given for a cause: the one obligation of every failing step.
Cause ==
    \/ challenge.kind \in {"auto", "shield"} /\ elapsed = Budget
    \/ challenge.kind \in {"widget", "blocked"}
    \/ extracted # None /\ Detect(page) # None

LEMMA Concluded ==
  ASSUME PageInv, NEW code \in Codes, Conclude(code),
         step \notin {"received", "closing", "answered"},
         code = "CHALLENGE_BLOCKED" => Cause,
         (req.runtime = "js" /\ Unresolved) => code = "CHALLENGE_BLOCKED"
  PROVE PageInv'
<1> USE DEF Conclude
<1>1. TypeOK'
  BY DEF PageInv, TypeOK
<1>2. Present'
  BY NoneAssumption, SameSite DEF PageInv, Present
<1>3. Known' /\ Clean'
  BY DEF PageInv, Known, Clean, Unresolved, Watched, Listed, HandlesChallenges
<1>4. BlockedForCause'
  BY SameSite DEF BlockedForCause, Cause, Unresolved
<1>5. QED
  BY <1>1, <1>2, <1>3, <1>4 DEF PageInv

\* A page that does not relapse stays a real one at every wait.
LEMMA StaysReal ==
  ASSUME NEW p \in {"content", "brief"}, ~req.relapses
  PROVE Becomes(p) = {p}
BY DEF Becomes

LEMMA BecomesPage ==
  ASSUME NEW p \in SitePages
  PROVE Becomes(p) \subseteq SitePages /\ Real \subseteq SitePages
BY DEF Becomes, SitePages, Pages, Real, Challenging

LEMMA SiteIsPages == SitePages \subseteq Pages
BY DEF SitePages

\* Where the runtime lists what the site shows, nothing detected is content.
LEMMA Detected ==
  ASSUME NEW p \in SitePages
  PROVE /\ Detect(p) \in Kinds \cup {None}
        /\ Listed => (Detect(p) = None <=> p \in {"content", "brief"})
BY NoneAssumption DEF Detect, Listed, SitePages, Pages, Real, Challenging, Kinds

LEMMA PageLaunch == PageInv /\ Launch => PageInv'
BY NoneAssumption
DEF Launch, PageInv, TypeOK, Present, Known, Clean, BlockedForCause, Unresolved,
    Watched, Listed, HandlesChallenges, Codes

LEMMA PagePrime == PageInv /\ Prime => PageInv'
<1> SUFFICES ASSUME PageInv, Prime PROVE PageInv'
  OBVIOUS
<1>1. CASE Conclude("UPSTREAM_REQUEST")
  BY <1>1, Concluded DEF Prime, PageInv, Known, Codes
<1>2. CASE ~Conclude("UPSTREAM_REQUEST")
  BY <1>2, SameSite
  DEF Prime, PageInv, TypeOK, Present, Known, Clean, BlockedForCause, Unresolved,
      Watched, Listed, HandlesChallenges
<1>3. QED
  BY <1>1, <1>2

LEMMA PageNavigate == PageInv /\ Navigate => PageInv'
<1> SUFFICES ASSUME PageInv, Navigate PROVE PageInv'
  OBVIOUS
<1>1. CASE Conclude("UPSTREAM_REQUEST")
  BY <1>1, Concluded DEF Navigate, PageInv, Known, Codes
<1>2. CASE ~Conclude("UPSTREAM_REQUEST")
  BY <1>2, NoneAssumption, SameSite, SiteIsPages
  DEF Navigate, PageInv, TypeOK, Present, Known, Clean, BlockedForCause, Unresolved,
      Watched, Listed, HandlesChallenges, Codes
<1>3. QED
  BY <1>1, <1>2

LEMMA PageNoHandling == PageInv /\ NoHandling => PageInv'
BY SameSite DEF NoHandling, PageInv, TypeOK, Present, Known, Clean, BlockedForCause,
       Unresolved, Watched, Listed, HandlesChallenges

LEMMA PageProbe == PageInv /\ Probe => PageInv'
<1> SUFFICES ASSUME PageInv, Probe PROVE PageInv'
  OBVIOUS
<1>1. page \in SitePages
  BY DEF PageInv, Present, Probe
<1>2. /\ Detect(page) \in Kinds \cup {None}
      /\ Listed => (Detect(page) = None <=> page \in {"content", "brief"})
  BY <1>1, Detected
<1>3. TypeOK'
  <2>1. challenge' \in [detected: BOOLEAN, kind: Kinds \cup {None}, resolved: BOOLEAN]
    <3>1. CASE Detect(page) = None
      BY <3>1 DEF PageInv, TypeOK, Probe
    <3>2. CASE Detect(page) # None
      <4>1. challenge' = [detected |-> TRUE, kind |-> Detect(page), resolved |-> FALSE]
        BY <3>2 DEF Probe
      <4>2. QED
        BY <1>2, <4>1
    <3>3. QED
      BY <3>1, <3>2
  <2>2. step' \in {"handled", "waiting"}
    BY DEF Probe
  <2>3. QED
    BY <2>1, <2>2 DEF PageInv, TypeOK, Probe
<1>4. Present'
  BY SameSite DEF PageInv, Present, Probe
<1>5. Known' /\ Clean'
  BY <1>2, NoneAssumption
  DEF PageInv, Known, Clean, Probe, AutoResolvable, Unresolved, Watched, Listed,
      HandlesChallenges
<1>6. BlockedForCause'
  BY NoneAssumption DEF PageInv, Present, BlockedForCause, Probe, Codes
<1>7. QED
  BY <1>3, <1>4, <1>5, <1>6 DEF PageInv

LEMMA PagePoll == PageInv /\ Poll => PageInv'
<1> SUFFICES ASSUME PageInv, Poll PROVE PageInv'
  OBVIOUS
<1>1. page \in SitePages /\ page' \in SitePages /\ page' \in Pages
  BY BecomesPage, SiteIsPages DEF PageInv, Present, Poll
<1>2. Listed => (Detect(page') = None <=> page' \in {"content", "brief"})
  BY <1>1, Detected
<1>3. TypeOK'
  <2>1. elapsed' \in 0..Budget
    BY PageEngineAssumption DEF PageInv, TypeOK, Poll, WithinBudget, Waited
  <2>2. challenge' \in [detected: BOOLEAN, kind: Kinds \cup {None}, resolved: BOOLEAN]
    BY DEF PageInv, TypeOK, Poll, Cleared
  <2>3. step' \in {"handled", "waiting"}
    BY DEF Poll
  <2>4. QED
    BY <1>1, <2>1, <2>2, <2>3 DEF PageInv, TypeOK, Poll
<1>4. Present'
  BY <1>1, SameSite DEF PageInv, Present, Poll
<1>5. /\ challenge'.detected /\ challenge'.kind \in {"auto", "shield"}
      /\ challenge'.resolved = (Detect(page') = None)
      /\ step' = IF Detect(page') = None THEN "handled" ELSE "waiting"
  BY DEF PageInv, TypeOK, Known, Unresolved, Poll, Cleared
<1>6. Known' /\ Clean'
  BY <1>2, <1>5
  DEF PageInv, Known, Clean, Poll, Unresolved, Watched, Listed, HandlesChallenges, Kinds
<1>7. BlockedForCause'
  BY NoneAssumption DEF PageInv, Present, BlockedForCause, Poll, Codes
<1>8. QED
  BY <1>3, <1>4, <1>6, <1>7 DEF PageInv

LEMMA PageTimedOut == PageInv /\ TimedOut => PageInv'
<1> SUFFICES ASSUME PageInv, TimedOut PROVE PageInv'
  OBVIOUS
<1>1. elapsed = Budget
  BY PageEngineAssumption DEF PageInv, TypeOK, TimedOut, WithinBudget
<1>2. QED
  BY <1>1, SameSite
  DEF TimedOut, PageInv, TypeOK, Present, Known, Clean, BlockedForCause, Unresolved,
      Watched, Listed, HandlesChallenges

LEMMA PageSettle == PageInv /\ Settle => PageInv'
<1> SUFFICES ASSUME PageInv, Settle PROVE PageInv'
  OBVIOUS
<1>1. CASE Conclude("UPSTREAM_REQUEST") /\ ~SkipsWait
  BY <1>1, Concluded DEF Settle, SkipsWait, Codes
<1>2. CASE ~(Conclude("UPSTREAM_REQUEST") /\ ~SkipsWait)
  <2>1. /\ step' = "settled" /\ page' \in Becomes(page) \cup {page}
        /\ UNCHANGED <<req, challenge, elapsed, extracted, browser, answer>>
    BY <1>2 DEF Settle
  <2>2. page \in SitePages /\ page' \in SitePages /\ page' \in Pages
    BY <2>1, BecomesPage, SiteIsPages DEF PageInv, Present, Settle
  <2>3. (page \in {"content", "brief"} /\ ~req.relapses) => page' = page
    BY <2>1, StaysReal
  <2>4. QED
    BY <2>1, <2>2, <2>3, NoneAssumption, SameSite
    DEF Settle, PageInv, TypeOK, Present, Known, Clean, BlockedForCause, Unresolved,
        Watched, Listed, HandlesChallenges, Codes
<1>3. QED
  BY <1>1, <1>2

LEMMA PageDecide == PageInv /\ Decide => PageInv'
<1> SUFFICES ASSUME PageInv, Decide PROVE PageInv'
  OBVIOUS
<1>1. CASE GivesUp
  <2>1. Cause
    BY <1>1 DEF GivesUp, Decide, PageInv, Known, Cause, Unresolved, Kinds
  <2>2. QED
    BY <1>1, <2>1, Concluded DEF Decide, Codes
<1>2. CASE ~GivesUp
  BY <1>2, SameSite
  DEF Decide, GivesUp, PageInv, TypeOK, Present, Known, Clean, BlockedForCause,
      Unresolved, Watched, Listed, HandlesChallenges
<1>3. QED
  BY <1>1, <1>2

LEMMA PageSolve == PageInv /\ Solve => PageInv'
<1> SUFFICES ASSUME PageInv, Solve PROVE PageInv'
  OBVIOUS
<1>1. CASE Conclude("CHALLENGE_BLOCKED")
  <2>1. Cause
    BY DEF Solve, PageInv, Known, Cause, Unresolved, Kinds
  <2>2. QED
    BY <1>1, <2>1, Concluded DEF Solve, Codes
<1>2. CASE ~Conclude("CHALLENGE_BLOCKED")
  <2>1. page \in SitePages /\ page' \in SitePages /\ page' \in Pages
    BY <1>2, BecomesPage, SiteIsPages DEF Solve, PageInv, Present
  <2>2. challenge' \in [detected: BOOLEAN, kind: Kinds \cup {None}, resolved: BOOLEAN]
        /\ challenge'.kind = challenge.kind /\ challenge'.resolved
    BY <1>2 DEF Solve, PageInv, TypeOK
  <2>3. /\ step' = "ready" /\ ~Unresolved'
        /\ UNCHANGED <<req, elapsed, extracted, browser, answer>>
    BY <1>2, <2>2 DEF Solve, Unresolved
  <2>4. TypeOK' /\ Present'
    BY <2>1, <2>2, <2>3, SameSite DEF Solve, PageInv, TypeOK, Present
  <2>5. Known' /\ Clean'
    BY <2>2, <2>3 DEF Solve, PageInv, TypeOK, Known, Clean, Unresolved, Watched, Listed,
                      HandlesChallenges
  <2>6. BlockedForCause'
    BY <2>3, NoneAssumption DEF Solve, PageInv, Present, BlockedForCause, Codes
  <2>7. QED
    BY <2>4, <2>5, <2>6 DEF PageInv
<1>3. QED
  BY <1>1, <1>2

LEMMA PageExtract == PageInv /\ Extract => PageInv'
<1> SUFFICES ASSUME PageInv, Extract PROVE PageInv'
  OBVIOUS
<1>1. ~Unresolved
  BY DEF Extract, PageInv, Known
<1>2. CASE Conclude("UPSTREAM_REQUEST")
  BY <1>1, <1>2, Concluded DEF Extract, Codes
<1>3. CASE ~Conclude("UPSTREAM_REQUEST")
  <2>1. /\ step' \in {"extracted", "guarding"} /\ page' \in Becomes(page)
        /\ extracted' = page
        /\ UNCHANGED <<req, challenge, elapsed, browser, answer>>
    BY <1>3 DEF Extract
  <2>2. page \in SitePages /\ page' \in SitePages /\ page' \in Pages
    BY <2>1, BecomesPage, SiteIsPages DEF PageInv, Present, Extract
  <2>3. Watched => extracted' \notin Challenging
    BY <2>1 DEF PageInv, Clean, Challenging, Extract
  <2>4. TypeOK' /\ Present'
    BY <2>1, <2>2, NoneAssumption, SameSite, SiteIsPages
    DEF Extract, PageInv, TypeOK, Present
  <2>5. Known' /\ Clean'
    BY <1>1, <2>1, <2>3 DEF Extract, PageInv, Known, Clean, Unresolved, Watched, Listed,
                            HandlesChallenges
  <2>6. BlockedForCause'
    BY <2>1, NoneAssumption DEF Extract, PageInv, Present, BlockedForCause, Codes
  <2>7. QED
    BY <2>4, <2>5, <2>6 DEF PageInv
<1>4. QED
  BY <1>2, <1>3

LEMMA PageGuard == PageInv /\ Guard => PageInv'
<1> SUFFICES ASSUME PageInv, Guard PROVE PageInv'
  OBVIOUS
<1>1. ~Unresolved
  BY DEF Guard, PageInv, Known
<1>2. CASE Detect(page) # None
  <2>1. Cause
    BY <1>2 DEF Cause, Guard, PageInv, Present
  <2>2. QED
    BY <1>2, <2>1, Concluded DEF Guard, Codes
<1>3. CASE Detect(page) = None
  BY <1>3, SameSite
  DEF Guard, PageInv, TypeOK, Present, Known, Clean, BlockedForCause, Unresolved,
      Watched, Listed, HandlesChallenges
<1>4. QED
  BY <1>2, <1>3

LEMMA PageFinish == PageInv /\ Finish => PageInv'
<1> SUFFICES ASSUME PageInv, Finish PROVE PageInv'
  OBVIOUS
<1>1. ~Unresolved
  BY DEF Finish, PageInv, Known
<1>2. QED
  BY <1>1, Concluded DEF Finish, Codes

LEMMA PageRelease == PageInv /\ Release => PageInv'
BY SameSite DEF Release, PageInv, TypeOK, Present, Known, Clean, BlockedForCause,
       Unresolved, Watched, Listed, HandlesChallenges

LEMMA PageStep == PageInv /\ [Next]_vars => PageInv'
<1>1. PageInv /\ UNCHANGED vars => PageInv'
  BY SameSite DEF vars, PageInv, TypeOK, Present, Known, Clean, BlockedForCause, Unresolved,
         Watched, Listed, HandlesChallenges
<1>2. QED
  BY <1>1, PageLaunch, PagePrime, PageNavigate, PageNoHandling, PageProbe, PagePoll,
     PageTimedOut, PageSettle, PageDecide, PageSolve, PageExtract, PageGuard,
     PageFinish, PageRelease
  DEF Next

-----------------------------------------------------------------------------
(* The exchange takes the steps of PageEngine: what the engine says to the *)
(* provider and waits for is one Solve, or none of it.                     *)

LEMMA ExchangeIsSolve == [SolverNext]_solverVars => [Next]_vars
<1>1. Exchange => Solve \/ UNCHANGED vars
  <2> USE DEF In, Calling, GiveUp, Same, vars, Solve
  <2>1. Begin => Solve \/ UNCHANGED vars
    BY DEF Begin
  <2>2. Wait \/ CallFails => Solve \/ UNCHANGED vars
    BY DEF Wait, CallFails
  <2>3. Created => Solve \/ UNCHANGED vars
    BY DEF Created
  <2>4. Pause \/ Expired => Solve \/ UNCHANGED vars
    BY DEF Pause, Expired
  <2>5. Polled => Solve \/ UNCHANGED vars
    BY DEF Polled
  <2>6. Inject => Solve
    BY DEF Inject
  <2>7. QED
    BY <2>1, <2>2, <2>3, <2>4, <2>5, <2>6 DEF Exchange
<1>2. Rest => Next
  BY DEF Rest, Next
<1>3. UNCHANGED solverVars => UNCHANGED vars
  BY DEF solverVars, vars
<1>4. QED
  BY <1>1, <1>2, <1>3 DEF SolverNext, Next

\* Whatever the provider answers, and however late, a request with a solver
\* takes no step that a request of PageEngine could not: the safety part of
\* ImplementsPageEngine.
THEOREM ExchangeIsOneStep == SolverSpec => Init /\ [][Next]_vars
BY ExchangeIsSolve, PTL DEF SolverSpec, SolverInit

\* The page a request holds, its browser and its answer belong to the step it has
\* reached.
THEOREM PageInvariant == SolverSpec => []PageInv
<1>1. Init /\ [][Next]_vars => []PageInv
  BY PageStart, PageStep, PTL
<1>2. QED
  BY <1>1, ExchangeIsOneStep

\* A challenge page is never returned as content when challenges are handled,
\* the runtime lists those of the site, no solver claims to have solved one and
\* none that has cleared comes back.
THEOREM ChallengeNeverContent == SolverSpec => []NoChallengeAsContent
<1>1. PageInv => NoChallengeAsContent
  <2> SUFFICES ASSUME PageInv, answer = "ok", HandlesChallenges,
                      ~req.solver, ~req.relapses, Listed
               PROVE extracted \notin Challenging
    BY DEF NoChallengeAsContent
  <2>1. QED
    BY DEF PageInv, Clean, Watched
<1>2. QED
  BY <1>1, PageInvariant, PTL

\* CHALLENGE_BLOCKED has a cause, and on Node an unresolved challenge has no
\* other answer, for every budget and whatever fails on the way.
THEOREM BlockedHasCause == SolverSpec => []BlockedForCause
BY PageInvariant, PTL DEF PageInv

\* The caller has no answer while its browser is open.
THEOREM BrowserGoneFirst == SolverSpec => [](step = "answered" => browser # "open")
<1>1. PageInv => (step = "answered" => browser # "open")
  BY DEF PageInv, Present
<1>2. QED
  BY <1>1, PageInvariant, PTL

-----------------------------------------------------------------------------
(* The bound of the exchange.                                              *)

LEMMA LimitType ==
  ASSUME TypeOK
  PROVE Limit \in Nat
BY PageEngineAssumption, PageSolverAssumption DEF TypeOK, Request, Limit

\* The request does not change: neither does its limit.
LEMMA SameLimit == [Next]_vars => UNCHANGED req
BY DEF Next, Launch, Prime, Navigate, NoHandling, Probe, Poll, TimedOut, Settle,
       Decide, Solve, Extract, Guard, Finish, Release, Conclude, vars

\* An exchange that is over has spent nothing of the next one.
LEMMA SolveEnds ==
  ASSUME TypeOK', solve' \in Solving, solve'.phase = "idle",
         solve'.calling = 0, solve'.polling = 0, solve'.spent = 0
  PROVE SolveInv'
<1>1. HttpLimit[req'.runtime] \in Nat
  BY PageEngineAssumption, PageSolverAssumption DEF TypeOK, Request
<1>2. QED
  BY <1>1 DEF SolveInv, SolverTypeOK, Spent, Limit

\* While the exchange is on, every call adds its waiting to what is spent.
LEMMA SolveWaits ==
  ASSUME SolveInv, Wait
  PROVE SolveInv'
<1> DEFINE new == [Later(solve) EXCEPT !.calling = @ + 1]
<1>1. /\ Limit \in Nat /\ solve \in Solving /\ SolverTimeout \in Nat
      /\ solve.calling \in Nat /\ solve.polling \in Nat /\ solve.spent \in Nat
      /\ solve.phase \in {"creating", "polling"}
  BY LimitType, PageSolverAssumption
  DEF SolveInv, SolverTypeOK, Solving, Wait, Calling, In
<1>2. solve.spent <= LongestSolve(req.runtime) /\ solve.calling < Limit
  BY <1>1 DEF SolveInv, Spent, LongestSolve, Limit, Wait
<1>3. /\ new \in Solving /\ new.phase = solve.phase
      /\ new.calling = solve.calling + 1 /\ new.spent = solve.spent + 1
      /\ new.polling = IF solve.phase = "creating" THEN 0 ELSE solve.polling + 1
  <2>1. Elapsed = IF solve.phase = "creating" THEN 0 ELSE solve.polling + 1
    BY DEF Elapsed, In, Wait, Calling
  <2>2. new = [solve EXCEPT !.polling = Elapsed, !.spent = solve.spent + 1,
                            !.calling = solve.calling + 1]
    <3>1. Later(solve) = [solve EXCEPT !.polling = Elapsed, !.spent = solve.spent + 1]
      BY <1>2 DEF Later
    <3>2. QED
      BY <1>1, <3>1 DEF Solving
  <2>3. Elapsed \in Nat
    BY <1>1, <2>1
  <2> HIDE DEF new
  <2>4. PICK p \in Nat, q \in Nat, c \in Nat :
          p = Elapsed /\ q = solve.spent + 1 /\ c = solve.calling + 1
    BY <1>1, <2>3
  <2>5. new = [solve EXCEPT !.polling = p, !.spent = q, !.calling = c]
    BY <2>2, <2>4
  <2>6. /\ new \in Solving /\ new.phase = solve.phase
        /\ new.calling = c /\ new.spent = q /\ new.polling = p
    BY <1>1, <2>5 DEF Solving
  <2>7. QED
    BY <2>1, <2>4, <2>6
<1>4. solve' = new /\ Same /\ step = "solving"
  BY DEF Wait, Calling, In
<1> HIDE DEF new
<1>5. TypeOK' /\ Limit' = Limit
  BY <1>4 DEF Same, SolveInv, SolverTypeOK, TypeOK, Limit
<1>6. SolverTypeOK'
  BY <1>1, <1>2, <1>3, <1>4, <1>5 DEF SolverTypeOK, Limit, Same
<1>7. Spent'
  BY <1>1, <1>2, <1>3, <1>4, <1>5 DEF SolveInv, Spent
<1>8. QED
  BY <1>6, <1>7 DEF SolveInv

\* The other steps of the exchange, which do not end it.
LEMMA SolveGoesOn ==
  ASSUME SolveInv, NEW next, solve' = next, next \in Solving, Same,
         step = "solving", next.calling = 0,
         \/ /\ next.phase = "creating" /\ solve.phase = "idle"
            /\ next.polling = solve.polling /\ next.spent = solve.spent
         \/ /\ solve.phase \in {"creating", "polling"}
            /\ next.phase \in {"pausing", "injecting"}
            /\ next.polling = solve.polling /\ next.spent = solve.spent
         \/ /\ solve.phase = "pausing" /\ next.phase = "polling"
            /\ solve.polling < SolverTimeout
            /\ next.polling = solve.polling + 1 /\ next.spent <= solve.spent + 1
  PROVE SolveInv'
<1>1. /\ Limit \in Nat /\ SolverTimeout \in Nat
      /\ solve.calling \in Nat /\ solve.polling \in Nat /\ solve.spent \in Nat
      /\ solve.calling <= Limit /\ next.spent \in Nat
  BY LimitType, PageSolverAssumption DEF SolveInv, SolverTypeOK, Solving, Limit
<1>2. TypeOK' /\ Limit' = Limit
  BY DEF Same, SolveInv, SolverTypeOK, TypeOK, Limit
<1>3. SolverTypeOK'
  BY <1>1, <1>2 DEF SolverTypeOK, Limit, Same
<1>4. Spent'
  BY <1>1, <1>2 DEF SolveInv, Spent
<1>5. QED
  BY <1>3, <1>4 DEF SolveInv

LEMMA SolveExchange ==
  ASSUME SolveInv, PageInv', Exchange
  PROVE SolveInv'
<1>1. TypeOK' /\ solve \in Solving
  BY DEF PageInv, SolveInv, SolverTypeOK
<1>2. NoExchange \in Solving /\ NoExchange.phase = "idle" /\ NoExchange.calling = 0
      /\ NoExchange.polling = 0 /\ NoExchange.spent = 0
  BY DEF NoExchange, Solving
<1>3. ASSUME solve' = NoExchange PROVE SolveInv'
  BY <1>1, <1>2, <1>3, SolveEnds
<1>4. GiveUp => solve' = NoExchange
  BY DEF GiveUp
<1>5. ASSUME NEW phase \in {"creating", "pausing", "injecting"}, To(phase)
      PROVE /\ solve' \in Solving /\ solve'.phase = phase /\ solve'.calling = 0
            /\ solve'.polling = solve.polling /\ solve'.spent = solve.spent
  BY <1>1, <1>5 DEF To, Solving
<1>6. CASE Begin
  <2>1. CASE To("creating") /\ Same
    BY <1>5, <1>6, <2>1, SolveGoesOn DEF Begin, In
  <2>2. QED
    BY <1>3, <1>4, <1>6, <2>1 DEF Begin
<1>7. CASE Wait
  BY <1>7, SolveWaits
<1>8. CASE CallFails \/ Expired \/ Inject
  BY <1>3, <1>4, <1>8 DEF CallFails, Expired, Inject
<1>9. CASE Created
  <2>1. PICK reply \in Replies :
          \/ solve' = [NoExchange EXCEPT !.opened = reply.taskId /\ ~reply.error]
          \/ /\ solve' = [solve EXCEPT !.phase = "pausing", !.calling = 0,
                                        !.opened = TRUE]
             /\ Same
    BY <1>9 DEF Created
  <2>2. CASE solve' = [NoExchange EXCEPT !.opened = reply.taskId /\ ~reply.error]
    <3>1. /\ solve' \in Solving /\ solve'.phase = "idle" /\ solve'.calling = 0
          /\ solve'.polling = 0 /\ solve'.spent = 0
      BY <2>2 DEF NoExchange, Solving
    <3>2. QED
      BY <1>1, <3>1, SolveEnds
  <2>3. CASE Same /\ solve' = [solve EXCEPT !.phase = "pausing", !.calling = 0,
                                            !.opened = TRUE]
    <3>1. /\ solve' \in Solving /\ solve'.phase = "pausing" /\ solve'.calling = 0
          /\ solve'.polling = solve.polling /\ solve'.spent = solve.spent
      BY <1>1, <2>3 DEF Solving
    <3>2. QED
      BY <1>9, <2>3, <3>1, SolveGoesOn DEF Created, In
  <2>4. QED
    BY <2>1, <2>2, <2>3
<1>10. CASE Pause
  <2> DEFINE later == IF solve.spent <= LongestSolve(req.runtime)
                        THEN solve.spent + 1 ELSE solve.spent
  <2>1. solve' = [solve EXCEPT !.polling = solve.polling + 1, !.spent = later,
                              !.phase = "polling"]
    BY <1>1, <1>10 DEF Pause, Later, Elapsed, In, Solving
  <2>2. solve.polling \in Nat /\ solve.spent \in Nat
    BY <1>1 DEF Solving
  <2>3. solve.polling + 1 \in Nat /\ later \in Nat /\ later <= solve.spent + 1
    BY <2>2
  <2>4. solve.phase = "pausing" /\ solve.calling = 0
    BY <1>10 DEF Pause, In, SolveInv, Spent
  <2> HIDE DEF later
  <2>5. /\ solve' \in Solving /\ solve'.phase = "polling" /\ solve'.calling = 0
        /\ solve'.polling = solve.polling + 1 /\ solve'.spent = later
    BY <1>1, <2>1, <2>3, <2>4 DEF Solving
  <2>6. QED
    BY <1>10, <2>3, <2>5, SolveGoesOn DEF Pause, In
<1>11. CASE Polled
  <2>1. GiveUp \/ (To("pausing") /\ Same) \/ (To("injecting") /\ Same)
    BY <1>11 DEF Polled
  <2>2. CASE To("pausing") /\ Same
    BY <1>5, <1>11, <2>2, SolveGoesOn DEF Polled, In
  <2>3. CASE To("injecting") /\ Same
    BY <1>5, <1>11, <2>3, SolveGoesOn DEF Polled, In
  <2>4. QED
    BY <1>3, <1>4, <2>1, <2>2, <2>3
<1>12. QED
  BY <1>6, <1>7, <1>8, <1>9, <1>10, <1>11 DEF Exchange

LEMMA SolveStep == SolveInv /\ PageInv' /\ [SolverNext]_solverVars => SolveInv'
<1> SUFFICES ASSUME SolveInv, PageInv', [SolverNext]_solverVars PROVE SolveInv'
  OBVIOUS
<1>1. CASE Exchange
  BY <1>1, SolveExchange
<1>2. CASE UNCHANGED solve /\ (Rest \/ UNCHANGED solverVars)
  <2>1. TypeOK' /\ UNCHANGED req
    BY <1>2, SameLimit, ExchangeIsSolve DEF PageInv
  <2>2. solve'.phase # "idle" => step' = "solving"
    <3>1. Rest /\ step = "solving" => FALSE
      BY DEF Rest, Launch, Prime, Navigate, NoHandling, Probe, Poll, TimedOut, Settle,
             Decide, Extract, Guard, Finish, Release
    <3>2. QED
      BY <1>2, <3>1 DEF SolveInv, SolverTypeOK, solverVars
  <2>3. QED
    BY <1>2, <2>1, <2>2 DEF SolveInv, SolverTypeOK, Spent, Limit
<1>3. QED
  BY <1>1, <1>2 DEF SolverNext, Rest, solverVars

\* An exchange has spent no more than its stage allows.
THEOREM SolveInvariant == SolverSpec => []SolveInv
<1>1. SolverInit => PageInv /\ SolveInv
  <2>1. SolverInit => PageInv /\ TypeOK
    BY PageStart DEF SolverInit, PageInv
  <2>2. SolverInit /\ TypeOK => SolveInv
    BY LimitType
    DEF SolverInit, SolveInv, SolverTypeOK, Spent, Solving, NoExchange, Limit
  <2>3. QED
    BY <2>1, <2>2
<1>2. QED
  BY <1>1, PageInvariant, SolveStep, PTL DEF SolverSpec

\* Type correctness of the page engine together with the exchange.
THEOREM SolverTypeCorrect == SolverSpec => []SolverTypeOK
BY SolveInvariant, PTL DEF SolveInv

\* Whatever the provider answers or does not: the exchange is over within its
\* timeout and the limits of two HTTP calls, for every timeout and every limit.
THEOREM ExchangeBounded == SolverSpec => []SolveBounded
<1>1. SolveInv => SolveBounded
  <2> SUFFICES ASSUME SolveInv PROVE solve.spent <= LongestSolve(req.runtime)
    BY DEF SolveBounded
  <2>1. /\ Limit \in Nat /\ SolverTimeout \in Nat /\ solve \in Solving
        /\ solve.spent \in Nat /\ solve.polling \in Nat /\ solve.calling <= Limit
    BY LimitType, PageSolverAssumption DEF SolveInv, SolverTypeOK, Solving, Limit
  <2>2. solve.spent <= Limit + SolverTimeout + Limit
    BY <2>1 DEF SolveInv, Spent, Solving
  <2>3. QED
    BY <2>2 DEF LongestSolve, Limit
<1>2. QED
  BY <1>1, SolveInvariant, PTL
=============================================================================
