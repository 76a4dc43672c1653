----------------------------- MODULE PageSolver ------------------------------
(***************************************************************************)
(* A page request with the exchange between the engine and the challenge   *)
(* solver's provider, which PageEngine has as one step (Solve): create a   *)
(* task, pause, ask for its result, until there is a token to inject.      *)
(* Translated from server/core/solver.js and rust/src/solver.rs.           *)
(*                                                                         *)
(* The provider is the environment: it may answer anything, late or not at *)
(* all.  Time is counted in pauses of the polling loop, two seconds in the *)
(* code.  Sampling of the deadline costs no time; an HTTP call may.        *)
(***************************************************************************)
EXTENDS PageEngine

CONSTANTS
    SolverTimeout,  \* the solver's timeout setting, in pauses
    HttpLimit       \* for each runtime, when an unanswered HTTP call fails

ASSUME PageSolverAssumption ==
    /\ SolverTimeout \in Nat
    /\ HttpLimit \in [{"js", "rust"} -> Nat]

VARIABLE
    solve  \* the exchange: phase, opened, calling, polling and spent

solverVars == <<req, step, page, challenge, elapsed, extracted, browser, answer,
                solve>>

\* The longest the exchange may take: a call that creates the task, the
\* timeout, and a call that was begun before its end.
LongestSolve(r) == HttpLimit[r] + SolverTimeout + HttpLimit[r]

\* opened: the provider has opened a task.  calling: how long the call under
\* way has been waiting.  polling: time since the task was created.  spent:
\* time since the exchange began, counted no further than it matters.
Solving == [ phase: {"idle", "creating", "pausing", "polling", "injecting"},
             opened: BOOLEAN, calling: Nat, polling: Nat, spent: Nat ]

SolverTypeOK ==
    /\ TypeOK
    /\ solve \in Solving
    /\ solve.phase # "idle" => step = "solving"
    /\ solve.calling <= HttpLimit[req.runtime]

NoExchange ==
    [phase |-> "idle", opened |-> FALSE, calling |-> 0, polling |-> 0, spent |-> 0]

SolverInit == Init /\ solve = NoExchange

-----------------------------------------------------------------------------
(* What the provider says, and what the engine understands.                *)

\* A reply of createTask or getTaskResult: whether errorId is set, the task's
\* id, whether it is ready, and whether it holds a token.
Task == [error |-> FALSE, taskId |-> TRUE, ready |-> FALSE, token |-> FALSE]

Replies ==
    { Task,
      [Task EXCEPT !.taskId = FALSE],
      [Task EXCEPT !.error = TRUE],
      [Task EXCEPT !.ready = TRUE],
      [Task EXCEPT !.ready = TRUE, !.token = TRUE] }

\* SolverResponse is deserialised from error_id and task_id, names that no
\* provider sends: in Rust neither is ever seen.
Decoded(reply) ==
    IF req.runtime = "rust" THEN [reply EXCEPT !.error = FALSE, !.taskId = FALSE]
    ELSE reply

-----------------------------------------------------------------------------
(* The exchange.                                                           *)

In(phase) == step = "solving" /\ solve.phase = phase

Calling == In("creating") \/ In("polling")

To(phase) == solve' = [solve EXCEPT !.phase = phase, !.calling = 0]

\* Fault: a failed exchange is reported like any other failure.
GiveUp_Upstream == Conclude("UPSTREAM_REQUEST") /\ solve' = NoExchange

\* SolverError, bail!: whatever goes wrong is reported as the challenge.
GiveUp == Conclude("CHALLENGE_BLOCKED") /\ solve' = NoExchange

Same == UNCHANGED <<req, step, page, challenge, elapsed, extracted, browser, answer>>

\* Fault: only the pauses count, not the time a call takes.
Elapsed_PausesOnly == IF In("pausing") THEN solve.polling + 1 ELSE solve.polling

\* The deadline is a point in time, set when the task has been created.
Elapsed == IF In("creating") THEN 0 ELSE solve.polling + 1

Later(s) == [s EXCEPT !.polling = Elapsed,
                      !.spent = IF @ <= LongestSolve(req.runtime) THEN @ + 1 ELSE @]

\* The provider and the kind are supported and the page yields a site key; or
\* one of them is not.
Begin ==
    /\ In("idle")
    /\ \/ To("creating") /\ Same
       \/ GiveUp

\* The call under way is not answered yet.
Wait ==
    /\ Calling /\ solve.calling < HttpLimit[req.runtime]
    /\ solve' = [Later(solve) EXCEPT !.calling = @ + 1]
    /\ Same

\* No connection, no JSON, or no answer within the limit of the HTTP client.
CallFails == Calling /\ GiveUp

Created ==
    /\ In("creating")
    /\ \E reply \in Replies :
         LET seen == Decoded(reply) IN
         IF seen.error \/ ~seen.taskId
           THEN /\ Conclude("CHALLENGE_BLOCKED")
                /\ solve' = [NoExchange EXCEPT !.opened = reply.taskId /\ ~reply.error]
           ELSE /\ solve' = [solve EXCEPT !.phase = "pausing", !.calling = 0,
                                          !.opened = TRUE]
                /\ Same

Pause ==
    /\ In("pausing") /\ solve.polling < SolverTimeout
    /\ solve' = [Later(solve) EXCEPT !.phase = "polling"]
    /\ Same

Expired ==
    /\ In("pausing") /\ solve.polling >= SolverTimeout
    /\ GiveUp

Polled ==
    /\ In("polling")
    /\ \E reply \in Replies :
         LET seen == Decoded(reply) IN
         CASE seen.error -> GiveUp
           [] ~seen.error /\ ~seen.ready -> To("pausing") /\ Same
           [] ~seen.error /\ seen.ready /\ seen.token -> To("injecting") /\ Same
           [] OTHER -> GiveUp

\* injectSolution: sets the response fields the page has, if any, and waits.
\* Errors are swallowed and the page is not looked at again.
Inject ==
    /\ In("injecting")
    /\ page' \in Becomes(page) \cup Real
    /\ challenge' = [challenge EXCEPT !.resolved = TRUE]
    /\ step' = "ready"
    /\ solve' = NoExchange
    /\ UNCHANGED <<req, elapsed, extracted, browser, answer>>

Exchange ==
    \/ Begin \/ Wait \/ CallFails \/ Created
    \/ Pause \/ Expired \/ Polled \/ Inject

\* The rest of the request, as in PageEngine.
Rest ==
    /\ \/ Launch \/ Prime \/ Navigate
       \/ NoHandling \/ Probe \/ Poll \/ TimedOut
       \/ Settle \/ Decide
       \/ Extract \/ Guard \/ Finish \/ Release
    /\ UNCHANGED solve

SolverNext == Exchange \/ Rest

\* The engine runs on: a pause ends, and the HTTP client of either runtime
\* gives up a call in the end.
SolverSpec == SolverInit /\ [][SolverNext]_solverVars /\ WF_solverVars(SolverNext)

-----------------------------------------------------------------------------
\* A request with a solver is still the request of PageEngine: whatever the
\* provider does, the exchange ends as one step that resolves the challenge or
\* reports it, and the request goes on to its answer.
ImplementsPageEngine == Spec

\* However a provider stalls, the exchange ends within its timeout and the
\* limits of two calls: the one that creates the task, which the timeout does
\* not cover, and the one that is under way when it expires.
SolveBounded == solve.spent <= LongestSolve(req.runtime)

-----------------------------------------------------------------------------
(* What comments say, and the code does not do.                            *)

\* rust/src/solver.rs:3: "Mirrors `server/core/solver.js`. [...] Uses the
\* standard createTask -> poll getTaskResult API contract shared by all three
\* providers".  A task that a provider has opened is polled.
OpenedTaskIsPolled ==
    [][(~solve.opened /\ solve'.opened) => solve'.phase = "pausing"]_solverVars

=============================================================================
