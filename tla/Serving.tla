------------------------------- MODULE Serving -------------------------------
(***************************************************************************)
(* Callers of the MCP server against the HTTP server behind it: calls with *)
(* a timeout (packages/mcp/api-client.js), the key that is charged when a  *)
(* call arrives, the engine's run, which outlives a caller that has given  *)
(* up, and the counters that record outcomes and responses (routes.rs,     *)
(* observability.rs, server/index.js and metrics.js).                      *)
(*                                                                         *)
(* A caller is an MCP server with its key; its calls may be made one after *)
(* the other, as retries, or beside each other.  The network may delay a   *)
(* request by up to Lag, lose it or its response, or break the connection  *)
(* at any time; the server may learn that a connection is closed, late or  *)
(* not at all.  Time passes in ticks, none of which goes by while a timer  *)
(* that is due has not been served.                                        *)
(***************************************************************************)
EXTENDS KeyRow, Observability

CONSTANTS
    Callers,
    MaxCalls,     \* bound on the calls of a caller
    LastSend,     \* bound on the clock: no call is made later
    Lag,          \* the longest a request is on its way
    Patience,     \* timeoutMs of the MCP client
    Longest,      \* the longest run of an engine
    Kinds,        \* the kinds of requests that callers make
    Outcomes      \* the results engines come to

Codes == {"ok", "failed", "cooldown", "rate_limited"}

\* The client waits longer than a cooldown lasts: 60 seconds against 6.
ASSUME ServingAssumption ==
    /\ MaxCalls \in Nat \ {0} /\ LastSend \in Nat
    /\ Lag \in Nat /\ Patience \in Nat /\ Longest \in Nat
    /\ Lag < Patience /\ Lag + MinCooldown * Second <= Patience
    /\ Kinds \subseteq {"page", "search", "transcript"}
    /\ Outcomes \subseteq Results /\ IsFiniteSet(Callers)
    /\ None \notin Codes

VARIABLES
    runtime,  \* the runtime of the server
    now,      \* the clock, the same for all
    key,      \* the row of each caller's key
    call,     \* call[c]: the calls of c, oldest first
    obs,      \* the server's counters
    finished  \* the time each recorded response took, oldest first (history)

vars == <<runtime, now, key, call, obs, finished>>

\* caller: what the caller knows of the call; gaveUp: when its timer went off
\* (history).  server: how far its handler is, "gone" when it ended without a
\* response.  open: the server takes the connection for open.  run: the
\* engine's run.
Call == [ kind: Kinds, sent: Nat, arrived: Nat, gaveUp: Nat,
          caller: {"waiting", "answered", "failed", "timed_out"},
          server: {"coming", "lost", "running", "recording", "responding",
                   "done", "gone"},
          open: BOOLEAN,
          run: {"none", "running", "over"},
          result: Outcomes \cup {None},
          code: Codes \cup {None} ]

ServingTypeOK ==
    /\ runtime \in Runtimes /\ now \in Nat
    /\ key \in [Callers -> Row]
    /\ call \in [Callers -> Seq(Call)]
    /\ \A c \in Callers : Len(call[c]) <= MaxCalls
    /\ obs \in Counters /\ Len(obs.latency) <= LatencyWindow
    /\ finished \in Seq(Nat)

\* Keys are created with the default limits.
Init ==
    /\ runtime \in Runtimes
    /\ now = 1
    /\ key = [c \in Callers |-> CreatedRow(runtime, 1, None, None, None)]
    /\ call = [c \in Callers |-> <<>>]
    /\ obs = NoCounters /\ finished = <<>>

Ids == {id \in Callers \X (1..MaxCalls) : id[2] <= Len(call[id[1]])}

At(id) == call[id[1]][id[2]]

Update(id, new) == call' = [call EXCEPT ![id[1]][id[2]] = new]

-----------------------------------------------------------------------------
(* The caller.                                                             *)

\* postJson: a new call, a new timer, whatever other calls are under way.
Send(c) ==
    /\ Len(call[c]) < MaxCalls /\ now <= LastSend
    /\ \E kind \in Kinds :
         call' = [call EXCEPT ![c] = Append(@,
           [ kind |-> kind, sent |-> now, arrived |-> 0, gaveUp |-> 0,
             caller |-> "waiting", server |-> "coming", open |-> TRUE,
             run |-> "none", result |-> None, code |-> None ])]
    /\ UNCHANGED <<runtime, now, key, obs, finished>>

\* Faults: the timer goes off a tick too early; it is only set when the
\* server has taken the request.
TimerDue_Early(q) == q.caller = "waiting" /\ now - q.sent >= Patience - 1

TimerDue_Accepted(q) ==
    q.caller = "waiting" /\ q.server # "lost" /\ now - q.sent >= Patience

TimerDue(q) == q.caller = "waiting" /\ now - q.sent >= Patience

\* controller.abort(): "API request timed out".
TimeOut(id) ==
    /\ TimerDue(At(id))
    /\ Update(id, [At(id) EXCEPT !.caller = "timed_out", !.gaveUp = now])
    /\ UNCHANGED <<runtime, now, key, obs, finished>>

\* fetch or the reading of its body rejects, before the timer goes off: "API
\* request failed".  The request may be on its way, or its run under way.
Fail(id) ==
    /\ At(id).caller = "waiting"
    /\ Update(id, [At(id) EXCEPT !.caller = "failed"])
    /\ UNCHANGED <<runtime, now, key, obs, finished>>

-----------------------------------------------------------------------------
(* The server.                                                             *)

Lose(id) ==
    /\ At(id).server = "coming"
    /\ Update(id, [At(id) EXCEPT !.server = "lost"])
    /\ UNCHANGED <<runtime, now, key, obs, finished>>

\* The server of a connection that is closed: axum drops the handler where it
\* waits for the engine, and may do so still when the engine has just come to
\* its end; Node's handler does not notice.
HangUp(q) ==
    IF runtime = "js" THEN {q.server}
    ELSE CASE q.server = "running" -> {"gone"}
           [] q.server = "recording" -> {"recording", "gone"}
           [] OTHER -> {q.server}

\* Rust fetches transcripts in the handler itself, and the engine's pages and
\* searches on a thread that nothing stops.
RunAfter(q, server) ==
    IF q.kind = "transcript" /\ server = "gone" THEN "over" ELSE q.run

\* The server learns that the connection is closed: by the caller, who has
\* given up or failed, or by the network.
Close(id) ==
    /\ At(id).open /\ At(id).server \in {"running", "recording", "responding"}
    /\ \E server \in HangUp(At(id)) :
         Update(id, [At(id) EXCEPT !.open = FALSE, !.server = server,
                                   !.run = RunAfter(At(id), server)])
    /\ UNCHANGED <<runtime, now, key, obs, finished>>

\* The middleware charges the key, and the route starts the engine.
Arrive(id) ==
    LET c == id[1]
        search == At(id).kind = "search"
        reason == Reason(runtime, key[c], search, now)
        here == [At(id) EXCEPT !.arrived = now]
    IN /\ At(id).server = "coming"
       /\ key' = [key EXCEPT ![c] = Stored(runtime, @, search, now)]
       /\ Update(id, IF reason = "ok"
                       THEN [here EXCEPT !.server = "running", !.run = "running"]
                       ELSE [here EXCEPT !.server = "responding", !.code = reason])
       /\ UNCHANGED <<runtime, now, obs, finished>>

\* The engine comes to its end, whether or not a handler still waits for it.
RunEnds(id) ==
    /\ At(id).run = "running"
    /\ \E result \in Outcomes :
         /\ result.kind = At(id).kind
         /\ Update(id, [At(id) EXCEPT !.run = "over", !.result = result,
              !.server = IF @ = "gone" THEN "gone" ELSE "recording",
              !.code = IF result.success THEN "ok" ELSE "failed"])
    /\ UNCHANGED <<runtime, now, key, obs, finished>>

\* Rust's transcript route tells the counters nothing.
Counted(q) ==
    IF runtime = "rust" /\ q.kind = "transcript" THEN obs
    ELSE RecordEngineOutcome(runtime, obs, q.result)

Record(id) ==
    /\ At(id).server = "recording"
    /\ obs' = Counted(At(id))
    /\ Update(id, [At(id) EXCEPT !.server = "responding"])
    /\ UNCHANGED <<runtime, now, key, finished>>

\* A response on a connection that is known to be closed is not finished on
\* Node: nothing is recorded of it.  In Rust the response is recorded as it
\* leaves the router, in the same poll as the handler's end.
Finishes(q) == runtime = "js" => q.open

Limited(q) == q.code \in {"cooldown", "rate_limited"}

\* The response may still be lost: a connection can be broken and the server
\* not know it.
Respond(id) ==
    /\ At(id).server = "responding" /\ Finishes(At(id))
    /\ LET took == now - At(id).arrived IN
         /\ obs' = RecordHttpResponse(obs, Limited(At(id)), took)
         /\ finished' = Append(finished, took)
    /\ \E caller \in {At(id).caller} \cup
                     IF At(id).caller = "waiting" /\ At(id).open
                       THEN {"answered"} ELSE {} :
         Update(id, [At(id) EXCEPT !.server = "done", !.caller = caller])
    /\ UNCHANGED <<runtime, now, key>>

Discard(id) ==
    /\ At(id).server = "responding" /\ ~Finishes(At(id))
    /\ Update(id, [At(id) EXCEPT !.server = "gone"])
    /\ UNCHANGED <<runtime, now, key, obs, finished>>

\* What cannot wait for the next tick.
Urgent(q) ==
    \/ TimerDue(q)
    \/ q.server = "coming" /\ now - q.sent >= Lag
    \/ q.run = "running" /\ now - q.arrived >= Longest
    \/ q.server \in {"recording", "responding"}

Active(q) == q.caller = "waiting" \/ q.run = "running"

\* Bound on the clock: whatever was sent by LastSend is over by then.
Horizon == LastSend + Lag + Patience + Longest

Tick ==
    /\ \A id \in Ids : ~Urgent(At(id))
    /\ now <= LastSend \/ \E id \in Ids : Active(At(id))
    /\ now <= Horizon
    /\ now' = now + 1
    /\ UNCHANGED <<runtime, key, call, obs, finished>>

Next ==
    \/ Tick
    \/ \E c \in Callers : Send(c)
    \/ \E id \in Ids :
         \/ TimeOut(id) \/ Fail(id) \/ Lose(id) \/ Close(id)
         \/ Arrive(id) \/ RunEnds(id)
         \/ Record(id) \/ Respond(id) \/ Discard(id)

\* Time passes, timers go off, and handlers and runs go on; nobody has to call,
\* and nothing has to fail.
Spec ==
    /\ Init /\ [][Next]_vars
    /\ WF_vars(Tick \/ \E id \in Ids :
         \/ TimeOut(id) \/ Arrive(id)
         \/ RunEnds(id) \/ Record(id) \/ Respond(id) \/ Discard(id))

-----------------------------------------------------------------------------
Number(Test(_)) == Cardinality({id \in Ids : Test(At(id))})

Recorded(q) == q.code = "ok" /\ q.server \in {"responding", "done", "gone"}

\* The counters are the calls: each 429 once, the latest response times in the
\* order in which they were sent, and the successes, which in Rust are answers
\* on their way to a caller and on Node every run that ended well, whoever has
\* hung up meanwhile.  p95 never exceeds the longest run.
MetricsMatch ==
    /\ obs.status429 = Number(LAMBDA q : Limited(q) /\ q.server = "done")
    /\ obs.latency =
         SubSeq(finished, IF Len(finished) < LatencyWindow THEN 1
                          ELSE Len(finished) - LatencyWindow + 1, Len(finished))
    /\ obs.success =
         IF runtime = "rust"
           THEN Number(LAMBDA q : Recorded(q) /\ q.server # "gone"
                                    /\ q.kind # "transcript")
           ELSE Number(Recorded)
    /\ GetSnapshot(obs).p95 <= Longest

\* No caller is refused for the cooldown of a search it had given up when its
\* timer went off: a search that is refused was sent while the search that was
\* charged had not timed out.  (It may have failed, or still be under way.)
TimeoutCostsNoCooldown ==
    \A c \in Callers : \A i \in DOMAIN call[c] :
      call[c][i].code = "cooldown" =>
        \E j \in DOMAIN call[c] \ {i} :
          /\ call[c][j].kind = "search" /\ call[c][j].run # "none"
          /\ call[c][i].arrived - call[c][j].arrived \in 0..(key[c].cooldown * Second - 1)
          /\ call[c][j].caller = "timed_out" => call[c][i].sent < call[c][j].gaveUp

\* Runs that outlive the call they were made for pile up, but not without
\* bound: however a caller retries, hangs up or calls in parallel, its engines,
\* each with a browser of its own, are no more than the rate limit lets through
\* in the windows that the longest run can reach into.
RunsPerCaller ==
    \A c \in Callers :
      Cardinality({i \in DOMAIN call[c] : call[c][i].run = "running"})
        <= (1 + (Longest + Window) \div (Window + 1)) * key[c].rate

\* Every call returns, with an answer, a failure or a timeout, and every run
\* ends, whoever has abandoned it and whatever the network loses: of the calls
\* that are ever made, none is left waiting and none is left running.
EveryCallReturns ==
    <>[](\A id \in Ids : At(id).caller # "waiting" /\ At(id).run # "running")

=============================================================================
