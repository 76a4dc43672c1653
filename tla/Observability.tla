---------------------------- MODULE Observability ----------------------------
(***************************************************************************)
(* The process-wide counters behind /health/observability, as a record and *)
(* the operations on it.  Translated from rust/src/observability.rs and    *)
(* server/observability/metrics.js.  A result is what the counters look at *)
(* in an engine's answer; durations are natural numbers of clock units, so *)
(* the test for a finite, non-negative duration is left out.               *)
(***************************************************************************)
EXTENDS Naturals, FiniteSets, SequencesExt

CONSTANT LatencyWindow  \* LATENCY_WINDOW_SIZE

ASSUME ObservabilityAssumption == LatencyWindow \in Nat \ {0}

Counters == [ success: Nat, blocked: Nat, depthSum: Nat, depthSamples: Nat,
              status429: Nat, latency: Seq(Nat) ]

NoCounters == [ success |-> 0, blocked |-> 0, depthSum |-> 0, depthSamples |-> 0,
                status429 |-> 0, latency |-> <<>> ]

\* A result: the kind of request and, for a search or a transcript, the
\* reasons of its attempts.
Results == [ success: BOOLEAN, kind: {"page", "search", "transcript"},
             attempts: Seq({"ok", "no_results", "blocked", "error"}) ]

\* Fault: a full window takes no more samples.
Latest_Stuck(samples) ==
    IF Len(samples) <= LatencyWindow THEN samples ELSE Front(samples)

\* The samples that are kept when one has been added.
Latest(samples) ==
    IF Len(samples) <= LatencyWindow THEN samples ELSE Tail(samples)

RecordHttpResponse(o, limited, took) ==
    [o EXCEPT !.status429 = IF limited THEN @ + 1 ELSE @,
              !.latency = Latest(Append(@, took))]

\* fallbackDepthFromAttempts: how many attempts preceded the first that found
\* something, or the last one if none did.
FallbackDepth(attempts) ==
    LET found == {i \in DOMAIN attempts : attempts[i] = "ok"} IN
    IF found # {} THEN (CHOOSE i \in found : \A j \in found : i <= j) - 1
    ELSE IF attempts = <<>> THEN 0 ELSE Len(attempts) - 1

WithAttempts(o, attempts) ==
    [o EXCEPT !.success = @ + 1,
              !.blocked = @ + Len(SelectSeq(attempts, LAMBDA a : a = "blocked")),
              !.depthSamples = @ + 1,
              !.depthSum = @ + FallbackDepth(attempts)]

\* Node takes any answer with attempts for a search, a transcript included;
\* Rust is told of engine answers only and looks at the kind of its meta.
RecordEngineOutcome(r, o, result) ==
    IF ~result.success THEN o
    ELSE IF IF r = "js" THEN result.attempts # <<>> ELSE result.kind = "search"
      THEN WithAttempts(o, result.attempts)
    ELSE [o EXCEPT !.success = @ + 1]

CeilPercent(p, n) == (p * n + 99) \div 100

\* The least sample that p percent of the samples do not exceed: the element
\* ceil(p / 100 * n) - 1 of the sorted samples.
Percentile(samples, p) ==
    IF samples = <<>> THEN 0
    ELSE LET below(v) == Cardinality({i \in DOMAIN samples : samples[i] <= v})
             large == {v \in ToSet(samples) : below(v) >= CeilPercent(p, Len(samples))}
         IN CHOOSE v \in large : \A w \in large : v <= w

\* fallback_depth is left as the fraction it is computed from.
GetSnapshot(o) ==
    [ success |-> o.success, blocked |-> o.blocked,
      fallbackDepth |-> <<o.depthSum, o.depthSamples>>,
      p95 |-> Percentile(o.latency, 95), status429 |-> o.status429 ]

=============================================================================
