# nsect in TLA+

nsect retrieves web pages, search results and YouTube transcripts with a real
browser, behind an HTTP API, a command line and an MCP server. It exists twice:
the Node runtime (`server/`, `nsect-engine.js`) and the Rust runtime (`rust/`),
which offer the same surface and may share one SQLite key database. These
modules model the parts whose correctness depends on state, order, time and
failure, in both runtimes, and check and prove what they promise.

## Inventory

| Component | State | Operations | What is hard | What makes it correct |
|---|---|---|---|---|
| Key store (`server/db/keys.js`, `rust/src/db.rs`) | table `api_keys`: limits, expiry, revocation, counters, window, last search | create, validate, revoke, list, inspect | two implementations on one file, deferred against immediate transactions, busy errors, crashes, wall clock | cooldown, rate, expiry and revocation hold for every interleaving; both runtimes mean the same by a row |
| Admission (`server/middleware/auth.js`, `rust/src/auth.rs`, the routes) | the requests in progress | parse, tell a search, charge, validate, run | charging comes before validating; middleware and engine tell a search apart | what is charged is what is let through; each refusal has a cause |
| Admin limiter (same files) | window and count per address | count a call | clock read outside the mutex | quota per window |
| Page engine (`server/core/engine.js`, `rust/src/engine.rs`) | browser, tab, what is known of a challenge | launch, navigate, wait, solve, extract, release | the page changes under every wait; every step may fail | honest outcome, browser released |
| Challenge (`challenge.js`, `challenge.rs`) | budget of the wait | detect, poll | clearing at the end of the budget, blank pages | no challenge as content, no block without cause |
| Solver (`solver.js`, `solver.rs`) | task at a provider | create, poll, inject | provider stalls, calls that are not answered, token not accepted | a stall costs a bounded time, failures are reported as the challenge |
| Search (`search.js`, `search.rs`, engine) | order, attempts | normalise, try, skip, extract | one engine fails after navigation | order, record and answer agree |
| Transcripts (`youtube-transcript.js`, `transcript.rs`) | attempts, instances marked down | adapters in order, circuit breaker | shared map, one timeout each | chain falls through, no dead instance retried early |
| Requests (`request.js`, `request.rs`) | none | normalise, refuse | two readings of one body: aliases, conversions, defaults | both runtimes make the same request of what both read |
| Server and routes | none beyond the above | map outcomes to statuses, record responses | connections that are closed under a handler | each call charged, answered and counted once |
| Observability (`metrics.js`, `observability.rs`) | counters, ring of latencies | record a response, record an outcome, snapshot | concurrent calls, abandoned calls | counters match the calls |
| MCP (`packages/mcp`) | the timer of a call | call, give up, call again | late answer, broken connection, retries and parallel calls on one key, runs that go on | a call whose timer went off costs its retry no cooldown, runs are bounded, every call returns |

The calls between them: a request passes the admission middleware (which runs
`validateKey` in one SQLite transaction), is normalised by the route, and runs
one engine, which launches its own browser; a search request runs the search
loop inside that browser. Nothing but the key database, the admin windows, the
instance map and the counters is shared between requests.

## Modules

| Module | Models | Instances |
|---|---|---|
| `KeyRow` | a row and the pure decisions on it, from each runtime's source (`Js...`, `Rs...`) | - |
| `KeyStore` | the key store as callers see it, one step per operation | `MCKeyStore` |
| `KeyStoreTx` | the same as transactions of several processes on one SQLite file; implements `KeyStore` | `MCKeyStoreTx` |
| `SearchFallback` | one search request on either runtime | `MCSearchFallback` |
| `PageEngine` | one page request on either runtime, a solver being one step | `MCPageSolver` |
| `PageSolver` | the same with the exchange between engine and provider; implements `PageEngine` | `MCPageSolver` |
| `Request` | normalisation of an engine request in both runtimes, as operators | `MCAdmission` |
| `Admission` | API requests through body, middleware, `Request` and run, over `KeyStore` | `MCAdmission` |
| `AdminLimiter` | the admin limiter with workers | `MCAdminLimiter` |
| `AdapterChain` | what a transcript request promises: adapters in order, one record each | - |
| `Transcript` | the transcript requests of one process and the circuit breaker they share; implements `AdapterChain` for each | `MCTranscript` |
| `Observability` | the counters, and what recording does to them, as operators | `MCServing` |
| `Serving` | callers of the MCP client, the network, handlers, engine runs, keys (`KeyRow`) and counters (`Observability`) | `MCServing` |
| `KeyStoreProofs`, `KeyStoreTxProofs` | lemmas on the decisions of `KeyRow`, theorems about `KeyStore`, and that its transactions implement it | - |
| `PageSolverProofs` | theorems about `PageEngine` and `PageSolver` | - |
| `AdmissionProofs` | lemmas about `Request`, theorems about `Admission` | - |
| `AdminLimiterProofs`, `ServingProofs`, `TranscriptProofs`, `SearchFallbackProofs` | theorems about the modules they are named after | - |

Operators called `Definition_Fault` are `Definition` with a plausible bug. No
specification uses them; each stands in for its definition to show that the
property aimed at that bug really fails.

**Key store.** `rows` is the table (`NoRow` for an absent hash); `clock` and
`admitted` are history. `ValidateKey` is the whole transaction: `Reason` is the
chain of early returns and `Stored` the row it leaves. Labels, hashes, ISO
copies of times are left out. A clock reading is an input of the operation that
takes it; `StepBack` says how far the wall clock may be set back.

**Transactions.** A process is one connection with at most one transaction
(Node is single-threaded and synchronous here, Rust holds a mutex). `JsBegin`
is BEGIN IMMEDIATE; Rust reads first and asks for the write lock at its UPDATE
(`RsUpgrade`), which SQLite refuses on a stale snapshot (`SnapshotCurrent`).
SQLite itself is external: one writer, snapshots, lock released at the end of a
transaction or of its process. `JsUpdate` and `RsUpdate` write the columns
their statements name, on the row as it then is.

**Search.** One action per step of the loop and one for each way it can fail.
On Node any error is recorded and the next engine tried (`FailsHere`); in Rust
only the navigation is matched. The page has a kind, chosen when it loads and
again while the strategy waits. A results page is a sequence of links: pages of
the web, an address that is not HTTP, and a redirect, which Google and DuckDuckGo
unwrap, to an address of either kind. `Extract` is the script in the page, which
stops after `MaxResults` links of any kind, followed by `NormalizeSearchResults`,
which tests a link, unwraps it, tests what it led to and de-duplicates. `Open`
ends the request in either runtime when there is no browser or no tab.

**Page.** `Detect` gives the kind of challenge seen on each kind of page,
`Probe`/`Poll`/`TimedOut` are `waitForChallengeResolution`, `Settle` the wait of
the strategy, `Guard` the empty-content guard, `Release` the `finally` block.
The page is the environment (`Becomes`). A test of the length of the extracted
text is a choice where the kind of page leaves it open. A challenge may clear by
itself, be taken by a solver, both (`auto`), one (`shield`, `widget`) or neither
(`wall`). Rust lists fewer signatures than Node: an `unlisted` page is a `shield`
to Node and no challenge to Rust, on the sites (`Unlisted`) that have one. The
hard-block text that only Node lists ("automated queries") differs in the same
way and is not a kind of its own.

**Solver.** `PageSolver` replaces the step `PageEngine!Solve` by the exchange
with the provider: `Begin`, `Created`, `Pause`, `Polled`, `Inject`, and the ways
out (`Expired`, `CallFails`, `GiveUp`). The provider is the environment: it
answers anything (`Replies`), late or never (`Wait`). `Decoded` is what the
engine makes of a reply: Rust's `SolverResponse` asks for field names that no
provider sends. Time is counted in the two-second pauses of the polling loop;
`solve` is reset when the exchange is over, so the refinement is by forgetting it.

**Admission.** `Admission` extends `KeyStore`: `Authorize` conjoins the
middleware's transaction `ValidateKey` with the step of the request that waits
for it, so any number of requests run over one table. `call[q]` says how far a
request is: `received`, `parsed` (`express.json`, `Json<...>`), `admitted` (past
`apiKeyAuth`), `running` (normalised), `answered`. A body is its route, whether
it parses, for a transcript whether its fields are valid (`sound`), and for the
engine the `input` that `Request` gives a meaning. The middleware looks at two
fields of the body as it arrived, the engine at what `Request!Normalized` made
of it; `ChargesMatch` and `NormalizedAlike` are about that difference.
`StoreFails` is a busy database, as in `KeyStoreTx!Busy`.

**Requests.** A field is a member of a small set: absent, blank, a value of the
wrong type, or one of the values that are told apart. `RsReads` is what serde
accepts; `RsFaults`, `JsFaults` the refusals, as sets of reasons, since the order
of the checks only chooses the wording; `RsNormalized`, `JsNormalized` the
request with its defaults.

**Admin limiter.** `ReadClock` and `Serve` are separate, as they are in Rust:
the mutex is taken after the reading.

**Transcripts.** `call[r]` is one request: the adapter and source it is at, the
cached watch page, the track it has picked, its record. `expiry` is
`downInstances`, shared by all requests of the process. An adapter is a list of
sources (instances, commands, or YouTube itself), asked in turn; a failure is
`dead` (no answer, or a refusing one), `garbled`, `no_track` or `captions`, and
`EndsMethod` and `Marks` say what each does in each runtime: on Node the
instance's own catch block marks it down and the next is tried; in Rust `?`
leaves the adapter and only Piped marks. `PickTrack` is the order of preference
of `pickTrack`, over tracks told apart by language and by being generated.

**Serving.** `call[c]` are the calls of one MCP server, which share its key and
may be retries or run side by side (`Send` has no guard on other calls). Each has
three views of itself: the caller's (waiting, answered, failed, timed out), the
handler's, and the engine run's. `TimeOut` and `Fail` are the two halves of
`postJson`'s catch: the abort of its own timer, and a fetch or a body that
rejects at any moment ("API request failed"), with the request still on its way,
charged, or running. `Arrive` charges the key with `KeyRow!Stored`, as the
middleware does. `Close` is the server's side of a connection that is gone,
noticed late or never; `HangUp` says what it does to the handler: nothing on
Node; in Rust it is dropped where it waits, while the blocking thread it started
goes on (`RunAfter`). `Record` and `Respond` are `recordEngineOutcome` and
`recordHttpResponse`; a response may be lost on its way, and on Node one to a
connection known to be closed is never finished and so not recorded (`Discard`).
Ticks are held back while a timer that is due has not been served (`Urgent`).

## Runs

| Run | Result | Shows |
|---|---|---|
| `KeyStore.cfg` | holds | all promises of the key store, clock not set back |
| `KeyStoreTx.cfg` | holds | Node and Rust processes implement `KeyStore`; revocation is not undone; every call ends |
| `SearchFallback.cfg` | holds | order, attempts, links and answer agree; every search is answered |
| `PageEngine.cfg` | holds | pages with the solver's exchange implement `PageEngine`; no challenge as content, no block without cause, a stalled provider costs a bounded time, every request is answered with its browser released |
| `Admission.cfg` | holds | the requests let through are the requests charged, refusals have a cause, plain searches keep the cooldown, both runtimes make the same of a body both read, every request is answered |
| `AdminLimiter.cfg` | holds | quota per window, and per span up to late readings |
| `Transcript.cfg` | holds | the chain of adapters is kept, instances rest exactly as long as they should, requests end |
| `Serving.cfg` | holds | the counters match the calls, a search whose timer went off costs its retry no cooldown, the runs of a caller are bounded by its rate, every call returns and every run ends, whatever the network loses or breaks |
| `SearchLateChallenge.cfg` | violated | the late challenge test of engine.js:603 can never succeed |
| `SolverContract.cfg` | violated | in Rust a task the provider has opened is never polled (rust/src/solver.rs:5) |
| `AdmissionAlias.cfg` | violated | a search named `google` beside an empty `query` escapes the cooldown (README.md:91) |
| `TranscriptBreaker.cfg` | violated | Rust never rests a dead Invidious instance |

More statements disagree with the code, or the runtimes with each other, so
plainly that no run is spent on them:

- README.md:37 has Google as the final attempt of a search whose other engines
  found nothing. In Rust only a failed navigation is recorded: an error while
  waiting, inspecting or extracting ends the search (engine.rs:434, `FailsHere`).
- engine.js:805 guards against an empty extraction by looking at the page as it
  is then, not at what was extracted (`Guard`).
- The MCP tool lets its user ask for a `timeout` of up to 180 seconds, while the
  client gives up after 60 (api-client.js:53).
- `method: "wait"` beside another strategy is refused without a selector by Rust
  and taken by Node (`RsWaitFault`, `JsWaitFault`). Rust refuses a field under
  both of its names and strings for integers (`RsReads`), Node takes them.
- README.md:92 calls the rate limit a rolling minute window; the window is
  fixed (`TwiceRatePerSpan` is what holds), and so is the admin limiter's
  (auth.js:115).
- challenge.rs:2 says that it mirrors challenge.js. Its signatures
  (challenge.rs:75-137) lack those of Akamai, the generic interstitials and the
  hard-block text "automated queries" of challenge.js:86-115: what Node waits for
  and reports, Rust returns as content (`Detect`, `Unlisted`).
- challenge.js:175 excepts pages with visual content from the empty-page
  heuristic, but looks for them among markers that a page which has any was
  already reported for: the exception never applies (`Detect`).
- auth.js:73 advises a rate-limited caller to retry after
  ceil((60000 - elapsed) / 1000) seconds. The window is over only when more than
  60000 ms have passed (keys.js:301), so a caller back after exactly that long
  may be refused again; Rust always says 60 seconds (`RsRetryAfter`).
- engine.rs:495 says that the Rust strategy step mirrors the one of Node, which
  returns at once when a challenge is unresolved (engine.js:504). Rust goes on to
  its wait; if that fails the challenge is dropped and the answer is
  UPSTREAM_REQUEST (`Settle`, `MayFail`).
- `.docs/api-reference.md:98`: 502 when all transcript adapters failed; the Rust
  route answers 200 with `success: false` (routes.rs:234).
- The cooldown is charged by Node for a transcript request whose body also has a
  `query`, and by Rust never (`EnforceSearchCooldown`).
- `.docs/api-reference.md:57`: Google is added to the engines of a search that
  leaves it out.
- solver.js:202: the solver reports a challenge solved without looking at the
  page.
- save-transcript.mjs:131 says that `--no-auto-captions` disables generated
  captions; `Preference` ends with any track at all, and on Node the generated
  tracks of yt-dlp are taken for tracks made by hand (`Seen`).

### Bounds

- `KeyStore`: one key (operations on different keys touch different rows),
  11 readings, a second of 2 units, a window of 2 seconds, cooldowns of 1 to 3
  seconds, rates of 1 and 2. Three windows, several cooldowns and an expiry
  fit, with every comparison met below, at and above its boundary.
  The run's clock is never set back; the theorems that hold when it is are
  proved for every setback.
- `KeyStoreTx`: two processes suffice for every conflict SQLite can report,
  since at most one holds the lock; clock up to 4, a window and a cooldown of
  one second (2 units), one rate. The number of calls is bounded by the clock and
  by the rate, not by a counter.
- `SearchFallback`: three engines, lists of up to three names, one of which may
  be unsupported, so repetitions, Google first, last and absent all occur.
  Google and DuckDuckGo unwrap redirects, Bing does not. A search wants
  three links; the pages are all sequences of up to three of five links, so
  that a redirect, one that leads to no web page and a repetition occur with
  every engine.
- `PageSolver`: a budget of three polls for the challenge: cleared at once, on
  the way, at the end and never. A solver timeout of two pauses, an HTTP limit of
  three on Node and of one in Rust: calls that end before, at and after the
  timeout.
- `Transcript`: two requests, two Invidious instances, one Piped instance, two
  commands, three lists of adapters (one names an adapter twice), three answers
  of a provider, a cooldown of 1 and a clock to 3: a mark, its expiry and a
  second mark by the other request fit. A clock that is set back is not modelled.
- `Admission`: one key, two requests of eleven kinds of body, rates of 1 and 2,
  clock to 4, a window and a cooldown of 2. Every refusal and every step of one
  request meets every step of the other; longer histories of a key are
  `KeyStore`'s. The body's answer codes are merged into `ok` and `failed`.
- `Serving`: one caller (callers share only the counters) with three searches,
  none sent after 2, a request up to 1 on its way, a patience of 2, runs of up
  to 2, a cooldown of 1, a rate of 1 in a window of 1 and a ring of one
  latency. A late arrival, a run that outlasts its call, a retry and a
  parallel call beside it, runs let in by two windows and a ring that is
  overwritten fit. Pages and transcripts are not called in the run (they have
  no cooldown, and a transcript that is hung up on in Rust ends at once); the
  theorems cover them. The proportions are those of the defaults:
  `ServingAssumption` says that a late arrival and a cooldown fit into the
  patience (6 seconds of cooldown, 60 of patience), which
  `TimeoutCostsNoCooldown` needs. A key with a longer cooldown, or a client
  with a shorter timeout, may be refused; so may, at any setting, the retry of
  a call that failed before its timer went off, and the property says no more.
- `AdminLimiter`: two workers, a window of 3, a limit of 2, clock to 8 and 7
  calls: three windows with late readings into each.

Deadlock is checked for the key store. A request (`SearchFallback`,
`PageSolver`, `Transcript`, `Admission`) stops when it is answered, and
`AdminLimiter` and `Serving` when their bounds are used up.

### Fairness

`SearchFallback` and `PageSolver` assume that a request in progress takes its
next step: every wait on the browser has a timeout (`setDefaultTimeout`,
`set_default_timeout`, fixed sleeps), a pause of the solver ends, and a call to
its provider fails at the latest when the HTTP client gives up: reqwest after the
30 seconds solver.rs sets, Node's `fetch` after the 300 seconds that are its own
default, since solver.js sets none. That the provider answers is not assumed.
The same is assumed of each transcript
request: `fetchWithTimeout`, `execFile` and `tokio::time::timeout` end every fetch
and command. `AdmissionSpec` assumes of each request that its handlers run on
to the answer, the engine's run being bounded as above; nothing is assumed of
callers or administrators. `Serving!Spec` assumes that time passes and that
timers, handlers and runs go on; a call need not be made, nothing has to fail, and
a request, a response or a connection may be lost. Three facts of the platforms are taken as external there: a Node handler
goes on after its client hangs up, `finish` is not emitted for a closed
connection, and axum drops the handler's future. `KeyStoreTx!FairSpec` assumes that a
transaction in progress runs on (threads are scheduled, the busy handler gives
up); nothing is assumed of clocks, callers or crashes.

## Proofs

Every type invariant, safety invariant, action property and safety refinement
that a passing run checks is also a theorem of its specification, for all
values of the constants: any sets of keys, requests, callers, workers,
processes, engines and instances, any limits, budgets and clocks. The
assumptions are those the modules name (`KeyRowAssumption`,
`TranscriptAssumption`, ...), which every run evaluates, and the hypotheses given
below.

| Module | Theorem | Says |
|---|---|---|
| `KeyStoreProofs` | `TypeCorrect` | `[]TypeOK` |
| | `SearchesSpaced` | `[]SearchSpacing`, on any clock |
| | `AdmittedInTime` | `[]NeverPastExpiry`, on any clock |
| | `SameOnBothRuntimes` | `[]RuntimesAgree` |
| | `NoWayBack` | `RefusalIsFinal` |
| | `AdviceIsEnough` | `[]CooldownAdviceHolds`, on any clock |
| | `AtMostTwiceTheRate` | `[]TwiceRatePerSpan`, if the clock is not set back |
| | `CountersAreExact` | `[]CountersExact`, if the clock is not set back |
| | `NobodyLockedOut` | `[]QuietCallerAdmitted`, if the clock is not set back |
| `KeyStoreTxProofs` | `TransactionsAreAtomic` | `ImplementsKeyStore` |
| | `RevocationNeverUndone` | `[]RevocationSticks` |
| | `HolderReadsTable` | the holder of the write lock sees the row as it is |
| | `SharedStoreIsSafe` | the theorems about `KeyStore`, of the shared database |
| `PageSolverProofs` | `ExchangeIsOneStep` | `PageEngine`'s safety: `Init /\ [][Next]_vars` |
| | `ChallengeNeverContent` | `[]NoChallengeAsContent` |
| | `BlockedHasCause` | `[]BlockedForCause` |
| | `BrowserGoneFirst` | no answer while the browser is open |
| | `ExchangeBounded` | `[]SolveBounded` |
| | `SolverTypeCorrect` | `[]SolverTypeOK` |
| `AdminLimiterProofs` | `QuotaKept` | `[]QuotaPerWindow` |
| | `SpanKept` | `[]SpanBounded` |
| | `LimiterTypeCorrect` | `[]TypeOK` |
| `AdmissionProofs` | `ServerUsesKeyStore` | the server's behaviours are `KeyStore`'s |
| | `ChargedOnce` | `[]ChargesMatch` |
| | `PlainSearchesSpaced` | `[]PlainSearchesApart` |
| | `NoRefusalWithoutCause` | `[]RefusalHasCause`, if the clock is not set back |
| | `BodiesMeanTheSame` | `[]NormalizedAlike` |
| | `RequestsTyped` | `[]AdmissionTypeOK` |
| `ServingProofs` | `RetryAfterTimeout` | `[]TimeoutCostsNoCooldown` |
| | `FewRunsPerCaller` | `[]RunsPerCaller` |
| | `MetricsTellTheCalls` | `[]MetricsMatch` |
| | `ServingTypeCorrect` | `[]ServingTypeOK` |
| `TranscriptProofs` | `RequestsAreChains` | `ImplementsChain` |
| | `HandMadeFirst` | `[]ManualPreferred` |
| | `NoneAskedTooSoon` | `FailedInstanceRests` |
| | `NoneRestsTooLong` | `RestIsBounded` |
| | `TranscriptTypeCorrect` | `[]TypeOK` |
| `SearchFallbackProofs` | `OrderKept` | `[]OrderIsFaithful` |
| | `AnswerTellsAttempts` | `[]AnswerMatchesAttempts` |
| | `NodeGoesOn` | `[]NodeTriesEveryEngine` |
| | `SearchTypeCorrect` | `[]TypeOK` |

None of these is inductive alone. What each needs besides:

**Key store.** `ClockFreeInv` adds what a row remembers of its history: a key
that has not been created has no admissions (`Fresh`), `last_search_at` is the
latest admitted search (`LatestSearch`), searches are spaced (`Spaced`) and
admissions in time (`InTime`). The next admission is compared with
`last_search_at` only; `LatestSearch` carries the comparison to all earlier
ones. `WindowInv` is for the counters: the last `window_count` admissions are
those of the window that starts at `window_start` (`Counted`), all others are
older (`Older`), and any `2 * rate` admissions meet a gap longer than the window
(`Spread`). One lemma states what each runtime's validation does to a row, and
the agreement of both follows from it.

**Transactions.** `TxInv` says who can be at which step (`Ordered`), that the
lock is held exactly by the transactions that have asked for it (`LockInv`),
that a snapshot which is not stale is the row in the table (`Snapshot`), and that
the reading a decision uses is no earlier than the last write of its row
(`Timed`): without the last two a commit would not be one step of `KeyStore`
taken at that reading. `SharedStoreIsSafe` instantiates `KeyStoreProofs` and
carries its theorems over.

**Page and solver.** `PageInv` says what a step already knows of the answer to
come: what is there (`Present`), that a challenge on record is unresolved only
between the first look and the decision, and that one which may clear has then
had its whole budget (`Known`), and that a request which watches for challenges
holds a real page as soon as none is on record (`Clean`), if the runtime lists
the challenges of its site (`Listed`). `SolveInv` splits the
time an exchange has taken into the call that created the task and the time
since (`Spent`); the bound is inductive only stage by stage.

**Admin limiter.** `LimiterInv` is about the history of one address: windows
follow one another (`Sequential`) and were opened by a call that was allowed
(`Opened`), the entry of the map counts the last of them exactly up to the quota
(`Current`), and a call can be late only if its worker held its reading when the
window was opened (`FewLate`), which bounds late calls by the other workers.

**Admission.** `BodyInv` ties a request to the body it came from (`Meant`).
`ServerInv` is the account of a key: the requests charged on it are finitely
many, as many as its `uses`, and its `last_search` is the latest of the searches
among them (`Account`). `CauseInv` goes the other way, from the row to the
requests: the window's count and the last search stand for charges that really
happened (`Vouched`), so a refusal can name them. `BodiesMeanTheSame` rests on
lemmas about `Request` for every input: when a body is refused, that a second
normalisation finds nothing wrong, and that both runtimes mean the same by what
both can read.

**Serving.** `CallerInv` relates the three views of each call by itself
(`CallInv`), says that every refusal for the cooldown has a charged search less
than a cooldown before it (`Paid`), and accounts for the row of the key
(`KeyInv`): its last search is a call, and its window counts the calls let in, no
more than the rate in it and in each of the windows before (`WindowInv`).
`FewRuns` divides the longest run into such windows. `RetryAfterTimeout` follows
from `Paid`: a search that is charged arrives within `Lag` of its sending, so by
the time its timer goes off its cooldown is over. `CountInv` equates each counter
with the number of calls that the server has recorded so, and the ring with the
end of the list of all latencies.

**Transcripts.** `ChainInv` says how far each request is in its list of adapters
(`InOrder`) and keeps `ManualPreferred` per request. `BreakerInv` says what the
shared map remembers: an entry ends a cooldown after the last failure of its
instance and is missing only if there was none or it has rested (`Breaker`).

**Searches.** `SearchInv` says that the engines are in a faithful order from
acceptance on (`InPlace`), that the attempts are those before the engine at hand,
in vain until one is selected (`Trail`), and for what cause the loop was left
(`Ending`).

What the loops over a list compute (`normalizeMethods`, `push_ytdlp_tracks`,
`unique`, the filter of `enforceGoogleLast`, `normalizeSearchResults`) is proved
for lists of any length: each is a function defined by recursion on the
index, `Iteration` shows that such a function exists and `Induction`, by a least
counterexample, that it has an invariant.

Three hypotheses are more than typing. `NoEpochExpiry` (`NoEpoch` for the shared
database) excludes an expiry of 0, which Node reads as none and Rust as the
epoch; no clock reading plus lifetime gives 0 in practice. `StepBack = 0` says that
the wall clock is not set back: a window that starts in the future is neither
counted nor over. `ServingAssumption` says that the patience covers a late
arrival and a cooldown.

Model-checked only: liveness (`EveryCallEnds`, `EverySearchAnswered`,
`EveryRequestAnswered`, `EveryTranscriptAnswered`, `EveryRequestServed`,
`EveryCallReturns`) and the fairness that `ImplementsPageEngine` contains, since
both need ENABLED, which is out of the prover's reach; its safety part is
`ExchangeIsOneStep`. The runs that expect a violation are counterexamples and
have no theorem.

## Not modelled

- Parsing and formatting of pages and captions, fingerprints, configuration and
  command lines are functions of their input without state; what they may come
  to is a choice in the modules that use them.
- Of a request: the proxy, the solver settings, and the contents of headers and
  cookies. A failure to persist a file after the page was extracted discards the
  content (`PageEngine!Finish`); nothing in the repository says otherwise.
- Widths of integers, a power loss that drops a suffix of commits
  (`synchronous = NORMAL`), mutex poisoning, the host's limits on browsers, and
  the yt-dlp process that is not killed when its timeout goes off.
- The registration of MCP tools, the texts of their replies, the dsh plugin.

## Plan

The modules of the plan are written, and every safety property that a run
checks is proved. What is left:

1. The fairness of `ImplementsPageEngine` and the liveness properties stay with
   TLC.
2. Theorems beyond the properties of the runs: what a caller of two processes'
   admission sees (`Admission` over `KeyStoreTx`), and the limits of the search
   cooldown for bodies that only one of the two runtimes reads.
