--------------------------- MODULE SearchFallback ---------------------------
(***************************************************************************)
(* One search request: the engine list is put in order and the engines are *)
(* tried one after the other until one yields results.  Translated from    *)
(* both runtimes: server/core/search.js and engine.js, rust/src/search.rs  *)
(* and engine.rs.  They differ in what an error does to the loop: on Node  *)
(* the body of the loop is one try block, in Rust only the navigation is   *)
(* matched and every other error leaves the function.                      *)
(*                                                                         *)
(* A results page is one of a few kinds, chosen when it is loaded; the     *)
(* queries, URLs, labels and texts are left out.                           *)
(***************************************************************************)
EXTENDS Naturals, SequencesExt

CONSTANTS
    Engines,    \* SUPPORTED_SEARCH_ENGINES, the string "google" among them
    Unknown,    \* an engine name that is not supported
    MaxListed,  \* bound on the length of the list in a request
    MaxResults, \* maxResults, the number of results asked for
    None

ASSUME SearchFallbackAssumption ==
    /\ "google" \in Engines
    /\ Unknown \notin Engines
    /\ None \notin Engines \cup {Unknown, "ok"}
    /\ MaxListed \in Nat \ {0}
    /\ MaxResults \in Nat \ {0}

VARIABLES
    runtime,   \* the runtime that serves the request
    listed,    \* the engines named by the request
    engines,   \* the order in which they are tried
    next,      \* the index of the engine being tried
    step,      \* where the request is
    page,      \* the kind of page in the tab
    attempts,  \* the attempts made, oldest first
    selected,  \* the engine whose results are returned
    results,   \* the links returned
    answer     \* the errorCode of the answer, "ok" for a success

vars == <<runtime, listed, engines, next, step, page, attempts, selected,
          results, answer>>

\* blocklist: the page text matches BLOCK_PATTERNS (or is Google's /sorry/).
\* challenge: it does not, but detectChallenge reports a challenge that does
\* not clear by itself.
Pages == {"results", "empty", "blocklist", "challenge"}

\* The links of a results page: two pages of the web, an address that is not
\* http, and a redirect of Google's or DuckDuckGo's to each kind of address.
Links == {"first", "second", "script", "redirect", "wrapped"}

Attempt == [ engine: Engines, reason: {"ok", "no_results", "blocked", "error"},
             resultCount: 0..MaxResults, shown: Pages \cup {None} ]

TypeOK ==
    /\ runtime \in {"js", "rust"}
    /\ listed \in Seq(Engines \cup {Unknown})
    /\ engines \in Seq(Engines)
    /\ next \in 1..(Len(engines) + 1)
    /\ step \in {"received", "accepted", "trying", "loaded", "settled", "inspected",
                 "tried", "answered"}
    /\ page \in Pages \cup {None}
    /\ attempts \in Seq(Attempt)
    /\ selected \in Engines \cup {None}
    /\ results \in Seq(Links)
    /\ answer \in {None, "ok", "BROWSER_LAUNCH", "UPSTREAM_REQUEST",
                   "invalid_request"}

-----------------------------------------------------------------------------
(* The order of the engines.                                               *)

Distinct(s) ==
    LET out[n \in 0..Len(s)] ==
          IF n = 0 THEN <<>>
          ELSE IF Contains(out[n - 1], s[n]) THEN out[n - 1]
          ELSE Append(out[n - 1], s[n])
    IN  out[Len(s)]

WithoutGoogle(s) ==
    LET out[n \in 0..Len(s)] ==
          IF n = 0 THEN <<>>
          ELSE IF s[n] # "google" THEN Append(out[n - 1], s[n])
          ELSE out[n - 1]
    IN  out[Len(s)]

\* Fault: the list is taken as it is written.
EnforceGoogleLast_AsListed(s) == Distinct(s)

EnforceGoogleLast(s) == Append(WithoutGoogle(Distinct(s)), "google")

Supported(s) == Range(s) \subseteq Engines

Init ==
    /\ runtime \in {"js", "rust"}
    /\ listed \in UNION {[1..n -> Engines \cup {Unknown}] : n \in 1..MaxListed}
    /\ engines = <<>> /\ next = 1 /\ step = "received" /\ page = None
    /\ attempts = <<>> /\ selected = None /\ results = <<>> /\ answer = None

\* normalizeSearchEngines: an unsupported name refuses the whole request.
Normalize ==
    /\ step = "received"
    /\ IF Supported(listed)
         THEN /\ engines' = EnforceGoogleLast(listed)
              /\ step' = "accepted"
              /\ UNCHANGED answer
         ELSE /\ step' = "answered"
              /\ answer' = "invalid_request"
              /\ UNCHANGED engines
    /\ UNCHANGED <<runtime, listed, next, page, attempts, selected, results>>

\* The browser is launched and a tab made ready.
Open ==
    /\ step = "accepted"
    /\ \/ step' = "trying" /\ UNCHANGED answer
       \/ /\ step' = "answered"
          /\ answer' \in {"BROWSER_LAUNCH", "UPSTREAM_REQUEST"}
    /\ UNCHANGED <<runtime, listed, engines, next, page, attempts, selected,
                   results>>

-----------------------------------------------------------------------------
(* The loop over the engines.                                              *)

Engine == engines[next]

\* The attempt is recorded and the loop goes on with the next engine.
Record(reason, count) ==
    /\ attempts' = Append(attempts,
         [ engine |-> Engine, reason |-> reason, resultCount |-> count,
           shown |-> page ])
    /\ next' = next + 1
    /\ page' = None
    /\ step' = "trying"
    /\ UNCHANGED <<runtime, listed, engines, selected, results, answer>>

\* An error outside the one match of the Rust loop ends the request.
Abort ==
    /\ step' = "answered"
    /\ answer' = "UPSTREAM_REQUEST"
    /\ UNCHANGED <<runtime, listed, engines, next, page, attempts, selected,
                   results>>

\* page.goto, tab.navigate_to.
Load ==
    /\ step = "trying" /\ next <= Len(engines)
    /\ page' \in Pages
    /\ step' = "loaded"
    /\ UNCHANGED <<runtime, listed, engines, next, attempts, selected, results,
                   answer>>

LoadFails ==
    /\ step = "trying" /\ next <= Len(engines)
    /\ Record("error", 0)

\* Rust sets the cookies for each engine's URL before the navigation.
CookiesFail ==
    /\ step = "trying" /\ next <= Len(engines)
    /\ runtime = "rust"
    /\ Abort

\* wait_until_navigated and applyStrategy.  The page may turn into another
\* kind meanwhile; what applyStrategy says of a challenge is dropped.
Settle ==
    /\ step = "loaded"
    /\ page' \in Pages
    /\ step' = "settled"
    /\ UNCHANGED <<runtime, listed, engines, next, attempts, selected, results,
                   answer>>

\* Fault: an error on one engine is taken for the end of the search on Node.
FailsHere_NodeToo == Abort

\* Fault: the engine is loaded again until it stops failing.
FailsHere_Retry ==
    /\ step' = "trying" /\ page' = None
    /\ UNCHANGED <<runtime, listed, engines, next, attempts, selected, results,
                   answer>>

\* An error of a step after the navigation.
FailsHere ==
    \/ runtime = "js" /\ Record("error", 0)
    \/ runtime = "rust" /\ Abort

SettleFails == step = "loaded" /\ FailsHere

InspectFails == step = "settled" /\ FailsHere

\* `searchChallenge?.detected && !searchChallenge?.autoResolvable`: the object
\* detectChallenge returns has no property "detected".  Rust has no such test.
Detected == [kind |-> "blocked", autoResolvable |-> FALSE]

ChallengeBlocked ==
    /\ runtime = "js" /\ page = "challenge"
    /\ "detected" \in DOMAIN Detected /\ ~Detected.autoResolvable

Blocked == page = "blocklist" \/ ChallengeBlocked

Skip ==
    /\ step = "settled" /\ Blocked
    /\ Record("blocked", 0)

Inspect ==
    /\ step = "settled" /\ ~Blocked
    /\ step' = "inspected"
    /\ UNCHANGED <<runtime, listed, engines, next, page, attempts, selected,
                   results, answer>>

ExtractFails == step = "inspected" /\ FailsHere

-----------------------------------------------------------------------------
(* The results of a page.                                                  *)

\* DuckDuckGo's /l/ and Google's /url are replaced by the address they carry;
\* to the other engines they are links like any other.
DecodeSearchResultUrl(engine, link) ==
    LET carried == [redirect |-> "first", wrapped |-> "script"] IN
    IF engine \in {"duckduckgo", "google"} /\ link \in DOMAIN carried
      THEN carried[link]
    ELSE link

Http(link) == link # "script"

\* Fault: repetitions are looked for before the redirect is resolved.
NormalizeSearchResults_RawSeen(engine, raw) ==
    LET decoded(link) == DecodeSearchResultUrl(engine, link)
        webpage(link) == Http(link) /\ Http(decoded(link))
        links == SelectSeq(Distinct(raw), webpage)
    IN  [i \in DOMAIN links |-> decoded(links[i])]

\* Fault: the address a redirect carries is taken without looking at it.
NormalizeSearchResults_Trusting(engine, raw) ==
    LET links == SelectSeq(raw, Http) IN
    Distinct([i \in DOMAIN links |-> DecodeSearchResultUrl(engine, links[i])])

\* Links in their order, resolved, without repetition, as many as asked for.
\* A link must be http as it stands on the page and once it is resolved.
NormalizeSearchResults(engine, raw) ==
    LET url(n) == DecodeSearchResultUrl(engine, raw[n])
        out[n \in 0..Len(raw)] ==
          IF n = 0 THEN <<>>
          ELSE IF \/ Len(out[n - 1]) >= MaxResults
                  \/ ~Http(raw[n]) \/ ~Http(url(n))
                  \/ Contains(out[n - 1], url(n))
            THEN out[n - 1]
          ELSE Append(out[n - 1], url(n))
    IN  out[Len(raw)]

Finds(links) == links # <<>>

\* The script in the page stops after MaxResults links of any kind.
Extract ==
    /\ step = "inspected"
    /\ \E raw \in IF page = "results" THEN BoundedSeq(Links, MaxResults) ELSE {<<>>} :
         LET links == NormalizeSearchResults(Engine, raw) IN
         IF Finds(links)
           THEN /\ attempts' = Append(attempts,
                     [ engine |-> Engine, reason |-> "ok",
                       resultCount |-> Len(links), shown |-> page ])
                /\ selected' = Engine
                /\ results' = links
                /\ step' = "tried"
                /\ UNCHANGED <<runtime, listed, engines, next, page, answer>>
           ELSE Record("no_results", Len(links))

Exhausted ==
    /\ step = "trying" /\ next > Len(engines)
    /\ step' = "tried"
    /\ UNCHANGED <<runtime, listed, engines, next, page, attempts, selected,
                   results, answer>>

\* Screenshot and PDF, then the answer: a success, with or without results.
Answer ==
    /\ step = "tried"
    /\ step' = "answered"
    /\ answer' \in {"ok", "UPSTREAM_REQUEST"}
    /\ UNCHANGED <<runtime, listed, engines, next, page, attempts, selected,
                   results>>

Next ==
    \/ Normalize \/ Open
    \/ Load \/ LoadFails \/ CookiesFail
    \/ Settle \/ SettleFails
    \/ InspectFails \/ Skip \/ Inspect
    \/ ExtractFails \/ Extract
    \/ Exhausted \/ Answer

\* Every step of a request ends: each wait on the browser has a timeout.
Spec == Init /\ [][Next]_vars /\ WF_vars(Next)

-----------------------------------------------------------------------------
\* The order is a permutation of what was asked for, less repetitions, that
\* moves nothing but Google, and Google is last.
OrderIsFaithful ==
    engines # <<>> =>
      /\ Last(engines) = "google"
      /\ Range(engines) = Range(listed) \cup {"google"}
      /\ IsInjective(engines)
      /\ \A i, j \in 1..(Len(engines) - 1) : i < j =>
           \E a \in DOMAIN listed :
             /\ listed[a] = engines[i]
             /\ \A b \in 1..a : listed[b] # engines[j]

\* The attempts are the engines in order, none skipped and none tried twice,
\* and only the last of them can have found anything.
AttemptsFollowOrder ==
    /\ Len(attempts) <= Len(engines)
    /\ \A i \in DOMAIN attempts :
         /\ attempts[i].engine = engines[i]
         /\ i < Len(attempts) => attempts[i].reason # "ok"

\* What is returned is what the last attempt found: http addresses, none twice
\* and no more than asked for, whatever the engine wraps and what it wraps in
\* it.  A successful answer without results means that every engine, Google
\* last, was tried in vain.
AnswerMatchesAttempts ==
    /\ AttemptsFollowOrder
    /\ answer = "ok" =>
         IF results # <<>>
           THEN /\ Last(attempts).engine = selected
                /\ Last(attempts).reason = "ok"
                /\ Last(attempts).resultCount = Len(results)
                /\ IsInjective(results) /\ Len(results) <= MaxResults
                /\ \A i \in DOMAIN results : Http(results[i])
           ELSE /\ selected = None
                /\ Len(attempts) = Len(engines)

\* On Node one engine's failure never costs the caller the other engines: a
\* search that has tried one of them and found nothing has tried all of them.
NodeTriesEveryEngine ==
    (runtime = "js" /\ answer # None /\ attempts # <<>> /\ selected = None)
      => Len(attempts) = Len(engines)

\* Every request is answered, after at most one attempt per engine.
EverySearchAnswered == <>(step = "answered")

-----------------------------------------------------------------------------
(* What the documentation says, and the code does not do.                  *)

\* server/core/engine.js:598: "A late challenge detect on the search result
\* page catches blocks the blocklist doesn't cover."
LateChallengeCaught ==
    \A i \in DOMAIN attempts :
      (runtime = "js" /\ attempts[i].shown = "challenge")
        => attempts[i].reason \in {"blocked", "error"}

=============================================================================
