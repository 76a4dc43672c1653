----------------------------- MODULE PageEngine -----------------------------
(***************************************************************************)
(* One page request against a browser: launch, navigation, challenge       *)
(* handling, the wait of the strategy, the solver, extraction, the late    *)
(* guard, and the release of the browser.  Translated from runNsectEngine  *)
(* and applyStrategy of server/core/engine.js with challenge.js and        *)
(* solver.js, and from their Rust counterparts.                            *)
(*                                                                         *)
(* The page is the environment: it may become another kind of page at      *)
(* every wait (Becomes).  A challenge that has cleared does not come back  *)
(* unless the request meets a page that relapses; nothing the engine does  *)
(* can rule that out.                                                      *)
(***************************************************************************)
EXTENDS Naturals

CONSTANTS
    Runtimes,    \* the runtimes to check, of "js" and "rust"
    Strategies,  \* of "auto", "fast", "patient", "spa" and "scroll"
    Solvers,     \* whether a solver may be configured: a set of BOOLEANs
    Budget,      \* challengeTimeout, in polls
    Relapses,    \* whether a cleared challenge may come back: likewise
    Unlisted,    \* whether a site may show a challenge only Node lists: likewise
    None

ASSUME PageEngineAssumption ==
    /\ Runtimes \subseteq {"js", "rust"}
    /\ Strategies \subseteq {"auto", "fast", "patient", "spa", "scroll"}
    /\ Solvers \subseteq BOOLEAN
    /\ Budget \in Nat
    /\ Relapses \subseteq BOOLEAN
    /\ Unlisted \subseteq BOOLEAN

VARIABLES
    req,        \* the request, its runtime and what its site is like
    step,       \* where the engine is
    page,       \* what the tab shows
    challenge,  \* what is known of a challenge
    elapsed,    \* polls since the first detection
    extracted,  \* the page the extraction read
    browser,    \* "none", "open" or "closed"
    answer      \* the errorCode of the answer, "ok" for a success

vars == <<req, step, page, challenge, elapsed, extracted, browser, answer>>

(***************************************************************************)
(* content, brief: real pages, the second with less than 50 characters.    *)
(* visual: a real page whose content is drawn, without text or title.      *)
(* auto: a challenge that may clear by itself, and that a solver takes     *)
(* (kind "cloudflare").  shield: one that may clear by itself, and that no *)
(* solver takes ("datadome").  unlisted: one of those, for which Rust has  *)
(* no signature ("akamai", "generic").                                     *)
(* widget: an interactive challenge that a solver takes ("hcaptcha").      *)
(* wall: a challenge or block that neither time nor a solver clears.       *)
(* blank: an interstitial without text or title.                           *)
(* unreadable: mid-navigation, every page.evaluate fails.                  *)
(***************************************************************************)
Real == {"content", "brief", "visual"}
Challenging == {"auto", "shield", "unlisted", "widget", "wall", "blank"}
Pages == Real \cup Challenging \cup {"unreadable"}

Request == [ runtime: Runtimes, strategy: Strategies, bypass: BOOLEAN,
             selector: BOOLEAN, verbose: BOOLEAN, solver: Solvers,
             relapses: Relapses, unlisted: Unlisted ]

Codes == {"ok", "BROWSER_LAUNCH", "UPSTREAM_REQUEST", "CHALLENGE_BLOCKED"}
Kinds == {"auto", "shield", "widget", "blocked"}

ASSUME NoneAssumption == None \notin Pages \cup Codes \cup Kinds

NoChallenge == [detected |-> FALSE, kind |-> None, resolved |-> TRUE]

TypeOK ==
    /\ req \in Request
    /\ step \in {"received", "launched", "primed", "navigated", "waiting",
                 "handled", "settled", "solving", "ready", "guarding",
                 "extracted", "closing", "answered"}
    /\ page \in Pages \cup {None}
    /\ challenge \in [detected: BOOLEAN, kind: Kinds \cup {None}, resolved: BOOLEAN]
    /\ elapsed \in 0..Budget
    /\ extracted \in Pages \cup {None}
    /\ browser \in {"none", "open", "closed"}
    /\ answer \in Codes \cup {None}

Init ==
    /\ req \in Request
    /\ step = "received" /\ page = None /\ challenge = NoChallenge
    /\ elapsed = 0 /\ extracted = None /\ browser = "none" /\ answer = None

-----------------------------------------------------------------------------
(* The page.                                                               *)

SitePages == IF req.unlisted THEN Pages ELSE Pages \ {"unlisted"}

Becomes(p) ==
    IF req.relapses \/ p = "unreadable" THEN SitePages
    ELSE IF p \in {"auto", "shield", "unlisted", "blank"}
           THEN {p, "unreadable"} \cup Real
    ELSE {p}

\* detectChallenge: the kind of the first signature that matches, else the
\* empty-page heuristic.  Its test for visual content looks for canvas, video
\* and the like among the markers that were hit, but those are the markers of
\* the signatures, and a hit has already been returned as a challenge.
Detect(p) ==
    CASE p \in {"auto", "shield", "widget"} -> p
      [] p = "unlisted" -> IF req.runtime = "js" THEN "shield" ELSE None
      [] p \in {"wall", "blank", "visual", "unreadable"} -> "blocked"
      [] OTHER -> None

\* Fault: no challenge is given time.
AutoResolvable_Never(kind) == FALSE

AutoResolvable(kind) == kind \in {"auto", "shield"}
SolverEligible(kind) == kind \in {"auto", "widget"}

\* Whether the extracted text may be, or may not be, below 50 characters.
MaybeShort(p) == p # "content"
MaybeLong(p) == p \in {"content", "auto", "shield", "unlisted", "widget", "wall"}

-----------------------------------------------------------------------------
(* Steps.  Whatever fails between launch and answer ends in the one catch. *)

\* The answer is known; the browser is released before it is returned.
\* Fault: a challenge is answered without passing the release.
Conclude_Directly(code) ==
    /\ answer' = code
    /\ step' = IF code = "CHALLENGE_BLOCKED" THEN "answered" ELSE "closing"
    /\ UNCHANGED <<req, page, challenge, elapsed, extracted, browser>>

Conclude(code) ==
    /\ answer' = code
    /\ step' = "closing"
    /\ UNCHANGED <<req, page, challenge, elapsed, extracted, browser>>

Launch ==
    /\ step = "received"
    /\ \/ /\ browser' = "open" /\ step' = "launched"
          /\ UNCHANGED answer
       \/ /\ answer' = "BROWSER_LAUNCH" /\ step' = "answered"
          /\ UNCHANGED browser
    /\ UNCHANGED <<req, page, challenge, elapsed, extracted>>

\* New tab, fingerprint, headers, proxy credentials, cookies, delay.
Prime ==
    /\ step = "launched"
    /\ \/ /\ step' = "primed"
          /\ UNCHANGED <<req, page, challenge, elapsed, extracted, browser,
                         answer>>
       \/ Conclude("UPSTREAM_REQUEST")

Navigate ==
    /\ step = "primed"
    /\ \/ /\ page' \in SitePages
          /\ step' = "navigated"
          /\ UNCHANGED <<req, challenge, elapsed, extracted, browser, answer>>
       \/ Conclude("UPSTREAM_REQUEST")

HandlesChallenges == (req.strategy = "auto" \/ req.bypass) /\ Budget > 0

NoHandling ==
    /\ step = "navigated" /\ ~HandlesChallenges
    /\ step' = "handled"
    /\ UNCHANGED <<req, page, challenge, elapsed, extracted, browser, answer>>

\* waitForChallengeResolution: the first look.
Probe ==
    /\ step = "navigated" /\ HandlesChallenges
    /\ LET kind == Detect(page) IN
         IF kind = None
           THEN step' = "handled" /\ UNCHANGED challenge
           ELSE /\ challenge' = [detected |-> TRUE, kind |-> kind,
                                 resolved |-> FALSE]
                /\ step' = IF AutoResolvable(kind) THEN "waiting" ELSE "handled"
    /\ UNCHANGED <<req, page, elapsed, extracted, browser, answer>>

\* Fault: one round too many.
WithinBudget_OneMore == elapsed <= Budget

WithinBudget == elapsed < Budget

Waited == elapsed + 1

\* One round of its loop: sleep, look again.  A poll that does not see the
\* challenge ends the wait; the kind first seen is kept.
\* Fault: the wait ends as resolved when the budget is used up.
Cleared_OrTired(kind) == kind = None \/ elapsed + 1 >= Budget

Cleared(kind) == kind = None

Poll ==
    /\ step = "waiting" /\ WithinBudget
    /\ elapsed' = Waited
    /\ page' \in Becomes(page)
    /\ LET cleared == Cleared(Detect(page')) IN
         /\ challenge' = [challenge EXCEPT !.resolved = cleared]
         /\ step' = IF cleared THEN "handled" ELSE "waiting"
    /\ UNCHANGED <<req, extracted, browser, answer>>

TimedOut ==
    /\ step = "waiting" /\ ~WithinBudget
    /\ step' = "handled"
    /\ UNCHANGED <<req, page, challenge, elapsed, extracted, browser, answer>>

Unresolved == challenge.detected /\ ~challenge.resolved

\* The wait of the strategy.  Node returns before it when the challenge is
\* unresolved; Rust waits all the same.  Node swallows every error but that of
\* scrolling; in Rust a selector that does not appear is one as well.
SkipsWait == req.runtime = "js" /\ Unresolved

MayFail ==
    \/ req.strategy \in {"auto", "scroll"}
    \/ req.runtime = "rust" /\ req.strategy = "patient" /\ req.selector

Settle ==
    /\ step = "handled"
    /\ \/ /\ page' \in IF SkipsWait THEN {page} ELSE Becomes(page)
          /\ step' = "settled"
          /\ UNCHANGED <<req, challenge, elapsed, extracted, browser, answer>>
       \/ ~SkipsWait /\ MayFail /\ Conclude("UPSTREAM_REQUEST")

GivesUp == Unresolved /\ ~(req.solver /\ SolverEligible(challenge.kind))

Decide ==
    /\ step = "settled"
    /\ IF GivesUp THEN Conclude("CHALLENGE_BLOCKED")
       ELSE /\ step' = IF Unresolved THEN "solving" ELSE "ready"
            /\ UNCHANGED <<req, page, challenge, elapsed, extracted, browser,
                           answer>>

\* attemptSolve: a token from the provider, injected into the page, which may
\* have changed meanwhile and may take it or not; the result is "resolved"
\* either way.  PageSolver has the exchange with the provider.
Solve ==
    /\ step = "solving"
    /\ \/ /\ page' \in Becomes(page) \cup Real
          /\ challenge' = [challenge EXCEPT !.resolved = TRUE]
          /\ step' = "ready"
          /\ UNCHANGED <<req, elapsed, extracted, browser, answer>>
       \/ Conclude("CHALLENGE_BLOCKED")

\* Extraction, and whether its text is too short to be trusted.
Extract ==
    /\ step = "ready"
    /\ \/ /\ page' \in Becomes(page)
          /\ extracted' = page
          /\ \/ MaybeShort(page) /\ step' = IF req.verbose THEN "extracted"
                                                           ELSE "guarding"
             \/ MaybeLong(page) /\ step' = "extracted"
          /\ UNCHANGED <<req, challenge, elapsed, browser, answer>>
       \/ Conclude("UPSTREAM_REQUEST")

\* The empty-content guard: it looks at the page again, not at the extraction.
Guard ==
    /\ step = "guarding"
    /\ IF Detect(page) # None THEN Conclude("CHALLENGE_BLOCKED")
       ELSE /\ step' = "extracted"
            /\ UNCHANGED <<req, page, challenge, elapsed, extracted, browser,
                           answer>>

\* Screenshot and PDF, then the answer.
Finish ==
    /\ step = "extracted"
    /\ Conclude("ok") \/ Conclude("UPSTREAM_REQUEST")

\* browser.close() in the finally block, drop(browser): errors are swallowed.
Release ==
    /\ step = "closing"
    /\ browser' = "closed"
    /\ step' = "answered"
    /\ UNCHANGED <<req, page, challenge, elapsed, extracted, answer>>

Next ==
    \/ Launch \/ Prime \/ Navigate
    \/ NoHandling \/ Probe \/ Poll \/ TimedOut
    \/ Settle \/ Decide \/ Solve
    \/ Extract \/ Guard \/ Finish \/ Release

\* Every wait on the browser and on the page has a timeout, and so has the
\* exchange with the solver: PageSolver shows it.
Spec == Init /\ [][Next]_vars /\ WF_vars(Next)

-----------------------------------------------------------------------------
\* The runtime has a signature for every challenge of the site.
Listed == req.runtime = "js" \/ ~req.unlisted

\* With challenge handling on, no solver, challenges the runtime knows and pages
\* that do not relapse, a challenge page is never returned as content, whenever
\* it cleared or did not.
NoChallengeAsContent ==
    (answer = "ok" /\ HandlesChallenges /\ ~req.solver /\ ~req.relapses /\ Listed)
      => extracted \notin Challenging

\* A caller is told CHALLENGE_BLOCKED only when there is reason to: a
\* challenge that had its whole budget to clear, one that cannot clear, a
\* solver that failed, or a page that looked like a block after extraction.
\* On Node a challenge that was detected and not resolved is also always
\* answered as such, whatever fails between the wait and the answer.
BlockedForCause ==
    /\ answer = "CHALLENGE_BLOCKED" =>
         \/ challenge.kind \in {"auto", "shield"} /\ elapsed = Budget
         \/ challenge.kind \in {"widget", "blocked"}
         \/ extracted # None /\ Detect(page) # None
    /\ (req.runtime = "js" /\ answer # None /\ Unresolved)
         => answer = "CHALLENGE_BLOCKED"

\* Every request is answered, however long a challenge lasts, and by the time
\* the caller has the answer its browser is gone, on every path.
EveryRequestAnswered == <>(step = "answered" /\ browser # "open")

=============================================================================
