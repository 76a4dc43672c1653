------------------------------- MODULE Request -------------------------------
(***************************************************************************)
(* What the fields of an engine request mean, as pure operators: the body  *)
(* as it arrives, what each runtime can read of it, why it is refused, and *)
(* the request it is normalised to.  Translated from rust/src/request.rs   *)
(* (Rs...) and server/core/request.js (Js...); what both do alike has one  *)
(* definition.                                                             *)
(*                                                                         *)
(* A text field is absent, blank, a number (any JSON value that is not a   *)
(* string) or one of the texts that are told apart.  Left out: the proxy,  *)
(* the names of headers and cookies, and headless, which is always on for  *)
(* a request over HTTP.  The list of search engines is looked at more      *)
(* closely in SearchFallback.                                              *)
(***************************************************************************)
EXTENDS Integers

\* LIMITS, and the constants and bounds of normalize_engine_request.
Limits ==
    [ timeout          |-> [min |-> 1,  max |-> 180,   default |-> 30],
      renderWait       |-> [min |-> 0,  max |-> 120,   default |-> 0],
      challengeTimeout |-> [min |-> 0,  max |-> 120,   default |-> 15],
      scrollCount      |-> [min |-> 1,  max |-> 500,   default |-> 20],
      scrollDelay      |-> [min |-> 50, max |-> 10000, default |-> 800],
      delay            |-> [min |-> 0,  max |-> 30000, default |-> 1000],
      maxResults       |-> [min |-> 1,  max |-> 50,    default |-> 10] ]

Integral == DOMAIN Limits

Strategies == {"auto", "fast", "patient", "spa", "scroll"}

\* METHOD_TO_STRATEGY, method_to_strategy.
MethodToStrategy ==
    [ direct |-> "fast", wait |-> "patient", timed |-> "patient",
      spa |-> "spa", scroll |-> "scroll" ]

Formats == {"text", "html", "markdown", "json", "links"}

TextOf(S) == {"absent", "blank", "number", "unknown"} \cup S

Absent == [form |-> "absent", value |-> 0]

\* A value given for an integer: digits is a string that holds an integer.
Value == {Absent} \cup [ form: {"number", "fraction", "digits", "empty", "text"},
                         value: Int ]

Number(n) == [form |-> "number", value |-> n]

Lists == {"absent", "pairs", "list", "json_pairs", "json_list", "not_json", "other"}

\* alias: the older name of an integer field (render_wait, googleCount).
\* flag: bypassChallenges, verbose or listLinks.
Input ==
    [ url: TextOf({"http", "ftp"}), query: TextOf({"text", "other"}),
      google: TextOf({"text", "other"}), strategy: TextOf(Strategies),
      method: TextOf(DOMAIN MethodToStrategy \cup Strategies),
      format: TextOf(Formats), selector: TextOf({"css"}),
      ints: [Integral -> Value], alias: [Integral -> Value],
      flag: {"absent", "true", "false", "text_true", "text_false", "other"},
      engines: {"absent", "known", "unknown"},
      headers: Lists, cookies: Lists, file: BOOLEAN ]

\* A request with nothing in it.
NoFields ==
    [ url |-> "absent", query |-> "absent", google |-> "absent",
      strategy |-> "absent", method |-> "absent", format |-> "absent",
      selector |-> "absent", ints |-> [f \in Integral |-> Absent],
      alias |-> [f \in Integral |-> Absent], flag |-> "absent",
      engines |-> "absent", headers |-> "absent", cookies |-> "absent",
      file |-> FALSE ]

-----------------------------------------------------------------------------
(* What both runtimes do alike.                                            *)

\* toOptionalString, optional_string: a blank is absent, a number is text.
OptionalString(text) == IF text = "blank" THEN "absent" ELSE text

Given(text) == OptionalString(text) # "absent"

\* The query of the normalised request: `query || google`.
SearchQuery(i) == IF Given(i.query) THEN i.query ELSE OptionalString(i.google)

TargetFaults(i) ==
    { f \in {"query", "url"} :
        \/ f = "query" /\ Given(i.query) /\ Given(i.google) /\ i.query # i.google
        \/ f = "url" /\ ~Given(i.url) /\ SearchQuery(i) = "absent"
        \/ f = "url" /\ Given(i.url) /\ i.url # "http" }

StrategyFaults(i) ==
    { f \in {"strategy", "method"} :
        \/ f = "strategy" /\ Given(i.strategy) /\ i.strategy \notin Strategies
        \/ /\ f = "method" /\ ~Given(i.strategy) /\ Given(i.method)
           /\ i.method \notin DOMAIN MethodToStrategy }

Strategy(i) ==
    IF Given(i.strategy) THEN i.strategy
    ELSE IF Given(i.method) THEN MethodToStrategy[i.method] ELSE "auto"

Format(i) == IF Given(i.format) THEN i.format ELSE "text"

\* The faults that do not depend on the runtime.  Files are for the command
\* line only.
CommonFaults(i) ==
    TargetFaults(i) \cup StrategyFaults(i)
      \cup {f \in {"format"} : Format(i) \notin Formats}
      \cup {f \in {"searchEngines"} : i.engines = "unknown"}
      \cup {f \in {"file"} : i.file}

InLimits(f, n) == n \in Limits[f].min..Limits[f].max

\* The fields that mean the same in both.
Plainly(i) ==
    [i EXCEPT !.url = OptionalString(@), !.query = SearchQuery(i),
              !.strategy = Strategy(i), !.method = Strategy(i),
              !.format = Format(i), !.selector = OptionalString(@),
              !.headers = IF @ = "json_pairs" THEN "pairs" ELSE @,
              !.cookies = IF @ = "json_list" THEN "list" ELSE @]

-----------------------------------------------------------------------------
(* Rust: serde reads the body first.                                       *)

\* EngineRequestInput: every field has its type, and none comes under two names.
RsReads(i) ==
    /\ "number" \notin {i.url, i.query, i.google, i.strategy, i.method,
                        i.format, i.selector}
    /\ \A f \in Integral :
         /\ {i.ints[f].form, i.alias[f].form} \subseteq {"absent", "number"}
         /\ "absent" \in {i.ints[f].form, i.alias[f].form}
    /\ i.flag \in {"absent", "true", "false"}
    /\ i.headers \notin {"list", "other"} /\ i.cookies \notin {"pairs", "other"}

RsGiven(i, f) == IF i.ints[f] = Absent THEN i.alias[f] ELSE i.ints[f]

\* Fault: a value that is missing is the least one.
RsInteger_Least(i, f) ==
    IF RsGiven(i, f) = Absent THEN Limits[f].min ELSE RsGiven(i, f).value

RsInteger(i, f) ==
    IF RsGiven(i, f) = Absent THEN Limits[f].default ELSE RsGiven(i, f).value

\* A method "wait" asks for a selector, whatever the strategy.
RsWaitFault(i) ==
    /\ SearchQuery(i) = "absent" /\ i.method = "wait" /\ ~Given(i.selector)

RsFaults(i) ==
    CommonFaults(i)
      \cup {f \in Integral : ~InLimits(f, RsInteger(i, f))}
      \cup {f \in {"selector"} : RsWaitFault(i)}
      \cup {f \in {"headers"} : i.headers \in {"json_list", "not_json"}}
      \cup {f \in {"cookies"} : i.cookies \in {"json_pairs", "not_json"}}

RsNormalized(i) ==
    [Plainly(i) EXCEPT
       !.google = "absent",
       !.ints = [f \in Integral |-> Number(RsInteger(i, f))],
       !.alias = NoFields.alias,
       !.flag = IF @ = "true" THEN "true" ELSE "false"]

-----------------------------------------------------------------------------
(* Node: any JSON is read, and converted where it can be.                  *)

\* `renderWait ?? render_wait`.
JsGiven(i, f) == IF i.ints[f] = Absent THEN i.alias[f] ELSE i.ints[f]

\* toInteger.
JsIsInteger(i, f) == JsGiven(i, f).form \notin {"fraction", "text"}

JsInteger(i, f) ==
    IF JsGiven(i, f).form \in {"number", "digits"} THEN JsGiven(i, f).value
                                                   ELSE Limits[f].default

\* A method "wait" asks for a selector unless another strategy overrides it.
JsWaitFault(i) ==
    /\ SearchQuery(i) = "absent" /\ Strategy(i) = "patient"
    /\ ~Given(i.selector) /\ i.method = "wait"

JsFaults(i) ==
    CommonFaults(i)
      \cup {f \in Integral : ~JsIsInteger(i, f) \/ ~InLimits(f, JsInteger(i, f))}
      \cup {f \in {"selector"} : StrategyFaults(i) = {} /\ JsWaitFault(i)}
      \cup {f \in {"headers"} : i.headers \in {"list", "json_list", "not_json", "other"}}
      \cup {f \in {"cookies"} : i.cookies \in {"pairs", "json_pairs", "not_json", "other"}}

\* toBoolean.
JsFlag(flag) == IF flag \in {"true", "text_true"} THEN "true" ELSE "false"

JsNormalized(i) ==
    [Plainly(i) EXCEPT
       !.google = SearchQuery(i),
       !.ints = [f \in Integral |-> Number(JsInteger(i, f))],
       !.alias = [NoFields.alias EXCEPT !["maxResults"] = Number(JsInteger(i, "maxResults"))],
       !.flag = JsFlag(@)]

-----------------------------------------------------------------------------
Faults(r, i) == IF r = "js" THEN JsFaults(i) ELSE RsFaults(i)

Normalized(r, i) == IF r = "js" THEN JsNormalized(i) ELSE RsNormalized(i)

\* A request without the older names that Node repeats its fields under.
Meaning(i) == [i EXCEPT !.google = "absent", !.alias = NoFields.alias]

=============================================================================
