-------------------------- MODULE AdmissionProofs ---------------------------
(***************************************************************************)
(* Theorems about Admission, for any requests, bodies, keys and clock: the *)
(* server leads its key store through behaviours of KeyStore, charges each *)
(* admitted request once, refuses nobody without a cause, and means the    *)
(* same by a body on either runtime.                                       *)
(***************************************************************************)
EXTENDS Admission, KeyStoreProofs, FiniteSetTheorems

-----------------------------------------------------------------------------
(* When there is nothing wrong with an input.                              *)

Sound(i) ==
    /\ ~(Given(i.query) /\ Given(i.google) /\ i.query # i.google)
    /\ Given(i.url) \/ SearchQuery(i) # "absent"
    /\ Given(i.url) => i.url = "http"
    /\ Given(i.strategy) => i.strategy \in Strategies
    /\ ~Given(i.strategy) /\ Given(i.method) => i.method \in DOMAIN MethodToStrategy
    /\ Format(i) \in Formats
    /\ i.engines # "unknown"
    /\ ~i.file

LEMMA NoCommonFault ==
  ASSUME NEW i \in Input
  PROVE CommonFaults(i) = {} <=> Sound(i)
<1>1. TargetFaults(i) = {} <=>
        /\ ~(Given(i.query) /\ Given(i.google) /\ i.query # i.google)
        /\ Given(i.url) \/ SearchQuery(i) # "absent"
        /\ Given(i.url) => i.url = "http"
  BY DEF TargetFaults
<1>2. StrategyFaults(i) = {} <=>
        /\ Given(i.strategy) => i.strategy \in Strategies
        /\ ~Given(i.strategy) /\ Given(i.method) => i.method \in DOMAIN MethodToStrategy
  BY DEF StrategyFaults
<1>3. QED
  BY <1>1, <1>2 DEF CommonFaults, Sound

LEMMA NoRsFault ==
  ASSUME NEW i \in Input
  PROVE RsFaults(i) = {} <=>
          /\ Sound(i) /\ ~RsWaitFault(i)
          /\ \A f \in Integral : InLimits(f, RsInteger(i, f))
          /\ i.headers \notin {"json_list", "not_json"}
          /\ i.cookies \notin {"json_pairs", "not_json"}
BY NoCommonFault DEF RsFaults

LEMMA NoJsFault ==
  ASSUME NEW i \in Input
  PROVE JsFaults(i) = {} <=>
          /\ Sound(i) /\ ~JsWaitFault(i)
          /\ \A f \in Integral : JsIsInteger(i, f) /\ InLimits(f, JsInteger(i, f))
          /\ i.headers \notin {"list", "json_list", "not_json", "other"}
          /\ i.cookies \notin {"pairs", "json_pairs", "not_json", "other"}
<1>1. CommonFaults(i) = {} => StrategyFaults(i) = {}
  BY DEF CommonFaults
<1>2. QED
  BY <1>1, NoCommonFault DEF JsFaults

-----------------------------------------------------------------------------
(* What a sound input is normalised to.                                    *)

LEMMA PlainFields ==
  ASSUME NEW i \in Input, Sound(i)
  PROVE /\ OptionalString(i.url) \in {"absent", "http"}
        /\ SearchQuery(i) \in TextOf({"text", "other"}) \ {"blank"}
        /\ Strategy(i) \in Strategies
        /\ Format(i) \in Formats
        /\ OptionalString(i.selector) \in TextOf({"css"})
BY DEF Sound, Input, TextOf, OptionalString, Given, SearchQuery, Strategy, Strategies,
       MethodToStrategy, Format, Formats

LEMMA IntegerTypes ==
  ASSUME NEW i \in Input, NEW f \in Integral
  PROVE /\ JsInteger(i, f) \in Int
        /\ RsInteger(i, f) \in Int
        /\ Number(JsInteger(i, f)) \in Value
        /\ Number(RsInteger(i, f)) \in Value
<1>1. i.ints[f] \in Value /\ i.alias[f] \in Value
  BY DEF Input
<1>2. Limits[f].default \in Int
  BY DEF Limits, Integral
<1>3. JsInteger(i, f) \in Int /\ RsInteger(i, f) \in Int
  BY <1>1, <1>2 DEF JsInteger, RsInteger, JsGiven, RsGiven, Value, Absent
<1>4. QED
  BY <1>3 DEF Number, Value

LEMMA NormalizedType ==
  ASSUME NEW r, NEW i \in Input, Faults(r, i) = {}
  PROVE Normalized(r, i) \in Input
<1>1. Sound(i)
  BY NoRsFault, NoJsFault DEF Faults
<1>2. /\ OptionalString(i.url) \in TextOf({"http", "ftp"})
      /\ SearchQuery(i) \in TextOf({"text", "other"})
      /\ Strategy(i) \in TextOf(Strategies)
      /\ Strategy(i) \in TextOf(DOMAIN MethodToStrategy \cup Strategies)
      /\ Format(i) \in TextOf(Formats)
      /\ OptionalString(i.selector) \in TextOf({"css"})
  BY <1>1, PlainFields DEF TextOf
<1>3. Plainly(i) \in Input
  BY <1>2 DEF Plainly, Input, Lists
<1>4. NoFields.alias \in [Integral -> Value] /\ "absent" \in TextOf({"text", "other"})
  BY DEF NoFields, Value, TextOf
<1>5. /\ [f \in Integral |-> Number(RsInteger(i, f))] \in [Integral -> Value]
      /\ [f \in Integral |-> Number(JsInteger(i, f))] \in [Integral -> Value]
      /\ [NoFields.alias EXCEPT !["maxResults"] = Number(JsInteger(i, "maxResults"))]
           \in [Integral -> Value]
  <2>1. "maxResults" \in Integral
    BY DEF Integral, Limits
  <2>2. QED
    BY <1>4, <2>1, IntegerTypes
<1>6. RsNormalized(i) \in Input
  BY <1>3, <1>4, <1>5 DEF RsNormalized, Input
<1>7. JsNormalized(i) \in Input
  BY <1>2, <1>3, <1>5 DEF JsNormalized, JsFlag, Input
<1>8. QED
  BY <1>6, <1>7 DEF Normalized

-----------------------------------------------------------------------------
(* The two runtimes on an input that both can read.                        *)

\* A page asked for with the method "wait", no selector, and a strategy that
\* overrides the method.
Overridden(i) == RsWaitFault(i) /\ Given(i.strategy) /\ i.strategy # "patient"

LEMMA SameIntegers ==
  ASSUME NEW i \in Input, RsReads(i), NEW f \in Integral
  PROVE JsIsInteger(i, f) /\ JsInteger(i, f) = RsInteger(i, f)
<1>1. i.ints[f] \in Value /\ i.alias[f] \in Value
  BY DEF Input
<1>2. {i.ints[f].form, i.alias[f].form} \subseteq {"absent", "number"}
  BY DEF RsReads
<1>3. JsGiven(i, f).form \in {"absent", "number"} /\ JsGiven(i, f) \in Value
  BY <1>1, <1>2 DEF JsGiven
<1>4. RsGiven(i, f) = JsGiven(i, f)
  BY DEF JsGiven, RsGiven
<1>5. JsGiven(i, f).form = "absent" <=> JsGiven(i, f) = Absent
  BY <1>3 DEF Value, Absent
<1>6. QED
  BY <1>3, <1>4, <1>5 DEF JsIsInteger, JsInteger, RsInteger

\* Rust refuses for the missing selector what Node refuses, and one case more.
LEMMA SameWait ==
  ASSUME NEW i \in Input, Sound(i)
  PROVE RsWaitFault(i) <=> JsWaitFault(i) \/ Overridden(i)
BY DEF Sound, RsWaitFault, JsWaitFault, Overridden, Strategy, MethodToStrategy,
       Given, OptionalString

LEMMA RefusedAlike ==
  ASSUME NEW i \in Input, RsReads(i)
  PROVE /\ RsFaults(i) = {} => JsFaults(i) = {}
        /\ JsFaults(i) = {} => RsFaults(i) = {} \/ Overridden(i)
<1>1. /\ i.headers \notin {"list", "other"} /\ i.cookies \notin {"pairs", "other"}
  BY DEF RsReads
<1>2. QED
  BY <1>1, NoRsFault, NoJsFault, SameIntegers, SameWait

LEMMA SameMeaning ==
  ASSUME NEW i \in Input, RsReads(i)
  PROVE Meaning(JsNormalized(i)) = Meaning(RsNormalized(i))
<1>1. [f \in Integral |-> Number(JsInteger(i, f))]
        = [f \in Integral |-> Number(RsInteger(i, f))]
  BY SameIntegers
<1>2. JsFlag(i.flag) = IF i.flag = "true" THEN "true" ELSE "false"
  BY DEF RsReads, JsFlag
<1> DEFINE js == [f \in Integral |-> Number(JsInteger(i, f))]
           rs == [f \in Integral |-> Number(RsInteger(i, f))]
           plain(ints, flag) ==
             [Plainly(i) EXCEPT !.google = "absent", !.ints = ints,
                                !.alias = NoFields.alias, !.flag = flag]
<1>3. Plainly(i) = [i EXCEPT !.url = Plainly(i).url, !.query = Plainly(i).query,
                      !.strategy = Plainly(i).strategy, !.method = Plainly(i).method,
                      !.format = Plainly(i).format, !.selector = Plainly(i).selector,
                      !.headers = Plainly(i).headers, !.cookies = Plainly(i).cookies]
  BY DEF Plainly, Input
<1> HIDE DEF js, rs
<1>4. Meaning(JsNormalized(i)) = plain(js, JsFlag(Plainly(i).flag))
  BY <1>3 DEF Meaning, JsNormalized, Input, js
<1>5. Meaning(RsNormalized(i))
        = plain(rs, IF Plainly(i).flag = "true" THEN "true" ELSE "false")
  BY <1>3 DEF Meaning, RsNormalized, Input, rs
<1>6. Plainly(i).flag = i.flag
  BY DEF Plainly, Input
<1>7. QED
  BY <1>1, <1>2, <1>4, <1>5, <1>6 DEF js, rs

-----------------------------------------------------------------------------
(* Normalising a second time.                                              *)

\* What a normalised request looks like.  Its method is a strategy, and so it
\* never names one of the methods that ask for a selector.
Normal(n) ==
    /\ n \in Input
    /\ n.url \in {"absent", "http"} /\ (n.url = "absent" => n.query # "absent")
    /\ n.query # "blank" /\ n.google \in {"absent", n.query}
    /\ n.strategy \in Strategies /\ n.method = n.strategy
    /\ n.format \in Formats /\ n.selector # "blank"
    /\ \A f \in Integral : n.ints[f].form = "number" /\ InLimits(f, n.ints[f].value)
    /\ n.flag \in {"true", "false"} /\ n.engines # "unknown" /\ ~n.file
    /\ n.headers \in {"absent", "pairs"} /\ n.cookies \in {"absent", "list"}

LEMMA NormalizedIsNormal ==
  ASSUME NEW r \in {"js", "rust"}, NEW i \in Input, RsReads(i) \/ r = "js",
         Faults(r, i) = {}
  PROVE Normal(Normalized(r, i))
<1>1. Sound(i) /\ Normalized(r, i) \in Input
  BY NoRsFault, NoJsFault, NormalizedType DEF Faults
<1>2. \A f \in Integral :
        IF r = "js" THEN InLimits(f, JsInteger(i, f)) ELSE InLimits(f, RsInteger(i, f))
  BY NoRsFault, NoJsFault DEF Faults
<1>3. /\ i.headers \in {"absent", "pairs", "json_pairs"}
      /\ i.cookies \in {"absent", "list", "json_list"}
  BY NoRsFault, NoJsFault DEF Faults, RsReads, Input, Lists
<1>4. /\ OptionalString(i.url) \in {"absent", "http"}
      /\ OptionalString(i.url) = "absent" => SearchQuery(i) # "absent"
      /\ SearchQuery(i) # "blank" /\ OptionalString(i.selector) # "blank"
      /\ Strategy(i) \in Strategies /\ Format(i) \in Formats
      /\ i.engines # "unknown" /\ ~i.file
  BY <1>1, PlainFields DEF Sound, Given, OptionalString, TextOf
<1>5. \A f \in Integral :
        /\ Number(JsInteger(i, f)).form = "number"
        /\ Number(JsInteger(i, f)).value = JsInteger(i, f)
        /\ Number(RsInteger(i, f)).form = "number"
        /\ Number(RsInteger(i, f)).value = RsInteger(i, f)
  BY DEF Number
<1>6. CASE r = "js"
  <2>1. LET n == JsNormalized(i) IN
        /\ n.url = OptionalString(i.url) /\ n.query = SearchQuery(i)
        /\ n.google = SearchQuery(i) /\ n.strategy = Strategy(i)
        /\ n.method = Strategy(i) /\ n.format = Format(i)
        /\ n.selector = OptionalString(i.selector)
        /\ n.ints = [f \in Integral |-> Number(JsInteger(i, f))]
        /\ n.flag = JsFlag(i.flag) /\ n.engines = i.engines /\ n.file = i.file
        /\ n.headers = (IF i.headers = "json_pairs" THEN "pairs" ELSE i.headers)
        /\ n.cookies = (IF i.cookies = "json_list" THEN "list" ELSE i.cookies)
    BY DEF JsNormalized, Plainly, Input
  <2>2. JsNormalized(i) \in Input /\ Normalized(r, i) = JsNormalized(i)
    BY <1>1, <1>6 DEF Normalized
  <2>3. QED
    BY <1>2, <1>3, <1>4, <1>5, <1>6, <2>1, <2>2 DEF Normal, JsFlag
<1>7. CASE r = "rust"
  <2>1. LET n == RsNormalized(i) IN
        /\ n.url = OptionalString(i.url) /\ n.query = SearchQuery(i)
        /\ n.google = "absent" /\ n.strategy = Strategy(i)
        /\ n.method = Strategy(i) /\ n.format = Format(i)
        /\ n.selector = OptionalString(i.selector)
        /\ n.ints = [f \in Integral |-> Number(RsInteger(i, f))]
        /\ n.flag = (IF i.flag = "true" THEN "true" ELSE "false")
        /\ n.engines = i.engines /\ n.file = i.file
        /\ n.headers = (IF i.headers = "json_pairs" THEN "pairs" ELSE i.headers)
        /\ n.cookies = (IF i.cookies = "json_list" THEN "list" ELSE i.cookies)
    BY DEF RsNormalized, Plainly, Input
  <2>2. RsNormalized(i) \in Input /\ Normalized(r, i) = RsNormalized(i)
    BY <1>1, <1>7 DEF Normalized
  <2>3. QED
    BY <1>2, <1>3, <1>4, <1>5, <1>7, <2>1, <2>2 DEF Normal
<1>8. QED
  BY <1>6, <1>7

\* Node's engine finds nothing wrong with a normalised request.
LEMMA NormalIsSound ==
  ASSUME NEW n, Normal(n)
  PROVE JsFaults(n) = {} /\ Strategy(n) = n.strategy /\ Format(n) = n.format
<1>1. /\ Given(n.strategy) /\ Given(n.format) /\ Strategy(n) = n.strategy
      /\ Format(n) = n.format
  BY DEF Normal, Strategies, Formats, Given, OptionalString, Strategy, Format
<1>2. Sound(n)
  BY <1>1 DEF Normal, Sound, Given, OptionalString, SearchQuery
<1>3. ~JsWaitFault(n)
  BY DEF Normal, Strategies, JsWaitFault
<1>4. ASSUME NEW f \in Integral
      PROVE JsIsInteger(n, f) /\ InLimits(f, JsInteger(n, f))
  BY <1>4 DEF Normal, JsIsInteger, JsInteger, JsGiven, Absent
<1>5. QED
  BY <1>1, <1>2, <1>3, <1>4, NoJsFault DEF Normal

LEMMA NormalIsFixed ==
  ASSUME NEW n, Normal(n)
  PROVE Meaning(JsNormalized(n)) = Meaning(n)
<1>1. n \in Input
  BY DEF Normal
<1>2. ASSUME NEW f \in Integral PROVE Number(JsInteger(n, f)) = n.ints[f]
  <2>1. n.ints[f] \in [form: {"number", "fraction", "digits", "empty", "text"}, value: Int]
        /\ n.ints[f].form = "number"
    BY <1>1 DEF Normal, Input, Value, Absent
  <2>2. n.ints[f] = [form |-> "number", value |-> n.ints[f].value]
    BY <2>1
  <2>3. JsInteger(n, f) = n.ints[f].value
    BY <2>1 DEF JsInteger, JsGiven, Absent
  <2>4. QED
    BY <2>2, <2>3 DEF Number
<1>3. [f \in Integral |-> Number(JsInteger(n, f))] = n.ints
  BY <1>1, <1>2 DEF Input
<1>4. /\ OptionalString(n.url) = n.url /\ SearchQuery(n) = n.query
      /\ Strategy(n) = n.strategy /\ Strategy(n) = n.method /\ Format(n) = n.format
      /\ OptionalString(n.selector) = n.selector /\ JsFlag(n.flag) = n.flag
      /\ n.headers # "json_pairs" /\ n.cookies # "json_list"
  BY NormalIsSound DEF Normal, OptionalString, SearchQuery, Given, JsFlag
<1>5. QED
  BY <1>1, <1>3, <1>4 DEF Meaning, JsNormalized, Plainly, Input

-----------------------------------------------------------------------------
(* The inductive invariant.                                                *)

\* What is known of a request that has been read.
Meant(c) ==
    /\ c.step # "idle" => c.body \in Body
    /\ c.step \notin {"running", "answered"} => c.request = None
    /\ (mode = "hosted" /\ (c.step \in {"admitted", "running"} \/ c.code \in Outcomes))
         => c.key \in Keys
    /\ c.request # None =>
         /\ c.body.route = "engine" /\ Faults(runtime, c.body.input) = {}
         /\ c.request = Normalized(runtime, c.body.input)
    /\ (c.code = "VALIDATION_ERROR" /\ c.body.route = "engine") =>
         Faults(runtime, c.body.input) # {}

BodyInv == AdmissionTypeOK /\ \A q \in Requests : Meant(call[q])

\* The requests that were charged on key k; the searches among them, as the
\* middleware sees it.
ChargedOn(k) == {q \in Requests : Charged(q) /\ call[q].key = k}

SearchesOn(k) == {q \in ChargedOn(k) : EnforceSearchCooldown(call[q].body)}

\* The row of a key counts them, and its last search is the latest of theirs:
\* a search is compared with that one only.
Account(k) ==
    /\ IsFiniteSet(ChargedOn(k))
    /\ \A q \in ChargedOn(k) : call[q].at \in Int
    /\ rows[k] = NoRow => ChargedOn(k) = {}
    /\ rows[k] # NoRow =>
         /\ rows[k].use.uses = Cardinality(ChargedOn(k))
         /\ \A q \in SearchesOn(k) :
              /\ rows[k].use.lastSearch # None
              /\ call[q].at <= rows[k].use.lastSearch
         /\ \A p, q \in SearchesOn(k) : p # q =>
              \/ call[p].at - call[q].at >= rows[k].cooldown * Second
              \/ call[q].at - call[p].at >= rows[k].cooldown * Second

ServerInv ==
    /\ ClockFreeInv /\ BodyInv
    /\ \A k \in Keys : Account(k)

\* On a clock that is never set back: the charges that the current window and
\* the last search stand for.
Opened(k) == {q \in ChargedOn(k) : call[q].at >= rows[k].use.windowStart}

Vouched(k) ==
    rows[k] # NoRow =>
      /\ \A q \in ChargedOn(k) : call[q].at <= clock[k]
      /\ rows[k].use.windowStart # None =>
           rows[k].use.windowCount <= Cardinality(Opened(k))
      /\ rows[k].use.lastSearch # None =>
           \E q \in SearchesOn(k) : call[q].at = rows[k].use.lastSearch

Caused(q) ==
    /\ call[q].code \in {"rate_limited", "cooldown"} =>
         call[q].key \in Keys /\ rows[call[q].key] # NoRow /\ call[q].at \in Int
    /\ call[q].code = "rate_limited" =>
         Cardinality(ChargedBefore(q, Window)) >= rows[call[q].key].rate
    /\ call[q].code = "cooldown" =>
         \E p \in ChargedBefore(q, rows[call[q].key].cooldown * Second - 1) :
           EnforceSearchCooldown(call[p].body)

CauseInv ==
    /\ ServerInv /\ WindowInv
    /\ \A k \in Keys : Vouched(k)
    /\ \A q \in Requests : Caused(q)

-----------------------------------------------------------------------------
(* The server leads its store through steps of KeyStore.                   *)

LEMMA SearchFlag ==
  ASSUME NEW body
  PROVE EnforceSearchCooldown(body) \in BOOLEAN
BY DEF EnforceSearchCooldown

LEMMA StoreStep ==
  AdmissionTypeOK /\ [AdmissionNext]_admissionVars => [Next]_vars
<1> SUFFICES ASSUME AdmissionTypeOK, [AdmissionNext]_admissionVars
             PROVE [Next]_vars
  OBVIOUS
<1>1. CASE UNCHANGED admissionVars
  BY <1>1 DEF admissionVars, vars
<1>2. CASE Administer
  BY <1>2 DEF Administer, Next, AdmissionTypeOK
<1>3. ASSUME NEW q \in Requests,
             \/ Receive(q) \/ Parse(q) \/ PassLocal(q) \/ RequireKey(q)
             \/ StoreFails(q) \/ Normalize(q) \/ Run(q)
      PROVE UNCHANGED vars
  BY <1>3 DEF Receive, Parse, PassLocal, RequireKey, StoreFails, Normalize, Run,
              Store, vars
<1>4. ASSUME NEW q \in Requests, NEW t \in Times, Authorize(q, t)
      PROVE Next
  <2>1. call[q].key \in Keys
    BY <1>4 DEF Authorize, AdmissionTypeOK, Call
  <2>2. QED
    BY <1>4, <2>1, SearchFlag DEF Authorize, Next, AdmissionTypeOK
<1>5. QED
  BY <1>1, <1>2, <1>3, <1>4 DEF AdmissionNext, Serve

-----------------------------------------------------------------------------
(* What a step does to the requests.                                       *)

\* Every step of a request but the middleware's.
QuietServe(q) ==
    \/ Receive(q) \/ Parse(q) \/ PassLocal(q) \/ RequireKey(q)
    \/ StoreFails(q) \/ Normalize(q) \/ Run(q)

Others(q) == \A p \in Requests \ {q} : call'[p] = call[p]

\* What becomes of the request.
Moves(q, new) ==
    LET old == call[q] IN
    \/ /\ old.step = "idle"
       /\ \E body \in Bodies, key \in Keys \cup {None} :
            new = [old EXCEPT !.step = "received", !.body = body, !.key = key]
    \/ /\ old.step \in {"received", "parsed"}
       /\ \E code \in Early : new = [old EXCEPT !.step = "answered", !.code = code]
    \/ /\ old.step = "received"
       /\ new = [old EXCEPT !.step = "parsed"]
    \/ /\ old.step = "parsed" /\ mode = "local"
       /\ new = [old EXCEPT !.step = "admitted"]
    \/ /\ old.step = "admitted" /\ ~Invalid(old.body)
       /\ \E request \in {IF old.body.route = "engine"
                           THEN Normalized(runtime, old.body.input) ELSE None} :
            new = [old EXCEPT !.step = "running", !.request = request]
    \/ /\ old.step = "admitted" /\ Invalid(old.body)
       /\ new = [old EXCEPT !.step = "answered", !.code = "VALIDATION_ERROR"]
    \/ /\ old.step = "running"
       /\ \E code \in Outcomes :
            /\ code = "VALIDATION_ERROR" => Refused(old.request)
            /\ new = [old EXCEPT !.step = "answered", !.code = code]

Decided(q, t, new) ==
    LET old == call[q]
        reason == Reason(runtime, rows[old.key], EnforceSearchCooldown(old.body), t)
    IN \/ /\ reason = "ok"
          /\ new = [old EXCEPT !.at = t, !.step = "admitted", !.code = None]
       \/ /\ reason \in Refusals
          /\ new = [old EXCEPT !.at = t, !.step = "answered", !.code = reason]

LEMMA Stepped ==
  ASSUME AdmissionTypeOK, NEW q \in Requests, QuietServe(q)
  PROVE /\ UNCHANGED <<rows, clock, admitted, mode, runtime>>
        /\ Others(q) /\ call' = [call EXCEPT ![q] = call'[q]]
        /\ Moves(q, call'[q])
<1>0. call \in [Requests -> Call]
  BY DEF AdmissionTypeOK
<1>1. CASE Receive(q)
  BY <1>0, <1>1 DEF Receive, Store, Others, Moves
<1>2. CASE Parse(q)
  BY <1>0, <1>2 DEF Parse, Answer, Early, Store, Others, Moves
<1>3. CASE PassLocal(q)
  BY <1>0, <1>3 DEF PassLocal, NeedsNoKey, Store, Others, Moves
<1>4. CASE RequireKey(q)
  BY <1>0, <1>4 DEF RequireKey, Answer, Early, Store, Others, Moves
<1>5. CASE StoreFails(q)
  BY <1>0, <1>5 DEF StoreFails, Answer, Early, Store, Others, Moves
<1>6. CASE Normalize(q)
  BY <1>0, <1>6 DEF Normalize, Answer, Store, Others, Moves
<1>7. CASE Run(q)
  BY <1>0, <1>7 DEF Run, Answer, Outcomes, Store, Others, Moves
<1>8. QED
  BY <1>1, <1>2, <1>3, <1>4, <1>5, <1>6, <1>7 DEF QuietServe

\* The middleware's transaction, and what it makes of the request.
LEMMA Authorized ==
  ASSUME AdmissionTypeOK, NEW q \in Requests, NEW t \in Times, Authorize(q, t)
  PROVE LET k == call[q].key
            search == EnforceSearchCooldown(call[q].body)
        IN /\ k \in Keys /\ search \in BOOLEAN /\ t \in Int
           /\ ValidateKey(runtime, k, search, t)
           /\ mode = "hosted" /\ call[q].step = "parsed"
           /\ UNCHANGED <<mode, runtime>> /\ Others(q)
           /\ call' = [call EXCEPT ![q] = call'[q]]
           /\ Decided(q, t, call'[q])
<1>1. call \in [Requests -> Call] /\ call[q].key \in Keys
  BY DEF Authorize, AdmissionTypeOK, Call
<1>2. t \in Int
  BY KeyStoreAssumption
<1>3. Reason(runtime, rows[call[q].key], EnforceSearchCooldown(call[q].body), t)
        \in Refusals \cup {"ok"}
  BY DEF Reason, JsReason, RsReason, Refusals
<1>4. QED
  BY <1>1, <1>2, <1>3, SearchFlag DEF Authorize, Admits, Others, Decided

LEMMA AdmissionCases ==
  ASSUME [AdmissionNext]_admissionVars
  PROVE \/ UNCHANGED admissionVars
        \/ Administer
        \/ \E q \in Requests : QuietServe(q)
        \/ \E q \in Requests, t \in Times : Authorize(q, t)
BY DEF AdmissionNext, Serve, QuietServe

LEMMA AdmissionType ==
  AdmissionTypeOK /\ (\A q \in Requests : Meant(call[q])) /\ [AdmissionNext]_admissionVars
    => AdmissionTypeOK'
<1> SUFFICES ASSUME AdmissionTypeOK, \A q \in Requests : Meant(call[q]),
                    [AdmissionNext]_admissionVars
             PROVE AdmissionTypeOK'
  OBVIOUS
<1>1. TypeOK'
  BY StoreStep, TypeStep DEF AdmissionTypeOK
<1> DEFINE Typed(c) == c \in Call /\ (c.step = "answered" <=> c.code # None)
<1>2. /\ call \in [Requests -> Call] /\ \A q \in Requests : Typed(call[q])
      /\ mode \in {"hosted", "local"} /\ runtime \in Runtimes
  BY DEF AdmissionTypeOK
<1>3. ASSUME UNCHANGED <<mode, runtime>>, NEW q \in Requests, Typed(call'[q]),
             call' = [call EXCEPT ![q] = call'[q]]
      PROVE AdmissionTypeOK'
  <2>1. call' \in [Requests -> Call]
    BY <1>2, <1>3
  <2>2. \A p \in Requests : Typed(call'[p])
    BY <1>2, <1>3
  <2>3. QED
    BY <1>1, <1>2, <1>3, <2>1, <2>2 DEF AdmissionTypeOK
<1>4. CASE UNCHANGED admissionVars \/ Administer
  BY <1>1, <1>2, <1>4 DEF admissionVars, Administer, AdmissionTypeOK
<1>5. ASSUME NEW q \in Requests, QuietServe(q) PROVE AdmissionTypeOK'
  <2>1. Typed(call[q]) /\ Meant(call[q])
    BY <1>2
  <2>2. Typed(call'[q])
    <3>1. \A body \in Bodies, key \in Keys \cup {None} :
            call[q].step = "idle" =>
              Typed([call[q] EXCEPT !.step = "received", !.body = body, !.key = key])
      BY <2>1, AdmissionAssumption DEF Call
    <3>2. \A code \in Codes :
            Typed([call[q] EXCEPT !.step = "answered", !.code = code])
      BY <2>1, AdmissionAssumption DEF Call
    <3>3. call[q].step = "received" => Typed([call[q] EXCEPT !.step = "parsed"])
      BY <2>1 DEF Call
    <3>4. call[q].step = "parsed" => Typed([call[q] EXCEPT !.step = "admitted"])
      BY <2>1 DEF Call
    <3>5. \A request \in Input \cup {None} :
            call[q].step = "admitted" =>
              Typed([call[q] EXCEPT !.step = "running", !.request = request])
      BY <2>1 DEF Call
    <3>6. (call[q].step = "admitted" /\ ~Invalid(call[q].body)
             /\ call[q].body.route = "engine") =>
            Normalized(runtime, call[q].body.input) \in Input
      BY <2>1, NormalizedType DEF Meant, Invalid, Body
    <3>7. Early \subseteq Codes /\ Outcomes \subseteq Codes
      BY DEF Codes
    <3> HIDE DEF Typed
    <3>8. "VALIDATION_ERROR" \in Outcomes
      BY DEF Outcomes
    <3>9. Moves(q, call'[q])
      BY <1>5, Stepped
    <3>10. CASE call[q].step = "admitted" /\ ~Invalid(call[q].body)
      <4>1. PICK request \in {IF call[q].body.route = "engine"
                              THEN Normalized(runtime, call[q].body.input) ELSE None} :
              call'[q] = [call[q] EXCEPT !.step = "running", !.request = request]
        BY <3>9, <3>10 DEF Moves
      <4>2. request \in Input \cup {None}
        BY <3>6, <3>10
      <4>3. QED
        BY <3>5, <3>10, <4>1, <4>2
    <3>11. CASE call[q].step = "admitted" /\ Invalid(call[q].body)
      BY <3>2, <3>7, <3>8, <3>9, <3>11 DEF Moves
    <3>12. CASE call[q].step = "running"
      BY <3>2, <3>7, <3>9, <3>12 DEF Moves
    <3>13. CASE call[q].step = "idle"
      BY <3>1, <3>9, <3>13 DEF Moves
    <3>14. CASE call[q].step \in {"received", "parsed"}
      BY <3>2, <3>3, <3>4, <3>7, <3>9, <3>14 DEF Moves
    <3>15. QED
      BY <3>9, <3>10, <3>11, <3>12, <3>13, <3>14 DEF Moves
  <2> HIDE DEF Typed
  <2>3. QED
    BY <1>3, <1>5, <2>2, Stepped
<1>6. ASSUME NEW q \in Requests, NEW t \in Times, Authorize(q, t)
      PROVE AdmissionTypeOK'
  <2>1. Typed(call[q])
    BY <1>2
  <2>2. t \in Int
    BY KeyStoreAssumption
  <2>3. Typed([call[q] EXCEPT !.at = t, !.step = "admitted", !.code = None])
    BY <2>1, <2>2 DEF Call
  <2>4. \A code \in Codes :
          Typed([call[q] EXCEPT !.at = t, !.step = "answered", !.code = code])
    BY <2>1, <2>2, AdmissionAssumption DEF Call
  <2>5. Refusals \subseteq Codes
    BY DEF Codes
  <2> HIDE DEF Typed
  <2>6. Decided(q, t, call'[q])
    BY <1>6, Authorized
  <2>7. Typed(call'[q])
    BY <2>3, <2>4, <2>5, <2>6 DEF Decided
  <2>8. QED
    BY <1>3, <1>6, <2>7, Authorized
<1>7. QED
  BY <1>4, <1>5, <1>6, AdmissionCases

\* What the route has normalised is never refused by Node's engine.
LEMMA NeverRefused ==
  ASSUME AdmissionTypeOK, NEW q \in Requests, Meant(call[q])
  PROVE ~Refused(call[q].request)
<1> SUFFICES ASSUME runtime = "js", call[q].request # None, JsFaults(call[q].request) # {}
             PROVE FALSE
  BY DEF Refused
<1>1. /\ call[q].body.route = "engine"
      /\ Faults("js", call[q].body.input) = {}
      /\ call[q].request = Normalized("js", call[q].body.input)
  BY DEF Meant
<1>2. call[q] \in Call
  BY DEF AdmissionTypeOK
<1>3. call[q].step # "idle"
  BY <1>2 DEF Meant
<1>4. call[q].body.input \in Input
  BY <1>3 DEF Meant, Body
<1>5. QED
  BY <1>1, <1>4, NormalizedIsNormal, NormalIsSound

LEMMA MeantStep ==
  ASSUME AdmissionTypeOK, \A q \in Requests : Meant(call[q]),
         [AdmissionNext]_admissionVars, NEW p \in Requests
  PROVE Meant(call[p])'
<1>1. Meant(call[p]) /\ call[p] \in Call /\ (call[p].step = "answered" <=> call[p].code # None)
  BY DEF AdmissionTypeOK
<1>2. SUFFICES UNCHANGED <<mode, runtime>> /\ Meant(call'[p])
  BY DEF Meant
<1>3. CASE UNCHANGED admissionVars \/ Administer
  BY <1>1, <1>3 DEF admissionVars, Administer
<1>4. ASSUME NEW q \in Requests, QuietServe(q)
      PROVE UNCHANGED <<mode, runtime>> /\ Meant(call'[p])
  <2>1. CASE p # q
    BY <1>1, <1>4, <2>1, Stepped DEF Others
  <2>2. CASE p = q
    <3> DEFINE c == call[q]
    <3>1. Moves(q, call'[q]) /\ UNCHANGED <<mode, runtime>>
      BY <1>4, Stepped
    <3>2. c \in Call /\ Meant(c) /\ (c.step = "answered" <=> c.code # None)
          /\ ~Refused(c.request)
      BY <1>1, <2>2, NeverRefused
    <3>3. None \notin Codes /\ None \notin Outcomes /\ Bodies \subseteq Body /\ "VALIDATION_ERROR" \in Codes
      BY AdmissionAssumption DEF Codes, Outcomes
    <3> HIDE DEF c
    <3>4. CASE c.step = "idle"
      <4>1. PICK body \in Bodies, key \in Keys \cup {None} :
              call'[q] = [c EXCEPT !.step = "received", !.body = body, !.key = key]
        BY <3>1, <3>4 DEF Moves, c
      <4>2. /\ call'[q].step = "received" /\ call'[q].body \in Body
            /\ call'[q].request = None /\ call'[q].code = None
        BY <3>2, <3>3, <3>4, <4>1 DEF Call, Meant
      <4>3. QED
        BY <2>2, <3>1, <3>3, <4>2 DEF Meant
    <3>5. CASE c.step \in {"received", "parsed"}
      <4>1. /\ call'[q].step \in {"answered", "parsed", "admitted"}
            /\ call'[q].body = c.body /\ call'[q].request = None
            /\ call'[q].code \in Early \cup {None}
            /\ call'[q].step = "admitted" => mode = "local"
        BY <3>1, <3>2, <3>5 DEF Moves, Call, Meant, c
      <4>2. "VALIDATION_ERROR" \notin Early /\ Early \cap Outcomes = {}
        BY DEF Early, Outcomes
      <4>3. QED
        BY <2>2, <3>1, <3>2, <3>3, <3>5, <4>1, <4>2 DEF Meant
    <3>6. CASE c.step = "admitted" /\ ~Invalid(c.body)
      <4>1. PICK request \in {IF c.body.route = "engine"
                              THEN Normalized(runtime, c.body.input) ELSE None} :
              call'[q] = [c EXCEPT !.step = "running", !.request = request]
        BY <3>1, <3>6 DEF Moves, c
      <4>2. /\ call'[q].step = "running" /\ call'[q].body = c.body /\ call'[q].code = None
            /\ call'[q].key = c.key
            /\ call'[q].request = IF c.body.route = "engine"
                                    THEN Normalized(runtime, c.body.input) ELSE None
        BY <3>2, <3>6, <4>1 DEF Call
      <4>3. QED
        BY <2>2, <3>1, <3>2, <3>3, <3>6, <4>2 DEF Meant, Invalid
    <3>7. CASE c.step = "admitted" /\ Invalid(c.body)
      <4>1. /\ call'[q].step = "answered" /\ call'[q].body = c.body /\ call'[q].key = c.key
            /\ call'[q].request = None
        BY <3>1, <3>2, <3>7 DEF Moves, Call, Meant, c
      <4>2. QED
        BY <2>2, <3>1, <3>2, <3>7, <4>1 DEF Meant, Invalid
    <3>8. CASE c.step = "running"
      <4>1. PICK code \in Outcomes :
              /\ code # "VALIDATION_ERROR"
              /\ call'[q] = [c EXCEPT !.step = "answered", !.code = code]
        BY <3>1, <3>2, <3>8 DEF Moves, c
      <4>2. /\ call'[q].step = "answered" /\ call'[q].body = c.body /\ call'[q].key = c.key
            /\ call'[q].request = c.request /\ call'[q].code = code
        BY <3>2, <4>1 DEF Call
      <4>3. QED
        BY <2>2, <3>1, <3>2, <3>8, <4>1, <4>2 DEF Meant
    <3>9. QED
      BY <3>1, <3>4, <3>5, <3>6, <3>7, <3>8 DEF Moves, c
  <2>3. QED
    BY <2>1, <2>2
<1>5. ASSUME NEW q \in Requests, NEW t \in Times, Authorize(q, t)
      PROVE UNCHANGED <<mode, runtime>> /\ Meant(call'[p])
  <2>1. CASE p # q
    BY <1>1, <1>5, <2>1, Authorized DEF Others
  <2>2. CASE p = q
    <3>1. Decided(q, t, call'[q]) /\ UNCHANGED <<mode, runtime>>
          /\ call[q].step = "parsed" /\ call[q].key \in Keys
      BY <1>5, Authorized
    <3>2. /\ call'[q].step \in {"admitted", "answered"} /\ call'[q].body = call[q].body
          /\ call'[q].key = call[q].key
          /\ call'[q].request = None /\ call'[q].code \in Refusals \cup {None}
      BY <1>1, <2>2, <3>1 DEF Decided, Call, Meant
    <3>3. Outcomes \cap (Refusals \cup {None}) = {} /\ "VALIDATION_ERROR" \in Outcomes
      BY AdmissionAssumption DEF Refusals, Codes, Outcomes
    <3>4. QED
      BY <1>1, <2>2, <3>1, <3>2, <3>3 DEF Meant
  <2>3. QED
    BY <2>1, <2>2
<1>6. QED
  BY <1>3, <1>4, <1>5, AdmissionCases

LEMMA BodyInit == AdmissionInit => BodyInv
<1> SUFFICES ASSUME AdmissionInit PROVE BodyInv
  OBVIOUS
<1>1. TypeOK
  BY DEF AdmissionInit, Init, TypeOK
<1>2. AdmissionTypeOK
  BY <1>1 DEF AdmissionInit, AdmissionTypeOK, Call
<1>3. ASSUME NEW q \in Requests PROVE Meant(call[q])
  <2>1. call[q].step = "idle" /\ call[q].request = None /\ call[q].code = None
    BY DEF AdmissionInit
  <2>2. None \notin Outcomes /\ "VALIDATION_ERROR" \in Outcomes
    BY AdmissionAssumption DEF Codes, Outcomes
  <2>3. QED
    BY <2>1, <2>2 DEF Meant
<1>4. QED
  BY <1>2, <1>3 DEF BodyInv

LEMMA BodyStep == BodyInv /\ [AdmissionNext]_admissionVars => BodyInv'
BY AdmissionType, MeantStep DEF BodyInv

LEMMA BodyHolds == AdmissionSpec => []BodyInv
BY BodyInit, BodyStep, PTL DEF AdmissionSpec

\* Every reachable request, row and response code has its type; a request has
\* been answered exactly when it has a code.
THEOREM RequestsTyped == AdmissionSpec => []AdmissionTypeOK
BY BodyHolds, PTL DEF BodyInv

\* The server, with its middleware and its administrator, leads the key store
\* through behaviours of KeyStore: what is proved of every such behaviour
\* holds of the store behind it.
THEOREM ServerUsesKeyStore == AdmissionSpec => Spec
<1>1. AdmissionInit => Init
  BY DEF AdmissionInit
<1>2. BodyInv /\ [AdmissionNext]_admissionVars => [Next]_vars
  BY StoreStep DEF BodyInv
<1>3. QED
  BY <1>1, <1>2, BodyHolds, PTL DEF AdmissionSpec, Spec

\* Whatever body both runtimes can read means the same to both.
THEOREM BodiesMeanTheSame == AdmissionSpec => []NormalizedAlike
<1>1. BodyInv => NormalizedAlike
  <2> SUFFICES ASSUME BodyInv, NEW q \in Requests, call[q].body # None,
                      call[q].body.route = "engine", RsReads(call[q].body.input)
               PROVE LET body == call[q].body
                         request == call[q].request
                     IN /\ call[q].code = "VALIDATION_ERROR" =>
                             (Faults(Other, body.input) # {} \/ WaitOverridden(body.input))
                        /\ request # None =>
                             /\ WaitOverridden(body.input) \/ Faults(Other, body.input) = {}
                             /\ Meaning(request) = Meaning(Normalized(Other, body.input))
                             /\ JsFaults(request) = {}
                             /\ Meaning(JsNormalized(request)) = Meaning(request)
    BY DEF NormalizedAlike
  <2> DEFINE i == call[q].body.input
             request == call[q].request
  <2>1. /\ call[q] \in Call /\ Meant(call[q]) /\ runtime \in {"js", "rust"}
        /\ i \in Input
    BY DEF BodyInv, AdmissionTypeOK, Call, Body, Runtimes
  <2>2. /\ RsFaults(i) = {} => JsFaults(i) = {}
        /\ JsFaults(i) = {} => RsFaults(i) = {} \/ WaitOverridden(i)
        /\ Meaning(JsNormalized(i)) = Meaning(RsNormalized(i))
    BY <2>1, RefusedAlike, SameMeaning DEF WaitOverridden, Overridden
  <2>3. ASSUME call[q].code = "VALIDATION_ERROR"
        PROVE Faults(Other, i) # {} \/ WaitOverridden(i)
    BY <2>1, <2>2, <2>3 DEF Meant, Other, Faults
  <2>4. ASSUME request # None
        PROVE /\ WaitOverridden(i) \/ Faults(Other, i) = {}
              /\ Meaning(request) = Meaning(Normalized(Other, i))
              /\ JsFaults(request) = {}
              /\ Meaning(JsNormalized(request)) = Meaning(request)
    <3>1. Faults(runtime, i) = {} /\ request = Normalized(runtime, i)
      BY <2>1, <2>4 DEF Meant
    <3>2. Normal(request)
      BY <2>1, <3>1, NormalizedIsNormal
    <3>3. WaitOverridden(i) \/ Faults(Other, i) = {}
      BY <2>1, <2>2, <3>1 DEF Other, Faults
    <3>4. Meaning(request) = Meaning(Normalized(Other, i))
      BY <2>1, <2>2, <3>1 DEF Other, Normalized
    <3>5. QED
      BY <3>2, <3>3, <3>4, NormalIsSound, NormalIsFixed
  <2>5. QED
    BY <2>3, <2>4
<1>2. QED
  BY <1>1, BodyHolds, PTL

-----------------------------------------------------------------------------
(* The charges.                                                            *)

\* A step that charges nobody.
Kept(p) ==
    /\ Charged(p)' <=> Charged(p)
    /\ Charged(p) => /\ call'[p].key = call[p].key /\ call'[p].at = call[p].at
                     /\ call'[p].body = call[p].body

LEMMA SameCharges ==
  ASSUME runtime' = runtime, \A p \in Requests : Kept(p), NEW k
  PROVE /\ ChargedOn(k)' = ChargedOn(k) /\ SearchesOn(k)' = SearchesOn(k)
        /\ SearchesOn(k) \subseteq ChargedOn(k) /\ ChargedOn(k) \subseteq Requests
        /\ \A p \in ChargedOn(k) : call'[p].at = call[p].at
<1>1. ChargedOn(k)' = ChargedOn(k)
  BY DEF ChargedOn, Kept
<1>2. \A p \in ChargedOn(k) : call'[p].at = call[p].at /\ call'[p].body = call[p].body
  BY DEF ChargedOn, Kept
<1>3. QED
  BY <1>1, <1>2 DEF SearchesOn, ChargedOn, EnforceSearchCooldown

LEMMA QuietKeeps ==
  ASSUME BodyInv, NEW q \in Requests, QuietServe(q)
  PROVE runtime' = runtime /\ \A p \in Requests : Kept(p)
<1>1. /\ UNCHANGED <<mode, runtime>> /\ Others(q) /\ Moves(q, call'[q])
      /\ call[q] \in Call /\ (call[q].step = "answered" <=> call[q].code # None)
  BY Stepped DEF BodyInv, AdmissionTypeOK
<1>2. ASSUME NEW p \in Requests \ {q} PROVE Kept(p)
  BY <1>1 DEF Others, Kept, Charged
<1>3. Kept(q)
  <2>1. \A code \in Early : code \notin Outcomes
    BY DEF Early, Outcomes
  <2>2. CASE call[q].step = "idle"
    BY <1>1, <2>2 DEF Moves, Kept, Charged, Call
  <2>3. CASE call[q].step \in {"received", "parsed"}
    BY <1>1, <2>1, <2>3 DEF Moves, Kept, Charged, Call
  <2>4. CASE call[q].step = "admitted" /\ ~Invalid(call[q].body)
    BY <1>1, <2>4 DEF Moves, Kept, Charged, Call
  <2>5. CASE call[q].step = "admitted" /\ Invalid(call[q].body)
    BY <1>1, <2>5 DEF Moves, Kept, Charged, Call, Outcomes
  <2>6. CASE call[q].step = "running"
    BY <1>1, <2>6 DEF Moves, Kept, Charged, Call
  <2>7. QED
    BY <1>1, <2>2, <2>3, <2>4, <2>5, <2>6 DEF Moves
<1>4. QED
  BY <1>1, <1>2, <1>3

\* A refusal charges nobody; an admission charges the request and no other.
LEMMA RefusalKeeps ==
  ASSUME BodyInv, NEW q \in Requests, NEW t \in Times, Authorize(q, t),
         Reason(runtime, rows[call[q].key],
                EnforceSearchCooldown(call[q].body), t) # "ok"
  PROVE runtime' = runtime /\ \A p \in Requests : Kept(p)
<1>1. /\ UNCHANGED <<mode, runtime>> /\ Others(q) /\ Decided(q, t, call'[q])
      /\ call[q] \in Call /\ call[q].step = "parsed"
  BY Authorized DEF BodyInv, AdmissionTypeOK
<1>2. ASSUME NEW p \in Requests \ {q} PROVE Kept(p)
  BY <1>1 DEF Others, Kept, Charged
<1>3. \A code \in Refusals : code \notin Outcomes
  BY DEF Refusals, Outcomes
<1>4. Kept(q)
  BY <1>1, <1>3 DEF Decided, Kept, Charged, Call
<1>5. QED
  BY <1>1, <1>2, <1>4

LEMMA AdmissionCharges ==
  ASSUME BodyInv, NEW q \in Requests, NEW t \in Times, Authorize(q, t),
         Reason(runtime, rows[call[q].key],
                EnforceSearchCooldown(call[q].body), t) = "ok"
  PROVE /\ \A p \in Requests \ {q} : Kept(p) /\ call'[p] = call[p]
        /\ ~Charged(q) /\ Charged(q)' /\ runtime' = runtime
        /\ call'[q].key = call[q].key /\ call'[q].at = t
        /\ call'[q].body = call[q].body
        /\ \A k : ChargedOn(k)' = IF k = call[q].key THEN ChargedOn(k) \cup {q}
                                                     ELSE ChargedOn(k)
        /\ \A k : SearchesOn(k)' =
                    IF k = call[q].key /\ EnforceSearchCooldown(call[q].body)
                      THEN SearchesOn(k) \cup {q} ELSE SearchesOn(k)
        /\ \A k : q \notin ChargedOn(k) /\ SearchesOn(k) \subseteq ChargedOn(k)
                  /\ ChargedOn(k) \subseteq Requests
<1>1. /\ UNCHANGED <<mode, runtime>> /\ Others(q) /\ Decided(q, t, call'[q])
      /\ call[q] \in Call /\ call[q].step = "parsed" /\ mode = "hosted"
  BY Authorized DEF BodyInv, AdmissionTypeOK
<1>2. \A p \in Requests \ {q} : Kept(p) /\ call'[p] = call[p]
  BY <1>1 DEF Others, Kept, Charged
<1>3. "ok" \notin Refusals
  BY DEF Refusals
<1>4. /\ ~Charged(q) /\ Charged(q)' /\ call'[q].key = call[q].key
      /\ call'[q].at = t /\ call'[q].body = call[q].body
  BY <1>1, <1>3 DEF Decided, Charged, Call
<1>5. \A k : ChargedOn(k)' = IF k = call[q].key THEN ChargedOn(k) \cup {q}
                                                ELSE ChargedOn(k)
  BY <1>2, <1>4 DEF ChargedOn, Kept
<1>6. \A p \in Requests : EnforceSearchCooldown(call[p].body)'
                            <=> EnforceSearchCooldown(call[p].body)
  BY <1>1, <1>2, <1>4 DEF EnforceSearchCooldown
<1>7. \A k : SearchesOn(k)' =
               IF k = call[q].key /\ EnforceSearchCooldown(call[q].body)
                 THEN SearchesOn(k) \cup {q} ELSE SearchesOn(k)
  <2>1. \A k : ChargedOn(k) \subseteq Requests
    BY DEF ChargedOn
  <2>2. QED
    BY <1>5, <1>6, <2>1 DEF SearchesOn
<1>8. QED
  BY <1>1, <1>2, <1>4, <1>5, <1>7 DEF ChargedOn, SearchesOn

\* A step that leaves the accounting of a key, and its limits, as they are.
RowKept(k) ==
    /\ rows[k] = NoRow =>
         \/ rows'[k] = NoRow
         \/ /\ rows'[k] # NoRow /\ rows'[k].use.uses = 0
            /\ rows'[k].use.windowStart = None /\ rows'[k].use.lastSearch = None
    /\ rows[k] # NoRow =>
         /\ rows'[k] # NoRow /\ rows'[k].use = rows[k].use
         /\ rows'[k].rate = rows[k].rate /\ rows'[k].cooldown = rows[k].cooldown

LEMMA QuietKeepsRows ==
  ASSUME BodyInv, NEW q \in Requests, QuietServe(q), NEW k \in Keys
  PROVE RowKept(k)
BY Stepped DEF BodyInv, RowKept

LEMMA AdministerKeeps ==
  ASSUME BodyInv, Administer, NEW k \in Keys
  PROVE RowKept(k) /\ runtime' = runtime /\ \A p \in Requests : Kept(p)
<1>1. TypeOK /\ runtime \in Runtimes
  BY DEF BodyInv, AdmissionTypeOK
<1>2. UNCHANGED <<mode, runtime, call>>
  BY DEF Administer
<1>3. ASSUME NEW j \in Keys, RevokeKey(j) PROVE RowKept(k)
  <2>1. rows[j] \in Row
    BY <1>1, <1>3 DEF RevokeKey, TypeOK
  <2>2. LET new == RevokedRow(rows[j]) IN
        /\ new.use = rows[j].use /\ new.rate = rows[j].rate
        /\ new.cooldown = rows[j].cooldown /\ new \in Row
    BY <2>1, RevokedType DEF RevokedRow, Row
  <2>3. QED
    BY <1>1, <1>3, <2>1, <2>2, NoRowIsNoRow DEF RevokeKey, RowKept, TypeOK
<1>4. ASSUME NEW j \in Keys, NEW t \in Times, NEW rate \in Rates,
             NEW lifetime \in Lifetimes, NEW cooldown \in Cooldowns,
             CreateKey(runtime, j, t, rate, lifetime, cooldown)
      PROVE RowKept(k)
  <2> DEFINE new == CreatedRow(runtime, t, rate, lifetime, cooldown)
  <2>1. new \in Row
    BY <1>1, CreatedRowType, KeyStoreAssumption
  <2>2. new.use.uses = 0 /\ new.use.windowStart = None /\ new.use.lastSearch = None
    BY DEF CreatedRow, JsNewRow, RsNewRow, NewRow
  <2>3. rows[j] = NoRow /\ rows' = [rows EXCEPT ![j] = new]
    BY <1>4 DEF CreateKey
  <2> HIDE DEF new
  <2>4. QED
    BY <1>1, <2>1, <2>2, <2>3, NoRowIsNoRow DEF RowKept, TypeOK
<1>5. QED
  BY <1>2, <1>3, <1>4 DEF Administer, Kept, Charged

LEMMA RefusalKeepsRows ==
  ASSUME BodyInv, NEW q \in Requests, NEW t \in Times, Authorize(q, t),
         Reason(runtime, rows[call[q].key],
                EnforceSearchCooldown(call[q].body), t) # "ok",
         NEW k \in Keys
  PROVE RowKept(k)
<1> DEFINE j == call[q].key
           search == EnforceSearchCooldown(call[q].body)
           new == Stored(runtime, rows[j], search, t)
<1>1. /\ j \in Keys /\ search \in BOOLEAN /\ t \in Int /\ TypeOK /\ runtime \in Runtimes
      /\ ValidateKey(runtime, j, search, t)
  BY Authorized DEF BodyInv, AdmissionTypeOK
<1>2. rows' = [rows EXCEPT ![j] = new] /\ rows[j] \in Row \cup {NoRow}
  BY <1>1 DEF ValidateKey, TypeOK
<1>3. CASE rows[j] = NoRow
  <2>1. new = NoRow
    BY <1>3 DEF Stored, JsStored, RsStored, JsReason, RsReason
  <2>2. QED
    BY <1>1, <1>2, <1>3, <2>1 DEF RowKept, TypeOK
<1>4. CASE rows[j] \in Row
  <2>1. /\ new.use = rows[j].use /\ new.rate = rows[j].rate
        /\ new.cooldown = rows[j].cooldown /\ new \in Row
    BY <1>1, <1>4, RefusedFields, StoredRow
  <2> HIDE DEF new
  <2>2. QED
    BY <1>1, <1>2, <1>4, <2>1, NoRowIsNoRow DEF RowKept, TypeOK
<1>5. QED
  BY <1>2, <1>3, <1>4

LEMMA AccountKept ==
  ASSUME NEW k \in Keys, Account(k), RowKept(k),
         runtime' = runtime, \A p \in Requests : Kept(p)
  PROVE Account(k)'
<1>1. /\ ChargedOn(k)' = ChargedOn(k) /\ SearchesOn(k)' = SearchesOn(k)
      /\ SearchesOn(k) \subseteq ChargedOn(k)
      /\ \A p \in ChargedOn(k) : call'[p].at = call[p].at
  BY SameCharges
<1>2. CASE rows[k] = NoRow
  <2>1. ChargedOn(k)' = {} /\ SearchesOn(k)' = {}
    BY <1>1, <1>2 DEF Account
  <2>2. rows'[k] # NoRow => rows'[k].use.uses = 0
    BY <1>2 DEF RowKept
  <2>3. QED
    BY <2>1, <2>2, FS_EmptySet DEF Account
<1>3. CASE rows[k] # NoRow
  BY <1>1, <1>3 DEF Account, RowKept
<1>4. QED
  BY <1>2, <1>3

\* What an admission tells of the row of its key.
LEMMA AdmissionFacts ==
  ASSUME BodyInv, ClockFreeInv, NEW q \in Requests, NEW t \in Times, Authorize(q, t),
         Reason(runtime, rows[call[q].key],
                EnforceSearchCooldown(call[q].body), t) = "ok",
         NEW k \in Keys, k = call[q].key,
         NEW search \in BOOLEAN, search = EnforceSearchCooldown(call[q].body)
  PROVE /\ t \in Int /\ rows[k] \in Row /\ rows[k] # NoRow /\ Fresh(rows[k])
        /\ rows' = [rows EXCEPT ![k] = RsCharged(rows[k], search, t)]
        /\ rows'[k] = RsCharged(rows[k], search, t) /\ rows'[k] # NoRow
        /\ ~RsCooling(rows[k], search, t)
        /\ ValidateKey(runtime, k, search, t)
<1>1. /\ t \in Int /\ ValidateKey(runtime, k, search, t) /\ TypeOK
      /\ runtime \in Runtimes
  BY Authorized DEF BodyInv, AdmissionTypeOK
<1>2. rows[k] # NoRow
  BY DEF Reason, JsReason, RsReason
<1>3. rows[k] \in Row
  BY <1>1, <1>2 DEF TypeOK
<1>4. Fresh(rows[k])
  BY <1>2 DEF ClockFreeInv, ClockFree
<1>5. /\ Stored(runtime, rows[k], search, t) = RsCharged(rows[k], search, t)
      /\ ~RsCooling(rows[k], search, t)
  BY <1>1, <1>3, <1>4, Admitted
<1>6. RsCharged(rows[k], search, t) \in Row
  BY <1>1, <1>3, ChargedType
<1>7. QED
  BY <1>1, <1>2, <1>3, <1>4, <1>5, <1>6, NoRowIsNoRow DEF ValidateKey, TypeOK

LEMMA AccountAdmission ==
  ASSUME ServerInv, NEW q \in Requests, NEW t \in Times, Authorize(q, t),
         Reason(runtime, rows[call[q].key],
                EnforceSearchCooldown(call[q].body), t) = "ok",
         NEW k \in Keys
  PROVE Account(k)'
<1>1. BodyInv /\ ClockFreeInv /\ Account(k) /\ TypeOK
  BY DEF ServerInv, ClockFreeInv
<1>2. /\ \A p \in Requests \ {q} : Kept(p) /\ call'[p] = call[p]
      /\ call'[q].at = t /\ q \notin ChargedOn(k)
      /\ SearchesOn(k) \subseteq ChargedOn(k) /\ ChargedOn(k) \subseteq Requests
      /\ ChargedOn(k)' = IF k = call[q].key THEN ChargedOn(k) \cup {q} ELSE ChargedOn(k)
      /\ SearchesOn(k)' =
           IF k = call[q].key /\ EnforceSearchCooldown(call[q].body)
             THEN SearchesOn(k) \cup {q} ELSE SearchesOn(k)
  BY <1>1, AdmissionCharges
<1>3. \A p \in ChargedOn(k) : call'[p] = call[p]
  BY <1>2
<1>4. CASE k # call[q].key
  <2>1. rows'[k] = rows[k]
    <3>1. call[q].key \in Keys
      BY <1>1, Authorized DEF BodyInv
    <3>2. QED
      BY <1>1, <1>4, <3>1, Authorized DEF BodyInv, ValidateKey, TypeOK
  <2>2. QED
    BY <1>1, <1>2, <1>3, <1>4, <2>1 DEF Account
<1>5. CASE k = call[q].key
  <2> DEFINE search == EnforceSearchCooldown(call[q].body)
             row == rows[k]
             last == row.use.lastSearch
             gap == row.cooldown * Second
  <2>1. search \in BOOLEAN
    BY SearchFlag
  <2>2. /\ t \in Int /\ row \in Row /\ row # NoRow
        /\ rows'[k] = RsCharged(row, search, t) /\ rows'[k] # NoRow
        /\ ~RsCooling(row, search, t)
    BY <1>1, <1>5, <2>1, AdmissionFacts
  <2>3. /\ rows'[k].use.uses = row.use.uses + 1 /\ rows'[k].cooldown = row.cooldown
        /\ rows'[k].use.lastSearch = IF search THEN t ELSE last
    BY <2>1, <2>2, ChargedFields
  <2>4. last \in Int \cup {None} /\ gap \in Int /\ gap >= 0
    <3>1. row.use \in Use /\ row.cooldown \in Nat
      BY <2>2, KeyRowAssumption DEF Row
    <3>2. \A a, b \in Nat : a * b \in Nat
      OBVIOUS
    <3>3. QED
      BY <3>1, <3>2, KeyRowAssumption DEF Use
  <2>5. /\ IsFiniteSet(ChargedOn(k)) /\ row.use.uses = Cardinality(ChargedOn(k))
        /\ \A p \in ChargedOn(k) : call[p].at \in Int
        /\ \A p \in SearchesOn(k) : last # None /\ call[p].at <= last
        /\ \A p, r \in SearchesOn(k) : p # r =>
             call[p].at - call[r].at >= gap \/ call[r].at - call[p].at >= gap
    BY <1>1, <2>2 DEF Account
  <2>6. \A p \in SearchesOn(k) : search => call[p].at <= t /\ t - call[p].at >= gap
    <3> SUFFICES ASSUME NEW p \in SearchesOn(k), search
                 PROVE call[p].at <= t /\ t - call[p].at >= gap
      OBVIOUS
    <3>1. last \in Int /\ call[p].at \in Int /\ call[p].at <= last
      BY <1>2, <2>4, <2>5
    <3>2. ~(t - last < gap)
      BY <2>2, <2>5 DEF RsCooling
    <3> HIDE DEF last, gap
    <3>3. QED
      BY <2>2, <2>4, <3>1, <3>2
  <2>7. IsFiniteSet(ChargedOn(k)') /\ Cardinality(ChargedOn(k)') = row.use.uses + 1
    BY <1>2, <1>5, <2>5, FS_AddElement
  <2>8. \A p \in ChargedOn(k)' : call'[p].at \in Int
    BY <1>2, <1>3, <1>5, <2>2, <2>5
  <2>9. \A p \in SearchesOn(k) : call'[p].at = call[p].at
    BY <1>2, <1>3
  <2>10. \A p \in SearchesOn(k)' :
           rows'[k].use.lastSearch # None /\ call'[p].at <= rows'[k].use.lastSearch
    <3>1. CASE search
      <4>1. rows'[k].use.lastSearch = t /\ t # None /\ t <= t
        BY <2>2, <2>3, <3>1, KeyRowAssumption
      <4>2. QED
        BY <1>2, <2>6, <2>9, <3>1, <4>1
    <3>2. CASE ~search
      BY <1>2, <2>3, <2>5, <2>9, <3>2
    <3>3. QED
      BY <3>1, <3>2
  <2>11. \A p, r \in SearchesOn(k)' : p # r =>
           call'[p].at - call'[r].at >= gap \/ call'[r].at - call'[p].at >= gap
    <3> HIDE DEF gap, last
    <3>1. CASE search
      BY <1>2, <2>5, <2>6, <2>9, <3>1
    <3>2. CASE ~search
      BY <1>2, <2>5, <2>9, <3>2
    <3>3. QED
      BY <3>1, <3>2
  <2>12. QED
    BY <2>2, <2>3, <2>7, <2>8, <2>10, <2>11 DEF Account
<1>6. QED
  BY <1>4, <1>5

LEMMA ServerStep == ServerInv /\ [AdmissionNext]_admissionVars => ServerInv'
<1> SUFFICES ASSUME ServerInv, [AdmissionNext]_admissionVars PROVE ServerInv'
  OBVIOUS
<1>1. BodyInv' /\ ClockFreeInv' /\ BodyInv
  BY StoreStep, BodyStep, ClockFreeStep DEF ServerInv, BodyInv
<1> SUFFICES ASSUME NEW k \in Keys PROVE Account(k)'
  BY <1>1 DEF ServerInv
<1>2. Account(k)
  BY DEF ServerInv
<1>3. CASE UNCHANGED admissionVars
  <2>1. RowKept(k) /\ runtime' = runtime /\ \A p \in Requests : Kept(p)
    BY <1>3 DEF admissionVars, RowKept, Kept, Charged
  <2>2. QED
    BY <1>2, <2>1, AccountKept
<1>4. CASE Administer
  BY <1>1, <1>2, <1>4, AdministerKeeps, AccountKept
<1>5. ASSUME NEW q \in Requests, QuietServe(q) PROVE Account(k)'
  BY <1>1, <1>2, <1>5, QuietKeeps, QuietKeepsRows, AccountKept
<1>6. ASSUME NEW q \in Requests, NEW t \in Times, Authorize(q, t)
      PROVE Account(k)'
  <2>1. CASE Reason(runtime, rows[call[q].key],
                    EnforceSearchCooldown(call[q].body), t) = "ok"
    BY <1>6, <2>1, AccountAdmission
  <2>2. CASE Reason(runtime, rows[call[q].key],
                    EnforceSearchCooldown(call[q].body), t) # "ok"
    BY <1>1, <1>2, <1>6, <2>2, RefusalKeeps, RefusalKeepsRows, AccountKept
  <2>3. QED
    BY <2>1, <2>2
<1>7. QED
  BY <1>3, <1>4, <1>5, <1>6, AdmissionCases

LEMMA NoCharges ==
  ASSUME AdmissionInit, NEW k
  PROVE ChargedOn(k) = {} /\ SearchesOn(k) = {}
BY DEF AdmissionInit, ChargedOn, SearchesOn, Charged

LEMMA ServerHolds == AdmissionSpec => []ServerInv
<1>1. AdmissionInit => ServerInv
  <2> SUFFICES ASSUME AdmissionInit PROVE ServerInv
    OBVIOUS
  <2>1. ClockFreeInv
    BY DEF AdmissionInit, Init, ClockFreeInv, TypeOK, ClockFree
  <2>2. \A k \in Keys : rows[k] = NoRow
    BY DEF AdmissionInit, Init
  <2>3. QED
    BY <2>1, <2>2, BodyInit, NoCharges, FS_EmptySet DEF ServerInv, Account
<1>2. QED
  BY <1>1, ServerStep, PTL DEF AdmissionSpec

\* Whoever passes the middleware is charged once, and nobody else ever is,
\* however the requests of a key and the administrator's calls interleave.
THEOREM ChargedOnce == AdmissionSpec => []ChargesMatch
<1>1. ServerInv => ChargesMatch
  BY DEF ServerInv, Account, ChargesMatch, ChargedOn
<1>2. QED
  BY <1>1, ServerHolds, PTL

\* The engine's searches of one key that name their query once are a cooldown
\* apart, even on a clock that is set back.
THEOREM PlainSearchesSpaced == AdmissionSpec => []PlainSearchesApart
<1>1. ServerInv => PlainSearchesApart
  <2> SUFFICES ASSUME ServerInv, NEW p \in Requests, NEW q \in Requests,
                      Searching(p), Plain(call[p].body),
                      Searching(q), Plain(call[q].body),
                      p # q, call[p].key = call[q].key
               PROVE LET apart == call[p].at - call[q].at IN
                     (IF apart < 0 THEN -apart ELSE apart)
                       >= rows[call[q].key].cooldown * Second
    BY DEF PlainSearchesApart, SearchesApart
  <2> DEFINE k == call[q].key
  <2>1. ASSUME NEW r \in Requests, Searching(r), Plain(call[r].body)
        PROVE EnforceSearchCooldown(call[r].body) /\ call[r].key \in Keys
    <3>1. EnforceSearchCooldown(call[r].body)
      BY <2>1 DEF Searching, Searches, Plain, EnforceSearchCooldown, IsText
    <3>2. call[r].key \in Keys
      BY <2>1 DEF Searching, Charged, ServerInv, BodyInv, Meant
    <3>3. QED
      BY <3>1, <3>2
  <2>2. k \in Keys /\ p \in SearchesOn(k) /\ q \in SearchesOn(k)
    BY <2>1 DEF SearchesOn, ChargedOn, Searching
  <2>3. Account(k)
    BY <2>2 DEF ServerInv
  <2>4. call[p].at \in Int /\ call[q].at \in Int /\ rows[k] # NoRow
    BY <2>2, <2>3 DEF Account, SearchesOn
  <2>5. \/ call[p].at - call[q].at >= rows[k].cooldown * Second
        \/ call[q].at - call[p].at >= rows[k].cooldown * Second
    BY <2>2, <2>3, <2>4 DEF Account
  <2>6. rows[k].cooldown * Second >= 0 /\ rows[k].cooldown * Second \in Int
    <3>1. rows[k] \in Row
      BY <2>2, <2>4 DEF ServerInv, ClockFreeInv, TypeOK
    <3>2. rows[k].cooldown \in Nat
      BY <3>1, KeyRowAssumption DEF Row
    <3>3. \A a, b \in Nat : a * b \in Nat
      OBVIOUS
    <3>4. QED
      BY <3>2, <3>3, KeyRowAssumption
  <2>7. QED
    BY <2>4, <2>5, <2>6
<1>2. QED
  BY <1>1, ServerHolds, PTL

-----------------------------------------------------------------------------
(* Refusals have a cause, on a clock that is never set back.  A refusal    *)
(* reads the row's counters; Vouched says which charges stand behind them. *)

\* Whatever has been charged stays charged, and a refusal stays what it was.
LEMMA ChargesStay ==
  ASSUME BodyInv, [AdmissionNext]_admissionVars
  PROVE /\ runtime' = runtime
        /\ \A p \in Requests : Charged(p) =>
             /\ Charged(p)'
             /\ call'[p].key = call[p].key /\ call'[p].at = call[p].at
             /\ call'[p].body = call[p].body
        /\ \A p \in Requests : call[p].step = "answered" => call'[p] = call[p]
<1>1. CASE UNCHANGED admissionVars \/ Administer
  BY <1>1 DEF admissionVars, Administer, Charged
<1>2. ASSUME NEW q \in Requests, QuietServe(q)
      PROVE /\ runtime' = runtime /\ \A p \in Requests : Kept(p)
            /\ \A p \in Requests : call[p].step = "answered" => call'[p] = call[p]
  <2>1. Others(q) /\ Moves(q, call'[q])
    BY <1>2, Stepped DEF BodyInv
  <2>2. call[q].step # "answered"
    BY <2>1 DEF Moves
  <2>3. QED
    BY <1>2, <2>1, <2>2, QuietKeeps DEF Others
<1>3. ASSUME NEW q \in Requests, NEW t \in Times, Authorize(q, t)
      PROVE /\ runtime' = runtime
            /\ \A p \in Requests : p = q \/ Kept(p)
            /\ ~Charged(q) /\ call[q].step # "answered" /\ Others(q)
  <2>1. /\ runtime' = runtime /\ mode' = mode /\ Others(q) /\ call[q].step = "parsed"
    BY <1>3, Authorized DEF BodyInv
  <2>2. QED
    BY <2>1 DEF Others, Kept, Charged
<1>4. QED
  BY <1>1, <1>2, <1>3, AdmissionCases DEF Kept, Others

LEMMA LimitsStay ==
  ASSUME ServerInv, [AdmissionNext]_admissionVars, NEW k \in Keys, rows[k] # NoRow
  PROVE /\ rows'[k] # NoRow
        /\ rows'[k].rate = rows[k].rate /\ rows'[k].cooldown = rows[k].cooldown
<1>1. BodyInv /\ ClockFreeInv /\ TypeOK
  BY DEF ServerInv, ClockFreeInv
<1>2. CASE UNCHANGED admissionVars
  BY <1>2 DEF admissionVars
<1>3. CASE Administer
  BY <1>1, <1>3, AdministerKeeps DEF RowKept
<1>4. ASSUME NEW q \in Requests, QuietServe(q) PROVE RowKept(k)
  BY <1>1, <1>4, QuietKeepsRows
<1>5. ASSUME NEW q \in Requests, NEW t \in Times, Authorize(q, t)
      PROVE /\ rows'[k] # NoRow
            /\ rows'[k].rate = rows[k].rate /\ rows'[k].cooldown = rows[k].cooldown
  <2> DEFINE search == EnforceSearchCooldown(call[q].body)
  <2>1. CASE Reason(runtime, rows[call[q].key], search, t) # "ok"
    BY <1>1, <1>5, <2>1, RefusalKeepsRows DEF RowKept
  <2>2. CASE Reason(runtime, rows[call[q].key], search, t) = "ok" /\ k = call[q].key
    <3>1. search \in BOOLEAN
      BY SearchFlag
    <3>2. /\ t \in Int /\ rows[k] \in Row /\ rows'[k] = RsCharged(rows[k], search, t)
          /\ rows'[k] # NoRow
      BY <1>1, <1>5, <2>2, <3>1, AdmissionFacts
    <3>3. QED
      BY <3>1, <3>2, ChargedFields
  <2>3. CASE k # call[q].key
    <3>1. call[q].key \in Keys /\ ValidateKey(runtime, call[q].key, search, t)
      BY <1>1, <1>5, Authorized DEF BodyInv
    <3>2. QED
      BY <1>1, <2>3, <3>1 DEF ValidateKey, TypeOK
  <2>4. QED
    BY <2>1, <2>2, <2>3
<1>6. QED
  BY <1>2, <1>3, <1>4, <1>5, AdmissionCases DEF RowKept

LEMMA ClockGrows ==
  ASSUME StepBack = 0, TypeOK, [Next]_vars, NEW k \in Keys, rows[k] # NoRow
  PROVE clock[k] \in Int /\ clock'[k] \in Int /\ clock[k] <= clock'[k]
<1>1. clock \in [Keys -> Int]
  BY DEF TypeOK
<1>2. CASE UNCHANGED vars
  BY <1>1, <1>2 DEF vars
<1>3. ASSUME NEW j \in Keys, NEW r, NEW t \in Times, NEW rate, NEW lifetime,
             NEW cooldown, CreateKey(r, j, t, rate, lifetime, cooldown)
      PROVE clock'[k] = clock[k]
  BY <1>1, <1>3 DEF CreateKey
<1>4. ASSUME NEW j \in Keys, NEW r, NEW t \in Times, NEW search,
             ValidateKey(r, j, search, t)
      PROVE clock'[k] \in Int /\ clock[k] <= clock'[k]
  <2>1. t \in Int
    BY KeyStoreAssumption
  <2>2. t >= clock[j]
    BY <1>1, <1>4, <2>1 DEF ValidateKey, Reading
  <2>3. QED
    BY <1>1, <1>4, <2>1, <2>2 DEF ValidateKey
<1>5. ASSUME NEW j \in Keys, RevokeKey(j) PROVE clock'[k] = clock[k]
  BY <1>5 DEF RevokeKey
<1>6. QED
  BY <1>1, <1>2, <1>3, <1>4, <1>5 DEF Next

LEMMA VouchedKept ==
  ASSUME ServerInv, NEW k \in Keys, Vouched(k), RowKept(k),
         runtime' = runtime, \A p \in Requests : Kept(p),
         rows[k] # NoRow => clock[k] \in Int /\ clock'[k] \in Int /\ clock[k] <= clock'[k]
  PROVE Vouched(k)'
<1>1. /\ ChargedOn(k)' = ChargedOn(k) /\ SearchesOn(k)' = SearchesOn(k)
      /\ SearchesOn(k) \subseteq ChargedOn(k)
      /\ \A p \in ChargedOn(k) : call'[p].at = call[p].at
  BY SameCharges
<1>2. Account(k)
  BY DEF ServerInv
<1>3. CASE rows[k] = NoRow
  <2>1. ChargedOn(k)' = {}
    BY <1>1, <1>2, <1>3 DEF Account
  <2>2. QED
    BY <1>3, <2>1 DEF Vouched, RowKept
<1>4. CASE rows[k] # NoRow
  <2>1. \A p \in ChargedOn(k) : call[p].at \in Int /\ call[p].at <= clock[k]
    BY <1>2, <1>4 DEF Account, Vouched
  <2>2. \A p \in ChargedOn(k) : call[p].at <= clock'[k]
    BY <1>4, <2>1
  <2>3. Opened(k)' = Opened(k)
    BY <1>1, <1>4 DEF Opened, RowKept
  <2>4. QED
    BY <1>1, <1>4, <2>2, <2>3 DEF Vouched, RowKept
<1>5. QED
  BY <1>3, <1>4

\* The charge of the call that is admitted stands for itself.
LEMMA VouchedAdmission ==
  ASSUME StepBack = 0, CauseInv, NEW q \in Requests, NEW t \in Times, Authorize(q, t),
         Reason(runtime, rows[call[q].key],
                EnforceSearchCooldown(call[q].body), t) = "ok",
         NEW k \in Keys
  PROVE Vouched(k)'
<1>1. BodyInv /\ ClockFreeInv /\ Account(k) /\ TypeOK /\ Vouched(k)
  BY DEF CauseInv, ServerInv, ClockFreeInv
<1>2. /\ \A p \in Requests \ {q} : Kept(p) /\ call'[p] = call[p]
      /\ call'[q].at = t /\ q \notin ChargedOn(k)
      /\ SearchesOn(k) \subseteq ChargedOn(k) /\ ChargedOn(k) \subseteq Requests
      /\ ChargedOn(k)' = IF k = call[q].key THEN ChargedOn(k) \cup {q} ELSE ChargedOn(k)
      /\ SearchesOn(k)' =
           IF k = call[q].key /\ EnforceSearchCooldown(call[q].body)
             THEN SearchesOn(k) \cup {q} ELSE SearchesOn(k)
  BY <1>1, AdmissionCharges
<1>3. \A p \in ChargedOn(k) : call'[p] = call[p]
  BY <1>2
<1>4. CASE k # call[q].key
  <2>1. rows'[k] = rows[k] /\ clock'[k] = clock[k]
    <3>1. call[q].key \in Keys
      BY <1>1, Authorized DEF BodyInv
    <3>2. QED
      BY <1>1, <1>4, <3>1, Authorized DEF BodyInv, ValidateKey, TypeOK
  <2>2. Opened(k)' = Opened(k)
    BY <1>2, <1>3, <1>4, <2>1 DEF Opened
  <2>3. QED
    BY <1>1, <1>2, <1>3, <1>4, <2>1, <2>2 DEF Vouched
<1>5. CASE k = call[q].key
  <2> DEFINE search == EnforceSearchCooldown(call[q].body)
             row == rows[k]
             ws == row.use.windowStart
             wc == row.use.windowCount
  <2>1. search \in BOOLEAN
    BY SearchFlag
  <2>2. /\ t \in Int /\ row \in Row /\ row # NoRow /\ Fresh(row)
        /\ rows'[k] = RsCharged(row, search, t) /\ rows'[k] # NoRow
        /\ ValidateKey(runtime, k, search, t)
    BY <1>1, <1>5, <2>1, AdmissionFacts
  <2>3. /\ rows'[k].use.uses = row.use.uses + 1
        /\ rows'[k].use.windowStart = RsWindowStart(row, t)
        /\ rows'[k].use.windowCount = RsWindowCount(row, t)
        /\ rows'[k].use.lastSearch = IF search THEN t ELSE row.use.lastSearch
    BY <2>1, <2>2, ChargedFields
  <2>4. /\ row.use.uses \in Nat /\ wc \in Nat /\ ws \in Int \cup {None}
    BY <2>2 DEF Row, Use
  <2>5. clock'[k] = t /\ clock[k] \in Int /\ clock[k] <= t
    <3>1. rows'[k] # rows[k]
      BY <2>3, <2>4
    <3>2. clock \in [Keys -> Int]
      BY <1>1 DEF TypeOK
    <3>3. QED
      BY <2>2, <3>1, <3>2 DEF ValidateKey, Reading
  <2>6. ws # None => ws <= clock[k]
    BY <2>2 DEF CauseInv, WindowInv, Windowed, Counted
  <2>7. \A p \in ChargedOn(k) : call[p].at \in Int /\ call[p].at <= t
    <3>1. \A p \in ChargedOn(k) : call[p].at \in Int /\ call[p].at <= clock[k]
      BY <1>1, <2>2 DEF Account, Vouched
    <3>2. QED
      BY <2>2, <2>5, <3>1
  <2>8. /\ IsFiniteSet(ChargedOn(k)) /\ IsFiniteSet(Opened(k))
        /\ IsFiniteSet(Opened(k)') /\ Cardinality(Opened(k)) \in Nat
        /\ Cardinality(Opened(k)') \in Nat
    <3>1. IsFiniteSet(ChargedOn(k)) /\ IsFiniteSet(ChargedOn(k)')
      BY <1>1, <1>2, FS_AddElement DEF Account
    <3>2. Opened(k) \subseteq ChargedOn(k) /\ Opened(k)' \subseteq ChargedOn(k)'
      BY DEF Opened
    <3>3. QED
      BY <3>1, <3>2, FS_Subset, FS_CardinalityType
  <2>9. RsWindowCount(row, t) <= Cardinality(Opened(k)')
    <3>1. CASE ws # None /\ t - ws <= Window
      <4>1. RsWindowCount(row, t) = wc + 1 /\ RsWindowStart(row, t) = ws
        BY <2>2, <2>4, <3>1, KeyRowAssumption DEF RsWindowCount, RsWindowStart
      <4>2. Opened(k)' = Opened(k) \cup {q} /\ q \notin Opened(k)
        BY <1>2, <1>3, <1>5, <2>2, <2>3, <2>4, <2>5, <2>6, <3>1, <4>1 DEF Opened
      <4>3. Cardinality(Opened(k)') = Cardinality(Opened(k)) + 1
        BY <2>8, <4>2, FS_AddElement
      <4>4. wc <= Cardinality(Opened(k))
        BY <1>1, <2>2, <3>1 DEF Vouched
      <4>5. QED
        BY <2>4, <2>8, <4>1, <4>3, <4>4
    <3>2. CASE ~(ws # None /\ t - ws <= Window)
      <4>1. RsWindowCount(row, t) = 1 /\ RsWindowStart(row, t) = t
        BY <2>2, <2>4, <3>2, KeyRowAssumption DEF RsWindowCount, RsWindowStart, Fresh
      <4>2. q \in Opened(k)'
        BY <1>2, <1>5, <2>2, <2>3, <4>1 DEF Opened
      <4>3. Cardinality(Opened(k)') # 0
        BY <2>8, <4>2, FS_EmptySet
      <4>4. QED
        BY <2>8, <4>1, <4>3
    <3>3. QED
      BY <3>1, <3>2
  <2>10. \A p \in ChargedOn(k)' : call'[p].at <= clock'[k]
    BY <1>2, <1>3, <1>5, <2>2, <2>5, <2>7
  <2>11. rows'[k].use.lastSearch # None =>
           \E p \in SearchesOn(k)' : call'[p].at = rows'[k].use.lastSearch
    <3>1. CASE search
      BY <1>2, <1>5, <2>3, <3>1
    <3>2. CASE ~search
      BY <1>1, <1>2, <1>3, <2>2, <2>3, <3>2 DEF Vouched
    <3>3. QED
      BY <3>1, <3>2
  <2>12. QED
    BY <2>3, <2>9, <2>10, <2>11 DEF Vouched
<1>6. QED
  BY <1>4, <1>5

\* A refusal that was caused stays caused.
LEMMA CausedStays ==
  ASSUME ServerInv, ServerInv', [AdmissionNext]_admissionVars,
         NEW q \in Requests, Caused(q), call'[q] = call[q]
  PROVE Caused(q)'
<1> SUFFICES ASSUME call[q].code \in {"rate_limited", "cooldown"}
             PROVE Caused(q)'
  BY DEF Caused
<1> DEFINE k == call[q].key
<1>1. k \in Keys /\ rows[k] # NoRow /\ call[q].at \in Int /\ BodyInv
  BY DEF Caused, ServerInv
<1>2. /\ rows'[k] # NoRow /\ rows'[k].rate = rows[k].rate
      /\ rows'[k].cooldown = rows[k].cooldown
  BY <1>1, LimitsStay
<1>3. /\ runtime' = runtime
      /\ \A p \in Requests : Charged(p) =>
           /\ Charged(p)'
           /\ call'[p].key = call[p].key /\ call'[p].at = call[p].at
           /\ call'[p].body = call[p].body
  BY <1>1, ChargesStay
<1>4. \A n : /\ ChargedBefore(q, n) \subseteq ChargedBefore(q, n)'
             /\ ChargedBefore(q, n)' \subseteq ChargedOn(k)'
             /\ ChargedBefore(q, n) \subseteq ChargedOn(k)
             /\ \A p \in ChargedBefore(q, n) : call'[p].body = call[p].body
  BY <1>3 DEF ChargedBefore, ChargedOn
<1>5. IsFiniteSet(ChargedOn(k)) /\ IsFiniteSet(ChargedOn(k)')
  BY <1>1 DEF ServerInv, Account
<1>6. \A n : /\ Cardinality(ChargedBefore(q, n)) <= Cardinality(ChargedBefore(q, n)')
             /\ Cardinality(ChargedBefore(q, n)) \in Nat
             /\ Cardinality(ChargedBefore(q, n)') \in Nat
  BY <1>4, <1>5, FS_Subset, FS_CardinalityType
<1>7. call[q].code = "rate_limited" =>
        Cardinality(ChargedBefore(q, Window)') >= rows[k].rate
  <2>1. rows[k].rate \in Int
    BY <1>1, KeyRowAssumption DEF ServerInv, ClockFreeInv, TypeOK, Row
  <2>2. QED
    BY <1>6, <2>1 DEF Caused
<1>8. call[q].code = "cooldown" =>
        \E p \in ChargedBefore(q, rows[k].cooldown * Second - 1)' :
          EnforceSearchCooldown(call[p].body)'
  <2> SUFFICES ASSUME call[q].code = "cooldown"
               PROVE \E p \in ChargedBefore(q, rows[k].cooldown * Second - 1)' :
                       EnforceSearchCooldown(call[p].body)'
    OBVIOUS
  <2>1. PICK p \in ChargedBefore(q, rows[k].cooldown * Second - 1) :
          EnforceSearchCooldown(call[p].body)
    BY DEF Caused
  <2>2. EnforceSearchCooldown(call[p].body)'
    BY <1>3, <1>4, <2>1 DEF EnforceSearchCooldown
  <2>3. p \in ChargedBefore(q, rows[k].cooldown * Second - 1)'
    BY <1>2, <1>4, <2>1
  <2>4. QED
    BY <2>2, <2>3
<1>9. QED
  BY <1>1, <1>2, <1>7, <1>8 DEF Caused

\* The middleware refuses for a reason that the charges of the key account for.
LEMMA RefusalCaused ==
  ASSUME StepBack = 0, CauseInv, ServerInv', NEW q \in Requests, NEW t \in Times,
         Authorize(q, t), [AdmissionNext]_admissionVars,
         Reason(runtime, rows[call[q].key],
                EnforceSearchCooldown(call[q].body), t) # "ok"
  PROVE Caused(q)'
<1> DEFINE k == call[q].key
           search == EnforceSearchCooldown(call[q].body)
           row == rows[k]
           ws == row.use.windowStart
           wc == row.use.windowCount
           last == row.use.lastSearch
<1>1. BodyInv /\ ClockFreeInv /\ TypeOK /\ ServerInv
  BY DEF CauseInv, ServerInv, ClockFreeInv
<1>2. /\ k \in Keys /\ search \in BOOLEAN /\ t \in Int /\ runtime' = runtime
      /\ ValidateKey(runtime, k, search, t) /\ runtime \in Runtimes
      /\ call[q] \in Call /\ call[q].step = "parsed"
      /\ Decided(q, t, call'[q])
  BY <1>1, Authorized DEF BodyInv, AdmissionTypeOK
<1>3. /\ call'[q].code = Reason(runtime, row, search, t) /\ call'[q].at = t
      /\ call'[q].key = k
  BY <1>2 DEF Decided, Call
<1> SUFFICES ASSUME Reason(runtime, row, search, t) \in {"rate_limited", "cooldown"}
             PROVE Caused(q)'
  BY <1>3 DEF Caused
<1>4. row \in Row /\ row # NoRow /\ Fresh(row)
  <2>1. row # NoRow
    BY DEF Reason, JsReason, RsReason
  <2>2. QED
    BY <1>1, <1>2, <2>1 DEF TypeOK, ClockFreeInv, ClockFree
<1>5. RsReason(row, search, t) = Reason(runtime, row, search, t)
  BY <1>2, <1>4, SameDecision DEF Reason
<1>6. /\ rows'[k] # NoRow /\ rows'[k].rate = row.rate /\ rows'[k].cooldown = row.cooldown
  BY <1>1, <1>2, <1>4, LimitsStay
<1>7. Counted(row, admitted[k], clock[k]) /\ Account(k) /\ Vouched(k)
  BY <1>2, <1>4 DEF CauseInv, ServerInv, WindowInv, Windowed
<1>8. clock[k] \in Int /\ clock[k] <= t
  BY <1>1, <1>2 DEF TypeOK, ValidateKey, Reading
<1>9. /\ ws \in Int \cup {None} /\ wc \in Nat /\ last \in Int \cup {None}
      /\ row.rate \in 1..MaxRate /\ row.cooldown * Second \in Int
  BY <1>4, Scaled, KeyRowAssumption DEF Row, Use
<1>10. /\ runtime' = runtime /\ ~Charged(q)
       /\ \A p \in Requests : Charged(p) =>
            /\ p # q /\ Charged(p)'
            /\ call'[p].key = call[p].key /\ call'[p].at = call[p].at
            /\ call'[p].body = call[p].body
  <2>1. ~Charged(q)
    BY <1>2, AdmissionAssumption DEF BodyInv, AdmissionTypeOK, Charged
  <2>2. QED
    BY <1>1, <2>1, ChargesStay
<1>11. \A p \in ChargedOn(k) :
         /\ p \in Requests /\ call[p].at \in Int /\ call[p].at <= t
         /\ p # q /\ Charged(p)' /\ call'[p].key = k /\ call'[p].at = call[p].at
         /\ call'[p].body = call[p].body
  <2>1. \A p \in ChargedOn(k) : call[p].at \in Int /\ call[p].at <= clock[k]
    BY <1>4, <1>7 DEF Account, Vouched
  <2>2. QED
    BY <1>2, <1>8, <1>10, <2>1 DEF ChargedOn
<1>12. ASSUME RsReason(row, search, t) = "rate_limited"
       PROVE Cardinality(ChargedBefore(q, Window)') >= row.rate
  <2>1. RsWindowCount(row, t) > row.rate
    BY <1>9, <1>12, KeyRowAssumption DEF RsReason, Clamp
  <2>2. ws # None /\ t - ws <= Window /\ wc + 1 > row.rate
    BY <1>2, <1>4, <1>9, <2>1, KeyRowAssumption DEF RsWindowCount, Fresh
  <2>3. wc <= Cardinality(Opened(k))
    BY <1>4, <1>7, <2>2 DEF Vouched
  <2>4. Opened(k) \subseteq ChargedBefore(q, Window)'
    <3> SUFFICES ASSUME NEW p \in Opened(k) PROVE p \in ChargedBefore(q, Window)'
      OBVIOUS
    <3>1. p \in ChargedOn(k) /\ call[p].at >= ws
      BY DEF Opened
    <3>2. t - call[p].at \in 0..Window
      BY <1>2, <1>9, <1>11, <2>2, <3>1, KeyRowAssumption
    <3>3. QED
      BY <1>3, <1>11, <3>1, <3>2 DEF ChargedBefore
  <2>5. ChargedBefore(q, Window)' \subseteq ChargedOn(k)'
    BY <1>3 DEF ChargedBefore, ChargedOn
  <2>6. IsFiniteSet(ChargedOn(k)')
    BY <1>2, <1>3 DEF ServerInv, Account
  <2>7. /\ Cardinality(Opened(k)) <= Cardinality(ChargedBefore(q, Window)')
        /\ Cardinality(Opened(k)) \in Nat
        /\ Cardinality(ChargedBefore(q, Window)') \in Nat
    BY <2>4, <2>5, <2>6, FS_Subset, FS_CardinalityType
  <2>8. QED
    BY <1>9, <2>2, <2>3, <2>7
<1>13. ASSUME RsReason(row, search, t) = "cooldown"
       PROVE \E p \in ChargedBefore(q, row.cooldown * Second - 1)' :
               EnforceSearchCooldown(call[p].body)'
  <2>1. RsCooling(row, search, t)
    BY <1>13 DEF RsReason
  <2>2. last \in Int /\ t - last < row.cooldown * Second /\ last <= clock[k]
    BY <1>7, <1>9, <2>1 DEF RsCooling, Counted
  <2>3. PICK p \in SearchesOn(k) : call[p].at = last
    BY <1>4, <1>7, <2>1 DEF Vouched, RsCooling
  <2>4. p \in ChargedOn(k) /\ EnforceSearchCooldown(call[p].body)
    BY <2>3 DEF SearchesOn
  <2>5. t - call[p].at \in 0..(row.cooldown * Second - 1)
    BY <1>2, <1>8, <1>9, <2>2, <2>3
  <2>6. p \in ChargedBefore(q, row.cooldown * Second - 1)'
    BY <1>3, <1>6, <1>11, <2>4, <2>5 DEF ChargedBefore
  <2>7. EnforceSearchCooldown(call[p].body)'
    BY <1>10, <1>11, <2>4 DEF EnforceSearchCooldown
  <2>8. QED
    BY <2>6, <2>7
<1>14. QED
  BY <1>2, <1>3, <1>5, <1>6, <1>12, <1>13 DEF Caused

\* No other step of a request refuses it for its calls.
LEMMA QuietCode ==
  ASSUME BodyInv, NEW q \in Requests, QuietServe(q)
  PROVE call'[q].code \notin {"rate_limited", "cooldown"}
<1> DEFINE c == call[q]
<1>1. Moves(q, call'[q])
  BY Stepped DEF BodyInv
<1>2. c \in Call /\ (c.step # "answered" => c.code = None)
  BY DEF BodyInv, AdmissionTypeOK
<1>3. /\ None \notin {"rate_limited", "cooldown"}
      /\ \A code \in Early \cup Outcomes : code \notin {"rate_limited", "cooldown"}
      /\ "VALIDATION_ERROR" \in Outcomes
  BY AdmissionAssumption DEF Codes, Refusals, Early, Outcomes
<1> HIDE DEF c
<1>4. CASE c.step = "idle"
  BY <1>1, <1>2, <1>3, <1>4 DEF Moves, Call, c
<1>5. CASE c.step \in {"received", "parsed"}
  BY <1>1, <1>2, <1>3, <1>5 DEF Moves, Call, c
<1>6. CASE c.step = "admitted" /\ ~Invalid(c.body)
  BY <1>1, <1>2, <1>3, <1>6 DEF Moves, Call, c
<1>7. CASE c.step = "admitted" /\ Invalid(c.body)
  BY <1>1, <1>2, <1>3, <1>7 DEF Moves, Call, c
<1>8. CASE c.step = "running"
  BY <1>1, <1>2, <1>3, <1>8 DEF Moves, Call, c
<1>9. QED
  BY <1>1, <1>4, <1>5, <1>6, <1>7, <1>8 DEF Moves, c

LEMMA CauseStep ==
  ASSUME StepBack = 0
  PROVE CauseInv /\ [AdmissionNext]_admissionVars => CauseInv'
<1> SUFFICES ASSUME CauseInv, [AdmissionNext]_admissionVars PROVE CauseInv'
  OBVIOUS
<1>1. /\ ServerInv /\ ServerInv' /\ BodyInv /\ BodyInv' /\ TypeOK /\ [Next]_vars
      /\ ClockFreeInv
  BY ServerStep, StoreStep DEF CauseInv, ServerInv, BodyInv, ClockFreeInv
<1>2. WindowInv'
  BY <1>1, WindowStep DEF CauseInv
<1>3. ASSUME NEW k \in Keys PROVE Vouched(k)'
  <2>1. Vouched(k)
    BY DEF CauseInv
  <2>2. rows[k] # NoRow => clock[k] \in Int /\ clock'[k] \in Int /\ clock[k] <= clock'[k]
    BY <1>1, ClockGrows
  <2>3. CASE UNCHANGED admissionVars
    <3>1. RowKept(k) /\ runtime' = runtime /\ \A p \in Requests : Kept(p)
      BY <2>3 DEF admissionVars, RowKept, Kept, Charged
    <3>2. QED
      BY <1>1, <2>1, <2>2, <3>1, VouchedKept
  <2>4. CASE Administer
    BY <1>1, <2>1, <2>2, <2>4, AdministerKeeps, VouchedKept
  <2>5. ASSUME NEW q \in Requests, QuietServe(q) PROVE Vouched(k)'
    BY <1>1, <2>1, <2>2, <2>5, QuietKeeps, QuietKeepsRows, VouchedKept
  <2>6. ASSUME NEW q \in Requests, NEW t \in Times, Authorize(q, t)
        PROVE Vouched(k)'
    <3>1. CASE Reason(runtime, rows[call[q].key],
                      EnforceSearchCooldown(call[q].body), t) = "ok"
      BY <2>6, <3>1, VouchedAdmission
    <3>2. CASE Reason(runtime, rows[call[q].key],
                      EnforceSearchCooldown(call[q].body), t) # "ok"
      BY <1>1, <2>1, <2>2, <2>6, <3>2, RefusalKeeps, RefusalKeepsRows, VouchedKept
    <3>3. QED
      BY <3>1, <3>2
  <2>7. QED
    BY <2>3, <2>4, <2>5, <2>6, AdmissionCases
<1>4. ASSUME NEW p \in Requests PROVE Caused(p)'
  <2>1. Caused(p)
    BY DEF CauseInv
  <2>2. CASE call'[p] = call[p]
    BY <1>1, <2>1, <2>2, CausedStays
  <2>3. CASE UNCHANGED admissionVars \/ Administer
    BY <1>1, <2>1, <2>3, CausedStays DEF admissionVars, Administer
  <2>4. ASSUME NEW q \in Requests, QuietServe(q) PROVE Caused(p)'
    <3>1. CASE p # q
      BY <1>1, <2>2, <2>4, <3>1, Stepped DEF Others, BodyInv
    <3>2. CASE p = q
      <4>1. call'[q].code \notin {"rate_limited", "cooldown"}
        BY <1>1, <2>4, QuietCode
      <4>2. QED
        BY <3>2, <4>1 DEF Caused
    <3>3. QED
      BY <3>1, <3>2
  <2>5. ASSUME NEW q \in Requests, NEW t \in Times, Authorize(q, t)
        PROVE Caused(p)'
    <3>1. CASE p # q
      BY <1>1, <2>2, <2>5, <3>1, Authorized DEF Others, BodyInv
    <3>2. CASE p = q /\ Reason(runtime, rows[call[q].key],
                               EnforceSearchCooldown(call[q].body), t) # "ok"
      BY <1>1, <2>5, <3>2, RefusalCaused
    <3>3. CASE p = q /\ Reason(runtime, rows[call[q].key],
                               EnforceSearchCooldown(call[q].body), t) = "ok"
      <4>1. Charged(q)' /\ AdmissionTypeOK'
        BY <1>1, <2>5, <3>3, AdmissionCharges DEF BodyInv
      <4>2. call'[q].code \in Outcomes \cup {None}
        BY <4>1 DEF Charged, AdmissionTypeOK
      <4>3. /\ {"rate_limited", "cooldown"} \subseteq Codes
            /\ {"rate_limited", "cooldown"} \cap Outcomes = {}
        BY DEF Codes, Refusals, Outcomes
      <4>4. call'[q].code \notin {"rate_limited", "cooldown"}
        BY <4>2, <4>3, AdmissionAssumption
      <4>5. QED
        BY <3>3, <4>4 DEF Caused
    <3>4. QED
      BY <3>1, <3>2, <3>3
  <2>6. QED
    BY <2>3, <2>4, <2>5, AdmissionCases
<1>5. QED
  BY <1>1, <1>2, <1>3, <1>4 DEF CauseInv

\* Whoever is told to wait was preceded, within the time the refusal is about,
\* by that many requests charged on the same key: refusals cost nothing, and no
\* interleaving of requests and administration makes one up.
THEOREM NoRefusalWithoutCause ==
  ASSUME StepBack = 0
  PROVE AdmissionSpec => []RefusalHasCause
<1>1. AdmissionInit => CauseInv
  <2> SUFFICES ASSUME AdmissionInit PROVE CauseInv
    OBVIOUS
  <2>1. ClockFreeInv /\ \A k \in Keys : rows[k] = NoRow
    BY DEF AdmissionInit, Init, ClockFreeInv, TypeOK, ClockFree
  <2>2. ServerInv
    BY <2>1, BodyInit, NoCharges, FS_EmptySet DEF ServerInv, Account
  <2>3. WindowInv
    BY <2>1 DEF WindowInv, Windowed
  <2>4. \A k \in Keys : Vouched(k)
    BY <2>1 DEF Vouched
  <2>5. \A q \in Requests : Caused(q)
    <3>1. \A q \in Requests : call[q].code = None
      BY DEF AdmissionInit
    <3>2. None \notin {"rate_limited", "cooldown"}
      BY AdmissionAssumption DEF Codes, Refusals
    <3>3. QED
      BY <3>1, <3>2 DEF Caused
  <2>6. QED
    BY <2>2, <2>3, <2>4, <2>5 DEF CauseInv
<1>2. CauseInv => RefusalHasCause
  BY DEF CauseInv, Caused, RefusalHasCause
<1>3. QED
  BY <1>1, <1>2, CauseStep, PTL DEF AdmissionSpec

=============================================================================
