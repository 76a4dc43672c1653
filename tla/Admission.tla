----------------------------- MODULE Admission ------------------------------
(***************************************************************************)
(* What an HTTP request goes through before and after the key store:       *)
(* parsing of its body, the API-key middleware, normalisation by the route *)
(* and the engine, up to the status of the response.  Translated from      *)
(* server/middleware/auth.js, server/routes and server/core/request.js,    *)
(* and from auth.rs, routes.rs and request.rs of the Rust runtime.         *)
(*                                                                         *)
(* Requests run concurrently over one KeyStore, whose ValidateKey is the   *)
(* middleware's transaction; module Request says what the fields of an     *)
(* engine request mean.  The engine's run is one of its outcomes.          *)
(***************************************************************************)
EXTENDS KeyStore, Request, FiniteSets

CONSTANTS
    Requests,
    Bodies    \* the request bodies that may arrive

\* sound: the fields of a transcript request pass their checks.
Body == [ route: {"engine", "transcript"}, parses: BOOLEAN, sound: BOOLEAN,
          input: Input ]

\* Answers before, in and after the middleware.
Early == {"bad_body", "auth_required", "key_store_error"}
Refusals == {"not_found", "revoked", "expired", "cooldown", "rate_limited"}
Outcomes == {"VALIDATION_ERROR", "failed", "ok"}
Codes == Early \cup Refusals \cup Outcomes

ASSUME AdmissionAssumption ==
    /\ Bodies \subseteq Body
    /\ None \notin Codes

VARIABLES
    mode,     \* NSECT_HOSTED: hosted or local
    runtime,  \* the runtime that serves
    call      \* the state of each request

Store == <<rows, clock, admitted>>
admissionVars == <<rows, clock, admitted, mode, runtime, call>>

Call == [ step: {"idle", "received", "parsed", "admitted", "running", "answered"},
          body: Body \cup {None}, key: Keys \cup {None},
          request: Input \cup {None},
          code: Codes \cup {None}, at: Int \cup {None} ]

\* at: the clock reading of the middleware's transaction.  request: what the
\* body of an engine request was normalised to.
AdmissionTypeOK ==
    /\ TypeOK
    /\ mode \in {"hosted", "local"} /\ runtime \in Runtimes
    /\ call \in [Requests -> Call]
    /\ \A q \in Requests : call[q].step = "answered" <=> call[q].code # None

AdmissionInit ==
    /\ Init
    /\ mode \in {"hosted", "local"} /\ runtime \in Runtimes
    /\ call = [q \in Requests |->
                [ step |-> "idle", body |-> None, key |-> None, request |-> None,
                  code |-> None, at |-> None ]]

-----------------------------------------------------------------------------
(* What a body means to the middleware and to the engine.                  *)

IsText(text) == text \notin {"absent", "blank", "number"}

\* Fault: only the newer of the two names is looked at.
EnforceSearchCooldown_QueryOnly(body) == IsText(body.input.query)

\* shouldEnforceSearchCooldown: `query ?? google`, then a string that is not
\* blank.  Node asks this of every route it guards, Rust of the engine's only.
EnforceSearchCooldown(body) ==
    /\ runtime = "rust" => body.route = "engine"
    /\ IsText(IF body.input.query # "absent" THEN body.input.query
                                             ELSE body.input.google)

Searches(body) == body.route = "engine" /\ SearchQuery(body.input) # "absent"

\* normalizeEngineRequest and normalizeYouTubeTranscriptRequest throw.
Invalid(body) ==
    IF body.route = "engine" THEN Faults(runtime, body.input) # {} ELSE ~body.sound

-----------------------------------------------------------------------------
(* The life of a request.                                                  *)

\* Fault: the response is sent and the handler goes on.
Answer_WithoutReturn(q, code) == call' = [call EXCEPT ![q].code = code]

Answer(q, code) ==
    call' = [call EXCEPT ![q].step = "answered", ![q].code = code]

Receive(q) ==
    /\ call[q].step = "idle"
    /\ \E body \in Bodies, key \in Keys \cup {None} :
         call' = [call EXCEPT ![q].step = "received", ![q].body = body,
                              ![q].key = key]
    /\ UNCHANGED <<Store, mode, runtime>>

\* express.json; Json<...> of axum, which also refuses what has another type.
Parse(q) ==
    /\ call[q].step = "received"
    /\ LET body == call[q].body IN
       IF \/ ~body.parses
          \/ runtime = "rust" /\ body.route = "engine" /\ ~RsReads(body.input)
         THEN Answer(q, "bad_body")
         ELSE call' = [call EXCEPT ![q].step = "parsed"]
    /\ UNCHANGED <<Store, mode, runtime>>

\* Fault: a keyless server waits for a key.
NeedsNoKey_Never == FALSE

NeedsNoKey == mode = "local"

PassLocal(q) ==
    /\ call[q].step = "parsed" /\ NeedsNoKey
    /\ call' = [call EXCEPT ![q].step = "admitted"]
    /\ UNCHANGED <<Store, mode, runtime>>

RequireKey(q) ==
    /\ call[q].step = "parsed" /\ mode = "hosted" /\ call[q].key = None
    /\ Answer(q, "auth_required")
    /\ UNCHANGED <<Store, mode, runtime>>

\* Fault: a call in its cooldown is let through.
Admits_Cooling(reason) == reason \in {"ok", "cooldown"}

Admits(reason) == reason = "ok"

\* apiKeyAuth, authorize_api_key: the key is charged before the body is looked
\* at any further.
Authorize(q, t) ==
    LET k == call[q].key
        search == EnforceSearchCooldown(call[q].body)
        reason == Reason(runtime, rows[k], search, t)
    IN /\ call[q].step = "parsed" /\ mode = "hosted" /\ k # None
       /\ ValidateKey(runtime, k, search, t)
       /\ call' = [call EXCEPT
                     ![q].at = t,
                     ![q].step = IF Admits(reason) THEN "admitted" ELSE "answered",
                     ![q].code = IF Admits(reason) THEN None ELSE reason]
       /\ UNCHANGED <<mode, runtime>>

\* The transaction of the middleware fails (SQLite is busy): Node's error
\* handler answers, Rust's validate_key does.
StoreFails(q) ==
    /\ call[q].step = "parsed" /\ mode = "hosted" /\ call[q].key # None
    /\ Answer(q, "key_store_error")
    /\ UNCHANGED <<Store, mode, runtime>>

Normalize(q) ==
    /\ call[q].step = "admitted"
    /\ LET body == call[q].body IN
       IF Invalid(body)
         THEN Answer(q, "VALIDATION_ERROR")
         ELSE call' = [call EXCEPT
                ![q].step = "running",
                ![q].request = IF body.route = "engine"
                                 THEN Normalized(runtime, body.input) ELSE None]
    /\ UNCHANGED <<Store, mode, runtime>>

\* Node's engine normalises once more what the route gave it.
Refused(request) == runtime = "js" /\ request # None /\ JsFaults(request) # {}

\* failed: any error code of the engine or of the transcript service.
Run(q) ==
    /\ call[q].step = "running"
    /\ IF Refused(call[q].request)
         THEN Answer(q, "VALIDATION_ERROR")
         ELSE \E code \in {"ok", "failed"} : Answer(q, code)
    /\ UNCHANGED <<Store, mode, runtime>>

\* The administrator's calls, on a hosted server.
Administer ==
    /\ mode = "hosted"
    /\ \E k \in Keys :
         \/ RevokeKey(k)
         \/ \E t \in Times, rate \in Rates, lifetime \in Lifetimes,
               cooldown \in Cooldowns :
              CreateKey(runtime, k, t, rate, lifetime, cooldown)
    /\ UNCHANGED <<mode, runtime, call>>

Serve(q) ==
    \/ Parse(q) \/ PassLocal(q) \/ RequireKey(q)
    \/ \E t \in Times : Authorize(q, t)
    \/ StoreFails(q) \/ Normalize(q) \/ Run(q)

AdmissionNext == Administer \/ \E q \in Requests : Receive(q) \/ Serve(q)

AdmissionSpec ==
    /\ AdmissionInit /\ [][AdmissionNext]_admissionVars
    /\ \A q \in Requests : WF_admissionVars(Serve(q))

-----------------------------------------------------------------------------
(* Safety.                                                                 *)

\* The key's counter was raised for request q.
Charged(q) ==
    /\ mode = "hosted"
    /\ \/ call[q].step \in {"admitted", "running"}
       \/ call[q].step = "answered" /\ call[q].code \in Outcomes

\* Every request that passes the middleware is charged exactly once, one that
\* fails its validation or its run included, and no other request ever is,
\* however the requests of a key interleave.
ChargesMatch ==
    \A k \in Keys : rows[k] # NoRow =>
      rows[k].use.uses = Cardinality({q \in Requests : Charged(q) /\ call[q].key = k})

\* The requests charged on the key of q no longer than span before q.
ChargedBefore(q, span) ==
    { p \in Requests : /\ p # q /\ Charged(p) /\ call[p].key = call[q].key
                       /\ call[q].at - call[p].at \in 0..span }

\* Nobody is refused without a cause: one who is told to wait was preceded,
\* within the time the refusal is about, by that many requests that were
\* charged on the same key.  Refusals themselves never cost anything.
RefusalHasCause ==
    \A q \in Requests :
      LET row == rows[call[q].key] IN
      /\ call[q].code = "rate_limited" =>
           Cardinality(ChargedBefore(q, Window)) >= row.rate
      /\ call[q].code = "cooldown" =>
           \E p \in ChargedBefore(q, row.cooldown * Second - 1) :
             EnforceSearchCooldown(call[p].body)

\* q was let through to the engine with a search that will run.
Searching(q) == Charged(q) /\ Searches(call[q].body) /\ ~Invalid(call[q].body)

SearchesApart(S) ==
    \A p, q \in S :
      (p # q /\ call[p].key = call[q].key) =>
        LET apart == call[p].at - call[q].at IN
        (IF apart < 0 THEN -apart ELSE apart) >= rows[call[q].key].cooldown * Second

\* A search that is named once, under either name.
Plain(body) ==
    \/ IsText(body.input.query) /\ body.input.google = "absent"
    \/ IsText(body.input.google) /\ body.input.query = "absent"

\* What the middleware takes for a search and what the engine then runs as one
\* agree for every body that names its search once: the engine's searches of
\* one key are a cooldown apart, on either runtime.
PlainSearchesApart == SearchesApart({q \in Requests : Searching(q) /\ Plain(call[q].body)})

Other == IF runtime = "js" THEN "rust" ELSE "js"

\* A page asked for with the method "wait", no selector, and a strategy that
\* overrides the method: Rust refuses it and Node does not.
WaitOverridden(i) == RsWaitFault(i) /\ Given(i.strategy) /\ i.strategy # "patient"

\* A request means the same to both runtimes: whatever body both can read is
\* refused by both or by neither, and makes both run the same request, with the
\* same defaults.  Normalising that request again, as Node's engine does, finds
\* nothing wrong with it and changes nothing.
NormalizedAlike ==
    \A q \in Requests :
      LET body == call[q].body
          request == call[q].request
      IN (body # None /\ body.route = "engine" /\ RsReads(body.input)) =>
           /\ call[q].code = "VALIDATION_ERROR" =>
                (Faults(Other, body.input) # {} \/ WaitOverridden(body.input))
           /\ request # None =>
                /\ WaitOverridden(body.input) \/ Faults(Other, body.input) = {}
                /\ Meaning(request) = Meaning(Normalized(Other, body.input))
                /\ JsFaults(request) = {}
                /\ Meaning(JsNormalized(request)) = Meaning(request)

-----------------------------------------------------------------------------
(* Liveness.                                                               *)

\* Every request is answered: no combination of mode, key and body leaves one
\* between the middleware and the route.
EveryRequestServed ==
    \A q \in Requests : call[q].step = "received" ~> call[q].step = "answered"

-----------------------------------------------------------------------------
(* What the documentation says, and the code does not do.                  *)

\* README.md:91: "Search requests enforce a hard minimum `6s` cooldown per API
\* key (`429` on violation)."
EverySearchApart == SearchesApart({q \in Requests : Searching(q)})

=============================================================================
