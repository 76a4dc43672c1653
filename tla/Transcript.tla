----------------------------- MODULE Transcript -----------------------------
(***************************************************************************)
(* The transcript requests served by one process: each runs its adapters   *)
(* one after the other, and all share the circuit breaker that rests       *)
(* Invidious and Piped instances after a failure.  Translated from both    *)
(* runtimes: server/core/youtube-transcript.js and rust/src/transcript.rs. *)
(*                                                                         *)
(* A provider's answer is the sequence of caption tracks it offers, each   *)
(* with its language as seen from the request and whether it was generated *)
(* automatically.  Texts, URLs and formats are left out.  Every fetch and  *)
(* command runs under the request's timeout, which is one way to fail.     *)
(***************************************************************************)
EXTENDS Integers, SequencesExt

CONSTANTS
    Requests,     \* the requests of a process
    Invidious,    \* context.invidiousInstances,
    Piped,        \* context.pipedInstances and
    Commands,     \* context.ytDlpCommands, in the order they are tried
    MethodLists,  \* the lists of adapters a request may name
    Offers,       \* the answers a provider may give
    Cooldown,     \* INSTANCE_COOLDOWN_MS, in clock units
    MaxTime,      \* bound on the clock
    None

Methods == {"nsect_native", "nsect_signal", "invidious", "piped", "yt_dlp"}

Track == [lang: {"exact", "base", "other"}, auto: BOOLEAN]

ASSUME TranscriptAssumption ==
    /\ Invidious \in Seq(STRING) /\ Piped \in Seq(STRING)
    /\ Commands \in Seq(STRING)
    /\ ToSet(Invidious) \cap ToSet(Piped) = {}
    /\ MethodLists \subseteq Seq(Methods) \ {<<>>}
    /\ Offers \subseteq Seq(Track)
    /\ Cooldown \in Nat \ {0}
    /\ MaxTime \in Nat
    /\ None \notin Int \cup Methods \cup Track \cup {"unavailable"}

Instances == ToSet(Invidious) \cup ToSet(Piped)

VARIABLES
    runtime,   \* the runtime of the process
    now,       \* the clock of the process
    expiry,    \* downInstances: until when an instance rests, None if absent
    call,      \* the state of each request
    failedAt   \* when an instance last failed (history)

vars == <<runtime, now, expiry, call, failedAt>>

Call == [ step: {"idle", "source", "asked", "captions", "done"},
          wanted: Seq(Methods), autoAllowed: BOOLEAN,
          method: Nat, source: Nat, page: BOOLEAN,
          offer: Seq(Track), track: Track \cup {None},
          attempts: Seq([method: Methods, status: {"ok", "error"}]),
          answer: Methods \cup {None, "unavailable"} ]

Sources(m) ==
    CASE m = "invidious" -> Invidious
      [] m = "piped"     -> Piped
      [] m = "yt_dlp"    -> Commands
      [] OTHER           -> <<"youtube">>

Method(r) == call[r].wanted[call[r].method]
Source(r) == Sources(Method(r))[call[r].source]

TypeOK ==
    /\ runtime \in {"js", "rust"}
    /\ now \in 0..MaxTime
    /\ expiry \in [Instances -> Int \cup {None}]
    /\ call \in [Requests -> Call]
    /\ failedAt \in [Instances -> Int \cup {None}]
    /\ \A r \in Requests : call[r].wanted # <<>> =>
         /\ call[r].method \in DOMAIN call[r].wanted
         /\ call[r].source \in 1..(Len(Sources(Method(r))) + 1)

Idle == [ step |-> "idle", wanted |-> <<>>, autoAllowed |-> TRUE,
          method |-> 1, source |-> 1, page |-> FALSE, offer |-> <<>>,
          track |-> None, attempts |-> <<>>, answer |-> None ]

Init ==
    /\ runtime \in {"js", "rust"}
    /\ now = 0
    /\ expiry = [i \in Instances |-> None]
    /\ call = [r \in Requests |-> Idle]
    /\ failedAt = [i \in Instances |-> None]

-----------------------------------------------------------------------------
(* The choice of a track.                                                  *)

Tracks(langs, autos) == {t \in Track : t.lang \in langs /\ t.auto \in autos}

\* The classes of tracks pickTrack looks for, best first: exact and then base
\* language, made by hand, then generated if that is allowed; failing these,
\* any made by hand, and at last any at all.
Preference(autoAllowed) ==
    IF autoAllowed
      THEN << Tracks({"exact"}, {FALSE}), Tracks({"exact", "base"}, {FALSE}),
              Tracks({"exact"}, {TRUE}), Tracks({"exact", "base"}, {TRUE}),
              Tracks({"exact", "base", "other"}, {FALSE}), Track >>
      ELSE << Tracks({"exact"}, {FALSE}), Tracks({"exact", "base"}, {FALSE}),
              Tracks({"exact", "base", "other"}, {FALSE}), Track >>

\* The index of the track picked, 0 for null.
PickTrack(tracks, autoAllowed) ==
    LET pref == Preference(autoAllowed)
        met  == {c \in DOMAIN pref : \E t \in ToSet(tracks) : t \in pref[c]}
    IN IF met = {} THEN 0
       ELSE Min({i \in DOMAIN tracks : tracks[i] \in pref[Min(met)]})

\* push_ytdlp_tracks: the tracks of one kind, in their order.
PushYtDlpTracks(offer, auto) ==
    LET pushed[n \in 0..Len(offer)] ==
          IF n = 0 THEN <<>>
          ELSE IF offer[n].auto = auto THEN Append(pushed[n - 1], offer[n])
          ELSE pushed[n - 1]
    IN pushed[Len(offer)]

\* Fault: the generated tracks are pushed first.
CollectYtDlpTracks_AutoFirst(offer) ==
    PushYtDlpTracks(offer, TRUE) \o PushYtDlpTracks(offer, FALSE)

\* collectYtDlpTracks: those made by hand, then the generated ones.
CollectYtDlpTracks(offer) ==
    PushYtDlpTracks(offer, FALSE) \o PushYtDlpTracks(offer, TRUE)

Offered(m, offer) == IF m = "yt_dlp" THEN CollectYtDlpTracks(offer) ELSE offer

\* What pickTrack of Node sees: it derives isAutoGenerated anew from kind,
\* autoGenerated and auto, none of which collectYtDlpTracks has set.
Seen(m, tracks) ==
    IF runtime = "js" /\ m = "yt_dlp"
      THEN [i \in DOMAIN tracks |-> [tracks[i] EXCEPT !.auto = FALSE]]
      ELSE tracks

\* The track taken from an answer, None if it has none.
Picked(m, offer, autoAllowed) ==
    LET tracks == Offered(m, offer)
        i == PickTrack(Seen(m, tracks), autoAllowed)
    IN IF i = 0 THEN None ELSE tracks[i]

-----------------------------------------------------------------------------
(* The circuit breaker.                                                    *)

Brokered == {"invidious", "piped"}

\* The adapters that start from the watch page, fetched once per request.
Watching == {"nsect_native", "nsect_signal"}

AtSource(r) == call[r].step = "source" /\ call[r].source <= Len(Sources(Method(r)))

\* Fault: an instance marked down stays down.
IsInstanceDown_ForEver(i) == expiry[i] # None

\* isInstanceDown: Node rests the instance up to and including the expiry,
\* Rust up to it.
IsInstanceDown(i) ==
    /\ expiry[i] # None
    /\ IF runtime = "js" THEN now <= expiry[i] ELSE now < expiry[i]

\* The kinds of failure after which an instance is marked down.  Node catches
\* them all in one place; in Rust only run_piped_method marks, and only when
\* the first fetch gives no answer or a refusing one.
Marks(m, failure) ==
    \/ runtime = "js" /\ m \in Brokered
    \/ runtime = "rust" /\ m = "piped" /\ failure = "dead"

\* What the comments of each runtime call a failed instance: Node any of these
\* failures, Rust a dead host, which does not answer or refuses.
Failed(m, failure) ==
    m \in Brokered /\ (runtime = "js" \/ failure = "dead")

\* Fault: an instance is marked down from the start of the process' clock.
MarkedUntil_Fixed == Cooldown

MarkedUntil == now + Cooldown

MarkInstance(r, failure) ==
    /\ expiry' = IF Marks(Method(r), failure)
                   THEN [expiry EXCEPT ![Source(r)] = MarkedUntil] ELSE expiry
    /\ failedAt' = IF Failed(Method(r), failure)
                     THEN [failedAt EXCEPT ![Source(r)] = now] ELSE failedAt

NoMark == UNCHANGED <<expiry, failedAt>>

-----------------------------------------------------------------------------
(* Where a failure leads.                                                  *)

\* The adapter at hand has failed: the next one, or the end of the chain.
MethodFailed(c) ==
    LET d == [c EXCEPT !.attempts = Append(@, [ method |-> c.wanted[c.method],
                                                status |-> "error" ]),
                       !.track = None, !.offer = <<>>]
    IN IF c.method < Len(c.wanted)
         THEN [d EXCEPT !.method = @ + 1, !.source = 1, !.step = "source"]
         ELSE [d EXCEPT !.step = "done", !.answer = "unavailable"]

\* Fault: the same source is tried again.
NextSource_Same(c) ==
    [c EXCEPT !.step = "source", !.track = None, !.offer = <<>>]

NextSource(c) ==
    [c EXCEPT !.source = @ + 1, !.step = "source", !.track = None, !.offer = <<>>]

\* Whether a failure at one source ends the adapter: the instances of Node are
\* tried in a catch block of their own; Rust leaves the function with `?` when
\* a Piped or yt-dlp answer cannot be parsed or the captions cannot be had.
EndsMethod(m, failure) ==
    CASE m \in Watching -> TRUE
      [] m = "yt_dlp" ->
           IF failure = "garbled" THEN runtime = "rust" ELSE failure # "dead"
      [] m = "piped" -> runtime = "rust" /\ failure \in {"garbled", "captions"}
      [] m = "invidious" -> runtime = "rust" /\ failure = "captions"

Fails(r, failure) ==
    /\ MarkInstance(r, failure)
    /\ call' = [call EXCEPT ![r] = IF EndsMethod(Method(r), failure)
                                     THEN MethodFailed(@) ELSE NextSource(@)]
    /\ UNCHANGED <<runtime, now>>

-----------------------------------------------------------------------------
(* The steps of a request.                                                 *)

Tick ==
    /\ now < MaxTime
    /\ now' = now + 1
    /\ UNCHANGED <<runtime, expiry, call, failedAt>>

\* Fault: a name given twice stays in the list.
Unique_AsListed(list) == list

\* normalizeMethods: repetitions are dropped, the first mention counts.
Unique(list) ==
    LET out[n \in 0..Len(list)] ==
          IF n = 0 THEN <<>>
          ELSE IF Contains(out[n - 1], list[n]) THEN out[n - 1]
          ELSE Append(out[n - 1], list[n])
    IN out[Len(list)]

Accept(r) ==
    /\ call[r].step = "idle"
    /\ \E list \in MethodLists, autoAllowed \in BOOLEAN :
         call' = [call EXCEPT ![r].wanted = Unique(list),
                              ![r].autoAllowed = autoAllowed,
                              ![r].step = "source"]
    /\ NoMark
    /\ UNCHANGED <<runtime, now>>

\* getWatchPage: from the request's cache if it is there.
GetWatchPage(r) ==
    /\ AtSource(r) /\ Method(r) \in Watching /\ ~call[r].page
    /\ \E fetched \in BOOLEAN :
         call' = [call EXCEPT ![r] = IF fetched THEN [@ EXCEPT !.page = TRUE]
                                                ELSE MethodFailed(@)]
    /\ NoMark
    /\ UNCHANGED <<runtime, now>>

\* The source is asked; Node forgets an instance's entry that has run out.
Ask(r) ==
    /\ AtSource(r)
    /\ Method(r) \in Watching => call[r].page
    /\ Method(r) \in Brokered => ~IsInstanceDown(Source(r))
    /\ call' = [call EXCEPT ![r].step = "asked"]
    /\ expiry' = IF runtime = "js" /\ Method(r) \in Brokered
                   THEN [expiry EXCEPT ![Source(r)] = None] ELSE expiry
    /\ UNCHANGED <<runtime, now, failedAt>>

SkipInstance(r) ==
    /\ AtSource(r) /\ Method(r) \in Brokered /\ IsInstanceDown(Source(r))
    /\ call' = [call EXCEPT ![r] = NextSource(@)]
    /\ NoMark
    /\ UNCHANGED <<runtime, now>>

\* All instances failed or on cooldown, or no command left.
NoSourceLeft(r) ==
    /\ call[r].step = "source" /\ ~AtSource(r)
    /\ call' = [call EXCEPT ![r] = MethodFailed(@)]
    /\ NoMark
    /\ UNCHANGED <<runtime, now>>

\* The watch page itself is all that nsect_native asks for.
NoReply(r) ==
    /\ call[r].step = "asked" /\ Method(r) # "nsect_native"
    /\ Fails(r, "dead")

\* An unparsable Invidious answer is taken for one without tracks.
Garbled(r) ==
    /\ call[r].step = "asked"
    /\ Fails(r, IF Method(r) = "invidious" THEN "no_track" ELSE "garbled")

Reply(r) ==
    /\ call[r].step = "asked"
    /\ \E offer \in Offers :
         LET track == Picked(Method(r), offer, call[r].autoAllowed) IN
         IF track = None
           THEN Fails(r, "no_track")
           ELSE /\ call' = [call EXCEPT ![r].step = "captions",
                                        ![r].offer = offer, ![r].track = track]
                /\ NoMark
                /\ UNCHANGED <<runtime, now>>

CaptionsFail(r) == call[r].step = "captions" /\ Fails(r, "captions")

Deliver(r) ==
    /\ call[r].step = "captions"
    /\ call' = [call EXCEPT
                  ![r].attempts = Append(@, [method |-> Method(r), status |-> "ok"]),
                  ![r].answer = Method(r), ![r].step = "done",
                  ![r].track = None, ![r].offer = <<>>]
    /\ NoMark
    /\ UNCHANGED <<runtime, now>>

Step(r) ==
    \/ GetWatchPage(r) \/ Ask(r) \/ SkipInstance(r) \/ NoSourceLeft(r)
    \/ NoReply(r) \/ Garbled(r) \/ Reply(r) \/ CaptionsFail(r) \/ Deliver(r)

Next == Tick \/ \E r \in Requests : Accept(r) \/ Step(r)

Spec == Init /\ [][Next]_vars

\* Every fetch and every command is ended by the request's timeout.
FairSpec == Spec /\ \A r \in Requests : WF_vars(Step(r))

-----------------------------------------------------------------------------
(* Properties.                                                             *)

C(r) == INSTANCE AdapterChain WITH
    wanted <- call[r].wanted, attempts <- call[r].attempts,
    answer <- call[r].answer

\* Whatever fails, skips or is garbled on the way, a request is the chain of
\* adapters it asked for: one record per adapter, in order, none twice, and no
\* giving up before the last.
ImplementsChain ==
    /\ \A r \in Requests : C(r)!Init
    /\ [][\A r \in Requests : [C(r)!Next]_(C(r)!vars)]_vars

Asks(r) == /\ call[r].step = "source" /\ call'[r].step = "asked"
           /\ Method(r) \in Brokered

Rested(i) == failedAt[i] = None \/ now - failedAt[i] >= Cooldown

Skips(r) == /\ AtSource(r) /\ Method(r) \in Brokered
            /\ call'[r].step = "source" /\ call'[r] # call[r]

\* No request asks an instance within the cooldown of its last failure, even a
\* failure met by another request that had asked it earlier.  In Rust this
\* holds for Piped only.
FailedInstanceRests ==
    [][\A r \in Requests : (Asks(r) /\ (runtime = "js" \/ Method(r) = "piped")) =>
         Rested(Source(r))]_vars

\* An instance is skipped only within the cooldown of a failure: no mark
\* outlives it, however many requests have added to it.
RestIsBounded ==
    [][\A r \in Requests : Skips(r) =>
         /\ failedAt[Source(r)] # None
         /\ now - failedAt[Source(r)] <= Cooldown]_vars

\* Generated captions are not taken while the provider offers captions made by
\* hand in the language asked for, nor, unless Node got them from yt-dlp, while
\* it offers some in its base language.
ManualPreferred ==
    \A r \in Requests : (call[r].track # None /\ call[r].track.auto) =>
      \A t \in ToSet(call[r].offer) :
        t.auto \/ t.lang = "other"
        \/ (t.lang = "base" /\ runtime = "js" /\ Method(r) = "yt_dlp")

\* A request that has been accepted is answered.
EveryTranscriptAnswered ==
    \A r \in Requests : call[r].step = "source" ~> call[r].step = "done"

-----------------------------------------------------------------------------
(* What the documentation says, and the code does not do.                  *)

\* rust/src/transcript.rs:47: "When an Invidious/Piped instance fails, it's
\* marked down for 5 minutes so subsequent requests skip it".
DeadInstanceRests == [][\A r \in Requests : Asks(r) => Rested(Source(r))]_vars

=============================================================================
