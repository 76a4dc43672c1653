---------------------------- MODULE MCAdmission -----------------------------
(***************************************************************************)
(* Small instances of Admission for TLC: one key, two requests (a rate of  *)
(* 1 is passed, a rate of 2 leaves the cooldown to decide), and one body   *)
(* for each thing a body can mean to the middleware or to the engine.      *)
(***************************************************************************)
EXTENDS Admission

Engine(input) == [ route |-> "engine", parses |-> TRUE, sound |-> TRUE, input |-> input ]

Search(query, google) ==
    Engine([NoFields EXCEPT !.query = query, !.google = google])

Page == [NoFields EXCEPT !.url = "http"]

\* Pages with options: one that both runtimes refuse, one they normalise alike,
\* and one they do not agree on.
Pages ==
    { [Page EXCEPT !.method = "wait", !.ints["timeout"] = Number(181)],
      [Page EXCEPT !.method = "wait", !.strategy = "fast", !.selector = "css",
                   !.flag = "true", !.alias["maxResults"] = Number(50),
                   !.headers = "json_pairs"],
      [Page EXCEPT !.method = "wait", !.strategy = "spa"] }

\* A search that only Node can read.
NodeOnly ==
    [NoFields EXCEPT !.query = "number", !.format = "blank",
       !.ints = [NoFields.ints EXCEPT
                   !["delay"] = [form |-> "digits", value |-> 0],
                   !["maxResults"] = Number(1)],
       !.alias["maxResults"] = Number(2)]

MCBodies ==
    { Search("text", "absent"), Search("absent", "text"), Search("text", "other"),
      Search("blank", "text"), Engine(NodeOnly),
      [Engine(NoFields) EXCEPT !.parses = FALSE],
      [Search("text", "absent") EXCEPT !.route = "transcript"],
      [Search("text", "absent") EXCEPT !.route = "transcript", !.sound = FALSE] }
    \cup {Engine(page) : page \in Pages}

MCTimes == 1..4
MCRates == {1, 2}
MCLifetimes == {None}
MCCooldowns == {1}
=============================================================================
