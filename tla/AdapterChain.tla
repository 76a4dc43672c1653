---------------------------- MODULE AdapterChain ----------------------------
(***************************************************************************)
(* What a transcript request promises: the adapters it names are tried in  *)
(* the order it names them, each at most once, until one delivers; the     *)
(* record of attempts says how each of them ended, and the request is      *)
(* answered "unavailable" only when every one of them has failed.          *)
(* Transcript implements this module for each of its requests.             *)
(***************************************************************************)
EXTENDS Naturals, Sequences

CONSTANTS
    Methods,  \* YOUTUBE_TRANSCRIPT_METHODS
    None

VARIABLES
    wanted,    \* the adapters to try, <<>> before the request is accepted
    attempts,  \* the attempts made, oldest first
    answer     \* None, "unavailable", or the adapter that delivered

vars == <<wanted, attempts, answer>>

Distinct(s) == \A i, j \in DOMAIN s : s[i] = s[j] => i = j

Init == wanted = <<>> /\ attempts = <<>> /\ answer = None

Accept ==
    /\ wanted = <<>>
    /\ wanted' \in Seq(Methods) \ {<<>>}
    /\ Distinct(wanted')
    /\ UNCHANGED <<attempts, answer>>

Current == wanted[Len(attempts) + 1]

Fail ==
    /\ wanted # <<>> /\ answer = None
    /\ attempts' = Append(attempts, [method |-> Current, status |-> "error"])
    /\ answer' = IF Len(attempts') = Len(wanted) THEN "unavailable" ELSE None
    /\ UNCHANGED wanted

Deliver ==
    /\ wanted # <<>> /\ answer = None
    /\ attempts' = Append(attempts, [method |-> Current, status |-> "ok"])
    /\ answer' = Current
    /\ UNCHANGED wanted

Next == Accept \/ Fail \/ Deliver

Spec == Init /\ [][Next]_vars

=============================================================================
