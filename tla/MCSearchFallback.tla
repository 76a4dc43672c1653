-------------------------- MODULE MCSearchFallback --------------------------
(* Google and DuckDuckGo, the two engines that wrap their links, one that   *)
(* does not, and lists of up to three names.                               *)
EXTENDS SearchFallback

MCEngines == {"bing", "duckduckgo", "google"}
=============================================================================
