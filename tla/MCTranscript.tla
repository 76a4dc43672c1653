---------------------------- MODULE MCTranscript ----------------------------
(* Two Invidious instances, one Piped instance and two commands.           *)
EXTENDS Transcript

MCInvidious == <<"invidious1", "invidious2">>
MCPiped == <<"piped1">>
MCCommands == <<"yt-dlp", "yt-dlp.exe">>
MCMethodLists ==
    { <<"invidious", "piped", "invidious">>, <<"nsect_native", "nsect_signal">>,
      <<"yt_dlp">> }
MCOffers ==
    { <<>>, <<[lang |-> "base", auto |-> TRUE]>>,
      << [lang |-> "exact", auto |-> TRUE], [lang |-> "base", auto |-> FALSE],
         [lang |-> "exact", auto |-> FALSE] >> }
=============================================================================
