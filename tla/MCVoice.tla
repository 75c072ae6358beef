------------------------------ MODULE MCVoice -------------------------------
(***************************************************************************)
(* A small instance of Voice for TLC: one bootstrap over two models, an    *)
(* environment that sets one flag, and a .env whose lines may be absent,   *)
(* right, wrong or out of range.                                           *)
(***************************************************************************)
EXTENDS Voice

CONSTANTS k1

MCModels == <<"gpt-realtime-1.5", "gpt-realtime">>

MCEnv == [k \in Settings |-> IF k = "interrupt_response" THEN "off" ELSE Unset]

MCRaws == [k \in Settings |->
             CASE k = "key" -> {Unset, k1}
               [] k = "create_response" -> {Unset, "off"}
               [] k = "interrupt_response" -> {Unset, "on"}
               [] k = "type" -> {Unset, "server_vad", Junk}
               [] k = "eagerness" -> {Unset, "high", Junk}
               [] k = "threshold" -> {Unset, 100, 101}
               [] k = "prefix_padding_ms" -> {Unset}
               [] k = "silence_duration_ms" -> {Unset, 0}]
=============================================================================
