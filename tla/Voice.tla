------------------------------- MODULE Voice --------------------------------
(***************************************************************************)
(* The realtime voice bootstrap: the talk_session_create, talk_session_end *)
(* and talk_readiness verbs (envelope.py) and what they call in voice.py.  *)
(* A bootstrap reads its settings one by one, from the environment or else *)
(* from HERMES_HOME/.env, which is opened again for each; then it offers   *)
(* one session to the provider's models in turn until one accepts.  The    *)
(* user may edit .env between any two of these steps.                      *)
(***************************************************************************)
EXTENDS Integers, Sequences, FiniteSets

CONSTANTS Boots,      \* talk_session_create requests; also the ids they mint
          Models,     \* DEFAULT_REALTIME_MODELS, in order
          Env,        \* [Settings -> raw value]: os.environ of the gateway
          Raws,       \* [Settings -> the raw values .env may hold]
          Unset,      \* no such line, or an empty value
          Junk        \* text that is no boolean, name or number

FlagNames == {"create_response", "interrupt_response"}
NumberNames == {"threshold", "prefix_padding_ms", "silence_duration_ms"}
BlockSettings == {"type", "eagerness"} \cup FlagNames \cup NumberNames
Settings == {"key"} \cup BlockSettings

ASSUME VoiceAssumption ==
    /\ Models \in Seq(STRING) /\ Len(Models) > 0
    /\ DOMAIN Env = Settings /\ DOMAIN Raws = Settings
    /\ \A k \in Settings : Unset \in Raws[k]
    /\ Junk \notin {"quiet", "noisy"}

VARIABLES file,      \* [Settings -> raw value]: HERMES_HOME/.env
          sessions,  \* _voice_sessions
          boot       \* [Boots -> [pc, tuning, block, steady, posts, tried, code]]

vars == <<file, sessions, boot>>

\* What the phone's picker may send: "normal" stands for no tuning too, Junk for
\* a value of any other kind.
Tunings == {"quiet", "normal", "noisy", Junk}

\* The pcs that are settings read that setting next.  block: the turn_detection
\* block so far.  steady: .env has not been edited since the request came.
\* posts: the blocks sent to the provider.  tried: how many models were asked.
IdleBoot == [pc |-> "idle", tuning |-> "normal", block |-> [k \in {} |-> Unset],
             steady |-> TRUE, posts |-> {}, tried |-> 0, code |-> "none"]

Pcs == {"idle", "post", "record", "done"} \cup Settings

Codes == {"none", "ok", "talk_not_configured", "talk_session_create_failed",
          "storage_error"}

-----------------------------------------------------------------------------
(* voice.py: settings *)

\* _resolve_setting, resolve_openai_api_key
Raw(k) == IF Env[k] # Unset THEN Env[k] ELSE file[k]

Types == {"semantic_vad", "server_vad"}

\* Thresholds are in hundredths.
Vetted(k) == CASE k \in FlagNames -> {"on", "off"}
               [] k = "type" -> Types
               [] k = "eagerness" -> {"low", "medium", "high", "auto"}
               [] k = "threshold" -> 0 .. 100
               [] k = "prefix_padding_ms" -> 0 .. 5000
               [] k = "silence_duration_ms" -> 0 .. 10000

Default(k) == CASE k \in FlagNames -> "on"
                [] k = "type" -> "semantic_vad"
                [] k = "eagerness" -> "medium"
                [] k = "threshold" -> 50
                [] k = "prefix_padding_ms" -> 300
                [] k = "silence_duration_ms" -> 500

\* _coerce_bool, _coerce_number and the two vetted names: a bad value falls back.
Coerced(k, raw) == IF raw \in Vetted(k) THEN raw ELSE Default(k)

\* VOICE_TUNING_PRESETS
Preset(tuning) ==
    [k \in NumberNames \cup {"type"} |->
        CASE k = "type" -> "server_vad"
          [] k = "threshold" -> IF tuning = "quiet" THEN 40 ELSE 75
          [] k = "prefix_padding_ms" -> IF tuning = "quiet" THEN 300 ELSE 400
          [] k = "silence_duration_ms" -> IF tuning = "quiet" THEN 500 ELSE 900]

\* Mutant: any tuning but "normal" has a preset.
HasPresetAny(tuning) == tuning # "normal"

\* _vetted_tuning_preset: of all values only two names mean a preset.
HasPreset(tuning) == tuning \in {"quiet", "noisy"}

Scoped(type) == IF type = "semantic_vad" THEN {"eagerness"} ELSE NumberNames

Joined(f, g) == [k \in DOMAIN f \cup DOMAIN g |-> IF k \in DOMAIN g THEN g[k] ELSE f[k]]

Valued(S) == [k \in S |-> Coerced(k, Raw(k))]

\* resolve_turn_detection, all at once.
TurnDetection(tuning) ==
    Joined(Valued(FlagNames),
           IF HasPreset(tuning) THEN Preset(tuning)
           ELSE Valued({"type"} \cup Scoped(Coerced("type", Raw("type")))))

\* talk_readiness: may a session start, and with which block.
Readiness == [ready |-> Raw("key") # Unset, turnDetection |-> TurnDetection("normal")]

-----------------------------------------------------------------------------
(* envelope.py: talk_session_create *)

Answered(b, code) == boot' = [boot EXCEPT ![b].pc = "done", ![b].code = code]

\* The device is authorized; any value may come as its tuning.
Begin(b, tuning) ==
    /\ boot[b].pc = "idle"
    /\ boot' = [boot EXCEPT ![b].pc = "key", ![b].tuning = tuning]
    /\ UNCHANGED <<file, sessions>>

ReadKey(b) ==
    /\ boot[b].pc = "key"
    /\ IF Raw("key") = Unset THEN Answered(b, "talk_not_configured")
       ELSE boot' = [boot EXCEPT ![b].pc = "create_response"]
    /\ UNCHANGED <<file, sessions>>

\* Mutant: every type's settings are read.
FollowingAll(k, type, tuning) ==
    CASE k = "create_response" -> "interrupt_response"
      [] k = "interrupt_response" -> IF HasPreset(tuning) THEN "post" ELSE "type"
      [] k = "type" -> "eagerness"
      [] k = "eagerness" -> "threshold"
      [] k = "threshold" -> "prefix_padding_ms"
      [] k = "prefix_padding_ms" -> "silence_duration_ms"
      [] k = "silence_duration_ms" -> "post"

\* The order of resolve_turn_detection; only the settings of the type are read.
Following(k, type, tuning) ==
    CASE k = "create_response" -> "interrupt_response"
      [] k = "interrupt_response" -> IF HasPreset(tuning) THEN "post" ELSE "type"
      [] k = "type" -> IF type = "semantic_vad" THEN "eagerness" ELSE "threshold"
      [] k = "threshold" -> "prefix_padding_ms"
      [] k = "prefix_padding_ms" -> "silence_duration_ms"
      [] k \in {"eagerness", "silence_duration_ms"} -> "post"

\* The block with k, read from .env as it is now, and with the preset, if the
\* phone's tuning names one, in place of the settings that would follow.
Extended(r, k) ==
    LET block == Joined(r.block, Valued({k}))
    IN  IF k = "interrupt_response" /\ HasPreset(r.tuning)
        THEN Joined(block, Preset(r.tuning)) ELSE block

ReadSetting(b, k) ==
    /\ boot[b].pc = k
    /\ LET block == Extended(boot[b], k)
       IN  boot' = [boot EXCEPT ![b].block = block,
                      ![b].pc = Following(k, IF k = "type" THEN block["type"] ELSE "none",
                                          boot[b].tuning)]
    /\ UNCHANGED <<file, sessions>>

\* n models have been asked.  What the last one said: a session; a refusal, or
\* nothing at all; or something the code does not expect: a refusal whose JSON
\* is no object, a success that is not JSON, which raise outside the try.
Asked(b, block, n, said) ==
    /\ boot[b].pc = "post"
    /\ boot' = [boot EXCEPT
         ![b].posts = @ \cup {block}, ![b].tried = n,
         ![b].pc = CASE said = "session" -> "record"
                     [] said = "refused" /\ n < Len(Models) -> "post"
                     [] OTHER -> "done",
         ![b].code = CASE said = "odd" -> "storage_error"
                       [] said = "refused" /\ n >= Len(Models) -> "talk_session_create_failed"
                       [] OTHER -> @]
    /\ UNCHANGED <<file, sessions>>

\* Mutant: the block is resolved again for every model.
OfferResolving(b, said) ==
    Asked(b, TurnDetection(boot[b].tuning), boot[b].tried + 1, said)

\* Mutant: after the last model the list goes on.
OfferPast(b, said) ==
    \/ said # "refused" /\ Asked(b, boot[b].block, boot[b].tried + 1, said)
    \/ /\ said = "refused" /\ boot[b].pc = "post"
       /\ boot' = [boot EXCEPT ![b].tried = @ + 1]
       /\ UNCHANGED <<file, sessions>>

\* Mutant: after the last model the list starts again.
OfferRound(b, said) ==
    \/ said # "refused" /\ Asked(b, boot[b].block, boot[b].tried + 1, said)
    \/ /\ said = "refused" /\ boot[b].pc = "post"
       /\ boot' = [boot EXCEPT ![b].tried = (@ + 1) % Len(Models)]
       /\ UNCHANGED <<file, sessions>>

\* create_realtime_session offers the one block to the next model.
Offer(b, said) == Asked(b, boot[b].block, boot[b].tried + 1, said)

\* The session is remembered and goes to the phone.
Record(b) ==
    /\ boot[b].pc = "record"
    /\ sessions' = sessions \cup {b}
    /\ Answered(b, "ok")
    /\ UNCHANGED file

-----------------------------------------------------------------------------
(* The other verbs, and the host *)

\* talk_session_end, acknowledged whether the session is remembered or not.
End(b) ==
    /\ boot[b].code = "ok"
    /\ sessions' = sessions \ {b}
    /\ UNCHANGED <<file, boot>>

\* The user saves .env with another value for k.
Edit(k, raw) ==
    /\ file' = [file EXCEPT ![k] = raw]
    /\ boot' = [b \in Boots |-> IF boot[b].pc = "idle" THEN boot[b]
                                ELSE [boot[b] EXCEPT !.steady = FALSE]]
    /\ UNCHANGED sessions

\* The gateway restarts: bootstraps under way end unanswered.
Restart ==
    /\ sessions' = {}
    /\ boot' = [b \in Boots |-> IF boot[b].pc = "idle" THEN boot[b]
                                ELSE [boot[b] EXCEPT !.pc = "done"]]
    /\ UNCHANGED file

\* A host without settings; Edit reaches every other .env.
Init == /\ file = [k \in Settings |-> Unset]
        /\ sessions = {}
        /\ boot = [b \in Boots |-> IdleBoot]

Step(b) == \/ ReadKey(b) \/ Record(b)
           \/ \E k \in BlockSettings : ReadSetting(b, k)
           \/ \E said \in {"session", "refused", "odd"} : Offer(b, said)

Next == \/ \E b \in Boots, t \in Tunings : Begin(b, t)
        \/ \E b \in Boots : Step(b) \/ End(b)
        \/ \E k \in Settings : \E raw \in Raws[k] : Edit(k, raw)
        \/ Restart

\* The handler runs on and the provider answers or times out; nothing is assumed
\* of the phone or of the user, who may edit .env for ever.
Spec == Init /\ [][Next]_vars /\ \A b \in Boots : WF_vars(Step(b))

-----------------------------------------------------------------------------
(* Correctness *)

\* .env and the bootstraps have their shapes.
TypeOK ==
    /\ \A k \in Settings : file[k] \in Raws[k]
    /\ sessions \subseteq Boots
    /\ \A b \in Boots :
         /\ boot[b].pc \in Pcs
         /\ boot[b].tuning \in Tunings
         /\ boot[b].tried \in 0 .. Len(Models)
         /\ boot[b].code \in Codes
         /\ boot[b].steady \in BOOLEAN
         /\ DOMAIN boot[b].block \subseteq BlockSettings

\* "Resolving per attempt ... could hand two models two different
\* configurations" (voice.py): one bootstrap offers one block, however .env is
\* edited meanwhile.
OneConfiguration == \A b \in Boots : Cardinality(boot[b].posts) <= 1

\* "Sending one type the other's keys is a provider error" and "a fat-fingered
\* threshold must not take voice down" (voice.py): whatever .env and the
\* environment hold, and however they change between two reads, the block sent
\* has the keys of its type and values the provider takes.
AcceptableBlock ==
    \A b \in Boots : \A block \in boot[b].posts :
        /\ DOMAIN block = FlagNames \cup {"type"} \cup Scoped(block["type"])
        /\ \A k \in DOMAIN block : block[k] \in Vetted(k)

\* talk_readiness shows "the EFFECTIVE turn detection" (voice.py): unless .env is
\* edited meanwhile, an untuned bootstrap offers that block, and is refused for
\* want of a key only if readiness says so.
AsReadinessShows ==
    \A b \in Boots :
        boot[b].steady /\ boot[b].pc # "idle" =>
            /\ boot[b].code = "talk_not_configured" => ~Readiness.ready
            /\ boot[b].posts # {} /\ boot[b].tuning \in {"normal", Junk}
                 => boot[b].posts = {Readiness.turnDetection}

\* Every bootstrap ends, with a session or with a named error, however often .env
\* is edited while it runs.
BootEnds == \A b \in Boots : boot[b].pc # "idle" ~> boot[b].pc = "done"
=============================================================================
