----------------------------- MODULE VoiceProofs ----------------------------
(***************************************************************************)
(* The inductive invariant of Voice and its safety theorems, for any       *)
(* number of bootstraps and models, any environment and any .env.          *)
(***************************************************************************)
EXTENDS Voice, FiniteSetTheorems, TLAPS

-----------------------------------------------------------------------------
(* The inductive invariant *)

Fields == {"pc", "tuning", "block", "steady", "posts", "tried", "code"}

\* What the provider takes.
Acceptable(block) ==
    /\ DOMAIN block = FlagNames \cup {"type"} \cup Scoped(block["type"])
    /\ \A k \in DOMAIN block : block[k] \in Vetted(k)

\* The settings that a block has where the next one to read is pc.
ReadBefore(pc) ==
    CASE pc = "interrupt_response" -> {"create_response"}
      [] pc = "type" -> FlagNames
      [] pc \in {"eagerness", "threshold"} -> FlagNames \cup {"type"}
      [] pc = "prefix_padding_ms" -> FlagNames \cup {"type", "threshold"}
      [] pc = "silence_duration_ms" -> FlagNames \cup {"type", "threshold", "prefix_padding_ms"}
      [] OTHER -> {}

Reading == {"idle", "key"} \cup BlockSettings

BlockSound(r) ==
    /\ r.block = [k \in DOMAIN r.block |-> r.block[k]]
    /\ DOMAIN r.block \subseteq BlockSettings
    /\ \A k \in DOMAIN r.block : r.block[k] \in Vetted(k)
    /\ r.pc \in Reading => DOMAIN r.block = ReadBefore(r.pc)
    /\ r.pc = "eagerness" => r.block["type"] = "semantic_vad"
    /\ r.pc \in NumberNames => r.block["type"] = "server_vad"
    /\ r.pc \in {"post", "record"} => Acceptable(r.block)

\* One block is offered, and nothing extends it afterwards.
PostsSound(r) ==
    /\ r.posts \subseteq {r.block}
    /\ r.posts # {} => r.pc \notin Reading /\ Acceptable(r.block)
    /\ r.pc \in {"post"} \cup Reading => r.tried < Len(Models)
    /\ r.code # "none" => r.pc = "done"

Shaped(r) ==
    /\ DOMAIN r = Fields
    /\ r.pc \in Pcs /\ r.tuning \in Tunings /\ r.code \in Codes
    /\ r.tried \in 0 .. Len(Models) /\ r.steady \in BOOLEAN

Good(r) == Shaped(r) /\ BlockSound(r) /\ PostsSound(r)

\* While .env stays as it is, what was read is what it says.
Faithful(r) ==
    r.steady /\ r.pc # "idle" =>
        /\ r.code = "talk_not_configured" => Raw("key") = Unset
        /\ r.tuning \in {"normal", Junk} =>
             \A k \in DOMAIN r.block : r.block[k] = Coerced(k, Raw(k))

FileSound == DOMAIN file = Settings /\ \A k \in Settings : file[k] \in Raws[k]

IInv == /\ FileSound
        /\ sessions \subseteq Boots
        /\ DOMAIN boot = Boots
        /\ \A b \in Boots : Good(boot[b]) /\ Faithful(boot[b])

-----------------------------------------------------------------------------
(* Settings and blocks *)

LEMMA ModelCount == Len(Models) \in Nat \ {0}
  BY VoiceAssumption

\* A setting's value is one the provider takes, whatever was written for it.
LEMMA CoercedVetted ==
    ASSUME NEW k \in BlockSettings, NEW raw
    PROVE  Coerced(k, raw) \in Vetted(k)
<1>1. Default(k) \in Vetted(k)
  BY DEF Default, Vetted, BlockSettings, FlagNames, NumberNames, Types
<1> QED BY <1>1 DEF Coerced

\* Both presets are right values of the settings they replace.
LEMMA PresetVetted ==
    ASSUME NEW tuning
    PROVE  /\ DOMAIN Preset(tuning) = NumberNames \cup {"type"}
           /\ Preset(tuning)["type"] = "server_vad"
           /\ \A k \in NumberNames \cup {"type"} : Preset(tuning)[k] \in Vetted(k)
<1>1. /\ DOMAIN Preset(tuning) = NumberNames \cup {"type"}
      /\ Preset(tuning)["type"] = "server_vad"
  BY DEF Preset, NumberNames
<1>2. Preset(tuning)["type"] \in Vetted("type")
  BY <1>1 DEF Vetted, FlagNames, Types
<1>3. Preset(tuning)["threshold"] \in Vetted("threshold")
  BY DEF Vetted, FlagNames, Types, Preset, NumberNames
<1>4. Preset(tuning)["prefix_padding_ms"] \in Vetted("prefix_padding_ms")
  BY DEF Vetted, FlagNames, Types, Preset, NumberNames
<1>5. Preset(tuning)["silence_duration_ms"] \in Vetted("silence_duration_ms")
  BY DEF Vetted, FlagNames, Types, Preset, NumberNames
<1> QED BY <1>1, <1>2, <1>3, <1>4, <1>5 DEF NumberNames


\* The block of a preset is complete.
LEMMA PresetAcceptable ==
    ASSUME NEW f, NEW tuning,
           DOMAIN f = FlagNames, \A k \in FlagNames : f[k] \in Vetted(k)
    PROVE  LET g == Joined(f, Preset(tuning))
           IN  /\ g = [k \in DOMAIN g |-> g[k]]
               /\ DOMAIN g \subseteq BlockSettings
               /\ Acceptable(g)
<1> DEFINE g == Joined(f, Preset(tuning))
<1>1. /\ g = [k \in DOMAIN g |-> g[k]]
      /\ DOMAIN g = FlagNames \cup NumberNames \cup {"type"}
      /\ \A k \in DOMAIN g : g[k] \in Vetted(k)
      /\ g["type"] = "server_vad"
  BY PresetVetted DEF Joined, NumberNames
<1>2. Scoped(g["type"]) = NumberNames
  BY <1>1 DEF Scoped
<1> HIDE DEF g
<1>3. DOMAIN g \subseteq BlockSettings /\ Acceptable(g)
  BY <1>1, <1>2 DEF Acceptable, BlockSettings
<1> QED BY <1>1, <1>3 DEF g

\* A block with every value of its type is complete.
LEMMA FullAcceptable ==
    ASSUME NEW g, \A k \in DOMAIN g : g[k] \in Vetted(k),
           \/ /\ g["type"] = "semantic_vad"
              /\ DOMAIN g = FlagNames \cup {"type", "eagerness"}
           \/ /\ g["type"] = "server_vad"
              /\ DOMAIN g = FlagNames \cup {"type"} \cup NumberNames
    PROVE  Acceptable(g)
  BY DEF Acceptable, Scoped

-----------------------------------------------------------------------------
(* One step of one bootstrap *)

LEMMA Others ==
    ASSUME IInv, NEW b \in Boots, DOMAIN boot' = Boots, file' = file,
           \A c \in Boots : c # b => boot'[c] = boot[c],
           sessions' \subseteq Boots,
           Good(boot'[b]), Faithful(boot[b])'
    PROVE  IInv'
<1>1. \A c \in Boots : Good(boot'[c])
  BY DEF IInv
<1>2. \A c \in Boots : Faithful(boot[c])'
  <2> SUFFICES ASSUME NEW c \in Boots, c # b PROVE Faithful(boot[c])'
    OBVIOUS
  <2> QED BY DEF IInv, Faithful, Raw
<1> QED BY <1>1, <1>2 DEF IInv, FileSound, Good, Shaped, BlockSound, PostsSound

\* A setting is read into the block, and nothing else changes but the pc.
LEMMA ReadStep ==
    ASSUME IInv, NEW b \in Boots, NEW k \in BlockSettings, ReadSetting(b, k)
    PROVE  IInv'
<1> DEFINE r == boot[b]
           s == boot'[b]
           g == Joined(r.block, Valued({k}))
<1>1. /\ Good(r) /\ Faithful(r) /\ r.pc = k
      /\ r.block = [j \in DOMAIN r.block |-> r.block[j]]
      /\ DOMAIN r.block = ReadBefore(k)
      /\ \A j \in DOMAIN r.block : r.block[j] \in Vetted(j)
      /\ DOMAIN r = Fields
  BY DEF IInv, Good, ReadSetting, BlockSound, Reading, Shaped
<1>2. /\ DOMAIN boot' = Boots /\ file' = file /\ sessions' = sessions
      /\ \A c \in Boots : c # b => boot'[c] = boot[c]
      /\ DOMAIN s = Fields /\ s.block = Extended(r, k)
      /\ s.pc = Following(k, IF k = "type" THEN s.block["type"] ELSE "none", r.tuning)
      /\ s.tuning = r.tuning /\ s.steady = r.steady /\ s.posts = r.posts
      /\ s.tried = r.tried /\ s.code = r.code
  BY <1>1 DEF ReadSetting, IInv, Fields
<1>3. /\ g = [j \in DOMAIN g |-> g[j]]
      /\ DOMAIN g = DOMAIN r.block \cup {k}
      /\ g[k] = Coerced(k, Raw(k))
      /\ \A j \in DOMAIN r.block : j # k => g[j] = r.block[j]
  BY DEF Joined, Valued
<1>4. \A j \in DOMAIN g : g[j] \in Vetted(j)
  <2>1. Coerced(k, Raw(k)) \in Vetted(k)
    BY CoercedVetted
  <2> HIDE DEF g
  <2> QED BY <1>1, <1>3, <2>1
<1>5. r.posts = {} /\ r.tried < Len(Models) /\ r.code = "none"
  BY <1>1, ModelCount DEF Good, PostsSound, Reading, BlockSettings, FlagNames, NumberNames
<1>6. s.pc \in BlockSettings \cup {"post"}
  BY <1>2 DEF Following, BlockSettings, FlagNames, NumberNames
<1>7. Shaped(s)
  BY <1>1, <1>2, <1>6 DEF Good, Shaped, Pcs, Settings
<1>8. PostsSound(s)
  BY <1>2, <1>5 DEF PostsSound
<1>9. BlockSound(s)
  <2> HIDE DEF r, s, g
  <2>1. CASE k = "interrupt_response" /\ HasPreset(r.tuning)
    <3>1. s.block = Joined(g, Preset(r.tuning)) /\ s.pc = "post"
      BY <1>2, <2>1 DEF Extended, Following, g
    <3>2. DOMAIN g = FlagNames
      BY <1>1, <1>3, <2>1 DEF ReadBefore, FlagNames
    <3>3. /\ s.block = [j \in DOMAIN s.block |-> s.block[j]]
          /\ DOMAIN s.block \subseteq BlockSettings
          /\ Acceptable(s.block)
      BY <1>4, <3>1, <3>2, PresetAcceptable
    <3> QED BY <3>1, <3>3 DEF BlockSound, Acceptable, Reading, BlockSettings, FlagNames, NumberNames
  <2>2. CASE ~(k = "interrupt_response" /\ HasPreset(r.tuning))
    <3>1. s.block = g
      BY <1>2, <2>2 DEF Extended, g
    <3>2. DOMAIN g \subseteq BlockSettings
      BY <1>1, <1>3 DEF ReadBefore, BlockSettings, FlagNames, NumberNames
    <3>3. /\ s.pc \in Reading => DOMAIN g = ReadBefore(s.pc)
          /\ s.pc = "eagerness" => g["type"] = "semantic_vad"
          /\ s.pc \in NumberNames => g["type"] = "server_vad"
          /\ s.pc = "post" => Acceptable(g)
      <4>1. CASE k \in FlagNames
        BY <1>1, <1>2, <1>3, <2>2, <3>1, <4>1
        DEF Following, ReadBefore, FlagNames, NumberNames
      <4>2. CASE k = "type"
        <5>1. g["type"] \in Types /\ DOMAIN g = FlagNames \cup {"type"}
          BY <1>1, <1>3, <1>4, <4>2 DEF ReadBefore, Vetted, FlagNames
        <5> QED BY <1>2, <3>1, <4>2, <5>1 DEF Following, ReadBefore, Types, NumberNames
      <4>3. CASE k = "eagerness"
        <5>1. g["type"] = "semantic_vad" /\ DOMAIN g = FlagNames \cup {"type", "eagerness"}
          BY <1>1, <1>3, <4>3 DEF Good, BlockSound, ReadBefore
        <5>2. s.pc = "post"
          BY <1>2, <4>3 DEF Following
        <5> QED BY <1>4, <5>1, <5>2, FullAcceptable DEF Reading, BlockSettings, FlagNames, NumberNames
      <4>4. CASE k \in NumberNames
        <5>1. g["type"] = "server_vad"
          BY <1>1, <1>3, <4>4 DEF Good, BlockSound, ReadBefore, NumberNames
        <5>2. CASE k = "silence_duration_ms"
          <6>1. s.pc = "post" /\ DOMAIN g = FlagNames \cup {"type"} \cup NumberNames
            BY <1>1, <1>2, <1>3, <5>2 DEF Following, ReadBefore, NumberNames
          <6> QED BY <1>4, <5>1, <6>1, FullAcceptable DEF Reading, BlockSettings, FlagNames, NumberNames
        <5> QED BY <1>1, <1>2, <1>3, <4>4, <5>1, <5>2 DEF Following, ReadBefore, NumberNames
      <4> QED BY <4>1, <4>2, <4>3, <4>4 DEF BlockSettings
    <3>4. s.pc # "record"
      BY <1>6 DEF BlockSettings, FlagNames, NumberNames
    <3> QED BY <1>3, <1>4, <3>1, <3>2, <3>3, <3>4 DEF BlockSound
  <2> QED BY <2>1, <2>2
<1>10. Faithful(boot[b])'
  <2> SUFFICES ASSUME s.steady PROVE Faithful(boot[b])'
    BY DEF Faithful
  <2>1. \A j : Raw(j)' = Raw(j)
    BY <1>2 DEF Raw
  <2>2. r.pc # "idle"
    BY <1>1 DEF BlockSettings, FlagNames, NumberNames
  <2>3. s.code = "talk_not_configured" => Raw("key")' = Unset
    BY <1>1, <1>2, <2>1, <2>2 DEF Faithful
  <2>4. s.tuning \in {"normal", Junk} => \A j \in DOMAIN s.block : s.block[j] = Coerced(j, Raw(j)')
    <3> SUFFICES ASSUME s.tuning \in {"normal", Junk}
                 PROVE  \A j \in DOMAIN s.block : s.block[j] = Coerced(j, Raw(j)')
      OBVIOUS
    <3>1. s.block = g
      BY <1>2, VoiceAssumption DEF Extended, HasPreset
    <3> QED BY <1>1, <1>2, <1>3, <2>1, <2>2, <3>1 DEF Faithful
  <2> QED BY <2>3, <2>4 DEF Faithful
<1> QED BY <1>2, <1>7, <1>8, <1>9, <1>10, Others DEF Good, IInv


\* A bootstrap without a key, or with one: nothing has been read yet.
LEMMA KeyStep ==
    ASSUME IInv, NEW b \in Boots, ReadKey(b)
    PROVE  IInv'
<1> DEFINE r == boot[b]
           s == boot'[b]
<1>1. Good(r) /\ Faithful(r) /\ r.pc = "key" /\ DOMAIN r = Fields
  BY DEF IInv, Good, ReadKey, Shaped
<1>2. /\ DOMAIN boot' = Boots /\ file' = file /\ sessions' = sessions
      /\ \A c \in Boots : c # b => boot'[c] = boot[c]
      /\ DOMAIN s = Fields /\ s.block = r.block /\ s.tuning = r.tuning
      /\ s.steady = r.steady /\ s.posts = r.posts /\ s.tried = r.tried
      /\ \/ Raw("key") = Unset /\ s.pc = "done" /\ s.code = "talk_not_configured"
         \/ s.pc = "create_response" /\ s.code = r.code
  BY <1>1 DEF ReadKey, Answered, IInv, Fields
<1>3. r.posts = {} /\ DOMAIN r.block = {} /\ r.code = "none"
  BY <1>1, ModelCount DEF Good, PostsSound, BlockSound, Reading, ReadBefore
<1>4. Shaped(s)
  BY <1>1, <1>2 DEF Good, Shaped, Pcs, Settings, BlockSettings, FlagNames, Codes
<1>5. BlockSound(s) /\ PostsSound(s)
  BY <1>1, <1>2, <1>3 DEF Good, BlockSound, PostsSound, Reading, ReadBefore,
     BlockSettings, FlagNames, NumberNames
<1>6. Faithful(boot[b])'
  BY <1>1, <1>2, <1>3 DEF Faithful, Raw
<1> QED BY <1>2, <1>4, <1>5, <1>6, Others DEF Good, IInv

\* The one block is offered to the next model.
LEMMA OfferStep ==
    ASSUME IInv, NEW b \in Boots, NEW said \in {"session", "refused", "odd"}, Offer(b, said)
    PROVE  IInv'
<1> DEFINE r == boot[b]
           s == boot'[b]
<1>1. Good(r) /\ Faithful(r) /\ r.pc = "post" /\ DOMAIN r = Fields
  BY DEF IInv, Good, Offer, Asked, Shaped
<1>2. /\ DOMAIN boot' = Boots /\ file' = file /\ sessions' = sessions
      /\ \A c \in Boots : c # b => boot'[c] = boot[c]
      /\ DOMAIN s = Fields /\ s.block = r.block /\ s.tuning = r.tuning
      /\ s.steady = r.steady /\ s.posts = r.posts \cup {r.block} /\ s.tried = r.tried + 1
      /\ s.pc = CASE said = "session" -> "record"
                  [] said = "refused" /\ r.tried + 1 < Len(Models) -> "post"
                  [] OTHER -> "done"
      /\ s.code = CASE said = "odd" -> "storage_error"
                    [] said = "refused" /\ r.tried + 1 >= Len(Models) -> "talk_session_create_failed"
                    [] OTHER -> r.code
  BY <1>1 DEF Offer, Asked, IInv, Fields
<1>3. /\ r.tried \in Nat /\ r.tried < Len(Models) /\ r.code = "none"
      /\ Acceptable(r.block) /\ r.posts \subseteq {r.block}
  BY <1>1, ModelCount DEF Good, Shaped, PostsSound, BlockSound
<1>4. /\ s.tried \in 0 .. Len(Models)
      /\ s.pc = "post" => s.tried < Len(Models)
      /\ s.pc \in {"record", "post", "done"}
      /\ s.code \in {"none", "storage_error", "talk_session_create_failed"}
      /\ s.pc # "done" => s.code = "none"
  BY <1>2, <1>3, ModelCount
<1>5. Shaped(s)
  BY <1>1, <1>2, <1>4 DEF Good, Shaped, Pcs, Codes
<1>6. BlockSound(s)
  BY <1>1, <1>2, <1>3, <1>4 DEF Good, BlockSound, Reading, BlockSettings, FlagNames, NumberNames
<1>7. PostsSound(s)
  BY <1>2, <1>3, <1>4 DEF PostsSound, Reading, BlockSettings, FlagNames, NumberNames
<1>8. Faithful(boot[b])'
  BY <1>1, <1>2, <1>4 DEF Faithful, Raw
<1> QED BY <1>2, <1>5, <1>6, <1>7, <1>8, Others DEF Good, IInv

LEMMA RecordStep ==
    ASSUME IInv, NEW b \in Boots, Record(b)
    PROVE  IInv'
<1> DEFINE r == boot[b]
           s == boot'[b]
<1>1. Good(r) /\ Faithful(r) /\ r.pc = "record" /\ DOMAIN r = Fields
  BY DEF IInv, Good, Record, Shaped
<1>2. /\ DOMAIN boot' = Boots /\ file' = file /\ sessions' \subseteq Boots
      /\ \A c \in Boots : c # b => boot'[c] = boot[c]
      /\ DOMAIN s = Fields /\ s.block = r.block /\ s.tuning = r.tuning
      /\ s.steady = r.steady /\ s.posts = r.posts /\ s.tried = r.tried
      /\ s.pc = "done" /\ s.code = "ok"
  BY <1>1 DEF Record, Answered, IInv, Fields
<1>3. Shaped(s)
  BY <1>1, <1>2 DEF Good, Shaped, Pcs, Codes
<1>4. BlockSound(s) /\ PostsSound(s)
  BY <1>1, <1>2 DEF Good, BlockSound, PostsSound, Reading, BlockSettings, FlagNames, NumberNames
<1>5. Faithful(boot[b])'
  BY <1>1, <1>2 DEF Faithful, Raw
<1> QED BY <1>2, <1>3, <1>4, <1>5, Others DEF Good, IInv

LEMMA BeginStep ==
    ASSUME IInv, NEW b \in Boots, NEW t \in Tunings, Begin(b, t)
    PROVE  IInv'
<1> DEFINE r == boot[b]
           s == boot'[b]
<1>1. Good(r) /\ r.pc = "idle" /\ DOMAIN r = Fields
  BY DEF IInv, Good, Begin, Shaped
<1>2. /\ DOMAIN boot' = Boots /\ file' = file /\ sessions' = sessions
      /\ \A c \in Boots : c # b => boot'[c] = boot[c]
      /\ DOMAIN s = Fields /\ s.block = r.block /\ s.tuning = t
      /\ s.steady = r.steady /\ s.posts = r.posts /\ s.tried = r.tried
      /\ s.pc = "key" /\ s.code = r.code
  BY <1>1 DEF Begin, IInv, Fields
<1>3. DOMAIN r.block = {} /\ r.code = "none" /\ r.posts = {}
  BY <1>1 DEF Good, BlockSound, PostsSound, Reading, ReadBefore
<1>4. Shaped(s)
  BY <1>1, <1>2 DEF Good, Shaped, Pcs, Settings
<1>5. BlockSound(s)
  BY <1>1, <1>2, <1>3 DEF Good, BlockSound, Reading, ReadBefore, NumberNames
<1>6. PostsSound(s)
  BY <1>1, <1>2, <1>3 DEF Good, PostsSound, Reading
<1>7. Faithful(boot[b])'
  BY <1>2, <1>3 DEF Faithful
<1> QED BY <1>2, <1>4, <1>5, <1>6, <1>7, Others DEF Good, IInv

-----------------------------------------------------------------------------
(* Steps around the bootstraps *)

\* A saved .env says something about the bootstraps that begin later.
LEMMA EditStep ==
    ASSUME IInv, NEW k \in Settings, NEW raw \in Raws[k], Edit(k, raw)
    PROVE  IInv'
<1>1. FileSound' /\ sessions' = sessions /\ DOMAIN boot' = Boots
  BY DEF IInv, FileSound, Edit
<1>2. ASSUME NEW b \in Boots PROVE Good(boot'[b]) /\ Faithful(boot[b])'
  <2>1. Good(boot[b]) /\ DOMAIN boot[b] = Fields
    BY DEF IInv, Good, Shaped
  <2>2. CASE boot[b].pc = "idle"
    <3>1. boot'[b] = boot[b]
      BY <2>2 DEF Edit
    <3> QED BY <2>1, <2>2, <3>1 DEF Faithful
  <2>3. CASE boot[b].pc # "idle"
    <3>1. boot'[b] = [boot[b] EXCEPT !.steady = FALSE]
      BY <2>3 DEF Edit
    <3>2. Good(boot'[b])
      BY <2>1, <3>1 DEF Good, Shaped, BlockSound, PostsSound, Fields
    <3>3. ~boot'[b].steady
      BY <2>1, <3>1 DEF Fields
    <3> QED BY <3>2, <3>3 DEF Faithful
  <2> QED BY <2>2, <2>3
<1> QED BY <1>1, <1>2 DEF IInv, Good, Shaped, BlockSound, PostsSound

LEMMA RestartStep ==
    ASSUME IInv, Restart
    PROVE  IInv'
<1>1. FileSound' /\ file' = file /\ sessions' \subseteq Boots /\ DOMAIN boot' = Boots
  BY DEF IInv, FileSound, Restart
<1>2. ASSUME NEW b \in Boots PROVE Good(boot'[b]) /\ Faithful(boot[b])'
  <2>1. Good(boot[b]) /\ Faithful(boot[b]) /\ DOMAIN boot[b] = Fields
    BY DEF IInv, Good, Shaped
  <2>2. CASE boot[b].pc = "idle"
    <3>1. boot'[b] = boot[b]
      BY <2>2 DEF Restart
    <3> QED BY <2>1, <2>2, <3>1 DEF Faithful
  <2>3. CASE boot[b].pc # "idle"
    <3> DEFINE r == boot[b]
               s == boot'[b]
    <3>1. s = [r EXCEPT !.pc = "done"]
      BY <2>3 DEF Restart
    <3>2. /\ DOMAIN s = Fields /\ s.pc = "done" /\ s.block = r.block
          /\ s.tuning = r.tuning /\ s.steady = r.steady /\ s.posts = r.posts
          /\ s.tried = r.tried /\ s.code = r.code
      BY <2>1, <3>1 DEF Fields
    <3>3. Shaped(s)
      BY <2>1, <3>2 DEF Good, Shaped, Pcs
    <3>4. BlockSound(s) /\ PostsSound(s)
      BY <2>1, <3>2 DEF Good, BlockSound, PostsSound, Reading, BlockSettings,
         FlagNames, NumberNames
    <3>5. Faithful(boot[b])'
      BY <1>1, <2>1, <2>3, <3>2 DEF Faithful, Raw
    <3> QED BY <3>3, <3>4, <3>5 DEF Good
  <2> QED BY <2>2, <2>3
<1> QED BY <1>1, <1>2 DEF IInv, Good, Shaped, BlockSound, PostsSound

-----------------------------------------------------------------------------
(* The specification *)

LEMMA Starts == Init => IInv
<1> SUFFICES ASSUME Init PROVE IInv
  OBVIOUS
<1>1. FileSound /\ sessions \subseteq Boots /\ DOMAIN boot = Boots
  BY VoiceAssumption DEF Init, FileSound
<1>2. ASSUME NEW b \in Boots PROVE Good(boot[b]) /\ Faithful(boot[b])
  <2>1. boot[b] = IdleBoot
    BY DEF Init
  <2>2. Shaped(IdleBoot)
    BY ModelCount DEF IdleBoot, Shaped, Fields, Pcs, Tunings, Codes
  <2>3. BlockSound(IdleBoot)
    BY DEF IdleBoot, BlockSound, Reading, ReadBefore, NumberNames
  <2>4. PostsSound(IdleBoot)
    BY ModelCount DEF IdleBoot, PostsSound
  <2>5. Faithful(boot[b])
    BY <2>1 DEF Faithful, IdleBoot
  <2> QED BY <2>1, <2>2, <2>3, <2>4, <2>5 DEF Good
<1> QED BY <1>1, <1>2 DEF IInv

LEMMA Steps == IInv /\ [Next]_vars => IInv'
<1> SUFFICES ASSUME IInv, [Next]_vars PROVE IInv'
  OBVIOUS
<1>1. ASSUME NEW b \in Boots, NEW t \in Tunings, Begin(b, t) PROVE IInv'
  BY <1>1, BeginStep
<1>2. ASSUME NEW b \in Boots, Step(b) PROVE IInv'
  <2>1. CASE ReadKey(b)
    BY <2>1, KeyStep
  <2>2. CASE Record(b)
    BY <2>2, RecordStep
  <2>3. CASE \E k \in BlockSettings : ReadSetting(b, k)
    BY <2>3, ReadStep
  <2>4. CASE \E said \in {"session", "refused", "odd"} : Offer(b, said)
    BY <2>4, OfferStep
  <2> QED BY <1>2, <2>1, <2>2, <2>3, <2>4 DEF Step
<1>3. ASSUME NEW b \in Boots, End(b) PROVE IInv'
  BY <1>3 DEF End, IInv, FileSound, Faithful, Raw
<1>4. ASSUME NEW k \in Settings, NEW raw \in Raws[k], Edit(k, raw) PROVE IInv'
  BY <1>4, EditStep
<1>5. CASE Restart
  BY <1>5, RestartStep
<1>6. CASE UNCHANGED vars
  BY <1>6 DEF vars, IInv, FileSound, Faithful, Raw
<1> QED BY <1>1, <1>2, <1>3, <1>4, <1>5, <1>6 DEF Next

\* IInv holds in every reachable state: what a handler has read when it comes to
\* its next step, and what it has offered.
THEOREM Inductive == Spec => []IInv
  BY Starts, Steps, PTL DEF Spec

\* Every field keeps its type, whatever .env and the environment hold.
THEOREM TypeCorrect == Spec => []TypeOK
<1>1. IInv => TypeOK
  BY DEF IInv, FileSound, Good, Shaped, BlockSound, TypeOK
<1> QED BY <1>1, Inductive, PTL

\* All models are offered one and the same configuration by a bootstrap.
THEOREM OneBlock == Spec => []OneConfiguration
<1>1. ASSUME IInv, NEW b \in Boots PROVE Cardinality(boot[b].posts) <= 1
  <2>1. boot[b].posts = {} \/ boot[b].posts = {boot[b].block}
    BY <1>1 DEF IInv, Good, PostsSound
  <2>2. Cardinality({}) = 0 /\ Cardinality({boot[b].block}) = 1
    BY FS_EmptySet, FS_Singleton
  <2> QED BY <2>1, <2>2
<1>2. IInv => OneConfiguration
  BY <1>1 DEF OneConfiguration
<1> QED BY <1>2, Inductive, PTL

\* Whatever is written in .env, and whenever, the provider is sent a block it takes.
THEOREM BlocksTaken == Spec => []AcceptableBlock
<1>1. IInv => AcceptableBlock
  BY DEF IInv, Good, PostsSound, Acceptable, AcceptableBlock
<1> QED BY <1>1, Inductive, PTL

\* While .env stays as it is, a bootstrap does what talk_readiness shows.
THEOREM ReadinessTrue == Spec => []AsReadinessShows
<1>1. ASSUME IInv, NEW b \in Boots, boot[b].steady, boot[b].pc # "idle",
             boot[b].posts # {}, boot[b].tuning \in {"normal", Junk}
      PROVE  boot[b].posts = {TurnDetection("normal")}
  <2> DEFINE block == boot[b].block
  <2>1. /\ boot[b].posts = {block}
        /\ block = [k \in DOMAIN block |-> block[k]]
        /\ DOMAIN block = FlagNames \cup {"type"} \cup Scoped(block["type"])
        /\ \A k \in DOMAIN block : block[k] = Coerced(k, Raw(k))
    BY <1>1 DEF IInv, Good, BlockSound, PostsSound, Acceptable, Faithful
  <2> HIDE DEF block
  <2>2. block["type"] = Coerced("type", Raw("type"))
    BY <2>1
  <2>3. TurnDetection("normal") =
          Joined(Valued(FlagNames), Valued({"type"} \cup Scoped(block["type"])))
    BY <2>2 DEF TurnDetection, HasPreset
  <2>4. block = TurnDetection("normal")
    BY <2>1, <2>3 DEF Joined, Valued
  <2> QED BY <2>1, <2>4
<1>2. IInv => AsReadinessShows
  BY <1>1 DEF IInv, Faithful, AsReadinessShows, Readiness
<1> QED BY <1>2, Inductive, PTL

\* What talk_readiness shows, and what a bootstrap would offer were it all read at
\* once, is a block that the provider takes: for every tuning off the wire and every
\* text that .env and the environment may hold (voice.py, resolve_turn_detection).
THEOREM ShownBlockTaken == \A tuning : Acceptable(TurnDetection(tuning))
<1> SUFFICES ASSUME NEW tuning PROVE Acceptable(TurnDetection(tuning))
  OBVIOUS
<1>1. ASSUME NEW S, S \subseteq BlockSettings
      PROVE  DOMAIN Valued(S) = S /\ \A k \in S : Valued(S)[k] \in Vetted(k)
  BY <1>1, CoercedVetted DEF Valued
<1>2. FlagNames \subseteq BlockSettings
  BY DEF BlockSettings
<1>3. CASE HasPreset(tuning)
  BY <1>1, <1>2, <1>3, PresetAcceptable DEF TurnDetection
<1>4. CASE ~HasPreset(tuning)
  <2> DEFINE type == Coerced("type", Raw("type"))
             S == {"type"} \cup Scoped(type)
             g == Joined(Valued(FlagNames), Valued(S))
  <2>1. type \in Types
    BY CoercedVetted DEF BlockSettings, Vetted, FlagNames
  <2>2. S \subseteq BlockSettings
    BY DEF Scoped, BlockSettings
  <2>3. /\ DOMAIN g = FlagNames \cup S
        /\ \A k \in DOMAIN g : g[k] \in Vetted(k)
    BY <1>1, <1>2, <2>2 DEF Joined
  <2>4. g["type"] = type
    BY <1>1, <2>2 DEF Joined, Valued
  <2>5. TurnDetection(tuning) = g
    BY <1>4 DEF TurnDetection
  <2>6. \/ type = "semantic_vad" /\ S = {"type", "eagerness"}
        \/ type = "server_vad" /\ S = {"type"} \cup NumberNames
    BY <2>1 DEF Types, Scoped
  <2> HIDE DEF g, S, type
  <2>7. Acceptable(g)
    BY <2>3, <2>4, <2>6, FullAcceptable
  <2> QED BY <2>5, <2>7
<1> QED BY <1>3, <1>4
=============================================================================
