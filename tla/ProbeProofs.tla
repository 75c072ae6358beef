---------------------------- MODULE ProbeProofs -----------------------------
(***************************************************************************)
(* The probe cache serves fresh answers without a lock, for any number of  *)
(* panes, whatever the gateway does and in whichever order threads store.  *)
(* The argument is that an entry's stamp is never later than the moment    *)
(* the gateway was last like the entry says.                               *)
(***************************************************************************)
EXTENDS Probe, TLAPS

Now == since[gateway] = 0

\* A stored result was the gateway's condition since the stamp it is stored under.
CacheHonest == cache.obs # "none" => since[cache.obs] <= cache.age

\* So was one on its way to the cache; no probe takes longer than MaxProbe.
ProbesHonest ==
    \A w \in Windows :
        /\ InFlight(w) => window[w].age <= MaxProbe
        /\ window[w].pc = "store" => /\ window[w].obs \in Conditions
                                     /\ since[window[w].obs] <= window[w].age

IInv == TypeOK /\ Now /\ CacheHonest /\ ProbesHonest

-----------------------------------------------------------------------------

Entry == [obs : Conditions \cup {"none"}, age : Age]

Pane == [pc : {"idle", "lookup", "probe", "store", "answered"},
         obs : Conditions \cup {"none"}, age : Age, shows : States]

\* Growing older keeps ages in range and in order.
LEMMA OlderGrows ==
    /\ Cap \in Nat /\ 0 \in Age /\ Cap \in Age /\ MaxProbe \in Age
    /\ \A a \in Age : Older(a) \in Age /\ a <= Older(a)
    /\ \A a, b \in Age : a <= b => Older(a) <= Older(b)
BY ProbeAssumption DEF Cap, Age, Older

\* A pane that is handed an answer.
LEMMA AnsweredPane ==
    ASSUME TypeOK, NEW w \in Windows, NEW obs \in Conditions, Answer(w, obs)
    PROVE  /\ window' \in [Windows -> Pane]
           /\ window'[w].pc = "answered" /\ window'[w].obs = obs
           /\ \A v \in Windows : v # w => window'[v] = window[v]
<1>1. StateOf(obs) \in States
  BY DEF StateOf, States
<1> DEFINE r == [IdleWindow EXCEPT !.pc = "answered", !.obs = obs,
                                   !.shows = IF backend = "failing" THEN "unknown" ELSE StateOf(obs)]
<1>2. window' = [window EXCEPT ![w] = r]
  BY DEF Answer, Put
<1>3. r \in Pane /\ r.pc = "answered" /\ r.obs = obs
  BY <1>1, OlderGrows DEF Pane, States, IdleWindow
<1>4. window \in [Windows -> Pane]
  BY DEF TypeOK, Pane
<1> HIDE DEF r
<1> QED BY <1>2, <1>3, <1>4

LEMMA InitInv == Init => IInv
<1> SUFFICES ASSUME Init PROVE IInv
  OBVIOUS
<1>1. TypeOK
  BY OlderGrows DEF Init, TypeOK, Empty, IdleWindow, States
<1>2. Now
  BY <1>1 DEF Init, Now, TypeOK
<1>3. CacheHonest
  BY DEF Init, CacheHonest, Empty
<1>4. ProbesHonest
  BY DEF Init, ProbesHonest, InFlight, IdleWindow
<1> QED BY <1>1, <1>2, <1>3, <1>4 DEF IInv

LEMMA NextInv == IInv /\ [Next]_vars => IInv'
<1> SUFFICES ASSUME IInv, [Next]_vars PROVE IInv'
  OBVIOUS
<1> USE OlderGrows
<1>0. window \in [Windows -> Pane] /\ (window' \in [Windows -> Pane] /\ cache' \in Entry
         /\ since' \in [Conditions -> Age] /\ gateway' \in Conditions
         /\ backend' \in {"serving", "failing", "unmounted", "down"} => TypeOK')
  BY DEF IInv, TypeOK, Pane, Entry
<1>1. ASSUME NEW w \in Windows, Poll(w) PROVE IInv'
  <2>1. PICK r \in Pane : /\ window' = [window EXCEPT ![w] = r] /\ r.pc \in {"idle", "lookup"}
    <3>1. CASE backend = "unmounted"
      <4>1. [IdleWindow EXCEPT !.shows = "notInstalled"] \in Pane
        BY DEF IdleWindow, Pane, States
      <4> QED BY <1>1, <3>1, <4>1 DEF Poll, Put, IdleWindow
    <3>2. CASE backend = "down"
      <4>1. [IdleWindow EXCEPT !.shows = "unknown"] \in Pane
        BY DEF IdleWindow, Pane, States
      <4> QED BY <1>1, <3>2, <4>1 DEF Poll, Put, IdleWindow
    <3>3. CASE backend \notin {"unmounted", "down"}
      <4> DEFINE r == [window[w] EXCEPT !.pc = "lookup", !.obs = "none"]
      <4>1. r \in Pane /\ r.pc = "lookup"
        BY <1>0 DEF Pane
      <4>2. window' = [window EXCEPT ![w] = r]
        BY <1>1, <3>3 DEF Poll, Put
      <4> QED BY <4>1, <4>2
    <3> QED BY <3>1, <3>2, <3>3
  <2>2. window' \in [Windows -> Pane] /\ \A v \in Windows :
           v # w => window'[v] = window[v]
    BY <1>0, <2>1
  <2>3. TypeOK' /\ Now' /\ CacheHonest'
    BY <1>0, <1>1, <2>2 DEF Poll, IInv, TypeOK, Entry, Now, CacheHonest
  <2>4. ProbesHonest'
    BY <1>0, <1>1, <2>1, <2>2 DEF Poll, IInv, ProbesHonest, InFlight
  <2> QED BY <2>3, <2>4 DEF IInv
<1>2. ASSUME NEW w \in Windows, Lookup(w) PROVE IInv'
  <2>1. CASE Fresh
    <3>1. cache.obs \in Conditions /\ Answer(w, cache.obs)
      BY <1>2, <2>1 DEF Lookup, Fresh, IInv, TypeOK
    <3>2. /\ window' \in [Windows -> Pane] /\ window'[w].pc = "answered"
          /\ \A v \in Windows : v # w => window'[v] = window[v]
      BY <3>1, AnsweredPane DEF IInv
    <3>3. TypeOK' /\ Now' /\ CacheHonest'
      BY <1>0, <1>2, <3>2 DEF Lookup, IInv, TypeOK, Entry, Now, CacheHonest
    <3>4. ProbesHonest'
      BY <1>2, <3>2 DEF Lookup, IInv, ProbesHonest, InFlight
    <3> QED BY <3>3, <3>4 DEF IInv
  <2>2. CASE ~Fresh
    <3> DEFINE r == [window[w] EXCEPT !.pc = "probe", !.age = 0]
    <3>1. window' = [window EXCEPT ![w] = r] /\ r \in Pane /\ r.pc = "probe" /\ r.age = 0
      BY <1>0, <1>2, <2>2 DEF Lookup, Put, Pane
    <3>2. /\ window' \in [Windows -> Pane] /\ window'[w].pc = "probe" /\ window'[w].age = 0
          /\ \A v \in Windows : v # w => window'[v] = window[v]
      BY <1>0, <3>1
    <3>3. TypeOK' /\ Now' /\ CacheHonest'
      BY <1>0, <1>2, <3>2 DEF Lookup, IInv, TypeOK, Entry, Now, CacheHonest
    <3>4. ProbesHonest'
      BY <1>2, <3>2, ProbeAssumption DEF Lookup, IInv, ProbesHonest, InFlight
    <3> QED BY <3>3, <3>4 DEF IInv
  <2> QED BY <2>1, <2>2
<1>3. ASSUME NEW w \in Windows, Observe(w) PROVE IInv'
  <2> DEFINE r == [window[w] EXCEPT !.pc = "store", !.obs = gateway]
  <2>1. /\ window' = [window EXCEPT ![w] = r] /\ r \in Pane
        /\ r.pc = "store" /\ r.obs = gateway /\ r.age = window[w].age
    BY <1>0, <1>3 DEF Observe, Put, Pane, IInv, TypeOK
  <2>2. /\ window' \in [Windows -> Pane] /\ window'[w].pc = "store"
        /\ window'[w].obs = gateway /\ window'[w].age = window[w].age
        /\ \A v \in Windows : v # w => window'[v] = window[v]
    BY <1>0, <2>1
  <2>3. TypeOK' /\ Now' /\ CacheHonest'
    BY <1>0, <1>3, <2>2 DEF Observe, IInv, TypeOK, Entry, Now, CacheHonest
  <2>4. window[w].age \in Nat /\ window[w].age <= MaxProbe
    BY <1>0, <1>3 DEF Observe, IInv, ProbesHonest, InFlight, Pane, Age
  <2>5. ProbesHonest'
    BY <1>3, <2>2, <2>4 DEF Observe, IInv, TypeOK, ProbesHonest, InFlight, Now
  <2> QED BY <2>3, <2>5 DEF IInv
<1>4. ASSUME NEW w \in Windows, Store(w) PROVE IInv'
  <2>1. window[w].obs \in Conditions /\ since[window[w].obs] <= window[w].age
    BY <1>4 DEF Store, IInv, ProbesHonest
  <2>2. /\ window' \in [Windows -> Pane] /\ window'[w].pc = "answered"
        /\ \A v \in Windows : v # w => window'[v] = window[v]
    BY <1>4, <2>1, AnsweredPane DEF Store, IInv
  <2>3. cache' \in Entry /\ CacheHonest'
    BY <1>0, <1>4, <2>1 DEF Store, Entry, Pane, CacheHonest
  <2>4. TypeOK' /\ Now'
    BY <1>0, <1>4, <2>2, <2>3 DEF Store, IInv, TypeOK, Now
  <2>5. ProbesHonest'
    BY <1>4, <2>2 DEF Store, IInv, ProbesHonest, InFlight
  <2> QED BY <2>3, <2>4, <2>5 DEF IInv
<1>5. CASE Tick
  <2>1. \A c \in Conditions : since'[c] = IF c = gateway THEN 0 ELSE Older(since[c])
    BY <1>5 DEF Tick, IInv, TypeOK
  <2>2. since' \in [Conditions -> Age]
    BY <1>5, <2>1 DEF Tick, IInv, TypeOK
  <2>3. cache' = [obs |-> cache.obs, age |-> Older(cache.age)] /\ cache' \in Entry
    BY <1>5 DEF Tick, IInv, TypeOK, Entry
  <2>4. CacheHonest'
    BY <2>1, <2>3 DEF IInv, TypeOK, CacheHonest, Age
  <2>5. \A v \in Windows :
           /\ window'[v] \in Pane
           /\ window'[v].pc = window[v].pc /\ window'[v].obs = window[v].obs
           /\ window'[v].age = IF InFlight(v) THEN Older(window[v].age) ELSE window[v].age
    <3> TAKE v \in Windows
    <3>1. window'[v] = IF InFlight(v) THEN [window[v] EXCEPT !.age = Older(@)] ELSE window[v]
      BY <1>5 DEF Tick
    <3>2. Older(window[v].age) \in Age
      BY <1>0 DEF Pane
    <3> HIDE DEF Older, Age
    <3> QED BY <1>0, <3>1, <3>2 DEF Pane
  <2>6. window' \in [Windows -> Pane]
    <3>1. window' = [v \in Windows |-> window'[v]]
      BY <1>5 DEF Tick
    <3> QED BY <2>5, <3>1
  <2>7. ProbesHonest'
    <3> SUFFICES ASSUME NEW v \in Windows
                 PROVE  /\ InFlight(v)' => window'[v].age <= MaxProbe
                        /\ window'[v].pc = "store" => /\ window'[v].obs \in Conditions
                                                      /\ since'[window'[v].obs] <= window'[v].age
      BY DEF ProbesHonest
    <3>1. CASE InFlight(v)
      <4>1. window[v].age < MaxProbe /\ window[v].age \in Age
        BY <1>0, <1>5, <3>1 DEF Tick, Pane
      <4>2. window'[v].age = window[v].age + 1
        <5>1. Older(window[v].age) = window[v].age + 1
          BY <4>1, ProbeAssumption DEF Older, Cap, Age
        <5> QED BY <2>5, <3>1, <5>1
      <4>3. window'[v].age <= MaxProbe
        BY <4>1, <4>2, ProbeAssumption DEF Age
      <4>4. ASSUME window[v].pc = "store" PROVE since'[window[v].obs] <= window'[v].age
        <5>1. window[v].obs \in Conditions /\ since[window[v].obs] <= window[v].age
          BY <4>4 DEF IInv, ProbesHonest
        <5>2. since[window[v].obs] \in Age
          BY <5>1 DEF IInv, TypeOK
        <5> QED BY <2>1, <4>1, <4>2, <5>1, <5>2, ProbeAssumption DEF Older, Age, Cap
      <4>5. window[v].pc = "store" => window[v].obs \in Conditions
        BY DEF IInv, ProbesHonest
      <4> QED BY <2>5, <4>3, <4>4, <4>5
    <3>2. CASE ~InFlight(v)
      <4>1. window'[v].pc \notin {"probe", "store"}
        BY <2>5, <3>2 DEF InFlight
      <4> QED BY <4>1 DEF InFlight
    <3> QED BY <3>1, <3>2
  <2>8. Now'
    BY <1>5, <2>1 DEF Tick, IInv, TypeOK, Now
  <2> QED BY <1>0, <1>5, <2>2, <2>3, <2>4, <2>6, <2>7, <2>8 DEF Tick, IInv, TypeOK
<1>6. ASSUME NEW c \in Conditions, Change(c) PROVE IInv'
  <2>1. \A e \in Conditions : since'[e] \in Age /\ since'[e] <= since[e] /\ since[e] \in Age
    BY <1>6 DEF Change, IInv, TypeOK, Age
  <2>2. since' \in [Conditions -> Age] /\ since'[c] = 0
    BY <1>6 DEF Change, IInv, TypeOK
  <2>3. TypeOK' /\ Now'
    BY <1>0, <1>6, <2>2 DEF Change, IInv, TypeOK, Entry, Now
  <2>4. CacheHonest'
    BY <1>6, <2>1 DEF Change, IInv, TypeOK, CacheHonest, Age
  <2>5. \A v \in Windows : window[v].age \in Nat
    BY <1>0 DEF Pane, Age
  <2>6. ProbesHonest'
    BY <1>6, <2>1, <2>5 DEF Change, IInv, ProbesHonest, InFlight, Age
  <2> QED BY <2>3, <2>4, <2>6 DEF IInv
<1>7. ASSUME NEW b \in {"serving", "failing", "unmounted"}, (Storage(b) /\ b # "unmounted") \/ Start(b)
      PROVE IInv'
  BY <1>0, <1>7 DEF Storage, Start, IInv, TypeOK, Entry, Now, CacheHonest, ProbesHonest, InFlight
<1>8. CASE Stop
  <2>1. cache' \in Entry /\ cache'.obs = "none"
    BY <1>8 DEF Stop, Empty, Entry
  <2>2. [IdleWindow EXCEPT !.shows = "unknown"].pc = "idle"
    BY DEF IdleWindow
  <2>3. [IdleWindow EXCEPT !.shows = "unknown"] \in Pane
    BY DEF IdleWindow, Pane, States
  <2>4. /\ window' \in [Windows -> Pane]
        /\ \A v \in Windows : window'[v].pc \in {"idle", "answered"}
    BY <1>0, <1>8, <2>2, <2>3 DEF Stop
  <2> QED BY <1>0, <1>8, <2>1, <2>4 DEF Stop, IInv, TypeOK, Now, CacheHonest, ProbesHonest, InFlight
<1>9. CASE UNCHANGED vars
  BY <1>9 DEF vars, IInv, TypeOK, Now, CacheHonest, ProbesHonest, InFlight
<1> QED BY <1>1, <1>2, <1>3, <1>4, <1>5, <1>6, <1>7, <1>8, <1>9 DEF Next, Serve

-----------------------------------------------------------------------------

\* The invariant holds in every behaviour.
THEOREM Inductive == Spec => []IInv
BY InitInv, NextInv, PTL DEF Spec

\* Type correctness of the cache and the panes (plugin_api.py, plugin.js).
THEOREM TypeCorrect == Spec => []TypeOK
<1>1. IInv => TypeOK
  BY DEF IInv
<1> QED BY <1>1, Inductive, PTL

\* One step hands out nothing stale.
LEMMA StepFresh ==
    ASSUME IInv, [Next]_vars
    PROVE  [\A w \in Windows :
              window'[w].pc = "answered" /\ window[w].pc # "answered" =>
                since[window'[w].obs] < IF window'[w].obs \in {"live", "absent"}
                                        THEN OkFloor ELSE FailFloor]_vars
<1> SUFFICES ASSUME Next, NEW w \in Windows,
                    window'[w].pc = "answered", window[w].pc # "answered"
             PROVE  since[window'[w].obs] < Floor(window'[w].obs)
  BY DEF Floor, Verdicts
<1>0. \A c \in Conditions : since[c] \in Nat /\ Floor(c) \in Nat
  BY ProbeAssumption DEF IInv, TypeOK, Age, Floor
<1>1. ASSUME NEW v \in Windows, Lookup(v) PROVE since[window'[w].obs] < Floor(window'[w].obs)
  <2>1. CASE Fresh
    <3>1. cache.obs \in Conditions /\ Answer(v, cache.obs)
      BY <1>1, <2>1 DEF Lookup, Fresh, IInv, TypeOK
    <3>2. w = v /\ window'[w].obs = cache.obs
      BY <3>1, AnsweredPane DEF IInv
    <3>3. since[cache.obs] <= cache.age /\ cache.age < Floor(cache.obs) /\ cache.age \in Nat
      BY <2>1, OlderGrows DEF Fresh, IInv, CacheHonest, TypeOK, Age
    <3> QED BY <1>0, <3>1, <3>2, <3>3
  <2>2. CASE ~Fresh
    BY <1>1, <2>2 DEF Lookup, Put, IInv, TypeOK
  <2> QED BY <2>1, <2>2
<1>2. ASSUME NEW v \in Windows, Store(v) PROVE since[window'[w].obs] < Floor(window'[w].obs)
  <2>1. /\ window[v].obs \in Conditions /\ since[window[v].obs] <= window[v].age
        /\ window[v].age <= MaxProbe /\ window[v].age \in Nat
    BY <1>2 DEF Store, IInv, ProbesHonest, InFlight, TypeOK, Age
  <2>2. w = v /\ window'[w].obs = window[v].obs
    BY <1>2, <2>1, AnsweredPane DEF Store, IInv
  <2>3. MaxProbe < Floor(window[v].obs)
    BY ProbeAssumption DEF Floor
  <2> QED BY <1>0, <2>1, <2>2, <2>3, ProbeAssumption
<1>3. ASSUME NEW v \in Windows, Poll(v) \/ Observe(v) PROVE FALSE
  BY <1>3 DEF Poll, Observe, Put, IdleWindow, IInv, TypeOK
<1>4. CASE Tick
  BY <1>4 DEF Tick, IInv, TypeOK
<1>5. ASSUME NEW c \in Conditions, Change(c) PROVE FALSE
  BY <1>5 DEF Change
<1>6. ASSUME NEW b, Storage(b) \/ Start(b) PROVE FALSE
  BY <1>6 DEF Storage, Start
<1>7. CASE Stop
  BY <1>7 DEF Stop, IdleWindow
<1> QED BY <1>1, <1>2, <1>3, <1>4, <1>5, <1>6, <1>7 DEF Next, Serve

\* What a pane is shown was so less than the entry's hold ago, however many
\* threads probe and store at once (plugin_api.py, probe_gateway_adapter).
THEOREM AnswersFresh == Spec => AnswerFresh
<1>1. IInv /\ [Next]_vars =>
        [\A w \in Windows :
           window'[w].pc = "answered" /\ window[w].pc # "answered" =>
             since[window'[w].obs] < IF window'[w].obs \in {"live", "absent"}
                                     THEN OkFloor ELSE FailFloor]_vars
  BY StepFresh
<1> QED BY <1>1, Inductive, PTL DEF Spec, AnswerFresh
=============================================================================
