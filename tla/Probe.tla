------------------------------- MODULE Probe -------------------------------
(***************************************************************************)
(* How the desktop pane learns whether the gateway serves Talaria: each    *)
(* window (desktop-plugin/plugin.js) polls the dashboard backend, which    *)
(* probes the gateway process (dashboard/plugin_api.py) and keeps the last *)
(* result in a cache without a lock.  FastAPI serves the polls on threads  *)
(* of a pool: one may be deep in a slow probe while another looks up the   *)
(* cache, probes and stores.  Time is kept as ages, in ticks.              *)
(***************************************************************************)
EXTENDS Naturals

CONSTANTS Windows,     \* panes; each has one request out at a time
          Conditions,  \* what a probe of the gateway may find
          OkFloor,     \* _PROBE_CACHE_OK_SECONDS, in ticks
          FailFloor,   \* _PROBE_CACHE_FAIL_SECONDS, in ticks
          MaxProbe     \* bound on how long a probe takes, in ticks

Observations == {"live", "absent", "unreachable", "indeterminate"}

ASSUME ProbeAssumption ==
    /\ Conditions \subseteq Observations
    /\ OkFloor \in Nat /\ FailFloor \in Nat /\ MaxProbe \in Nat
    /\ MaxProbe < FailFloor /\ FailFloor <= OkFloor

VARIABLES gateway,  \* what a probe would find now
          since,    \* [Conditions -> age]: since the gateway was last like that
          backend,  \* serving; failing, when it cannot read the store; unmounted,
                    \* without the plugin; down
          cache,    \* _probe_cache of the one target: [obs, age]
          window    \* [Windows -> [pc, obs, age, shows]]

vars == <<gateway, since, backend, cache, window>>

\* Ages stop here: older than any that is compared.
Cap == OkFloor + MaxProbe

Age == 0 .. Cap
Older(a) == IF a < Cap THEN a + 1 ELSE a

Empty == [obs |-> "none", age |-> Cap]

\* age: since the request's stamp, now().
IdleWindow == [pc |-> "idle", obs |-> "none", age |-> 0, shows |-> "loading"]

Verdicts == {"live", "absent"}

Floor(obs) == IF obs \in Verdicts THEN OkFloor ELSE FailFloor

States == {"loading", "unknown", "notInstalled", "installedNotLive", "live"}

\* Mutant: the pane shows what the probe found.
StateOfRaw(obs) == obs

\* stateOf, of a successful answer.
StateOf(obs) == IF obs = "live" THEN "live" ELSE "installedNotLive"

-----------------------------------------------------------------------------
(* The pane and the backend *)

Put(w, r) == window' = [window EXCEPT ![w] = r]

\* After the probe, /status reads the devices; if that fails the whole answer
\* does, and the pane claims no state.
Answer(w, obs) ==
    Put(w, [IdleWindow EXCEPT !.pc = "answered", !.obs = obs,
                              !.shows = IF backend = "failing" THEN "unknown" ELSE StateOf(obs)])

\* The pane's timer: a request goes out.  A backend without the plugin says 404,
\* one that is down says nothing.
Poll(w) ==
    /\ window[w].pc \in {"idle", "answered"}
    /\ CASE backend = "unmounted" -> Put(w, [IdleWindow EXCEPT !.shows = "notInstalled"])
         [] backend = "down" -> Put(w, [IdleWindow EXCEPT !.shows = "unknown"])
         [] OTHER -> Put(w, [window[w] EXCEPT !.pc = "lookup", !.obs = "none"])
    /\ UNCHANGED <<gateway, since, backend, cache>>

Fresh == cache.obs # "none" /\ cache.age < Floor(cache.obs)

\* probe_gateway_adapter: the stamp and the cache.
Lookup(w) ==
    /\ window[w].pc = "lookup"
    /\ IF Fresh THEN Answer(w, cache.obs)
       ELSE Put(w, [window[w] EXCEPT !.pc = "probe", !.age = 0])
    /\ UNCHANGED <<gateway, since, backend, cache>>

\* Mutant: a refused connection is not caught.
ObserveRaising(w) ==
    /\ window[w].pc = "probe"
    /\ Put(w, IF gateway = "unreachable" THEN [IdleWindow EXCEPT !.shows = "unknown"]
              ELSE [window[w] EXCEPT !.pc = "store", !.obs = gateway])
    /\ UNCHANGED <<gateway, since, backend, cache>>

\* _probe_once: the gateway answers as it is at some moment of the probe.
Observe(w) ==
    /\ window[w].pc = "probe"
    /\ Put(w, [window[w] EXCEPT !.pc = "store", !.obs = gateway])
    /\ UNCHANGED <<gateway, since, backend, cache>>

\* Mutant: the entry is stamped when it is stored.
StoreRestamped(w) ==
    /\ window[w].pc = "store"
    /\ cache' = [obs |-> window[w].obs, age |-> 0]
    /\ Answer(w, window[w].obs)
    /\ UNCHANGED <<gateway, since, backend>>

\* The result is stored under the stamp of the lookup, over what another thread
\* may have stored meanwhile.
Store(w) ==
    /\ window[w].pc = "store"
    /\ cache' = [obs |-> window[w].obs, age |-> window[w].age]
    /\ Answer(w, window[w].obs)
    /\ UNCHANGED <<gateway, since, backend>>

-----------------------------------------------------------------------------
(* The world *)

InFlight(w) == window[w].pc \in {"probe", "store"}

Tick ==
    /\ \A w \in Windows : InFlight(w) => window[w].age < MaxProbe
    /\ since' = [c \in Conditions |-> IF c = gateway THEN 0 ELSE Older(since[c])]
    /\ cache' = [cache EXCEPT !.age = Older(@)]
    /\ window' = [w \in Windows |-> IF InFlight(w)
                                    THEN [window[w] EXCEPT !.age = Older(@)] ELSE window[w]]
    /\ UNCHANGED <<gateway, backend>>

\* The gateway starts, stops, or loses or gains the plugin.
Change(c) ==
    /\ gateway' = c
    /\ since' = [since EXCEPT ![c] = 0]
    /\ UNCHANGED <<backend, cache, window>>

\* The store becomes readable or unreadable under the backend.
Storage(b) ==
    /\ backend \in {"serving", "failing"}
    /\ backend' = b
    /\ UNCHANGED <<gateway, since, cache, window>>

\* The backend's process ends: its cache is gone, what was asked of it fails.
Stop ==
    /\ backend' = "down"
    /\ cache' = Empty
    /\ window' = [w \in Windows |-> IF window[w].pc \in {"idle", "answered"} THEN window[w]
                                    ELSE [IdleWindow EXCEPT !.shows = "unknown"]]
    /\ UNCHANGED <<gateway, since>>

Start(b) ==
    /\ backend = "down"
    /\ backend' = b
    /\ UNCHANGED <<gateway, since, cache, window>>

Init == /\ gateway \in Conditions
        /\ since = [c \in Conditions |-> IF c = gateway THEN 0 ELSE Cap]
        /\ backend = "down"
        /\ cache = Empty
        /\ window = [w \in Windows |-> IdleWindow]

Serve(w) == Poll(w) \/ Lookup(w) \/ Observe(w) \/ Store(w)

Next == \/ \E w \in Windows : Serve(w)
        \/ Tick
        \/ \E c \in Conditions : Change(c)
        \/ \E b \in {"serving", "failing"} : Storage(b)
        \/ \E b \in {"serving", "unmounted"} : Start(b)
        \/ Stop

\* Clocks run, panes poll and the pool serves them.  Nothing is assumed of the
\* gateway and of restarts.
Spec == /\ Init /\ [][Next]_vars
        /\ WF_vars(Tick)
        /\ \A w \in Windows : WF_vars(Serve(w))

-----------------------------------------------------------------------------
(* Correctness *)

\* The cache, the clockwork and the panes have their shapes.
TypeOK ==
    /\ gateway \in Conditions
    /\ since \in [Conditions -> Age]
    /\ backend \in {"serving", "failing", "unmounted", "down"}
    /\ cache \in [obs : Conditions \cup {"none"}, age : Age]
    /\ window \in [Windows -> [pc : {"idle", "lookup", "probe", "store", "answered"},
                               obs : Conditions \cup {"none"}, age : Age, shows : States]]

\* "Verdicts hold for 60 s; non-verdicts retry after 10 s so a recovered gateway
\* isn't reported down for a minute" (plugin_api.py): what an answer says was so
\* less than that long ago, whichever thread stored it and in whichever order.
AnswerFresh ==
    [][\A w \in Windows :
         window'[w].pc = "answered" /\ window[w].pc # "answered" =>
           since[window'[w].obs] < IF window'[w].obs \in {"live", "absent"}
                                   THEN OkFloor ELSE FailFloor]_vars

\* "A racing double-probe is harmless" (plugin_api.py): once the gateway stays as
\* it is and the backend serves, every pane comes to show that and stays with it.
PaneCatchesUp ==
    \A w \in Windows, c \in Conditions :
        <>[](gateway = c /\ backend = "serving") => <>[](window[w].shows = StateOf(c))
=============================================================================
