----------------------------- MODULE HubProofs -----------------------------
(***************************************************************************)
(* No lost wake in Hub, for any number of devices, drains and tool calls:  *)
(* unless a call began before its device had ever parked, no park is ended *)
(* from another thread, and no drain sleeps over a query a tool waits on.  *)
(***************************************************************************)
EXTENDS Hub, TLAPS

Served == \A h \in Drains : drain[h].pc # "idle" => drain[h].dev \in Devices

Asking == \A t \in Tools : tool[t].pc # "idle" => tool[t].dev \in Devices

\* A caller that has looked the event up and set out to wake has one; one that
\* has worked out what remains of a list knows whose list it was.
Found == \A t \in Tools : /\ tool[t].pc \in {"loop", "inline"} => tool[t].ev \in Makers
                          /\ tool[t].pc = "write" => tool[t].at \in Devices

Begun == \A t \in early : tool[t].pc # "idle"

Shape == TypeOK /\ Served /\ Asking /\ Found /\ Begun

\* A calm device that has parked has its event, and one that has not has no caller.
Known(d) == /\ d \in loopOf => event[d] # Nobody
            /\ d \notin loopOf => \A t \in Tools : tool[t].pc # "idle" => tool[t].dev # d

\* Every drain and every call of a calm device is on the device's one event: nobody
\* makes it a second one or sets it inline.
DrainOld(r) ==
    /\ Calm(r.dev) =>
          /\ r.pc = "make" => event[r.dev] = Nobody
          /\ r.pc \in {"loop", "check", "wait", "parked"} =>
                r.ev = event[r.dev] /\ event[r.dev] # Nobody
          /\ r.pc # "idle" => r.nudge # "quiet"
    /\ r.pc = "idle" => r.nudge = "no"

ToolOld(r) == Calm(r.dev) => /\ r.pc \notin {"make", "inline"}
                             /\ r.pc = "loop" => r.ev = event[r.dev]

OldLoop == \A d \in Devices : Calm(d) => Known(d)
OldDrains == \A h \in Drains : DrainOld(drain[h])
OldTools == \A t \in Tools : ToolOld(tool[t])

Old == OldLoop /\ OldDrains /\ OldTools

\* The HTTP loop is inside of one park at a time, and no drain waits on a set event.
Enters == {"event", "make", "loop", "check", "wait"}

Alone == \A h \in Drains : drain[h].pc \in Enters => busy = h

FlagSeen == \A h \in Drains :
    drain[h].pc = "parked" /\ <<drain[h].dev, drain[h].ev>> \in flag => drain[h].nudge # "no"

Parks == Alone /\ FlagSeen

\* Whoever holds a device's list holds one that was made for it.
Tagged == /\ \A d \in Devices : queries[d] # Nobody => queries[d][3] = d
          /\ \A t \in Tools :
               /\ tool[t].pc = "append" => tool[t].list \in Lists /\ tool[t].list[3] = tool[t].dev
               /\ \A d \in Devices : tool[t].old[d] # Nobody => tool[t].old[d][3] = d

\* A query in a list is its device's and has been appended, and it is in the list
\* that is the device's now unless it was taken or dropped.  So is one that a discard
\* means to write back.
Appended(t, d) == tool[t].dev = d /\ tool[t].pc \notin {"idle", "list", "append"}

Placed(t, d) == Appended(t, d) /\ (t \in Queue(d) \cup taken \cup dropped \/ ~Waiting(t))

Listed == \A l \in Lists, t \in Tools : t \in items[l] => Placed(t, l[3])

Kept == \A u, t \in Tools :
    tool[u].pc = "write" /\ t \in tool[u].keep => Placed(t, tool[u].at)

Queries == Tagged /\ Listed /\ Kept

\* Drain h of a calm device parks or is parked over a query.
Over(h, t, d) == /\ drain[h].dev = d /\ Calm(d)
                 /\ drain[h].pc \in Enters \cup {"parked"} /\ drain[h].nudge # "yes"
                 /\ t \in Queue(d) \ (taken \cup dropped) /\ Waiting(t)

Coming(d) == \/ <<d, event[d]>> \in ready
             \/ \E u \in Tools : /\ tool[u].pc \in {"register", "event", "make", "loop"}
                                /\ tool[u].dev = d

Awake == \A h \in Drains, t \in Tools, d \in Devices : Over(h, t, d) => Coming(d)

IInv == Shape /\ Old /\ Parks /\ Queries /\ Awake

-----------------------------------------------------------------------------
(* Shapes *)

LEMMA Shapes ==
    /\ IdleDrain \in Drain /\ IdleTool \in Tool
    /\ \A r \in Drain, pc \in {"event", "make", "loop", "check", "wait", "parked", "retake", "reply"} :
         [r EXCEPT !.pc = pc] \in Drain
    /\ \A r \in Drain, how \in {"quiet", "yes"} : [r EXCEPT !.nudge = how] \in Drain
    /\ \A r \in Drain, e \in Makers : [r EXCEPT !.pc = "loop", !.ev = e] \in Drain
    /\ \A r \in Drain, got \in SUBSET Tools : [r EXCEPT !.pc = "reply", !.got = got] \in Drain
    /\ \A d \in Devices : [IdleDrain EXCEPT !.pc = "event", !.dev = d] \in Drain
    /\ \A d \in Devices, got \in SUBSET Tools :
         [IdleDrain EXCEPT !.pc = "reply", !.dev = d, !.got = got] \in Drain
<1>1. IdleTool \in Tool
  BY DEF IdleTool, Tool, NoLists
<1> QED BY <1>1 DEF IdleDrain, Drain

LEMMA ShapeInit == Init => Shape
<1> SUFFICES ASSUME Init PROVE Shape
  OBVIOUS
<1>1. drain \in [Drains -> Drain] /\ tool \in [Tools -> Tool]
  BY Shapes DEF Init
<1>2. Served /\ Asking /\ Found /\ Begun
  BY DEF Init, Served, Asking, Found, Begun, IdleDrain, IdleTool
<1>3. event \in [Devices -> Makers \cup {Nobody}] /\ loopOf \subseteq Devices
  BY DEF Init, Makers
<1>4. queries \in [Devices -> Lists \cup {Nobody}] /\ items \in [Lists -> SUBSET Tools]
  BY DEF Init, NoLists
<1> QED BY <1>1, <1>2, <1>3, <1>4 DEF Init, Shape, TypeOK

\* What a drain would find are queries.
LEMMA QueueTyped == Shape => \A d \in Devices : Queue(d) \in SUBSET Tools
BY DEF Shape, TypeOK, Queue

\* What set() does to the drains: it resolves the waiters of the event.
LEMMA SetDrains ==
    ASSUME Shape, NEW e \in Event, NEW how \in {"quiet", "yes"}, Set(e, how)
    PROVE  /\ drain' \in [Drains -> Drain]
           /\ \A h \in Drains :
                /\ drain'[h].pc = drain[h].pc /\ drain'[h].dev = drain[h].dev
                /\ drain'[h].ev = drain[h].ev
                /\ drain'[h].nudge = IF /\ drain[h].pc = "parked" /\ drain[h].nudge = "no"
                                        /\ <<drain[h].dev, drain[h].ev>> = e /\ e \notin flag
                                     THEN how ELSE drain[h].nudge
           /\ flag' = flag \cup {e}
<1>1. ASSUME NEW h \in Drains
      PROVE  /\ drain'[h] \in Drain
             /\ drain'[h].pc = drain[h].pc /\ drain'[h].dev = drain[h].dev
             /\ drain'[h].ev = drain[h].ev
             /\ drain'[h].nudge = IF /\ drain[h].pc = "parked" /\ drain[h].nudge = "no"
                                     /\ <<drain[h].dev, drain[h].ev>> = e /\ e \notin flag
                                  THEN how ELSE drain[h].nudge
  <2> DEFINE waits == /\ drain[h].pc = "parked" /\ drain[h].nudge = "no"
                      /\ <<drain[h].dev, drain[h].ev>> = e /\ e \notin flag
  <2>1. drain[h] \in Drain
    BY DEF Shape, TypeOK
  <2>2. CASE waits
    <3>1. drain'[h] = [drain[h] EXCEPT !.nudge = how]
      BY <2>2 DEF Set
    <3> QED BY <2>1, <2>2, <3>1 DEF Drain
  <2>3. CASE ~waits
    <3>1. drain'[h] = drain[h]
      BY <2>3 DEF Set
    <3> QED BY <2>1, <2>3, <3>1
  <2> QED BY <2>2, <2>3
<1>2. drain' \in [Drains -> Drain]
  <2>1. drain' = [h \in Drains |-> drain'[h]]
    BY DEF Set
  <2> QED BY <1>1, <2>1
<1> QED BY <1>1, <1>2 DEF Set

\* One drain becomes r.
LEMMA DrainMoved ==
    ASSUME Shape, NEW h \in Drains, NEW r \in Drain, drain' = [drain EXCEPT ![h] = r],
           r.pc # "idle" => r.dev \in Devices
    PROVE  /\ drain' \in [Drains -> Drain] /\ Served'
           /\ drain'[h] = r /\ \A g \in Drains : g # h => drain'[g] = drain[g]
BY DEF Shape, TypeOK, Served

\* A drain goes on to pc.
LEMMA DrainSteps ==
    ASSUME Shape, NEW h \in Drains, drain[h].pc # "idle",
           NEW pc \in {"event", "make", "loop", "check", "wait", "parked", "retake", "reply"},
           drain' = Step(h, pc)
    PROVE  /\ drain' \in [Drains -> Drain] /\ Served'
           /\ drain'[h].pc = pc /\ drain'[h].dev = drain[h].dev
           /\ drain'[h].ev = drain[h].ev /\ drain'[h].nudge = drain[h].nudge
           /\ \A g \in Drains : g # h => drain'[g] = drain[g]
<1> DEFINE r == [drain[h] EXCEPT !.pc = pc]
<1>1. drain[h] \in Drain /\ drain[h].dev \in Devices
  BY DEF Shape, TypeOK, Served
<1>2. /\ r.pc = pc /\ r.dev = drain[h].dev
      /\ r.ev = drain[h].ev /\ r.nudge = drain[h].nudge
  BY <1>1 DEF Drain
<1>m. r \in Drain
  BY <1>1, Shapes
<1>3. drain' = [drain EXCEPT ![h] = r]
  BY DEF Step
<1> HIDE DEF r
<1> QED BY <1>1, <1>2, <1>m, <1>3, DrainMoved

\* One tool becomes r.
LEMMA ToolMoved ==
    ASSUME Shape, NEW t \in Tools, NEW r \in Tool, tool' = [tool EXCEPT ![t] = r],
           r.pc # "idle", r.dev \in Devices, r.pc \in {"loop", "inline"} => r.ev \in Makers,
           r.pc = "write" => r.at \in Devices, early' \subseteq early \cup {t}
    PROVE  /\ tool' \in [Tools -> Tool] /\ Asking' /\ Found' /\ Begun'
           /\ tool'[t] = r /\ \A u \in Tools : u # t => tool'[u] = tool[u]
BY DEF Shape, TypeOK, Asking, Found, Begun

LEMMA ShapeDrain == ASSUME Shape, NEW h \in Drains, Serve(h) PROVE Shape'
<1>0. drain[h] \in Drain /\ tool \in [Tools -> Tool]
  BY DEF Shape, TypeOK
<1>d. drain[h].pc # "idle" => drain[h].dev \in Devices
  BY DEF Shape, Served
<1>t. ASSUME tool' = tool, early' = early PROVE Asking' /\ Found' /\ Begun'
  BY <1>t DEF Shape, Asking, Found, Begun
<1>1. ASSUME NEW d \in Devices, Take(h, d) PROVE Shape'
  <2>1. Queue(d) \in SUBSET Tools
    BY QueueTyped
  <2>2. drain' \in [Drains -> Drain] /\ Served' /\ busy' \in Drains \cup {Nobody}
    <3>1. CASE /\ drain' = [drain EXCEPT ![h] = [IdleDrain EXCEPT !.pc = "reply", !.dev = d,
                                                                  !.got = Queue(d)]]
               /\ UNCHANGED busy
      <4> DEFINE r == [IdleDrain EXCEPT !.pc = "reply", !.dev = d, !.got = Queue(d)]
      <4>1. r \in Drain /\ r.dev = d
        BY <2>1, Shapes DEF IdleDrain
      <4> QED BY <3>1, <4>1, DrainMoved DEF Shape, TypeOK
    <3>2. CASE /\ drain' = [drain EXCEPT ![h] = [IdleDrain EXCEPT !.pc = "event", !.dev = d]]
               /\ busy' = h
      <4> DEFINE r == [IdleDrain EXCEPT !.pc = "event", !.dev = d]
      <4>1. r \in Drain /\ r.dev = d
        BY Shapes DEF IdleDrain
      <4> QED BY <3>2, <4>1, DrainMoved
    <3> QED BY <1>1, <3>1, <3>2 DEF Take
  <2>3. queries' \in [Devices -> Lists \cup {Nobody}] /\ taken' \subseteq Tools
    BY <1>1, <2>1 DEF Take, Shape, TypeOK
  <2> QED BY <1>1, <1>t, <2>2, <2>3 DEF Take, Shape, TypeOK
<1>2. CASE ParkEvent(h)
  <2>1. drain[h].dev \in Devices
    BY <1>2, <1>d DEF ParkEvent
  <2>2. drain' \in [Drains -> Drain] /\ Served'
    <3> DEFINE e == event[drain[h].dev]
    <3>1. CASE e = Nobody
      BY <1>2, <3>1, DrainSteps DEF ParkEvent
    <3>2. CASE e # Nobody
      <4> DEFINE r == [drain[h] EXCEPT !.pc = "loop", !.ev = e]
      <4>1. e \in Makers
        BY <2>1, <3>2 DEF Shape, TypeOK
      <4>2. r \in Drain
        BY <1>0, <4>1, Shapes
      <4>3. r.dev = drain[h].dev
        BY <1>0 DEF Drain
      <4> QED BY <1>2, <2>1, <3>2, <4>2, <4>3, DrainMoved DEF ParkEvent
    <3> QED BY <3>1, <3>2
  <2> QED BY <1>2, <1>t, <2>2 DEF ParkEvent, hub, lists, past, Shape, TypeOK
<1>3. CASE ParkMake(h)
  <2>1. drain' \in [Drains -> Drain] /\ Served'
    BY <1>3, DrainSteps DEF ParkMake
  <2>2. event' \in [Devices -> Makers \cup {Nobody}]
    BY <1>3 DEF ParkMake, Makers, Shape, TypeOK
  <2> QED BY <1>3, <1>t, <2>1, <2>2 DEF ParkMake, lists, past, Shape, TypeOK
<1>4. CASE ParkLoop(h)
  <2>1. drain' \in [Drains -> Drain] /\ Served' /\ drain[h].dev \in Devices
    BY <1>4, <1>d, DrainSteps DEF ParkLoop
  <2> QED BY <1>4, <1>t, <2>1 DEF ParkLoop, lists, past, Shape, TypeOK
<1>5. ASSUME drain[h].pc # "idle", NEW next \in {"wait", "parked"}, Consume(h, next)
      PROVE  Shape'
  <2>1. /\ drain' = Step(h, "retake") \/ drain' = Step(h, next)
        /\ flag' = flag \ {<<drain[h].dev, drain[h].ev>>} \/ flag' = flag
        /\ busy' = Nobody \/ busy' = busy
        /\ UNCHANGED <<lists, future, event, loopOf, ready, tool, past>>
    BY <1>5 DEF Consume
  <2>2. drain' \in [Drains -> Drain] /\ Served'
    BY <1>5, <2>1, DrainSteps
  <2> QED BY <1>t, <2>1, <2>2 DEF lists, past, Shape, TypeOK
<1>6. CASE Woken(h) \/ ParkTimeout(h)
  <2>1. drain' \in [Drains -> Drain] /\ Served'
    BY <1>6, DrainSteps DEF Woken, ParkTimeout
  <2> QED BY <1>6, <1>t, <2>1 DEF Woken, ParkTimeout, hub, lists, past, Shape, TypeOK
<1>7. CASE Retake(h)
  <2>1. drain[h].dev \in Devices /\ Queue(drain[h].dev) \in SUBSET Tools
    BY <1>7, <1>d, QueueTyped DEF Retake
  <2>2. drain' \in [Drains -> Drain] /\ Served'
    <3> DEFINE r == [drain[h] EXCEPT !.pc = "reply", !.got = Queue(drain[h].dev)]
    <3>1. r \in Drain
      BY <1>0, <2>1, Shapes
    <3>2. r.dev = drain[h].dev
      BY <1>0 DEF Drain
    <3> QED BY <1>7, <2>1, <3>1, <3>2, DrainMoved DEF Retake
  <2>3. queries' \in [Devices -> Lists \cup {Nobody}] /\ taken' \subseteq Tools
    BY <1>7, <2>1 DEF Retake, Shape, TypeOK
  <2> QED BY <1>7, <1>t, <2>2, <2>3 DEF Retake, Shape, TypeOK
<1>8. CASE Reply(h) \/ HangUp(h)
  <2>1. drain' = [drain EXCEPT ![h] = IdleDrain]
    BY <1>8 DEF Reply, HangUp
  <2>2. drain' \in [Drains -> Drain] /\ Served'
    BY <2>1, Shapes, DrainMoved DEF IdleDrain
  <2>3. shown' \in [Devices -> SUBSET Tools]
    BY <1>0, <1>8 DEF Reply, HangUp, past, Shape, TypeOK, Drain
  <2> QED BY <1>8, <1>t, <2>2, <2>3 DEF Reply, HangUp, hub, lists, past, Shape, TypeOK
<1> QED BY <1>1, <1>2, <1>3, <1>4, <1>5, <1>6, <1>7, <1>8
        DEF Serve, Parking, ParkCheck, ParkWait

\* A call goes on to pc, with the event it has.
LEMMA ToolSteps ==
    ASSUME Shape, NEW t \in Tools, tool[t].pc # "idle",
           NEW pc \in {"event", "make", "inline"},
           pc = "inline" => tool[t].ev \in Makers,
           tool' = Go(t, pc), early' = early
    PROVE  /\ tool' \in [Tools -> Tool] /\ Asking' /\ Found' /\ Begun'
           /\ tool'[t].pc = pc /\ tool'[t].dev = tool[t].dev /\ tool'[t].ev = tool[t].ev
           /\ \A u \in Tools : u # t => tool'[u] = tool[u]
<1> DEFINE r == [tool[t] EXCEPT !.pc = pc]
<1>1. tool[t] \in Tool /\ tool[t].dev \in Devices
  BY DEF Shape, TypeOK, Asking
<1>2. /\ r \in Tool /\ r.pc = pc /\ r.dev = tool[t].dev /\ r.ev = tool[t].ev
  BY <1>1 DEF Tool
<1>3. tool' = [tool EXCEPT ![t] = r]
  BY DEF Go
<1> HIDE DEF r
<1> QED BY <1>1, <1>2, <1>3, ToolMoved

\* A call of a discard goes on to its next list, or is done.
LEMMA SiftedTool ==
    ASSUME Shape, NEW t \in Tools, tool[t].pc = "write", tool' = Sifted(t), early' = early
    PROVE  /\ tool' \in [Tools -> Tool] /\ Asking' /\ Found' /\ Begun'
           /\ tool'[t].pc \in {"sift", "done"} /\ tool'[t].dev = tool[t].dev
           /\ tool'[t].answer = tool[t].answer
           /\ \A d \in Devices : tool'[t].old[d] = tool[t].old[d] \/ tool'[t].old[d] = Nobody
           /\ \A u \in Tools : u # t => tool'[u] = tool[u]
<1> DEFINE rest == [tool[t].old EXCEPT ![tool[t].at] = Nobody]
           pc == IF rest = NoLists THEN "done" ELSE "sift"
           r == [tool[t] EXCEPT !.pc = pc, !.old = rest, !.at = Nobody, !.keep = {}]
<1>1. tool[t] \in Tool /\ tool[t].dev \in Devices
  BY DEF Shape, TypeOK, Asking
<1>2. /\ rest \in [Devices -> Lists \cup {Nobody}]
      /\ \A d \in Devices : rest[d] = tool[t].old[d] \/ rest[d] = Nobody
  BY <1>1 DEF Tool
<1>3. pc \in {"sift", "done"}
  OBVIOUS
<1>4. tool' = [tool EXCEPT ![t] = r]
  BY DEF Sifted
<1> HIDE DEF rest, pc
<1>5. /\ r \in Tool /\ r.pc = pc /\ r.dev = tool[t].dev /\ r.answer = tool[t].answer
      /\ r.old = rest
  <2>1. {} \in SUBSET Tools
    OBVIOUS
  <2> QED BY <1>1, <1>2, <1>3, <2>1 DEF Tool
<1> HIDE DEF r
<1> QED BY <1>1, <1>2, <1>3, <1>4, <1>5, ToolMoved

\* A discard looks at the dictionary ...
LEMMA DiscardTool ==
    ASSUME Shape, NEW t \in Tools, Discard(t)
    PROVE  /\ tool[t].pc = "discard" /\ tool'[t].pc \in {"sift", "done"}
           /\ tool'[t].dev = tool[t].dev /\ tool'[t].answer = tool[t].answer
           /\ tool'[t].old = queries
           /\ \A u \in Tools : u # t => tool'[u] = tool[u]
<1> DEFINE pc == IF queries = NoLists THEN "done" ELSE "sift"
           r == [tool[t] EXCEPT !.pc = pc, !.old = queries]
<1>1. pc \in {"done", "sift"}
  OBVIOUS
<1>2. tool \in [Tools -> Tool] /\ tool[t] \in Tool
  BY DEF Shape, TypeOK
<1>3. tool' = [tool EXCEPT ![t] = r] /\ tool[t].pc = "discard"
  BY DEF Discard
<1> HIDE DEF pc
<1>4. r.pc = pc /\ r.dev = tool[t].dev /\ r.answer = tool[t].answer /\ r.old = queries
  BY <1>2 DEF Tool
<1> HIDE DEF r
<1> QED BY <1>1, <1>2, <1>3, <1>4

\* ... and at one of its lists.
LEMMA SiftTool ==
    ASSUME Shape, NEW t \in Tools, NEW d \in Devices, Sift(t, d)
    PROVE  /\ tool[t].pc = "sift" /\ tool'[t].pc = "write" /\ tool'[t].dev = tool[t].dev
           /\ tool'[t].answer = tool[t].answer /\ tool'[t].old = tool[t].old
           /\ tool'[t].at = d /\ tool'[t].keep = items[tool[t].old[d]] \ {t}
           /\ tool[t].old[d] \in Lists /\ \A u \in Tools : u # t => tool'[u] = tool[u]
<1> DEFINE keep == items[tool[t].old[d]] \ {t}
           r == [tool[t] EXCEPT !.pc = "write", !.at = d, !.keep = keep]
<1>1. tool \in [Tools -> Tool] /\ tool[t] \in Tool
  BY DEF Shape, TypeOK
<1>2. tool' = [tool EXCEPT ![t] = r] /\ tool[t].pc = "sift" /\ tool[t].old[d] # Nobody
  BY DEF Sift
<1>3. tool[t].old[d] \in Lists
  BY <1>1, <1>2 DEF Tool
<1> HIDE DEF keep
<1>4. /\ r.pc = "write" /\ r.dev = tool[t].dev /\ r.answer = tool[t].answer
      /\ r.old = tool[t].old /\ r.at = d /\ r.keep = keep
  BY <1>1 DEF Tool
<1> HIDE DEF r
<1> QED BY <1>1, <1>2, <1>3, <1>4 DEF keep

LEMMA ShapeTool ==
    ASSUME Shape, NEW t \in Tools, Run(t) \/ Timeout(t) \/ \E d \in Devices : Ask(t, d)
    PROVE  Shape'
<1>0. tool[t] \in Tool /\ tool \in [Tools -> Tool]
  BY DEF Shape, TypeOK
<1>d. tool[t].pc # "idle" => tool[t].dev \in Devices
  BY DEF Shape, Asking
<1>r. ASSUME UNCHANGED <<hub, busy, drain, shown, taken, dropped>>, early' \subseteq Tools,
             tool' \in [Tools -> Tool], Asking', Found', Begun'
      PROVE  Shape'
  BY <1>r DEF hub, lists, Shape, TypeOK, Served
<1>e. early \subseteq Tools
  BY DEF Shape, TypeOK
<1>1. ASSUME NEW d \in Devices, Ask(t, d) PROVE Shape'
  <2> DEFINE r == [tool[t] EXCEPT !.pc = "list", !.dev = d]
  <2>1. r \in Tool /\ r.pc = "list" /\ r.dev = d
    BY <1>0 DEF Tool
  <2>2. /\ tool' = [tool EXCEPT ![t] = r] /\ UNCHANGED <<hub, busy, drain, shown, taken, dropped>>
        /\ early' \subseteq early \cup {t}
    BY <1>1 DEF Ask
  <2> HIDE DEF r
  <2>3. tool' \in [Tools -> Tool] /\ Asking' /\ Found' /\ Begun'
    BY <2>1, <2>2, ToolMoved
  <2> QED BY <1>e, <1>r, <2>2, <2>3
<1>2. CASE List(t)
  <2> DEFINE d == tool[t].dev
             l == IF queries[d] = Nobody THEN <<"asked", t, d>> ELSE queries[d]
             r == [tool[t] EXCEPT !.pc = "append", !.list = l]
  <2>1. d \in Devices /\ l \in Lists
    BY <1>2, <1>d DEF List, Lists, Shape, TypeOK
  <2>2. /\ tool' = [tool EXCEPT ![t] = r]
        /\ queries' = [queries EXCEPT ![d] = l]
        /\ items' = [items EXCEPT ![l] = {}] \/ items' = items
        /\ UNCHANGED <<future, event, flag, loopOf, ready, busy, drain, past>>
    BY <1>2 DEF List
  <2> HIDE DEF l
  <2>3. r \in Tool /\ r.pc = "append" /\ r.dev = d
    BY <1>0, <2>1 DEF Tool
  <2>4. /\ queries' \in [Devices -> Lists \cup {Nobody}] /\ items' \in [Lists -> SUBSET Tools]
    BY <2>1, <2>2 DEF Shape, TypeOK
  <2> HIDE DEF r
  <2>5. tool' \in [Tools -> Tool] /\ Asking' /\ Found' /\ Begun'
    BY <2>1, <2>2, <2>3, ToolMoved DEF past
  <2> HIDE DEF d
  <2> QED BY <2>2, <2>4, <2>5 DEF past, Shape, TypeOK, Served
<1>3. CASE Append(t)
  <2> DEFINE r == [tool[t] EXCEPT !.pc = "register", !.list = Nobody]
  <2>1. r \in Tool /\ r.pc = "register" /\ r.dev = tool[t].dev
    BY <1>0 DEF Tool
  <2>2. tool' = [tool EXCEPT ![t] = r] /\ tool[t].pc = "append"
    BY <1>3 DEF Append
  <2>3. items' \in [Lists -> SUBSET Tools] /\ dropped' \subseteq Tools
    BY <1>3 DEF Append, Shape, TypeOK
  <2> HIDE DEF r
  <2>4. tool' \in [Tools -> Tool] /\ Asking' /\ Found' /\ Begun'
    BY <1>3, <1>d, <2>1, <2>2, ToolMoved DEF Append
  <2> QED BY <1>3, <2>3, <2>4 DEF Append, Shape, TypeOK, Served
<1>4. CASE Register(t)
  <2>1. tool' \in [Tools -> Tool] /\ Asking' /\ Found' /\ Begun'
    BY <1>4, ToolSteps DEF Register, past
  <2> QED BY <1>4, <2>1 DEF Register, lists, past, Shape, TypeOK, Served
<1>5. CASE WakeEvent(t)
  <2> DEFINE e == event[tool[t].dev]
  <2>1. tool' \in [Tools -> Tool] /\ Asking' /\ Found' /\ Begun'
    <3>1. CASE e = Nobody
      BY <1>5, <3>1, ToolSteps DEF WakeEvent, past
    <3>2. CASE e # Nobody
      <4> DEFINE r == [tool[t] EXCEPT !.pc = "loop", !.ev = e]
      <4>1. e \in Makers /\ tool[t].dev \in Devices
        BY <1>5, <1>d, <3>2 DEF WakeEvent, Shape, TypeOK
      <4>2. r \in Tool /\ r.pc = "loop" /\ r.dev = tool[t].dev /\ r.ev = e
        BY <1>0, <4>1 DEF Tool
      <4>3. tool' = [tool EXCEPT ![t] = r] /\ early' = early
        BY <1>5, <3>2 DEF WakeEvent, past
      <4> HIDE DEF r, e
      <4> QED BY <4>1, <4>2, <4>3, ToolMoved
    <3> QED BY <3>1, <3>2
  <2> QED BY <1>5, <1>e, <1>r, <2>1 DEF WakeEvent, past
<1>6. CASE WakeMake(t)
  <2>1. tool' \in [Tools -> Tool] /\ Asking' /\ Found' /\ Begun'
    BY <1>6, ToolSteps DEF WakeMake, past
  <2>2. event' \in [Devices -> Makers \cup {Nobody}]
    BY <1>6 DEF WakeMake, Makers, Shape, TypeOK
  <2> QED BY <1>6, <2>1, <2>2 DEF WakeMake, lists, past, Shape, TypeOK, Served
<1>7. ASSUME tool[t].pc \in {"loop", "inline"}, early' = early,
             tool' = [tool EXCEPT ![t].pc = "await", ![t].ev = Nobody]
      PROVE  /\ tool' \in [Tools -> Tool] /\ Asking' /\ Found' /\ Begun'
             /\ <<tool[t].dev, tool[t].ev>> \in Event
  <2> DEFINE r == [tool[t] EXCEPT !.pc = "await", !.ev = Nobody]
  <2>1. r \in Tool /\ r.pc = "await" /\ r.dev = tool[t].dev
    BY <1>0 DEF Tool
  <2>2. tool' = [tool EXCEPT ![t] = r] /\ tool[t].dev \in Devices
    BY <1>7, <1>d
  <2>3. <<tool[t].dev, tool[t].ev>> \in Event
    BY <1>7, <2>2 DEF Event, Shape, Found
  <2> HIDE DEF r
  <2> QED BY <1>7, <2>1, <2>2, <2>3, ToolMoved
<1>8. CASE WakeLoop(t)
  <2>1. CASE tool[t].dev \in loopOf
    <3>1. /\ ready' = ready \cup {<<tool[t].dev, tool[t].ev>>}
          /\ tool' = [tool EXCEPT ![t].pc = "await", ![t].ev = Nobody]
          /\ tool[t].pc = "loop" /\ early' = early
      BY <1>8, <2>1 DEF WakeLoop, past
    <3> QED BY <1>7, <1>8, <3>1 DEF WakeLoop, lists, past, Shape, TypeOK, Served
  <2>2. CASE tool[t].dev \notin loopOf
    <3>1. tool' = Go(t, "inline") /\ ready' = ready /\ tool[t].pc = "loop" /\ early' = early
      BY <1>8, <2>2 DEF WakeLoop, past
    <3>2. tool' \in [Tools -> Tool] /\ Asking' /\ Found' /\ Begun'
      BY <3>1, ToolSteps DEF Shape, Found
    <3> QED BY <1>8, <3>1, <3>2 DEF WakeLoop, lists, past, Shape, TypeOK, Served
  <2> QED BY <2>1, <2>2
<1>9. CASE WakeInline(t)
  <2>1. /\ tool' \in [Tools -> Tool] /\ Asking' /\ Found' /\ Begun'
        /\ <<tool[t].dev, tool[t].ev>> \in Event
    BY <1>7, <1>9 DEF WakeInline, past
  <2>2. /\ drain' \in [Drains -> Drain] /\ flag' = flag \cup {<<tool[t].dev, tool[t].ev>>}
        /\ \A h \in Drains : drain'[h].pc = drain[h].pc /\ drain'[h].dev = drain[h].dev
    BY <1>9, <2>1, SetDrains DEF WakeInline
  <2> QED BY <1>9, <2>1, <2>2 DEF WakeInline, lists, past, Shape, TypeOK, Served
<1>10. ASSUME NEW a \in {"got", "timeout"}, tool[t].pc = "await", early' = early,
              tool' = [tool EXCEPT ![t].pc = "discard", ![t].answer = a]
       PROVE  tool' \in [Tools -> Tool] /\ Asking' /\ Found' /\ Begun'
  <2> DEFINE r == [tool[t] EXCEPT !.pc = "discard", !.answer = a]
  <2>1. r \in Tool /\ r.pc = "discard" /\ r.dev = tool[t].dev
    BY <1>0 DEF Tool
  <2>2. tool' = [tool EXCEPT ![t] = r] /\ tool[t].dev \in Devices
    BY <1>10, <1>d
  <2> HIDE DEF r
  <2> QED BY <1>10, <2>1, <2>2, ToolMoved
<1>11. CASE Answered(t) \/ Timeout(t)
  <2>1. early' = early /\ UNCHANGED <<hub, busy, drain, past>>
    BY <1>11 DEF Answered, Timeout, past
  <2>2. tool' \in [Tools -> Tool] /\ Asking' /\ Found' /\ Begun'
    BY <1>10, <1>11, <2>1 DEF Answered, Timeout
  <2> QED BY <1>e, <1>r, <2>1, <2>2 DEF past
<1>12. CASE Discard(t)
  <2> DEFINE pc == IF queries = NoLists THEN "done" ELSE "sift"
             r == [tool[t] EXCEPT !.pc = pc, !.old = queries]
  <2>1. pc \in {"done", "sift"} /\ tool[t].dev \in Devices
    BY <1>12, <1>d DEF Discard
  <2>2. tool' = [tool EXCEPT ![t] = r] /\ early' = early
    BY <1>12 DEF Discard, past
  <2> HIDE DEF pc
  <2>3. r \in Tool /\ r.pc = pc /\ r.dev = tool[t].dev
    BY <1>0, <2>1 DEF Tool, Shape, TypeOK
  <2> HIDE DEF r
  <2>4. tool' \in [Tools -> Tool] /\ Asking' /\ Found' /\ Begun'
    BY <2>1, <2>2, <2>3, ToolMoved
  <2> QED BY <1>12, <2>4 DEF Discard, lists, past, Shape, TypeOK, Served
<1>13. ASSUME NEW d \in Devices, Sift(t, d) PROVE Shape'
  <2> DEFINE keep == items[tool[t].old[d]] \ {t}
             r == [tool[t] EXCEPT !.pc = "write", !.at = d, !.keep = keep]
  <2>1. keep \in SUBSET Tools /\ tool[t].dev \in Devices
    BY <1>0, <1>13, <1>d DEF Sift, Shape, TypeOK, Tool
  <2>2. tool' = [tool EXCEPT ![t] = r] /\ UNCHANGED <<hub, busy, drain, past>>
    BY <1>13 DEF Sift
  <2> HIDE DEF keep
  <2>3. r \in Tool /\ r.pc = "write" /\ r.dev = tool[t].dev /\ r.at = d
    BY <1>0, <2>1 DEF Tool
  <2> HIDE DEF r
  <2>4. tool' \in [Tools -> Tool] /\ Asking' /\ Found' /\ Begun'
    BY <2>1, <2>2, <2>3, ToolMoved DEF past
  <2> QED BY <1>e, <1>r, <2>2, <2>4 DEF past
<1>14. CASE DiscardWrite(t)
  <2>1. tool' \in [Tools -> Tool] /\ Asking' /\ Found' /\ Begun'
    BY <1>14, SiftedTool DEF DiscardWrite
  <2>2. tool[t].at \in Devices /\ tool[t].keep \in SUBSET Tools
    BY <1>0, <1>14 DEF DiscardWrite, Shape, Found, Tool
  <2>3. Queue(tool[t].at) \in SUBSET Tools /\ <<"kept", t, tool[t].at>> \in Lists
    BY <2>2, QueueTyped DEF Lists
  <2>4. /\ queries' \in [Devices -> Lists \cup {Nobody}] /\ items' \in [Lists -> SUBSET Tools]
        /\ dropped' \subseteq Tools
    BY <1>14, <2>2, <2>3 DEF DiscardWrite, lists, Shape, TypeOK
  <2> QED BY <1>14, <2>1, <2>4 DEF DiscardWrite, Shape, TypeOK, Served
<1> QED BY <1>1, <1>2, <1>3, <1>4, <1>5, <1>6, <1>8, <1>9, <1>11, <1>12, <1>13, <1>14 DEF Run

\* An answer changes nothing of the calls but how its own call was answered.
LEMMA Resolved ==
    ASSUME Shape, NEW d \in Devices, NEW t \in Tools, Resolve(d, t)
    PROVE  /\ tool' \in [Tools -> Tool]
           /\ \A u \in Tools :
                /\ tool'[u].pc = tool[u].pc /\ tool'[u].dev = tool[u].dev
                /\ tool'[u].list = tool[u].list /\ tool'[u].ev = tool[u].ev
                /\ tool'[u].old = tool[u].old /\ tool'[u].at = tool[u].at
                /\ tool'[u].keep = tool[u].keep
<1> DEFINE r == [tool[t] EXCEPT !.answer = "scheduled"]
<1>1. tool \in [Tools -> Tool] /\ tool[t] \in Tool
  BY DEF Shape, TypeOK
<1>2. /\ r \in Tool /\ r.pc = tool[t].pc /\ r.dev = tool[t].dev /\ r.list = tool[t].list
      /\ r.ev = tool[t].ev /\ r.old = tool[t].old /\ r.at = tool[t].at /\ r.keep = tool[t].keep
  BY <1>1 DEF Tool
<1>3. tool' = [tool EXCEPT ![t] = r] \/ tool' = tool
  BY DEF Resolve
<1> HIDE DEF r
<1> QED BY <1>1, <1>2, <1>3

LEMMA ShapeNext == Shape /\ [Next]_vars => Shape'
<1> SUFFICES ASSUME Shape, [Next]_vars PROVE Shape'
  OBVIOUS
<1>1. ASSUME NEW e \in Event, Fire(e) PROVE Shape'
  <2>1. /\ drain' \in [Drains -> Drain] /\ flag' = flag \cup {e}
        /\ \A h \in Drains : drain'[h].pc = drain[h].pc /\ drain'[h].dev = drain[h].dev
    BY <1>1, SetDrains DEF Fire
  <2> QED BY <1>1, <2>1 DEF Fire, lists, past, Shape, TypeOK, Served, Asking, Found, Begun
<1>2. ASSUME NEW d \in Devices, NEW t \in Tools, Resolve(d, t) PROVE Shape'
  <2>1. tool' \in [Tools -> Tool] /\ Asking' /\ Found' /\ Begun'
    <3>1. early' = early /\ early \subseteq Tools
      BY <1>2 DEF Resolve, past, Shape, TypeOK
    <3> QED BY <1>2, <3>1, Resolved DEF Shape, Asking, Found, Begun
  <2> QED BY <1>2, <2>1 DEF Resolve, lists, past, Shape, TypeOK, Served
<1>3. CASE UNCHANGED vars
  BY <1>3 DEF vars, hub, lists, past, Shape, TypeOK, Served, Asking, Found, Begun
<1> QED BY <1>1, <1>2, <1>3, ShapeDrain, ShapeTool DEF Next

-----------------------------------------------------------------------------
(* Calm devices *)

\* A drain's step leaves the other drains, the calls and the wakes that come alone.
LEMMA Aside ==
    ASSUME Shape, NEW h \in Drains, Serve(h)
    PROVE  /\ \A g \in Drains : g # h => drain'[g] = drain[g]
           /\ tool' = tool /\ early' = early /\ items' = items
           /\ loopOf \subseteq loopOf' /\ ready' = ready /\ dropped' = dropped
<1>0. drain \in [Drains -> Drain]
  BY DEF Shape, TypeOK
<1>1. \A g \in Drains : g # h => drain'[g] = drain[g]
  BY <1>0 DEF Serve, Parking, Take, ParkEvent, ParkMake, ParkLoop, ParkCheck, ParkWait, Consume,
              Woken, ParkTimeout, Retake, Reply, HangUp, Step
<1>2. tool' = tool /\ early' = early /\ items' = items
  BY DEF Serve, Parking, Take, ParkEvent, ParkMake, ParkLoop, ParkCheck, ParkWait, Consume,
         Woken, ParkTimeout, Retake, Reply, HangUp, hub, lists, past
<1>3. loopOf \subseteq loopOf' /\ ready' = ready /\ dropped' = dropped
  BY DEF Serve, Parking, Take, ParkEvent, ParkMake, ParkLoop, ParkCheck, ParkWait, Consume,
         Woken, ParkTimeout, Retake, Reply, HangUp, hub, past
<1> QED BY <1>1, <1>2, <1>3

\* A call's step leaves the other calls alone, and its own device once it has begun.
LEMMA Apart ==
    ASSUME Shape, NEW t \in Tools, Run(t) \/ Timeout(t) \/ \E d \in Devices : Ask(t, d)
    PROVE  /\ \A u \in Tools : u # t => tool'[u] = tool[u]
           /\ tool[t].pc # "idle" => tool'[t].dev = tool[t].dev /\ early' = early
           /\ tool'[t].pc # "idle"
           /\ early \subseteq early'
           /\ tool[t].pc = "idle" => /\ tool'[t].pc = "list"
                                     /\ tool'[t].dev \in loopOf' \/ t \in early'
<1>0. tool \in [Tools -> Tool] /\ tool[t] \in Tool
  BY DEF Shape, TypeOK
<1>1. ASSUME NEW d \in Devices, Ask(t, d)
      PROVE  /\ tool[t].pc = "idle" /\ tool'[t].pc = "list" /\ tool'[t].dev = d
             /\ \A u \in Tools : u # t => tool'[u] = tool[u]
             /\ early \subseteq early' /\ (d \in loopOf' \/ t \in early')
  BY <1>0, <1>1 DEF Ask, Tool, hub
<1>2. CASE Run(t) \/ Timeout(t)
  <2>1. CASE DiscardWrite(t)
    <3>1. tool[t].pc = "write" /\ early' = early /\ tool' = Sifted(t)
      BY <2>1 DEF DiscardWrite
    <3> QED BY <3>1, SiftedTool
  <2>2. CASE ~DiscardWrite(t)
    <3>1. \A u \in Tools : u # t => tool'[u] = tool[u]
      BY <1>0, <1>2, <2>2 DEF Run, List, Append, Register, WakeEvent, WakeMake, WakeLoop,
                              WakeInline, Answered, Timeout, Discard, Sift, Go
    <3>2. tool[t].pc # "idle" /\ early' = early
      BY <1>2, <2>2 DEF Run, List, Append, Register, WakeEvent, WakeMake, WakeLoop, WakeInline,
                        Answered, Timeout, Discard, Sift, past
    <3>3. CASE List(t) \/ Append(t) \/ Register(t) \/ WakeEvent(t) \/ WakeMake(t)
      BY <1>0, <3>1, <3>2, <3>3 DEF List, Append, Register, WakeEvent, WakeMake, Go, Tool
    <3>4. CASE WakeLoop(t) \/ WakeInline(t)
      <4>1. tool' = Go(t, "inline") \/ tool' = [tool EXCEPT ![t].pc = "await", ![t].ev = Nobody]
        BY <3>4 DEF WakeLoop, WakeInline
      <4>2. tool'[t].pc # "idle" /\ tool'[t].dev = tool[t].dev
        BY <1>0, <4>1 DEF Go, Tool
      <4> QED BY <3>1, <3>2, <4>2
    <3>6. CASE Answered(t) \/ Timeout(t)
      BY <1>0, <3>1, <3>2, <3>6 DEF Answered, Timeout, Tool
    <3>5. CASE Discard(t) \/ \E d \in Devices : Sift(t, d)
      BY <3>1, <3>2, <3>5, DiscardTool, SiftTool
    <3> QED BY <1>2, <2>2, <3>3, <3>4, <3>5, <3>6 DEF Run
  <2> QED BY <2>1, <2>2
<1> QED BY <1>1, <1>2

\* A device that is calm has been so all along.
LEMMA CalmBefore ==
    ASSUME Shape, [Next]_vars
    PROVE  \A d : Calm(d)' => Calm(d)
<1>1. ASSUME early \subseteq early', \A t \in early : tool'[t].dev = tool[t].dev
      PROVE  \A d : Calm(d)' => Calm(d)
  BY <1>1 DEF Calm
<1>2. ASSUME NEW h \in Drains, Serve(h) PROVE \A d : Calm(d)' => Calm(d)
  BY <1>1, <1>2, Aside
<1>3. ASSUME NEW t \in Tools, Run(t) \/ Timeout(t) \/ \E d \in Devices : Ask(t, d)
      PROVE  \A d : Calm(d)' => Calm(d)
  <2>1. \A u \in early : u \in Tools /\ tool[u].pc # "idle"
    BY DEF Shape, TypeOK, Begun
  <2> QED BY <1>1, <1>3, <2>1, Apart
<1>4. ASSUME NEW d \in Devices, NEW t \in Tools, Resolve(d, t) PROVE \A e : Calm(e)' => Calm(e)
  <2>1. early' = early /\ early \subseteq Tools
    BY <1>4 DEF Resolve, past, Shape, TypeOK
  <2> QED BY <1>1, <1>4, <2>1, Resolved
<1>5. ASSUME (\E e \in Event : Fire(e)) \/ UNCHANGED vars PROVE \A d : Calm(d)' => Calm(d)
  BY <1>1, <1>5 DEF Fire, vars, past
<1> QED BY <1>2, <1>3, <1>4, <1>5 DEF Next

\* A device that a call of its own has found calm is known to park.
LEMMA CalmKnown ==
    ASSUME Shape, Old, NEW t \in Tools, tool[t].pc # "idle", Calm(tool[t].dev)
    PROVE  /\ tool[t].dev \in loopOf /\ event[tool[t].dev] # Nobody
           /\ event[tool[t].dev] \in Makers
BY DEF Shape, TypeOK, Asking, Old, OldLoop, Known

LEMMA OldInit == Init => Old
<1> SUFFICES ASSUME Init PROVE Old
  OBVIOUS
<1>1. OldLoop
  BY MakerAssumption DEF Init, OldLoop, Known, Makers, IdleTool
<1>2. OldDrains /\ OldTools
  BY DEF Init, OldDrains, OldTools, DrainOld, ToolOld, IdleDrain, IdleTool
<1> QED BY <1>1, <1>2 DEF Old

\* One drain or one call moves, to a place that suits a calm device.
LEMMA OldMoved ==
    ASSUME Shape, Old, Shape', \A d : Calm(d)' => Calm(d),
           \A d \in Devices : Calm(d) =>
               /\ event[d] # Nobody => event'[d] = event[d]
               /\ d \in loopOf' \ loopOf => event[d] # Nobody,
           loopOf \subseteq loopOf',
           \A h \in Drains : \/ DrainOld(drain[h])'
                             \/ /\ drain'[h].pc = drain[h].pc /\ drain'[h].dev = drain[h].dev
                                /\ drain'[h].ev = drain[h].ev /\ drain'[h].nudge = drain[h].nudge
                                /\ \/ drain[h].pc # "make" \/ ~Calm(drain[h].dev)
                                   \/ event'[drain[h].dev] = event[drain[h].dev],
           \A t \in Tools : \/ ToolOld(tool[t])'
                            \/ /\ tool'[t].pc = tool[t].pc /\ tool'[t].dev = tool[t].dev
                               /\ tool'[t].ev = tool[t].ev,
           \A t \in Tools : \/ tool[t].pc # "idle" /\ tool'[t].dev = tool[t].dev
                            \/ tool'[t].pc = "idle" \/ ~Calm(tool[t].dev)'
                            \/ tool'[t].dev \in loopOf'
    PROVE  Old'
<1>1. ASSUME NEW d \in Devices, Calm(d)' PROVE Known(d)'
  <2>1. Calm(d) /\ Known(d)
    BY <1>1 DEF Old, OldLoop
  <2>2. d \in loopOf' => event'[d] # Nobody
    BY <2>1 DEF Known
  <2>3. ASSUME d \notin loopOf', NEW t \in Tools, tool'[t].pc # "idle", tool'[t].dev = d PROVE FALSE
    <3>1. tool[t].pc # "idle" /\ tool'[t].dev = tool[t].dev
      BY <1>1, <2>3
    <3> QED BY <2>1, <2>3, <3>1 DEF Known
  <2> QED BY <2>2, <2>3 DEF Known
<1>2. ASSUME NEW h \in Drains, drain'[h].pc = drain[h].pc, drain'[h].dev = drain[h].dev,
             drain'[h].ev = drain[h].ev, drain'[h].nudge = drain[h].nudge,
             \/ drain[h].pc # "make" \/ ~Calm(drain[h].dev)
             \/ event'[drain[h].dev] = event[drain[h].dev]
      PROVE  DrainOld(drain[h])'
  <2>1. DrainOld(drain[h])
    BY DEF Old, OldDrains
  <2>2. CASE drain[h].pc = "idle"
    BY <1>2, <2>1, <2>2 DEF DrainOld
  <2>3. CASE drain[h].pc # "idle"
    <3>1. drain[h].dev \in Devices
      BY <2>3 DEF Shape, Served
    <3> QED BY <1>2, <2>1, <2>3, <3>1 DEF DrainOld
  <2> QED BY <2>2, <2>3
<1>3. ASSUME NEW t \in Tools, tool'[t].pc = tool[t].pc, tool'[t].dev = tool[t].dev,
             tool'[t].ev = tool[t].ev
      PROVE  ToolOld(tool[t])'
  <2>1. ToolOld(tool[t])
    BY DEF Old, OldTools
  <2>2. CASE tool[t].pc = "idle"
    BY <1>3, <2>2 DEF ToolOld
  <2>3. CASE tool[t].pc # "idle"
    <3>1. tool[t].dev \in Devices
      BY <2>3 DEF Shape, Asking
    <3>2. Calm(tool[t].dev) => event[tool[t].dev] # Nobody
      BY <2>3, CalmKnown
    <3> QED BY <1>3, <2>1, <3>1, <3>2 DEF ToolOld
  <2> QED BY <2>2, <2>3
<1>4. OldLoop' /\ OldDrains' /\ OldTools'
  BY <1>1, <1>2, <1>3 DEF OldLoop, OldDrains, OldTools
<1> QED BY <1>4 DEF Old

LEMMA OldServe ==
    ASSUME Shape, Old, Parks, Shape', \A d : Calm(d)' => Calm(d), NEW h \in Drains, Serve(h)
    PROVE  Old'
<1>0. drain[h] \in Drain /\ drain \in [Drains -> Drain] /\ DrainOld(drain[h])
  BY DEF Shape, TypeOK, Old, OldDrains
<1>q. ASSUME DrainOld(drain[h])', event' = event,
             \A d \in Devices : Calm(d) /\ d \in loopOf' \ loopOf => event[d] # Nobody
      PROVE  Old'
  <2>1. \A t \in Tools : tool'[t] = tool[t]
    BY Aside
  <2>2. \A t \in Tools : tool'[t].pc = "idle" \/ (tool[t].pc # "idle" /\ tool'[t].dev = tool[t].dev)
    BY <2>1
  <2> QED BY <1>q, <2>1, <2>2, Aside, OldMoved
<1>d. drain[h].pc # "idle" => drain[h].dev \in Devices
  BY DEF Shape, Served
<1>l. ASSUME UNCHANGED <<event, loopOf>>, DrainOld(drain[h])' PROVE Old'
  BY <1>l, <1>q
<1>1. ASSUME NEW d \in Devices, Take(h, d) PROVE Old'
  <2>1. drain'[h].pc \in {"event", "reply"} /\ drain'[h].nudge = "no"
    BY <1>0, <1>1 DEF Take, IdleDrain
  <2> QED BY <1>1, <1>l, <2>1 DEF DrainOld, Take
<1>2. CASE ParkEvent(h)
  <2>0. event' = event /\ loopOf' = loopOf
    BY <1>2 DEF ParkEvent, hub
  <2>1. CASE event[drain[h].dev] = Nobody
    <3>1. drain' = Step(h, "make") /\ drain[h].pc = "event"
      BY <1>2, <2>1 DEF ParkEvent
    <3>2. drain'[h].pc = "make" /\ drain'[h].dev = drain[h].dev /\ drain'[h].nudge = drain[h].nudge
      BY <3>1, DrainSteps
    <3> QED BY <1>0, <1>l, <2>0, <2>1, <3>1, <3>2 DEF DrainOld
  <2>2. CASE event[drain[h].dev] # Nobody
    <3>1. /\ drain'[h].pc = "loop" /\ drain'[h].ev = event[drain[h].dev]
          /\ drain'[h].dev = drain[h].dev /\ drain'[h].nudge = drain[h].nudge
          /\ drain[h].pc = "event"
      BY <1>0, <1>2, <2>2 DEF ParkEvent, Drain
    <3> QED BY <1>0, <1>l, <2>0, <2>2, <3>1 DEF DrainOld
  <2> QED BY <2>1, <2>2
<1>3. CASE ParkMake(h)
  <2> DEFINE d == drain[h].dev
  <2>1. /\ drain'[h].pc = "event" /\ drain'[h].dev = d /\ drain'[h].nudge = drain[h].nudge
        /\ drain[h].pc = "make" /\ d \in Devices
    BY <1>3, <1>d, DrainSteps DEF ParkMake
  <2>2. event' = [event EXCEPT ![d] = h] /\ UNCHANGED <<tool, loopOf>>
    BY <1>3 DEF ParkMake
  <2>3. Calm(d) => event[d] = Nobody
    BY <1>0, <2>1 DEF DrainOld
  <2>4. DrainOld(drain[h])'
    BY <1>0, <2>1 DEF DrainOld
  <2>5. ASSUME NEW g \in Drains, g # h PROVE drain'[g] = drain[g] /\ drain[g].pc # "make"
    BY <2>1, <2>5, Aside DEF Parks, Alone, Enters
  <2>6. \A e \in Devices : e # d => event'[e] = event[e]
    BY <2>2 DEF Shape, TypeOK
  <2> HIDE DEF d
  <2>7. \A t \in Tools : tool'[t].pc = "idle" \/ (tool[t].pc # "idle" /\ tool'[t].dev = tool[t].dev)
    BY <2>2
  <2> QED BY <2>2, <2>3, <2>4, <2>5, <2>6, <2>7, OldMoved
<1>4. ASSUME drain[h].pc \in {"loop", "check", "wait", "parked"}, event' = event,
             NEW pc \in {"check", "wait", "parked", "retake"}, drain' = Step(h, pc)
      PROVE  DrainOld(drain[h])'
  <2>1. /\ drain'[h].pc = pc /\ drain'[h].dev = drain[h].dev
        /\ drain'[h].ev = drain[h].ev /\ drain'[h].nudge = drain[h].nudge
    BY <1>4, DrainSteps
  <2> QED BY <1>0, <1>4, <2>1 DEF DrainOld
<1>5. CASE ParkLoop(h)
  <2>1. /\ drain[h].pc = "loop" /\ loopOf' = loopOf \cup {drain[h].dev}
        /\ drain' = Step(h, "check") /\ event' = event
    BY <1>5 DEF ParkLoop
  <2>2. \A d \in Devices : Calm(d) /\ d \in loopOf' \ loopOf => event[d] # Nobody
    BY <1>0, <2>1 DEF DrainOld
  <2> QED BY <1>4, <1>q, <2>1, <2>2
<1>6. CASE ParkCheck(h) \/ ParkWait(h) \/ Woken(h) \/ ParkTimeout(h)
  <2>1. UNCHANGED <<event, loopOf>>
    BY <1>6 DEF ParkCheck, ParkWait, Consume, Woken, ParkTimeout, hub
  <2>2. DrainOld(drain[h])'
    BY <1>4, <1>6, <2>1 DEF ParkCheck, ParkWait, Consume, Woken, ParkTimeout
  <2> QED BY <1>l, <2>1, <2>2
<1>7. CASE Retake(h)
  <2>1. /\ drain'[h].pc = "reply" /\ drain'[h].dev = drain[h].dev
        /\ drain'[h].nudge = drain[h].nudge /\ drain[h].pc = "retake"
        /\ UNCHANGED <<event, loopOf>>
    BY <1>0, <1>7 DEF Retake, Drain
  <2> QED BY <1>0, <1>l, <2>1 DEF DrainOld
<1>8. CASE Reply(h) \/ HangUp(h)
  <2>1. drain'[h].pc = "idle" /\ drain'[h].nudge = "no" /\ UNCHANGED <<event, loopOf>>
    BY <1>0, <1>8 DEF Reply, HangUp, IdleDrain, hub
  <2> QED BY <1>l, <2>1 DEF DrainOld
<1> QED BY <1>1, <1>2, <1>3, <1>5, <1>6, <1>7, <1>8 DEF Serve, Parking

\* A set() that comes from another thread is for a device that is not calm.
LEMMA OldSet ==
    ASSUME Shape, Old, Shape', \A d : Calm(d)' => Calm(d),
           UNCHANGED <<event, loopOf>>, NEW e \in Event, NEW how \in {"quiet", "yes"}, Set(e, how),
           how = "quiet" => ~Calm(e[1]),
           \A t \in Tools : \/ ToolOld(tool[t])'
                            \/ /\ tool'[t].pc = tool[t].pc /\ tool'[t].dev = tool[t].dev
                               /\ tool'[t].ev = tool[t].ev,
           \A t \in Tools : \/ tool[t].pc # "idle" /\ tool'[t].dev = tool[t].dev
                            \/ tool'[t].pc = "idle"
    PROVE  Old'
<1>1. ASSUME NEW h \in Drains
      PROVE  \/ DrainOld(drain[h])'
             \/ /\ drain'[h].pc = drain[h].pc /\ drain'[h].dev = drain[h].dev
                /\ drain'[h].ev = drain[h].ev /\ drain'[h].nudge = drain[h].nudge
  <2>1. /\ drain'[h].pc = drain[h].pc /\ drain'[h].dev = drain[h].dev
        /\ drain'[h].ev = drain[h].ev
        /\ drain'[h].nudge = IF /\ drain[h].pc = "parked" /\ drain[h].nudge = "no"
                                /\ <<drain[h].dev, drain[h].ev>> = e /\ e \notin flag
                             THEN how ELSE drain[h].nudge
    BY SetDrains
  <2>2. CASE drain'[h].nudge = drain[h].nudge
    BY <2>1, <2>2
  <2>3. CASE drain'[h].nudge # drain[h].nudge
    <3>1. /\ drain[h].pc = "parked" /\ <<drain[h].dev, drain[h].ev>> = e
          /\ drain'[h].nudge = how
      BY <2>1, <2>3
    <3>2. e[1] = drain[h].dev
      BY <3>1
    <3>3. DrainOld(drain[h])
      BY DEF Old, OldDrains
    <3> QED BY <2>1, <3>1, <3>2, <3>3 DEF DrainOld
  <2> QED BY <2>2, <2>3
<1> QED BY <1>1, OldMoved

LEMMA OldRun ==
    ASSUME Shape, Old, Shape', \A d : Calm(d)' => Calm(d),
           NEW t \in Tools, Run(t) \/ Timeout(t) \/ \E d \in Devices : Ask(t, d)
    PROVE  Old'
<1>0. tool[t] \in Tool /\ tool \in [Tools -> Tool] /\ ToolOld(tool[t])
  BY DEF Shape, TypeOK, Old, OldTools
<1>d. tool[t].pc # "idle" => tool[t].dev \in Devices
  BY DEF Shape, Asking
<1>k. tool[t].pc # "idle" /\ Calm(tool[t].dev) => tool[t].dev \in loopOf /\ event[tool[t].dev] # Nobody
  BY CalmKnown
\* Whoever begins to ask finds the device parked before, or is one of the early ones.
<1>a. ASSUME NEW u \in Tools
      PROVE  \/ tool[u].pc # "idle" /\ tool'[u].dev = tool[u].dev
             \/ tool'[u].pc = "idle" \/ ~Calm(tool[u].dev)' \/ tool'[u].dev \in loopOf'
  BY <1>a, Apart DEF Calm
<1>q. ASSUME ToolOld(tool[t])', UNCHANGED <<drain, event, loopOf>>
      PROVE  Old'
  BY <1>a, <1>q, Apart, OldMoved
<1>1. CASE \/ List(t) \/ Append(t) \/ Register(t) \/ Answered(t) \/ Timeout(t) \/ Discard(t)
           \/ DiscardWrite(t) \/ (\E d \in Devices : Sift(t, d)) \/ \E d \in Devices : Ask(t, d)
  <2>1. tool'[t].pc \in {"list", "append", "register", "event", "discard", "sift", "write", "done"}
    <3>1. CASE List(t) \/ Append(t) \/ Register(t) \/ Answered(t) \/ Timeout(t)
      BY <1>0, <3>1 DEF List, Append, Register, Answered, Timeout, Go, Tool
    <3>2. CASE Discard(t) \/ (\E d \in Devices : Sift(t, d)) \/ \E d \in Devices : Ask(t, d)
      BY <1>0, <3>2, Apart, DiscardTool, SiftTool DEF Ask
    <3>3. CASE DiscardWrite(t)
      <4>1. tool[t].pc = "write" /\ early' = early /\ tool' = Sifted(t)
        BY <3>3 DEF DiscardWrite
      <4> QED BY <4>1, SiftedTool
    <3> QED BY <1>1, <3>1, <3>2, <3>3
  <2>2. UNCHANGED <<drain, event, loopOf>>
    BY <1>1 DEF List, Append, Register, Answered, Timeout, Discard, DiscardWrite, Sift, Ask, hub
  <2> QED BY <1>q, <2>1, <2>2 DEF ToolOld
<1>2. CASE WakeMake(t)
  <2>1. tool[t].pc = "make" /\ event' = [event EXCEPT ![tool[t].dev] = t]
        /\ drain' = drain /\ loopOf' = loopOf
    BY <1>2 DEF WakeMake
  <2>2. ~Calm(tool[t].dev)
    BY <1>0, <2>1 DEF ToolOld
  <2>3. tool'[t].pc = "event"
    BY <1>0, <1>2 DEF WakeMake, Go, Tool
  <2>4. \A d : d # tool[t].dev => event'[d] = event[d] \/ d \notin Devices
    BY <2>1 DEF Shape, TypeOK
  <2>5. ToolOld(tool[t])'
    BY <2>3 DEF ToolOld
  <2>6. \A d \in Devices : Calm(d) => event'[d] = event[d]
    BY <2>2, <2>4
  <2>7. \A h \in Drains : \/ drain[h].pc # "make" \/ ~Calm(drain[h].dev)
                          \/ event'[drain[h].dev] = event[drain[h].dev]
    BY <2>6 DEF Shape, Served
  <2> QED BY <1>a, <2>1, <2>5, <2>6, <2>7, Apart, OldMoved
<1>3. CASE WakeEvent(t)
  <2>1. tool[t].pc = "event" /\ UNCHANGED <<drain, event, loopOf>>
    BY <1>3 DEF WakeEvent, hub
  <2>2. CASE event[tool[t].dev] = Nobody
    <3>1. tool'[t].pc = "make" /\ tool'[t].dev = tool[t].dev
      BY <1>0, <1>3, <2>2 DEF WakeEvent, Go, Tool
    <3> QED BY <1>k, <1>q, <2>1, <2>2, <3>1 DEF ToolOld
  <2>3. CASE event[tool[t].dev] # Nobody
    <3>1. /\ tool'[t].pc = "loop" /\ tool'[t].dev = tool[t].dev
          /\ tool'[t].ev = event[tool[t].dev]
      BY <1>0, <1>3, <2>3 DEF WakeEvent, Tool
    <3> QED BY <1>q, <2>1, <3>1 DEF ToolOld
  <2> QED BY <2>2, <2>3
<1>4. CASE WakeLoop(t)
  <2>1. UNCHANGED <<drain, event, loopOf>> /\ tool[t].pc = "loop"
    BY <1>4 DEF WakeLoop
  <2>2. CASE tool[t].dev \in loopOf
    <3>1. tool'[t].pc = "await"
      BY <1>0, <1>4, <2>2 DEF WakeLoop, Tool
    <3> QED BY <1>q, <2>1, <3>1 DEF ToolOld
  <2>3. CASE tool[t].dev \notin loopOf
    <3>1. tool'[t].pc = "inline" /\ tool'[t].dev = tool[t].dev
      BY <1>0, <1>4, <2>3 DEF WakeLoop, Go, Tool
    <3> QED BY <1>k, <1>q, <2>1, <2>3, <3>1 DEF ToolOld
  <2> QED BY <2>2, <2>3
<1>5. CASE WakeInline(t)
  <2> DEFINE e == <<tool[t].dev, tool[t].ev>>
  <2>1. tool[t].pc = "inline" /\ UNCHANGED <<event, loopOf>> /\ Set(e, "quiet")
    BY <1>5 DEF WakeInline
  <2>2. e \in Event /\ ~Calm(e[1])
    BY <1>0, <1>d, <2>1 DEF Event, Shape, Found, ToolOld
  <2>3. tool'[t].pc = "await" /\ tool'[t].dev = tool[t].dev
    BY <1>0, <1>5 DEF WakeInline, Tool
  <2>4. ToolOld(tool[t])'
    BY <2>3 DEF ToolOld
  <2>5. \A u \in Tools : u # t => tool'[u] = tool[u]
    BY Apart
  <2>6. \A u \in Tools : \/ tool[u].pc # "idle" /\ tool'[u].dev = tool[u].dev
                         \/ tool'[u].pc = "idle"
    BY <2>1, <2>3, <2>5
  <2> HIDE DEF e
  <2> QED BY <2>1, <2>2, <2>4, <2>5, <2>6, OldSet
<1> QED BY <1>1, <1>2, <1>3, <1>4, <1>5 DEF Run

LEMMA OldNext == Shape /\ Old /\ Parks /\ [Next]_vars => Old'
<1> SUFFICES ASSUME Shape, Old, Parks, [Next]_vars PROVE Old'
  OBVIOUS
<1>0. Shape' /\ \A d : Calm(d)' => Calm(d)
  BY ShapeNext, CalmBefore
<1>1. ASSUME UNCHANGED <<event, loopOf>>,
             \A u \in Tools : /\ tool'[u].pc = tool[u].pc /\ tool'[u].dev = tool[u].dev
                              /\ tool'[u].ev = tool[u].ev
      PROVE  \A u \in Tools : \/ tool[u].pc # "idle" /\ tool'[u].dev = tool[u].dev
                              \/ tool'[u].pc = "idle"
  BY <1>1
<1>2. ASSUME NEW e \in Event, Fire(e) PROVE Old'
  <2>1. UNCHANGED <<event, loopOf, tool>> /\ Set(e, "yes")
    BY <1>2 DEF Fire
  <2> QED BY <1>0, <1>1, <2>1, OldSet
<1>3. ASSUME NEW d \in Devices, NEW t \in Tools, Resolve(d, t) PROVE Old'
  <2>1. UNCHANGED <<event, loopOf, drain>>
    BY <1>3 DEF Resolve
  <2>2. \A u \in Tools : /\ tool'[u].pc = tool[u].pc /\ tool'[u].dev = tool[u].dev
                         /\ tool'[u].ev = tool[u].ev
    BY <1>3, Resolved
  <2> QED BY <1>0, <1>1, <2>1, <2>2, OldMoved
<1>4. CASE UNCHANGED vars
  <2>1. UNCHANGED <<event, loopOf, drain, tool>>
    BY <1>4 DEF vars, hub
  <2> QED BY <1>0, <1>1, <2>1, OldMoved
<1> QED BY <1>0, <1>2, <1>3, <1>4, OldServe, OldRun DEF Next

-----------------------------------------------------------------------------
(* Parks *)

LEMMA ParksInit == Init => Parks
BY DEF Init, Parks, Alone, FlagSeen, Enters, IdleDrain

\* One drain moves, and the loop is its own while it enters a park.
LEMMA ParksMoved ==
    ASSUME Parks, NEW h \in Drains, \A g \in Drains : g # h => drain'[g] = drain[g],
           flag' \subseteq flag,
           busy' = busy \/ (busy' = Nobody /\ busy = h) \/ (busy' = h /\ busy = Nobody),
           drain'[h].pc \in Enters => busy' = h,
           drain'[h].pc = "parked" => <<drain'[h].dev, drain'[h].ev>> \notin flag'
    PROVE  Parks'
<1>1. Alone'
  <2> SUFFICES ASSUME NEW g \in Drains, drain'[g].pc \in Enters PROVE busy' = g
    BY DEF Alone, Enters
  <2>1. CASE g = h
    BY <2>1
  <2>2. CASE g # h
    <3>1. busy = g
      BY <2>2 DEF Parks, Alone
    <3> QED BY <2>2, <3>1, MakerAssumption DEF Makers
  <2> QED BY <2>1, <2>2
<1>2. FlagSeen'
  BY DEF Parks, FlagSeen
<1> QED BY <1>1, <1>2 DEF Parks

LEMMA ParksServe == ASSUME Shape, Parks, NEW h \in Drains, Serve(h) PROVE Parks'
<1>0. drain[h] \in Drain /\ drain \in [Drains -> Drain]
  BY DEF Shape, TypeOK
<1>a. \A g \in Drains : g # h => drain'[g] = drain[g]
  BY Aside
<1>b. drain[h].pc \in Enters => busy = h
  BY DEF Parks, Alone
<1>1. ASSUME NEW d \in Devices, Take(h, d) PROVE Parks'
  <2>1. /\ busy = Nobody /\ flag' = flag
        /\ \/ drain'[h].pc = "reply" /\ busy' = busy
           \/ drain'[h].pc = "event" /\ busy' = h
    BY <1>0, <1>1 DEF Take, LoopFree, IdleDrain
  <2> QED BY <1>a, <2>1, ParksMoved DEF Enters
<1>2. CASE ParkEvent(h) \/ ParkMake(h) \/ ParkLoop(h)
  <2>1. drain[h].pc \in Enters /\ busy' = busy /\ flag' = flag
    BY <1>2 DEF ParkEvent, ParkMake, ParkLoop, hub, lists, Enters
  <2>2. drain'[h].pc \in {"event", "make", "loop", "check"}
    BY <1>0, <1>2 DEF ParkEvent, ParkMake, ParkLoop, Step, Drain
  <2> QED BY <1>a, <1>b, <2>1, <2>2, ParksMoved DEF Enters
<1>3. ASSUME NEW next \in {"wait", "parked"}, drain[h].pc \in {"check", "wait"}, Consume(h, next)
      PROVE  Parks'
  <2> DEFINE e == <<drain[h].dev, drain[h].ev>>
  <2>1. CASE e \in flag
    <3>1. flag' = flag \ {e} /\ drain' = Step(h, "retake") /\ busy' = Nobody
      BY <1>3, <2>1 DEF Consume
    <3>2. drain'[h].pc = "retake"
      BY <1>3, <3>1, DrainSteps
    <3> QED BY <1>3, <1>a, <1>b, <3>1, <3>2, ParksMoved DEF Enters
  <2>2. CASE e \notin flag
    <3>1. flag' = flag /\ drain' = Step(h, next)
          /\ busy' = IF next = "parked" THEN Nobody ELSE busy
      BY <1>3, <2>2 DEF Consume
    <3>2. drain'[h].pc = next /\ drain'[h].dev = drain[h].dev /\ drain'[h].ev = drain[h].ev
      BY <1>3, <3>1, DrainSteps
    <3> QED BY <1>3, <1>a, <1>b, <2>2, <3>1, <3>2, ParksMoved DEF Enters
  <2> QED BY <2>1, <2>2
<1>4. CASE Woken(h) \/ ParkTimeout(h) \/ Retake(h) \/ Reply(h) \/ HangUp(h)
  <2>1. drain'[h].pc \in {"retake", "reply", "idle"}
    BY <1>0, <1>4 DEF Woken, ParkTimeout, Retake, Reply, HangUp, Step, IdleDrain, Drain
  <2>2. flag' \subseteq flag /\ busy' = busy
    BY <1>4 DEF Woken, ParkTimeout, Retake, Reply, HangUp, hub, lists
  <2> QED BY <1>a, <2>1, <2>2, ParksMoved DEF Enters
<1> QED BY <1>1, <1>2, <1>3, <1>4 DEF Serve, Parking, ParkCheck, ParkWait

LEMMA ParksSet ==
    ASSUME Shape, Parks, NEW e \in Event, NEW how \in {"quiet", "yes"}, Set(e, how), busy' = busy
    PROVE  Parks'
<1>1. /\ flag' = flag \cup {e}
      /\ \A h \in Drains :
           /\ drain'[h].pc = drain[h].pc /\ drain'[h].dev = drain[h].dev
           /\ drain'[h].ev = drain[h].ev
           /\ drain'[h].nudge = IF /\ drain[h].pc = "parked" /\ drain[h].nudge = "no"
                                   /\ <<drain[h].dev, drain[h].ev>> = e /\ e \notin flag
                                THEN how ELSE drain[h].nudge
  BY SetDrains
<1>2. Alone'
  BY <1>1 DEF Parks, Alone, Enters
<1>3. ASSUME NEW h \in Drains, drain'[h].pc = "parked",
             <<drain'[h].dev, drain'[h].ev>> \in flag'
      PROVE  drain'[h].nudge # "no"
  <2>1. drain[h].pc = "parked" /\ <<drain[h].dev, drain[h].ev>> \in flag \cup {e}
    BY <1>1, <1>3
  <2>2. <<drain[h].dev, drain[h].ev>> \in flag => drain[h].nudge # "no"
    BY <2>1 DEF Parks, FlagSeen
  <2>3. CASE drain[h].nudge # "no"
    BY <1>1, <2>3
  <2>4. CASE drain[h].nudge = "no"
    BY <1>1, <2>1, <2>2, <2>4
  <2> QED BY <2>3, <2>4
<1> QED BY <1>2, <1>3 DEF Parks, FlagSeen

LEMMA ParksNext == Shape /\ Parks /\ [Next]_vars => Parks'
<1> SUFFICES ASSUME Shape, Parks, [Next]_vars PROVE Parks'
  OBVIOUS
<1>1. CASE UNCHANGED <<flag, busy, drain>>
  BY <1>1 DEF Parks, Alone, FlagSeen, Enters
<1>2. ASSUME NEW e \in Event, Fire(e) PROVE Parks'
  BY <1>2, ParksSet DEF Fire
<1>3. ASSUME NEW t \in Tools, WakeInline(t) PROVE Parks'
  <2>1. <<tool[t].dev, tool[t].ev>> \in Event
    BY <1>3 DEF WakeInline, Event, Shape, Asking, Found
  <2> QED BY <1>3, <2>1, ParksSet DEF WakeInline
<1>4. ASSUME NEW t \in Tools, ~WakeInline(t),
             Run(t) \/ Timeout(t) \/ \E d \in Devices : Ask(t, d) \/ Resolve(d, t)
      PROVE  UNCHANGED <<flag, busy, drain>>
  BY <1>4 DEF Run, Timeout, Ask, Resolve, List, Append, Register, WakeEvent, WakeMake, WakeLoop,
              Answered, Discard, Sift, DiscardWrite, hub, lists
<1>5. CASE UNCHANGED vars
  BY <1>1, <1>5 DEF vars, hub, lists
<1> QED BY <1>1, <1>2, <1>3, <1>4, <1>5, ParksServe DEF Next

-----------------------------------------------------------------------------
(* Queries *)

LEMMA QueriesInit == Init => Queries
BY DEF Init, Queries, Tagged, Listed, Kept, IdleTool, NoLists

\* What List gives a call is a list of its device.
LEMMA ListTool ==
    ASSUME Shape, Tagged, NEW t \in Tools, List(t)
    PROVE  /\ tool[t].pc = "list" /\ tool'[t].pc = "append" /\ tool'[t].dev = tool[t].dev
           /\ tool'[t].answer = tool[t].answer /\ tool'[t].old = tool[t].old
           /\ tool'[t].list \in Lists /\ tool'[t].list[3] = tool[t].dev
           /\ \A u \in Tools : u # t => tool'[u] = tool[u]
           /\ \A d \in Devices : queries'[d] # Nobody => queries'[d][3] = d
           /\ \A d \in Devices : Queue(d)' = Queue(d)
           /\ \A l \in Lists : items'[l] \subseteq items[l]
<1> DEFINE e == tool[t].dev
           l == IF queries[e] = Nobody THEN <<"asked", t, e>> ELSE queries[e]
           r == [tool[t] EXCEPT !.pc = "append", !.list = l]
<1>1. /\ tool \in [Tools -> Tool] /\ tool[t] \in Tool /\ e \in Devices /\ tool[t].pc = "list"
      /\ queries \in [Devices -> Lists \cup {Nobody}] /\ items \in [Lists -> SUBSET Tools]
  BY DEF List, Shape, TypeOK, Asking
<1>2. l \in Lists /\ l[3] = e /\ (queries[e] = Nobody => l = <<"asked", t, e>>)
      /\ (queries[e] # Nobody => l = queries[e])
  BY <1>1 DEF Lists, Tagged
<1>3. /\ tool' = [tool EXCEPT ![t] = r]
      /\ queries' = [queries EXCEPT ![e] = l]
      /\ items' = IF queries[e] = Nobody THEN [items EXCEPT ![l] = {}] ELSE items
  BY DEF List
<1> HIDE DEF l
<1>4. /\ r.pc = "append" /\ r.dev = tool[t].dev /\ r.answer = tool[t].answer
      /\ r.old = tool[t].old /\ r.list = l
  BY <1>1 DEF Tool
<1> HIDE DEF r, e
<1>5. \A d \in Devices : queries'[d] # Nobody => queries'[d][3] = d
  BY <1>1, <1>2, <1>3 DEF Tagged
<1>6. ASSUME NEW d \in Devices PROVE Queue(d)' = Queue(d)
  <2>1. Nobody \notin Lists
    BY MakerAssumption
  <2>2. CASE d = e /\ queries[e] = Nobody
    BY <1>1, <1>2, <1>3, <2>1, <2>2 DEF Queue
  <2>3. CASE d = e /\ queries[e] # Nobody
    BY <1>1, <1>2, <1>3, <2>3 DEF Queue
  <2>4. CASE d # e
    <3>1. queries'[d] = queries[d]
      BY <1>1, <1>3, <2>4
    <3>2. queries[d] # Nobody => queries[d] # l
      BY <1>2, <2>4 DEF Tagged
    <3>3. queries[d] # Nobody => items'[queries[d]] = items[queries[d]]
      BY <1>1, <1>3, <3>2
    <3> QED BY <3>1, <3>3 DEF Queue
  <2> QED BY <2>2, <2>3, <2>4
<1>7. \A m \in Lists : items'[m] \subseteq items[m]
  BY <1>1, <1>2, <1>3
<1>8. tool'[t] = r /\ \A u \in Tools : u # t => tool'[u] = tool[u]
  BY <1>1, <1>3
<1> QED BY <1>1, <1>2, <1>4, <1>5, <1>6, <1>7, <1>8 DEF e

\* What a discard writes, if it writes.
LEMMA Written ==
    ASSUME Shape, NEW t \in Tools, DiscardWrite(t)
    PROVE  LET e == tool[t].at
               l == <<"kept", t, e>>
           IN  /\ e \in Devices /\ l \in Lists /\ tool[t].pc = "write"
               /\ tool'[t].pc \in {"sift", "done"} /\ tool'[t].dev = tool[t].dev
               /\ tool'[t].answer = tool[t].answer
               /\ \A d \in Devices : tool'[t].old[d] = tool[t].old[d] \/ tool'[t].old[d] = Nobody
               /\ \A u \in Tools : u # t => tool'[u] = tool[u]
               /\ \/ UNCHANGED <<queries, items, dropped>>
                  \/ /\ items'[l] = tool[t].keep
                     /\ \A m \in Lists : m # l => items'[m] = items[m]
                     /\ queries'[e] = (IF tool[t].keep = {} THEN Nobody ELSE l)
                     /\ \A d \in Devices : d # e => queries'[d] = queries[d]
                     /\ dropped' = dropped \cup (Queue(e) \ (tool[t].keep \cup {t}))
               /\ UNCHANGED <<event, flag, loopOf, ready, drain, taken, shown, early>>
<1>1. tool[t].pc = "write" /\ tool[t].at \in Devices
  BY DEF DiscardWrite, Shape, Found
<1>2. <<"kept", t, tool[t].at>> \in Lists
  BY <1>1 DEF Lists
<1>3. tool' = Sifted(t) /\ early' = early
  BY DEF DiscardWrite
<1>4. queries \in [Devices -> Lists \cup {Nobody}] /\ items \in [Lists -> SUBSET Tools]
  BY DEF Shape, TypeOK
<1> QED BY <1>1, <1>2, <1>3, <1>4, SiftedTool DEF DiscardWrite, lists

LEMMA TaggedNext == Shape /\ Tagged /\ [Next]_vars => Tagged'
<1> SUFFICES ASSUME Shape, Tagged, [Next]_vars PROVE Tagged'
  OBVIOUS
<1>0. tool \in [Tools -> Tool] /\ queries \in [Devices -> Lists \cup {Nobody}]
  BY DEF Shape, TypeOK
<1>1. ASSUME \A d \in Devices : queries'[d] = queries[d] \/ queries'[d] = Nobody,
             \A u \in Tools : /\ tool'[u].pc = tool[u].pc /\ tool'[u].dev = tool[u].dev
                              /\ tool'[u].list = tool[u].list /\ tool'[u].old = tool[u].old
      PROVE  Tagged'
  BY <1>1 DEF Tagged
<1>2. ASSUME NEW h \in Drains, Serve(h) PROVE Tagged'
  <2>1. \A d \in Devices : queries'[d] = queries[d] \/ queries'[d] = Nobody
    BY <1>0, <1>2 DEF Serve, Parking, Take, ParkEvent, ParkMake, ParkLoop, ParkCheck, ParkWait,
                      Consume, Woken, ParkTimeout, Retake, Reply, HangUp, hub, lists
  <2> QED BY <1>1, <1>2, <2>1, Aside
<1>3. ASSUME NEW d \in Devices, NEW t \in Tools, Resolve(d, t) PROVE Tagged'
  <2>1. queries' = queries
    BY <1>3 DEF Resolve, lists
  <2> QED BY <1>1, <1>3, <2>1, Resolved
<1>4. ASSUME (\E e \in Event : Fire(e)) \/ UNCHANGED vars PROVE Tagged'
  BY <1>1, <1>4 DEF Fire, vars, hub, lists
\* One call goes on, to a place where it holds no list.
<1>5. ASSUME NEW t \in Tools, \A u \in Tools : u # t => tool'[u] = tool[u],
             tool'[t].pc # "append",
             \A d \in Devices : tool'[t].old[d] # Nobody => tool'[t].old[d][3] = d,
             \A d \in Devices : queries'[d] # Nobody => queries'[d][3] = d
      PROVE  Tagged'
  BY <1>5 DEF Tagged
<1>6. ASSUME NEW t \in Tools, Run(t) \/ Timeout(t) \/ \E d \in Devices : Ask(t, d) PROVE Tagged'
  <2>a. \A u \in Tools : u # t => tool'[u] = tool[u]
    BY <1>6, Apart
  <2>1. CASE List(t)
    <3>1. /\ tool'[t].list \in Lists /\ tool'[t].list[3] = tool'[t].dev
          /\ tool'[t].old = tool[t].old
          /\ \A d \in Devices : queries'[d] # Nobody => queries'[d][3] = d
      BY <2>1, ListTool
    <3> QED BY <2>a, <3>1 DEF Tagged
  <2>2. CASE Discard(t)
    <3>1. tool'[t].pc # "append" /\ tool'[t].old = queries
      BY <2>2, DiscardTool
    <3>2. queries' = queries
      BY <2>2 DEF Discard, lists
    <3> QED BY <1>5, <2>a, <3>1, <3>2 DEF Tagged
  <2>3. ASSUME NEW d \in Devices, Sift(t, d) PROVE Tagged'
    <3>1. tool'[t].pc # "append" /\ tool'[t].old = tool[t].old
      BY <2>3, SiftTool
    <3>2. queries' = queries
      BY <2>3 DEF Sift, hub, lists
    <3> QED BY <1>5, <2>a, <3>1, <3>2 DEF Tagged
  <2>4. CASE DiscardWrite(t)
    <3> DEFINE e == tool[t].at
               l == <<"kept", t, e>>
    <3>1. /\ e \in Devices /\ tool'[t].pc # "append"
          /\ \A d \in Devices : tool'[t].old[d] = tool[t].old[d] \/ tool'[t].old[d] = Nobody
          /\ \/ queries' = queries
             \/ /\ queries'[e] = Nobody \/ queries'[e] = l
                /\ \A d \in Devices : d # e => queries'[d] = queries[d]
      BY <2>4, Written
    <3>2. l[3] = e
      OBVIOUS
    <3> HIDE DEF e, l
    <3>3. \A d \in Devices : queries'[d] # Nobody => queries'[d][3] = d
      BY <3>1, <3>2 DEF Tagged
    <3>4. \A d \in Devices : tool'[t].old[d] # Nobody => tool'[t].old[d][3] = d
      BY <3>1 DEF Tagged
    <3> QED BY <1>5, <2>a, <3>1, <3>3, <3>4
  <2>5. CASE \/ Append(t) \/ Register(t) \/ WakeEvent(t) \/ WakeMake(t) \/ Answered(t)
             \/ Timeout(t) \/ \E d \in Devices : Ask(t, d)
    <3>1. tool'[t].pc # "append" /\ tool'[t].old = tool[t].old
      <4>0. tool[t] \in Tool
        BY <1>0
      <4>1. CASE Append(t) \/ Register(t) \/ WakeEvent(t) \/ WakeMake(t)
        BY <1>0, <4>0, <4>1 DEF Append, Register, WakeEvent, WakeMake, Go, Tool
      <4>2. CASE Answered(t) \/ Timeout(t) \/ \E d \in Devices : Ask(t, d)
        BY <1>0, <4>0, <4>2 DEF Answered, Timeout, Ask, Tool
      <4> QED BY <2>5, <4>1, <4>2
    <3>2. queries' = queries
      BY <2>5 DEF Append, Register, WakeEvent, WakeMake, Answered, Timeout, Ask, hub, lists
    <3> QED BY <1>5, <2>a, <3>1, <3>2 DEF Tagged
  <2>6. CASE WakeLoop(t) \/ WakeInline(t)
    <3>1. tool' = Go(t, "inline") \/ tool' = [tool EXCEPT ![t].pc = "await", ![t].ev = Nobody]
      BY <2>6 DEF WakeLoop, WakeInline
    <3>2. tool'[t].pc # "append" /\ tool'[t].old = tool[t].old
      <4>0. tool[t] \in Tool
        BY <1>0
      <4> QED BY <1>0, <3>1, <4>0 DEF Go, Tool
    <3>3. queries' = queries
      BY <2>6 DEF WakeLoop, WakeInline, lists
    <3> QED BY <1>5, <2>a, <3>2, <3>3 DEF Tagged
  <2> QED BY <1>6, <2>1, <2>2, <2>3, <2>4, <2>5, <2>6 DEF Run
<1> QED BY <1>2, <1>3, <1>4, <1>6 DEF Next

\* What was placed stays so while the calls go on and no list of a device is lost.
LEMMA PlacedKept ==
    ASSUME \A u \in Tools : tool[u].pc \notin {"idle", "list", "append"} =>
               /\ tool'[u].dev = tool[u].dev
               /\ tool'[u].pc \notin {"idle", "list", "append"}
               /\ Waiting(u)' => Waiting(u),
           \A d \in Devices, u \in Tools :
               u \in Queue(d) => u \in Queue(d)' \cup taken' \cup dropped' \/ ~Waiting(u)',
           taken \subseteq taken', dropped \subseteq dropped'
    PROVE  \A u \in Tools, d \in Devices : Placed(u, d) => Placed(u, d)'
<1> SUFFICES ASSUME NEW u \in Tools, NEW d \in Devices, Placed(u, d) PROVE Placed(u, d)'
  OBVIOUS
<1>1. Appended(u, d) /\ (u \in Queue(d) \cup taken \cup dropped \/ ~Waiting(u))
  BY DEF Placed
<1>2. Appended(u, d)' /\ (Waiting(u)' => Waiting(u))
  BY <1>1 DEF Appended
<1>3. u \in Queue(d)' \cup taken' \cup dropped' \/ ~Waiting(u)'
  BY <1>1, <1>2
<1> QED BY <1>2, <1>3 DEF Placed

\* What comes into a list, or into what a discard keeps, is placed.
LEMMA QueriesMoved ==
    ASSUME Queries, Tagged',
           \A u \in Tools, d \in Devices : Placed(u, d) => Placed(u, d)',
           \A l \in Lists, u \in Tools : u \in items'[l] => u \in items[l] \/ Placed(u, l[3])',
           \A v, u \in Tools : tool'[v].pc = "write" /\ u \in tool'[v].keep =>
               \/ tool[v].pc = "write" /\ tool'[v].at = tool[v].at /\ u \in tool[v].keep
               \/ Placed(u, tool'[v].at) /\ tool'[v].at \in Devices,
           \A v \in Tools : tool[v].pc = "write" => tool[v].at \in Devices
    PROVE  Queries'
<1>1. \A l \in Lists : l[3] \in Devices
  BY DEF Lists
<1>2. Listed'
  BY <1>1 DEF Queries, Listed
<1>3. ASSUME NEW v \in Tools, NEW u \in Tools, tool'[v].pc = "write", u \in tool'[v].keep
      PROVE  Placed(u, tool[v].at)'
  <2>1. CASE tool[v].pc = "write" /\ tool'[v].at = tool[v].at /\ u \in tool[v].keep
    <3>1. PICK d \in Devices : d = tool[v].at
      BY <2>1
    <3>2. Placed(u, d)'
      BY <2>1, <3>1 DEF Queries, Kept
    <3> QED BY <2>1, <3>1, <3>2 DEF Placed, Appended
  <2>2. CASE Placed(u, tool'[v].at) /\ tool'[v].at \in Devices
    <3>1. PICK d \in Devices : d = tool'[v].at
      BY <2>2
    <3>2. Placed(u, d)'
      BY <2>2, <3>1
    <3> QED BY <3>1, <3>2 DEF Placed, Appended
  <2> QED BY <1>3, <2>1, <2>2
<1>4. Kept'
  BY <1>3 DEF Kept
<1> QED BY <1>2, <1>4 DEF Queries

\* Waiting to begin, or to end: no step of a call makes it wait but its append.
LEMMA CallsOn ==
    ASSUME Shape, NEW t \in Tools, Run(t) \/ Timeout(t) \/ \E d \in Devices : Ask(t, d)
    PROVE  \A u \in Tools : tool[u].pc \notin {"idle", "list", "append"} =>
               /\ tool'[u].dev = tool[u].dev
               /\ tool'[u].pc \notin {"idle", "list", "append"}
               /\ Waiting(u)' => Waiting(u)
<1>0. tool \in [Tools -> Tool] /\ tool[t] \in Tool
  BY DEF Shape, TypeOK
<1>1. \A u \in Tools : u # t => tool'[u] = tool[u]
  BY Apart
<1>2. ASSUME tool[t].pc \notin {"idle", "list", "append"}
      PROVE  /\ tool'[t].dev = tool[t].dev
             /\ tool'[t].pc \notin {"idle", "list", "append"}
             /\ Waiting(t)' => Waiting(t)
  <2>1. tool'[t].dev = tool[t].dev
    BY <1>2, Apart
  <2>2. CASE Register(t) \/ WakeEvent(t) \/ WakeMake(t)
    <3>1. /\ tool[t].pc \in {"register", "event", "make"}
          /\ tool'[t].pc \in {"event", "make", "loop"}
      BY <1>0, <2>2 DEF Register, WakeEvent, WakeMake, Go, Tool
    <3> QED BY <2>1, <3>1 DEF Waiting
  <2>3. CASE WakeLoop(t) \/ WakeInline(t)
    <3>1. tool' = Go(t, "inline") \/ tool' = [tool EXCEPT ![t].pc = "await", ![t].ev = Nobody]
      BY <2>3 DEF WakeLoop, WakeInline
    <3>2. tool'[t].pc \in {"inline", "await"} /\ tool[t].pc \in {"loop", "inline"}
      BY <1>0, <2>3, <3>1 DEF Go, Tool, WakeLoop, WakeInline
    <3> QED BY <2>1, <3>2 DEF Waiting
  <2>4. CASE Answered(t) \/ Timeout(t)
    <3>1. tool'[t].pc = "discard"
      BY <1>0, <2>4 DEF Answered, Timeout, Tool
    <3> QED BY <2>1, <3>1 DEF Waiting
  <2>5. CASE Discard(t) \/ DiscardWrite(t) \/ \E d \in Devices : Sift(t, d)
    <3>1. tool'[t].pc \in {"sift", "done", "write"}
      BY <2>5, DiscardTool, SiftTool, Written
    <3> QED BY <2>1, <3>1 DEF Waiting
  <2>6. CASE List(t) \/ Append(t) \/ \E d \in Devices : Ask(t, d)
    BY <1>2, <2>6 DEF List, Append, Ask
  <2> QED BY <2>2, <2>3, <2>4, <2>5, <2>6 DEF Run
<1> QED BY <1>1, <1>2 DEF Waiting

LEMMA QueriesServe ==
    ASSUME Shape, Queries, Tagged', NEW h \in Drains, Serve(h)
    PROVE  Queries'
<1>0. tool' = tool /\ items' = items /\ dropped' = dropped
  BY Aside
<1>1. ASSUME NEW d \in Devices, queries' = [queries EXCEPT ![d] = Nobody], taken' = taken \cup Queue(d)
      PROVE  taken \subseteq taken' /\ \A e \in Devices : Queue(e) \subseteq Queue(e)' \cup taken'
  BY <1>0, <1>1 DEF Shape, TypeOK, Queue
<1>2. ASSUME UNCHANGED <<queries, taken>>
      PROVE  taken \subseteq taken' /\ \A e \in Devices : Queue(e) \subseteq Queue(e)' \cup taken'
  BY <1>0, <1>2 DEF Queue
<1>3. taken \subseteq taken' /\ \A e \in Devices : Queue(e) \subseteq Queue(e)' \cup taken'
  <2>1. CASE Retake(h)
    <3>1. drain[h].dev \in Devices
      BY <2>1 DEF Retake, Shape, Served
    <3> QED BY <1>1, <2>1, <3>1 DEF Retake
  <2>2. CASE Parking(h) \/ Woken(h) \/ ParkTimeout(h) \/ Reply(h) \/ HangUp(h)
    BY <1>2, <2>2 DEF Parking, ParkEvent, ParkMake, ParkLoop, ParkCheck, ParkWait, Consume, Woken,
                      ParkTimeout, Reply, HangUp, hub, lists, past
  <2>3. ASSUME NEW d \in Devices, Take(h, d)
        PROVE  taken \subseteq taken' /\ \A e \in Devices : Queue(e) \subseteq Queue(e)' \cup taken'
    BY <1>1, <2>3 DEF Take
  <2> QED BY <2>1, <2>2, <2>3 DEF Serve
<1>4. \A u \in Tools, d \in Devices : Placed(u, d) => Placed(u, d)'
  BY <1>0, <1>3, PlacedKept DEF Waiting
<1> QED BY <1>0, <1>4, QueriesMoved DEF Shape, Found

\* A query is appended where its call believes the device's list to be.
LEMMA QueriesAppend ==
    ASSUME Shape, Queries, Tagged', NEW t \in Tools, Append(t)
    PROVE  Queries'
<1>0. PICK e \in Devices, l \in Lists : e = tool[t].dev /\ l = tool[t].list
  BY DEF Append, Shape, Asking, Queries, Tagged
<1>1. l[3] = e /\ tool[t].pc = "append" /\ items \in [Lists -> SUBSET Tools]
  BY <1>0 DEF Append, Shape, TypeOK, Queries, Tagged
<1>2. /\ items' = [items EXCEPT ![l] = @ \cup {t}] /\ queries' = queries /\ taken' = taken
      /\ dropped' = IF queries[e] = l THEN dropped ELSE dropped \cup {t}
  BY <1>0 DEF Append
<1>3. tool'[t].pc = "register" /\ tool'[t].dev = e /\ \A u \in Tools : u # t => tool'[u] = tool[u]
  <2>1. tool \in [Tools -> Tool] /\ tool[t] \in Tool
    BY DEF Shape, TypeOK
  <2> QED BY <1>0, <2>1 DEF Append, Tool
<1>4. \A d \in Devices : Queue(d) \subseteq Queue(d)'
  <2>1. \A m \in Lists : items[m] \subseteq items'[m]
    BY <1>1, <1>2
  <2>2. \A d \in Devices : queries[d] # Nobody => queries[d] \in Lists
    BY DEF Shape, TypeOK
  <2> QED BY <1>2, <2>1, <2>2 DEF Queue
<1>5. \A u \in Tools, d \in Devices : Placed(u, d) => Placed(u, d)'
  <2>1. Run(t)
    BY DEF Run
  <2>2. taken \subseteq taken' /\ dropped \subseteq dropped'
    BY <1>2
  <2> QED BY <1>4, <2>1, <2>2, CallsOn, PlacedKept
<1>6. Placed(t, e)'
  <2>1. Appended(t, e)'
    BY <1>3 DEF Appended
  <2>2. CASE queries[e] = l
    <3>1. t \in items'[l] /\ l # Nobody
      BY <1>1, <1>2, MakerAssumption
    <3>2. Queue(e)' = items'[l]
      BY <1>2, <2>2, <3>1 DEF Queue
    <3> QED BY <2>1, <3>1, <3>2 DEF Placed
  <2>3. CASE queries[e] # l
    <3>1. t \in dropped'
      BY <1>2, <2>3
    <3> QED BY <2>1, <3>1 DEF Placed
  <2> QED BY <2>2, <2>3
<1>7. \A m \in Lists, u \in Tools : u \in items'[m] => u \in items[m] \/ Placed(u, m[3])'
  <2>1. \A m \in Lists, u \in Tools : u \in items'[m] => u \in items[m] \/ (m = l /\ u = t)
    BY <1>1, <1>2
  <2> QED BY <1>1, <1>6, <2>1
<1>8. \A v, u \in Tools : tool'[v].pc = "write" /\ u \in tool'[v].keep =>
        tool[v].pc = "write" /\ tool'[v].at = tool[v].at /\ u \in tool[v].keep
  BY <1>3
<1> QED BY <1>5, <1>7, <1>8, QueriesMoved DEF Shape, Found

\* What a discard writes back it has kept, and what it overwrites is dropped.
LEMMA QueriesWrite ==
    ASSUME Shape, Queries, Tagged', NEW t \in Tools, DiscardWrite(t)
    PROVE  Queries'
<1>0. tool[t].at \in Devices /\ <<"kept", t, tool[t].at>> \in Lists /\ tool[t].keep \in SUBSET Tools
  BY Written DEF Shape, TypeOK, Tool
<1>p. PICK e \in Devices, l \in Lists, keep \in SUBSET Tools :
        e = tool[t].at /\ keep = tool[t].keep /\ l = <<"kept", t, tool[t].at>>
  BY <1>0
<1>1. /\ tool[t].pc = "write"
      /\ tool'[t].pc \in {"sift", "done"}
      /\ \A u \in Tools : u # t => tool'[u] = tool[u]
      /\ taken' = taken
      /\ \/ UNCHANGED <<queries, items, dropped>>
         \/ /\ items'[l] = keep
            /\ \A m \in Lists : m # l => items'[m] = items[m]
            /\ queries'[e] = (IF keep = {} THEN Nobody ELSE l)
            /\ \A d \in Devices : d # e => queries'[d] = queries[d]
            /\ dropped' = dropped \cup (Queue(e) \ (keep \cup {t}))
  BY <1>p, Written
<1>2. l[3] = e
  BY <1>p
<1>3. \A u \in Tools : u \in keep => Placed(u, e)
  BY <1>1, <1>p DEF Queries, Kept
<1>t. ~Waiting(t)'
  BY <1>1 DEF Waiting
<1>u. Run(t) /\ queries \in [Devices -> Lists \cup {Nobody}]
  BY DEF Run, Shape, TypeOK
<1>v. \A v, u \in Tools : tool'[v].pc = "write" /\ u \in tool'[v].keep =>
        tool[v].pc = "write" /\ tool'[v].at = tool[v].at /\ u \in tool[v].keep
  BY <1>1
<1>4. ASSUME UNCHANGED <<queries, items, dropped>> PROVE Queries'
  <2>1. \A d \in Devices : Queue(d)' = Queue(d)
    BY <1>4 DEF Queue
  <2>2. \A u \in Tools, d \in Devices : Placed(u, d) => Placed(u, d)'
    BY <1>1, <1>4, <1>u, <2>1, CallsOn, PlacedKept
  <2> QED BY <1>4, <1>v, <2>2, QueriesMoved DEF Shape, Found
<1>5. ASSUME items'[l] = keep,
             \A m \in Lists : m # l => items'[m] = items[m],
             queries'[e] = (IF keep = {} THEN Nobody ELSE l),
             \A d \in Devices : d # e => queries'[d] = queries[d],
             dropped' = dropped \cup (Queue(e) \ (keep \cup {t}))
      PROVE  Queries'
  <2>1. Queue(e)' = keep
    BY <1>1, <1>5, MakerAssumption DEF Queue
  <2>2. ASSUME NEW d \in Devices, d # e PROVE Queue(d)' = Queue(d)
    <3>1. queries[d] # Nobody => queries[d] # l /\ queries[d] \in Lists
      BY <1>2, <1>u, <2>2 DEF Queries, Tagged
    <3> QED BY <1>5, <2>2, <3>1 DEF Queue
  <2>3. \A d \in Devices, u \in Tools :
          u \in Queue(d) => u \in Queue(d)' \cup taken' \cup dropped' \/ ~Waiting(u)'
    BY <1>5, <1>t, <2>1, <2>2
  <2>4. taken \subseteq taken' /\ dropped \subseteq dropped'
    BY <1>1, <1>5
  <2>5. \A u \in Tools, d \in Devices : Placed(u, d) => Placed(u, d)'
    BY <1>u, <2>3, <2>4, CallsOn, PlacedKept
  <2>6. \A m \in Lists, u \in Tools : u \in items'[m] => u \in items[m] \/ Placed(u, m[3])'
    BY <1>1, <1>2, <1>3, <1>5, <2>5
  <2> QED BY <1>v, <2>5, <2>6, QueriesMoved DEF Shape, Found
<1> QED BY <1>1, <1>4, <1>5

LEMMA QueriesNext == Shape /\ Queries /\ [Next]_vars => Queries'
<1> SUFFICES ASSUME Shape, Queries, [Next]_vars PROVE Queries'
  OBVIOUS
<1>0. Tagged /\ Tagged'
  BY TaggedNext DEF Queries
\* The lists that devices have stay, and so does what is in each.
<1>1. ASSUME \A u \in Tools : tool[u].pc \notin {"idle", "list", "append"} =>
               /\ tool'[u].dev = tool[u].dev
               /\ tool'[u].pc \notin {"idle", "list", "append"}
               /\ Waiting(u)' => Waiting(u),
             \A d \in Devices : Queue(d)' = Queue(d), UNCHANGED <<taken, dropped>>,
             \A l \in Lists : items'[l] \subseteq items[l],
             \A v, u \in Tools : tool'[v].pc = "write" /\ u \in tool'[v].keep =>
               \/ tool[v].pc = "write" /\ tool'[v].at = tool[v].at /\ u \in tool[v].keep
               \/ Placed(u, tool'[v].at) /\ tool'[v].at \in Devices
      PROVE  Queries'
  <2>1. \A u \in Tools, d \in Devices : Placed(u, d) => Placed(u, d)'
    BY <1>1, PlacedKept
  <2> QED BY <1>0, <1>1, <2>1, QueriesMoved DEF Shape, Found
<1>2. ASSUME UNCHANGED <<lists, taken, dropped>>
      PROVE  /\ \A d \in Devices : Queue(d)' = Queue(d)
             /\ \A l \in Lists : items'[l] \subseteq items[l]
             /\ UNCHANGED <<taken, dropped>>
  BY <1>2 DEF lists, Queue
<1>3. ASSUME (\E e \in Event : Fire(e)) \/ UNCHANGED vars PROVE Queries'
  <2>1. UNCHANGED <<lists, taken, dropped, tool>>
    BY <1>3 DEF Fire, vars, hub, lists, past
  <2> QED BY <1>1, <1>2, <2>1 DEF Waiting
<1>4. ASSUME NEW d \in Devices, NEW t \in Tools, Resolve(d, t) PROVE Queries'
  <2>1. UNCHANGED <<lists, taken, dropped>>
    BY <1>4 DEF Resolve, past
  <2> QED BY <1>1, <1>2, <1>4, <2>1, Resolved DEF Waiting
<1>5. ASSUME NEW t \in Tools, Run(t) \/ Timeout(t) \/ \E d \in Devices : Ask(t, d),
             ~Append(t), ~DiscardWrite(t)
      PROVE  Queries'
  <2>0. /\ \A u \in Tools : u # t => tool'[u] = tool[u]
        /\ \A u \in Tools : tool[u].pc \notin {"idle", "list", "append"} =>
             /\ tool'[u].dev = tool[u].dev
             /\ tool'[u].pc \notin {"idle", "list", "append"}
             /\ Waiting(u)' => Waiting(u)
    BY <1>5, Apart, CallsOn
  <2>1. CASE List(t)
    <3>1. /\ tool'[t].pc = "append"
          /\ \A d \in Devices : Queue(d)' = Queue(d)
          /\ \A l \in Lists : items'[l] \subseteq items[l]
      BY <1>0, <2>1, ListTool
    <3>2. UNCHANGED <<taken, dropped>>
      BY <2>1 DEF List, past
    <3> QED BY <1>1, <2>0, <3>1, <3>2
  <2>2. ASSUME NEW d \in Devices, Sift(t, d) PROVE Queries'
    <3>1. UNCHANGED <<lists, taken, dropped>>
      BY <2>2 DEF Sift, hub, past
    <3>2. /\ tool[t].old[d] \in Lists /\ tool'[t].at = d
          /\ tool'[t].keep = items[tool[t].old[d]] \ {t}
      BY <2>2, SiftTool
    <3>3. tool[t].old[d][3] = d
      BY <1>0, <3>2, MakerAssumption DEF Tagged
    <3>4. \A u \in Tools : u \in tool'[t].keep => Placed(u, d)
      BY <3>2, <3>3 DEF Queries, Listed
    <3> QED BY <1>1, <1>2, <2>0, <3>1, <3>2, <3>4
  <2>3. CASE \/ Register(t) \/ WakeEvent(t) \/ WakeMake(t) \/ WakeLoop(t)
             \/ WakeInline(t) \/ Answered(t) \/ Timeout(t) \/ Discard(t)
             \/ \E d \in Devices : Ask(t, d)
    <3>1. UNCHANGED <<lists, taken, dropped>>
      BY <2>3 DEF Register, WakeEvent, WakeMake, WakeLoop, WakeInline, Answered, Timeout,
                  Discard, Ask, hub, past
    <3>2. tool'[t].pc # "write"
      <4>0. tool \in [Tools -> Tool] /\ tool[t] \in Tool
        BY DEF Shape, TypeOK
      <4>1. CASE Register(t) \/ WakeEvent(t) \/ WakeMake(t)
        BY <4>0, <4>1 DEF Register, WakeEvent, WakeMake, Go, Tool
      <4>2. CASE Answered(t) \/ Timeout(t) \/ Discard(t)
        BY <4>0, <4>2, DiscardTool DEF Answered, Timeout, Tool
      <4>3. CASE WakeLoop(t) \/ WakeInline(t)
        <5>1. tool' = Go(t, "inline") \/ tool' = [tool EXCEPT ![t].pc = "await", ![t].ev = Nobody]
          BY <4>3 DEF WakeLoop, WakeInline
        <5> QED BY <4>0, <5>1 DEF Go, Tool
      <4>4. ASSUME NEW d \in Devices, Ask(t, d) PROVE tool'[t].pc # "write"
        BY <4>0, <4>4 DEF Ask, Tool
      <4> QED BY <2>3, <4>1, <4>2, <4>3, <4>4
    <3> QED BY <1>1, <1>2, <2>0, <3>1, <3>2
  <2> QED BY <1>5, <2>1, <2>2, <2>3 DEF Run
<1> QED BY <1>0, <1>3, <1>4, <1>5, QueriesServe, QueriesAppend, QueriesWrite DEF Next, Run

-----------------------------------------------------------------------------
(* Awake *)

LEMMA AwakeInit == Init => Awake
BY DEF Init, Awake, Over, Enters, IdleDrain

\* The query a drain parks over is a call's, so its device is known to park.
LEMMA OverKnown ==
    ASSUME Shape, Old, Queries, NEW h \in Drains, NEW t \in Tools, NEW d \in Devices, Over(h, t, d)
    PROVE  Appended(t, d) /\ d \in loopOf /\ event[d] # Nobody
<1>1. queries[d] # Nobody /\ queries[d] \in Lists /\ t \in items[queries[d]]
  BY DEF Over, Queue, Shape, TypeOK
<1>2. Appended(t, d)
  BY <1>1 DEF Queries, Tagged, Listed, Placed
<1> QED BY <1>2, CalmKnown DEF Appended, Over

\* No drain comes to sleep over a query, and no wake that comes is lost.
LEMMA AwakeKept ==
    ASSUME Shape, Old, Queries, Awake,
           \A h \in Drains, t \in Tools, d \in Devices :
             Over(h, t, d)' => Over(h, t, d) \/ Coming(d)',
           \A d \in Devices : Calm(d) /\ event[d] # Nobody /\ Coming(d) => Coming(d)'
    PROVE  Awake'
<1> SUFFICES ASSUME NEW h \in Drains, NEW t \in Tools, NEW d \in Devices, Over(h, t, d)'
             PROVE  Coming(d)'
  BY DEF Awake
<1>1. CASE Over(h, t, d)
  <2>1. Calm(d) /\ event[d] # Nobody /\ Coming(d)
    BY <1>1, OverKnown DEF Over, Awake
  <2> QED BY <2>1
<1> QED BY <1>1

LEMMA AwakeServe ==
    ASSUME Shape, Old, Queries, Awake, \A d : Calm(d)' => Calm(d), NEW h \in Drains, Serve(h)
    PROVE  Awake'
<1>0. drain[h] \in Drain /\ drain \in [Drains -> Drain]
  BY DEF Shape, TypeOK
<1>e. ASSUME NEW d \in Devices, Calm(d), event[d] # Nobody PROVE event'[d] = event[d]
  <2>1. CASE ParkMake(h)
    <3>1. drain[h].pc = "make" /\ event' = [event EXCEPT ![drain[h].dev] = h]
      BY <2>1 DEF ParkMake
    <3>2. drain[h].dev # d
      BY <1>e, <3>1 DEF Old, OldDrains, DrainOld
    <3> QED BY <3>1, <3>2 DEF Shape, TypeOK
  <2>2. CASE ~ParkMake(h)
    BY <2>2 DEF Serve, Parking, Take, ParkEvent, ParkLoop, ParkCheck, ParkWait, Consume, Woken,
                ParkTimeout, Retake, Reply, HangUp, hub
  <2> QED BY <2>1, <2>2
<1>1. \A d \in Devices : Calm(d) /\ event[d] # Nobody /\ Coming(d) => Coming(d)'
  BY <1>e, Aside DEF Coming
<1>2. \A t \in Tools : Waiting(t)' <=> Waiting(t)
  BY Aside DEF Waiting
<1>3. \A d \in Devices : Queue(d)' \subseteq Queue(d)
  <2>1. \A d \in Devices : queries'[d] = queries[d] \/ queries'[d] = Nobody
    BY DEF Serve, Parking, Take, ParkEvent, ParkMake, ParkLoop, ParkCheck, ParkWait, Consume,
           Woken, ParkTimeout, Retake, Reply, HangUp, hub, lists, Shape, TypeOK
  <2> QED BY <2>1, Aside DEF Queue
<1>4. taken \subseteq taken' /\ dropped' = dropped
  BY DEF Serve, Parking, Take, ParkEvent, ParkMake, ParkLoop, ParkCheck, ParkWait, Consume,
         Woken, ParkTimeout, Retake, Reply, HangUp, hub, past
<1>5. ASSUME NEW d \in Devices, drain'[h].dev = d, drain'[h].pc \in Enters \cup {"parked"}
      PROVE  \/ Queue(d)' = {}
             \/ /\ drain[h].pc \in Enters \cup {"parked"} /\ drain[h].dev = d
                /\ drain'[h].nudge = drain[h].nudge
  <2>1. ASSUME NEW e \in Devices, Take(h, e) PROVE Queue(d)' = {}
    <3>1. drain'[h].dev = e
      BY <1>0, <2>1 DEF Take, IdleDrain
    <3>2. queries'[d] = Nobody
      BY <1>5, <2>1, <3>1 DEF Take, Shape, TypeOK
    <3> QED BY <3>2 DEF Queue
  <2>2. CASE ParkEvent(h) \/ ParkMake(h) \/ ParkLoop(h)
    BY <1>0, <1>5, <2>2 DEF ParkEvent, ParkMake, ParkLoop, Step, Enters, Drain
  <2>3. ASSUME NEW next \in {"wait", "parked"}, drain[h].pc \in {"check", "wait"},
               Consume(h, next)
        PROVE  /\ drain[h].pc \in Enters \cup {"parked"} /\ drain[h].dev = d
               /\ drain'[h].nudge = drain[h].nudge
    <3>1. drain' = Step(h, "retake") \/ drain' = Step(h, next)
      BY <2>3 DEF Consume
    <3>2. drain'[h].dev = drain[h].dev /\ drain'[h].nudge = drain[h].nudge
      BY <2>3, <3>1, DrainSteps
    <3> QED BY <1>5, <2>3, <3>2 DEF Enters
  <2>4. CASE Woken(h) \/ ParkTimeout(h) \/ Retake(h) \/ Reply(h) \/ HangUp(h)
    <3>1. drain'[h].pc \in {"retake", "reply", "idle"}
      BY <1>0, <2>4 DEF Woken, ParkTimeout, Retake, Reply, HangUp, Step, IdleDrain, Drain
    <3> QED BY <1>5, <3>1 DEF Enters
  <2> QED BY <2>1, <2>2, <2>3, <2>4 DEF Serve, Parking, ParkCheck, ParkWait
<1>6. ASSUME NEW g \in Drains, NEW t \in Tools, NEW d \in Devices, Over(g, t, d)'
      PROVE  Over(g, t, d)
  <2>1. /\ drain'[g].dev = d /\ Calm(d)
        /\ drain'[g].pc \in Enters \cup {"parked"} /\ drain'[g].nudge # "yes"
        /\ t \in Queue(d)' \ (taken' \cup dropped') /\ Waiting(t)
    BY <1>2, <1>6 DEF Over
  <2>2. t \in Queue(d) \ (taken \cup dropped)
    BY <1>3, <1>4, <2>1
  <2>3. CASE g # h
    <3>1. drain'[g] = drain[g]
      BY <2>3, Aside
    <3> QED BY <2>1, <2>2, <3>1 DEF Over
  <2>4. CASE g = h
    BY <1>5, <2>1, <2>2, <2>4 DEF Over
  <2> QED BY <2>3, <2>4
<1> QED BY <1>1, <1>6, AwakeKept

\* A wake that fires wakes every drain that is parked on its device.
LEMMA AwakeFire ==
    ASSUME Shape, Old, Parks, Awake, NEW e \in Event, Fire(e)
    PROVE  Awake'
<1>1. /\ busy = Nobody /\ ready' = ready \ {e}
      /\ UNCHANGED <<queries, items, event, tool, taken, dropped, early>> /\ Set(e, "yes")
  BY DEF Fire, LoopFree, lists, past
<1>2. \A h \in Drains :
        /\ drain'[h].pc = drain[h].pc /\ drain'[h].dev = drain[h].dev
        /\ drain'[h].nudge = IF /\ drain[h].pc = "parked" /\ drain[h].nudge = "no"
                                /\ <<drain[h].dev, drain[h].ev>> = e /\ e \notin flag
                             THEN "yes" ELSE drain[h].nudge
  BY <1>1, SetDrains
<1> SUFFICES ASSUME NEW h \in Drains, NEW t \in Tools, NEW d \in Devices, Over(h, t, d)'
             PROVE  Coming(d)'
  BY DEF Awake
<1>3. Over(h, t, d)
  <2>1. drain'[h].nudge # "yes" => drain[h].nudge # "yes"
    BY <1>2
  <2>2. Queue(d)' = Queue(d) /\ (Calm(d)' <=> Calm(d)) /\ (Waiting(t)' <=> Waiting(t))
    BY <1>1 DEF Queue, Calm, Waiting
  <2> QED BY <1>1, <1>2, <2>1, <2>2 DEF Over
<1>4. drain[h].pc = "parked"
  BY <1>1, <1>3, MakerAssumption DEF Over, Parks, Alone, Makers
<1>5. drain[h].nudge = "no" /\ drain[h].ev = event[d] /\ drain[h].dev = d
  <2>1. drain[h] \in Drain /\ DrainOld(drain[h])
    BY DEF Shape, TypeOK, Old, OldDrains
  <2> QED BY <1>3, <1>4, <2>1 DEF Over, DrainOld, Drain
<1>6. e # <<d, event[d]>>
  <2>1. SUFFICES ASSUME e = <<d, event[d]>> PROVE FALSE
    OBVIOUS
  <2>2. e \notin flag
    BY <1>4, <1>5, <2>1 DEF Parks, FlagSeen
  <2>3. drain'[h].nudge = "yes"
    BY <1>2, <1>4, <1>5, <2>1, <2>2
  <2> QED BY <2>3 DEF Over
<1>7. Coming(d)
  BY <1>3 DEF Awake
<1> QED BY <1>1, <1>6, <1>7 DEF Coming

LEMMA AwakeRun ==
    ASSUME Shape, Old, Queries, Awake, \A d : Calm(d)' => Calm(d),
           NEW t \in Tools, Run(t) \/ Timeout(t) \/ \E d \in Devices : Ask(t, d)
    PROVE  Awake'
<1>0. tool[t] \in Tool /\ tool \in [Tools -> Tool]
  BY DEF Shape, TypeOK
<1>a. \A u \in Tools : u # t => tool'[u] = tool[u]
  BY Apart
<1>e. ASSUME NEW d \in Devices, Calm(d) PROVE event'[d] = event[d]
  <2>1. CASE WakeMake(t)
    <3>1. tool[t].pc = "make" /\ event' = [event EXCEPT ![tool[t].dev] = t]
      BY <2>1 DEF WakeMake
    <3>2. tool[t].dev # d
      BY <1>e, <3>1 DEF Old, OldTools, ToolOld
    <3> QED BY <3>1, <3>2 DEF Shape, TypeOK
  <2>2. CASE ~WakeMake(t)
    BY <2>2 DEF Run, Timeout, Ask, List, Append, Register, WakeEvent, WakeLoop, WakeInline,
                Answered, Discard, Sift, DiscardWrite, hub
  <2> QED BY <2>1, <2>2
<1>c. ASSUME ready \subseteq ready',
             \/ tool[t].pc \notin {"register", "event", "make", "loop"}
             \/ /\ tool'[t].pc \in {"register", "event", "make", "loop"}
                /\ tool'[t].dev = tool[t].dev
      PROVE  \A d \in Devices : Calm(d) /\ event[d] # Nobody /\ Coming(d) => Coming(d)'
  BY <1>a, <1>c, <1>e DEF Coming
\* The queues stay, and t has not begun to wait.
<1>q. ASSUME \A d \in Devices : Queue(d)' = Queue(d), UNCHANGED <<drain, taken, dropped>>,
             Waiting(t)' => Waiting(t)
      PROVE  \A h \in Drains, u \in Tools, d \in Devices : Over(h, u, d)' => Over(h, u, d)
  <2>1. \A u \in Tools : Waiting(u)' => Waiting(u)
    BY <1>a, <1>q DEF Waiting
  <2> QED BY <1>q, <2>1 DEF Over
<1>1. CASE \/ List(t) \/ Register(t) \/ WakeEvent(t) \/ WakeMake(t) \/ Answered(t)
           \/ Timeout(t) \/ Discard(t) \/ (\E d \in Devices : Sift(t, d))
           \/ \E d \in Devices : Ask(t, d)
  <2>1. UNCHANGED <<ready, drain, taken, dropped>>
    BY <1>1 DEF List, Register, WakeEvent, WakeMake, Answered, Timeout, Discard, Sift, Ask, hub, past
  <2>2. \A d \in Devices : Queue(d)' = Queue(d)
    <3>1. CASE List(t)
      BY <3>1, ListTool DEF Queries
    <3>2. CASE ~List(t)
      <4>1. queries' = queries /\ items' = items
        BY <1>1, <3>2 DEF Register, WakeEvent, WakeMake, Answered, Timeout, Discard, Sift, Ask,
                          hub, lists
      <4> QED BY <4>1 DEF Queue
    <3> QED BY <3>1, <3>2
  <2>3. \/ tool'[t].pc \in {"list", "append", "discard", "sift", "write", "done"}
           /\ tool[t].pc \notin {"register", "event", "make", "loop"}
        \/ /\ tool[t].pc \in {"register", "event", "make"}
           /\ tool'[t].pc \in {"event", "make", "loop"} /\ tool'[t].dev = tool[t].dev
    <3>1. CASE Answered(t) \/ Timeout(t)
      BY <1>0, <3>1 DEF Answered, Timeout, Tool
    <3>2. CASE Register(t) \/ WakeEvent(t) \/ WakeMake(t)
      BY <1>0, <3>2 DEF Register, WakeEvent, WakeMake, Go, Tool
    <3>3. CASE List(t) \/ Discard(t) \/ \E d \in Devices : Sift(t, d)
      BY <3>3, ListTool, DiscardTool, SiftTool DEF Queries
    <3>4. ASSUME NEW d \in Devices, Ask(t, d)
          PROVE  tool'[t].pc = "list" /\ tool[t].pc = "idle"
      BY <1>0, <3>4 DEF Ask, Tool
    <3> QED BY <1>1, <3>1, <3>2, <3>3, <3>4
  <2> QED BY <1>c, <1>q, <2>1, <2>2, <2>3, AwakeKept DEF Waiting
<1>2. CASE Append(t)
  <2>1. PICK e \in Devices, l \in Lists : tool[t].dev = e /\ tool[t].list = l /\ l[3] = e
    BY <1>2 DEF Append, Shape, Asking, Queries, Tagged
  <2>2. /\ tool[t].pc = "append" /\ tool'[t].pc = "register" /\ tool'[t].dev = e
        /\ items' = [items EXCEPT ![l] = @ \cup {t}]
        /\ UNCHANGED <<queries, ready, drain, taken>>
        /\ dropped \subseteq dropped'
    BY <1>0, <1>2, <2>1 DEF Append, Tool
  <2>3. ASSUME NEW d \in Devices, d # e PROVE Queue(d)' = Queue(d)
    <3>1. queries[d] # Nobody => queries[d] # l
      BY <2>1, <2>3 DEF Queries, Tagged
    <3>2. queries[d] # Nobody => items'[queries[d]] = items[queries[d]]
      BY <2>2, <3>1 DEF Shape, TypeOK
    <3> QED BY <2>2, <3>2 DEF Queue
  <2>4. Coming(e)'
    BY <2>2 DEF Coming
  <2>5. ASSUME NEW h \in Drains, NEW u \in Tools, NEW d \in Devices, Over(h, u, d)', d # e
        PROVE  Over(h, u, d)
    <3>1. u \in Queue(d) /\ u # t
      <4>1. u \in Queue(d)
        BY <2>3, <2>5 DEF Over
      <4>2. queries[d] \in Lists /\ u \in items[queries[d]]
        BY <4>1 DEF Queue, Shape, TypeOK
      <4>3. tool[u].pc # "append"
        BY <4>2 DEF Queries, Listed, Placed, Appended
      <4> QED BY <2>2, <4>1, <4>3
    <3>2. Waiting(u)
      BY <1>a, <2>5, <3>1 DEF Over, Waiting
    <3> QED BY <2>2, <2>5, <3>1, <3>2 DEF Over
  <2> QED BY <1>c, <2>2, <2>4, <2>5, AwakeKept
<1>3. CASE WakeLoop(t)
  <2>1. /\ tool[t].pc = "loop" /\ UNCHANGED <<queries, items, drain, taken, dropped>>
        /\ ready \subseteq ready'
        /\ tool[t].dev \in loopOf => <<tool[t].dev, tool[t].ev>> \in ready'
    BY <1>3 DEF WakeLoop, lists, past
  <2>2. Waiting(t)
    BY <2>1 DEF Waiting
  <2>3. \A h \in Drains, u \in Tools, d \in Devices : Over(h, u, d)' => Over(h, u, d)
    BY <1>q, <2>1, <2>2 DEF Queue
  <2>4. ASSUME NEW d \in Devices, Calm(d), event[d] # Nobody, Coming(d) PROVE Coming(d)'
    <3>1. CASE tool[t].dev = d
      <4>1. d \in loopOf /\ tool[t].ev = event[d]
        BY <2>1, <2>4, <3>1, CalmKnown DEF Old, OldTools, ToolOld
      <4> QED BY <1>e, <2>1, <2>4, <3>1, <4>1 DEF Coming
    <3>2. CASE tool[t].dev # d
      BY <1>a, <1>e, <2>1, <2>4, <3>2 DEF Coming
    <3> QED BY <3>1, <3>2
  <2> QED BY <2>3, <2>4, AwakeKept
<1>4. CASE WakeInline(t)
  <2>1. /\ tool[t].pc = "inline" /\ UNCHANGED <<queries, items, ready, taken, dropped>>
    BY <1>4 DEF WakeInline, lists, past
  <2>2. <<tool[t].dev, tool[t].ev>> \in Event
    BY <2>1 DEF Event, Shape, Asking, Found
  <2>3. \A h \in Drains :
          /\ drain'[h].pc = drain[h].pc /\ drain'[h].dev = drain[h].dev
          /\ drain'[h].nudge # "yes" => drain[h].nudge # "yes"
    <3>1. Set(<<tool[t].dev, tool[t].ev>>, "quiet")
      BY <1>4 DEF WakeInline
    <3> QED BY <2>2, <3>1, SetDrains
  <2>4. \A u \in Tools : Waiting(u)' => Waiting(u)
    BY <1>a, <2>1 DEF Waiting
  <2>5. \A d \in Devices : Queue(d)' = Queue(d)
    BY <2>1 DEF Queue
  <2>6. \A h \in Drains, u \in Tools, d \in Devices : Over(h, u, d)' => Over(h, u, d)
    BY <2>1, <2>3, <2>4, <2>5 DEF Over
  <2> QED BY <1>c, <2>1, <2>6, AwakeKept
<1>5. CASE DiscardWrite(t)
  <2>0. tool[t].at \in Devices /\ <<"kept", t, tool[t].at>> \in Lists
    BY <1>5, Written
  <2>1. PICK e \in Devices, l \in Lists : e = tool[t].at /\ l = <<"kept", t, tool[t].at>>
    BY <2>0
  <2>2. /\ tool[t].pc = "write" /\ tool'[t].pc \in {"sift", "done"}
        /\ \/ UNCHANGED <<queries, items, dropped>>
           \/ /\ items'[l] = tool[t].keep
              /\ \A m \in Lists : m # l => items'[m] = items[m]
              /\ queries'[e] = (IF tool[t].keep = {} THEN Nobody ELSE l)
              /\ \A d \in Devices : d # e => queries'[d] = queries[d]
              /\ dropped \subseteq dropped'
        /\ UNCHANGED <<ready, drain, taken>>
    BY <1>5, <2>1, Written
  <2>3. ASSUME NEW h \in Drains, NEW u \in Tools, NEW d \in Devices, Over(h, u, d)'
        PROVE  Over(h, u, d)
    <3>1. u # t /\ Waiting(u)
      BY <1>a, <2>2, <2>3 DEF Over, Waiting
    <3>2. u \in Queue(d)' /\ u \notin taken \cup dropped
      BY <2>2, <2>3 DEF Over
    <3>3. u \in Queue(d)
      <4>1. CASE UNCHANGED <<queries, items, dropped>>
        BY <3>2, <4>1 DEF Queue
      <4>2. CASE d = e /\ ~UNCHANGED <<queries, items, dropped>>
        <5>1. u \in tool[t].keep
          BY <2>2, <3>2, <4>2 DEF Queue
        <5> QED BY <2>1, <2>2, <3>1, <3>2, <4>2, <5>1 DEF Queries, Kept, Placed
      <4>3. CASE d # e /\ ~UNCHANGED <<queries, items, dropped>>
        <5>1. queries'[d] = queries[d]
          BY <2>2, <4>3
        <5>2. queries[d] # Nobody => queries[d] \in Lists /\ queries[d] # l
          BY <2>1, <4>3 DEF Queries, Tagged, Shape, TypeOK
        <5> QED BY <2>2, <3>2, <4>3, <5>1, <5>2 DEF Queue
      <4> QED BY <4>1, <4>2, <4>3
    <3> QED BY <2>2, <2>3, <3>1, <3>2, <3>3 DEF Over
  <2> QED BY <1>c, <2>2, <2>3, AwakeKept
<1> QED BY <1>1, <1>2, <1>3, <1>4, <1>5 DEF Run

LEMMA AwakeNext == Shape /\ Old /\ Parks /\ Queries /\ Awake /\ [Next]_vars => Awake'
<1> SUFFICES ASSUME Shape, Old, Parks, Queries, Awake, [Next]_vars PROVE Awake'
  OBVIOUS
<1>0. \A d : Calm(d)' => Calm(d)
  BY CalmBefore
<1>1. ASSUME UNCHANGED <<queries, items, event, ready, drain, taken, dropped>>,
             \A u \in Tools : tool'[u].pc = tool[u].pc /\ tool'[u].dev = tool[u].dev
      PROVE  Awake'
  <2>1. \A d \in Devices : Coming(d) => Coming(d)'
    BY <1>1 DEF Coming
  <2>2. \A h \in Drains, t \in Tools, d \in Devices : Over(h, t, d)' => Over(h, t, d)
    BY <1>0, <1>1 DEF Over, Waiting, Queue
  <2> QED BY <2>1, <2>2, AwakeKept
<1>2. ASSUME NEW d \in Devices, NEW t \in Tools, Resolve(d, t) PROVE Awake'
  <2>1. UNCHANGED <<queries, items, event, ready, drain, taken, dropped>>
    BY <1>2 DEF Resolve, lists, past
  <2> QED BY <1>1, <1>2, <2>1, Resolved
<1>3. CASE UNCHANGED vars
  BY <1>1, <1>3 DEF vars, hub, lists, past
<1> QED BY <1>0, <1>2, <1>3, AwakeServe, AwakeFire, AwakeRun DEF Next

-----------------------------------------------------------------------------
(* The theorems *)

\* The five parts together are inductive.
THEOREM Inductive == Spec => []IInv
<1>1. Init => IInv
  BY ShapeInit, OldInit, ParksInit, QueriesInit, AwakeInit DEF IInv
<1>2. IInv /\ [Next]_vars => IInv'
  BY ShapeNext, OldNext, ParksNext, QueriesNext, AwakeNext DEF IInv
<1> QED BY <1>1, <1>2, PTL DEF Spec

\* However drains and tool calls interleave, the hub keeps its shape.
THEOREM TypeCorrect == Spec => []TypeOK
<1>1. IInv => TypeOK
  BY DEF IInv, Shape
<1> QED BY <1>1, Inductive, PTL

\* Calls that begin after their device has parked, the first time included, never set
\* its event inline under a parked drain (_wake_one, issue 263(b)), with any number of
\* drains and calls: when a drain was so woken, a call had begun before that.
THEOREM NeverInline == Spec => []NeverInlineToParked
<1>1. IInv => NeverInlineToParked
  BY DEF IInv, Old, OldDrains, DrainOld, NeverInlineToParked
<1> QED BY <1>1, Inductive, PTL

\* No lost wake (park, _wake_one): however many drains share one event and however
\* many calls ask at once, no parked drain of a calm device sleeps over a query that
\* nobody took or wrote over, unless its wake is on its way.
THEOREM NoLostWake == Spec => []NoSleepingQuery
<1>1. ASSUME IInv, NEW h \in Drains, drain[h].pc = "parked", Calm(drain[h].dev),
             NEW t \in Queue(drain[h].dev) \ (taken \cup dropped), Waiting(t)
      PROVE  WakeComing(h)
  <2>1. drain[h].dev \in Devices /\ t \in Tools
    BY <1>1, QueueTyped DEF IInv, Shape, Served
  <2>2. drain[h].ev = event[drain[h].dev]
    BY <1>1 DEF IInv, Old, OldDrains, DrainOld
  <2>3. drain[h].nudge = "yes" \/ Over(h, t, drain[h].dev)
    BY <1>1 DEF Over
  <2>4. drain[h].nudge = "yes" \/ Coming(drain[h].dev)
    BY <1>1, <2>1, <2>3 DEF IInv, Awake
  <2> QED BY <2>2, <2>4 DEF Coming, WakeComing
<1>2. IInv => NoSleepingQuery
  BY <1>1 DEF NoSleepingQuery
<1> QED BY <1>2, Inductive, PTL
-----------------------------------------------------------------------------
(* Hub implements Question *)

\* How far a call is tells what it may have heard.
Asks == {"list", "append", "register", "event", "make", "loop", "inline", "await"}

Outcomes == \A t \in Tools :
    /\ tool[t].pc = "idle" => tool[t].answer = "none"
    /\ tool[t].pc \in Asks => tool[t].answer \in {"none", "scheduled"}

\* A query in a drain's answer, or with a phone, is the asked device's.
AskedOf(t, d) == tool[t].pc # "idle" /\ tool[t].dev = d

ToAsked == /\ \A h \in Drains, t \in Tools : t \in drain[h].got => AskedOf(t, drain[h].dev)
           /\ \A d \in Devices, t \in Tools : t \in shown[d] => AskedOf(t, d)

\* Whom a call asks is settled when it begins.
LEMMA CallMoves ==
    ASSUME Shape, [Next]_vars, NEW t \in Tools, NEW d
    PROVE  AskedOf(t, d) => AskedOf(t, d)'
<1> SUFFICES ASSUME AskedOf(t, d) PROVE AskedOf(t, d)'
  OBVIOUS
<1>1. ASSUME NEW h \in Drains, Serve(h) PROVE AskedOf(t, d)'
  BY <1>1, Aside DEF AskedOf
<1>2. ASSUME NEW u \in Tools, Run(u) \/ Timeout(u) \/ \E e \in Devices : Ask(u, e)
      PROVE  AskedOf(t, d)'
  BY <1>2, Apart DEF AskedOf
<1>3. ASSUME NEW e \in Devices, NEW u \in Tools, Resolve(e, u) PROVE AskedOf(t, d)'
  BY <1>3, Resolved DEF AskedOf
<1>4. ASSUME \/ \E e \in Event : Fire(e)
             \/ UNCHANGED vars
      PROVE  AskedOf(t, d)'
  BY <1>4 DEF AskedOf, Fire, vars
<1> QED BY <1>1, <1>2, <1>3, <1>4 DEF Next

\* A drain starts empty, keeps what it carries, or takes what its device's queue has.
LEMMA GotMoves ==
    ASSUME Shape, [Next]_vars, NEW h \in Drains
    PROVE  \/ drain'[h].got = {}
           \/ drain'[h].dev = drain[h].dev /\ drain'[h].got = drain[h].got
           \/ drain'[h].dev \in Devices /\ drain'[h].got = Queue(drain'[h].dev)
<1> DEFINE Goal == \/ drain'[h].got = {}
                   \/ drain'[h].dev = drain[h].dev /\ drain'[h].got = drain[h].got
                   \/ drain'[h].dev \in Devices /\ drain'[h].got = Queue(drain'[h].dev)
<1>0. drain \in [Drains -> Drain] /\ drain[h] \in Drain
  BY DEF Shape, TypeOK
<1>s. ASSUME drain'[h] = drain[h] PROVE Goal
  BY <1>s
<1>1. ASSUME NEW g \in Drains, Serve(g) PROVE Goal
  <2>1. CASE g # h
    BY <1>1, <1>s, <2>1, Aside
  <2>2. CASE g = h
    <3>1. ASSUME NEW d \in Devices, Take(h, d) PROVE Goal
      <4>1. \/ drain'[h] = [IdleDrain EXCEPT !.pc = "reply", !.dev = d, !.got = Queue(d)]
            \/ drain'[h] = [IdleDrain EXCEPT !.pc = "event", !.dev = d]
        BY <1>0, <3>1 DEF Take
      <4> QED BY <4>1 DEF IdleDrain
    <3>2. ASSUME NEW pc, drain' = Step(h, pc) PROVE Goal
      BY <1>0, <3>2 DEF Step, Drain
    <3>3. CASE ParkEvent(h)
      <4>1. \/ drain' = Step(h, "make")
            \/ drain' = [drain EXCEPT ![h].pc = "loop", ![h].ev = event[drain[h].dev]]
        BY <3>3 DEF ParkEvent
      <4> QED BY <1>0, <3>2, <4>1 DEF Drain
    <3>4. CASE \/ ParkMake(h) \/ ParkLoop(h) \/ ParkCheck(h) \/ ParkWait(h)
               \/ Woken(h) \/ ParkTimeout(h)
      BY <3>2, <3>4 DEF ParkMake, ParkLoop, ParkCheck, ParkWait, Consume, Woken, ParkTimeout
    <3>5. CASE Retake(h)
      BY <1>0, <3>5 DEF Retake, Drain, Shape, Served
    <3>6. CASE Reply(h) \/ HangUp(h)
      BY <1>0, <3>6 DEF Reply, HangUp, IdleDrain
    <3> QED BY <1>1, <2>2, <3>1, <3>3, <3>4, <3>5, <3>6 DEF Serve, Parking
  <2> QED BY <2>1, <2>2
<1>2. ASSUME NEW e \in Event, NEW how \in {"quiet", "yes"}, Set(e, how) PROVE Goal
  <2>1. drain'[h] = drain[h] \/ drain'[h] = [drain[h] EXCEPT !.nudge = how]
    BY <1>2 DEF Set
  <2> QED BY <1>0, <1>s, <2>1 DEF Drain
<1>3. ASSUME NEW t \in Tools, WakeInline(t) PROVE Goal
  <2>1. <<tool[t].dev, tool[t].ev>> \in Event
    BY <1>3 DEF WakeInline, Event, Shape, Asking, Found
  <2> QED BY <1>2, <1>3, <2>1 DEF WakeInline
<1>4. ASSUME NEW t \in Tools, Run(t) \/ Timeout(t) PROVE Goal
  <2>1. CASE ~WakeInline(t)
    BY <1>4, <1>s, <2>1 DEF Run, List, Append, Register, WakeEvent, WakeMake, WakeLoop, Answered,
                            Timeout, Discard, Sift, DiscardWrite
  <2> QED BY <1>3, <2>1
<1>5. ASSUME \/ \E d \in Devices, t \in Tools : Resolve(d, t) \/ Ask(t, d)
             \/ UNCHANGED vars
      PROVE  Goal
  BY <1>5, <1>s DEF Resolve, Ask, vars
<1>6. ASSUME NEW e \in Event, Fire(e) PROVE Goal
  BY <1>2, <1>6 DEF Fire
<1> QED BY <1>1, <1>4, <1>5, <1>6 DEF Next

\* A phone is shown only what a drain of its device answers.
LEMMA ShownMoves ==
    ASSUME Shape, [Next]_vars
    PROVE  \/ shown' = shown
           \/ \E h \in Drains :
                /\ Reply(h)
                /\ drain[h].dev \in Devices
                /\ shown'[drain[h].dev] = shown[drain[h].dev] \cup drain[h].got
                /\ \A d \in Devices : d # drain[h].dev => shown'[d] = shown[d]
<1>1. CASE \E h \in Drains : Reply(h)
  BY <1>1 DEF Reply, Shape, Served, TypeOK
<1>2. CASE ~\E h \in Drains : Reply(h)
  BY <1>2 DEF Next, Serve, Parking, Run, vars, past, Take, ParkEvent, ParkMake, ParkLoop, ParkCheck,
              ParkWait, Consume, Woken, ParkTimeout, Retake, HangUp, Fire, Resolve, Ask, List,
              Append, Register, WakeEvent, WakeMake, WakeLoop, WakeInline, Answered, Timeout,
              Discard, Sift, DiscardWrite
<1> QED BY <1>1, <1>2

\* A query that a drain would find asks its device.
LEMMA QueueAsks ==
    ASSUME Shape, Queries, NEW d \in Devices, NEW t \in Tools, t \in Queue(d)
    PROVE  AskedOf(t, d)
<1>1. queries[d] # Nobody /\ queries[d] \in Lists /\ t \in items[queries[d]]
  BY DEF Queue, Shape, TypeOK
<1> QED BY <1>1 DEF Queries, Tagged, Listed, Placed, Appended, AskedOf

LEMMA ToAskedNext ==
    ASSUME Shape, Queries, ToAsked, [Next]_vars
    PROVE  ToAsked'
<1>1. ASSUME NEW h \in Drains, NEW t \in Tools, NEW d, d = drain'[h].dev, t \in drain'[h].got
      PROVE  AskedOf(t, d)'
  <2>1. \/ drain[h].dev = d /\ t \in drain[h].got
        \/ d \in Devices /\ t \in Queue(d)
    BY <1>1, GotMoves
  <2>2. AskedOf(t, d)
    BY <2>1, QueueAsks DEF ToAsked
  <2> QED BY <2>2, CallMoves
<1>2. ASSUME NEW d \in Devices, NEW t \in Tools, t \in shown'[d]
      PROVE  AskedOf(t, d)'
  <2>1. AskedOf(t, d)
    <3>1. CASE t \in shown[d]
      BY <3>1 DEF ToAsked
    <3>2. CASE t \notin shown[d]
      BY <1>2, <3>2, ShownMoves DEF ToAsked
    <3> QED BY <3>1, <3>2
  <2> QED BY <2>1, CallMoves
<1>3. \A h \in Drains, t \in Tools : t \in drain'[h].got => AskedOf(t, drain[h].dev)'
  BY <1>1 DEF AskedOf
<1> QED BY <1>2, <1>3 DEF ToAsked

\* No call has given up before its timer fires, and none that has not begun is answered.
LEMMA OutcomesNext == Shape /\ Queries /\ Outcomes /\ ToAsked /\ [Next]_vars => Outcomes'
<1> SUFFICES ASSUME Shape, Queries, Outcomes, ToAsked, [Next]_vars, NEW t \in Tools
             PROVE  /\ tool'[t].pc = "idle" => tool'[t].answer = "none"
                    /\ tool'[t].pc \in Asks => tool'[t].answer \in {"none", "scheduled"}
  BY DEF Outcomes
<1> DEFINE Goal == /\ tool'[t].pc = "idle" => tool'[t].answer = "none"
                   /\ tool'[t].pc \in Asks => tool'[t].answer \in {"none", "scheduled"}
<1>0. tool \in [Tools -> Tool] /\ tool[t] \in Tool
  BY DEF Shape, TypeOK
<1>s. ASSUME tool'[t].pc = tool[t].pc, tool'[t].answer = tool[t].answer PROVE Goal
  BY <1>s DEF Outcomes
<1>1. ASSUME NEW h \in Drains, Serve(h) PROVE Goal
  BY <1>1, <1>s, Aside
<1>2. ASSUME NEW u \in Tools, NEW d \in Devices, Ask(u, d) PROVE Goal
  BY <1>0, <1>2 DEF Ask, Tool, Outcomes, Asks
<1>3. ASSUME NEW u \in Tools, Run(u) \/ Timeout(u), ~DiscardWrite(u) PROVE Goal
  <2>1. CASE u # t
    BY <1>3, <1>s, <2>1, Apart
  <2>2. CASE u = t
    <3>1. CASE Answered(t) \/ Timeout(t)
      BY <1>0, <3>1 DEF Answered, Timeout, Tool, Asks
    <3>2. CASE Discard(t) \/ \E d \in Devices : Sift(t, d)
      BY <3>2, DiscardTool, SiftTool DEF Asks
    <3>3. ASSUME tool[t].pc \in Asks, tool'[t].pc # "idle", tool'[t].answer = tool[t].answer
          PROVE  Goal
      BY <3>3 DEF Outcomes
    <3>4. CASE List(t)
      BY <3>3, <3>4, ListTool DEF Queries, Asks
    <3>5. CASE Append(t) \/ Register(t) \/ WakeEvent(t) \/ WakeMake(t)
      <4>1. tool'[t].answer = tool[t].answer /\ tool[t].pc \in Asks /\ tool'[t].pc # "idle"
        BY <1>0, <3>5 DEF Append, Register, WakeEvent, WakeMake, Go, Tool, Asks
      <4> QED BY <3>3, <4>1
    <3>6. CASE WakeLoop(t) \/ WakeInline(t)
      <4>1. /\ tool[t].pc \in Asks
            /\ tool' = Go(t, "inline") \/ tool' = [tool EXCEPT ![t].pc = "await", ![t].ev = Nobody]
        BY <3>6 DEF WakeLoop, WakeInline, Asks
      <4>2. tool'[t].answer = tool[t].answer /\ tool'[t].pc # "idle"
        BY <1>0, <4>1 DEF Go, Tool
      <4> QED BY <3>3, <4>1, <4>2
    <3> QED BY <1>3, <2>2, <3>1, <3>2, <3>4, <3>5, <3>6 DEF Run
  <2> QED BY <1>3, <2>1, <2>2
<1>4. ASSUME NEW u \in Tools, DiscardWrite(u) PROVE Goal
  <2>1. /\ tool'[t].answer = tool[t].answer
        /\ tool'[t].pc = tool[t].pc \/ tool'[t].pc \in {"sift", "done"}
    BY <1>4, Written
  <2> QED BY <1>s, <2>1 DEF Asks
<1>5. ASSUME NEW d \in Devices, NEW u \in Tools, Resolve(d, u) PROVE Goal
  <2>1. tool[u].pc # "idle"
    BY <1>5 DEF Resolve, ToAsked, AskedOf
  <2> QED BY <1>0, <1>5, <2>1 DEF Resolve, Tool, Outcomes
<1>6. ASSUME \/ \E e \in Event : Fire(e)
             \/ UNCHANGED vars
      PROVE  tool' = tool
  BY <1>6 DEF Fire, vars
<1> QED BY <1>1, <1>2, <1>3, <1>4, <1>5, <1>6, <1>s DEF Next

\* The calls, and what their questions went through, are typed and addressed.
QInv == Shape /\ Queries /\ Outcomes /\ ToAsked

LEMMA QInvInit == Init => QInv
<1>1. Init => Outcomes /\ ToAsked
  BY DEF Init, Outcomes, ToAsked, IdleDrain, IdleTool, Asks
<1> QED BY <1>1, ShapeInit, QueriesInit DEF QInv

LEMMA QInvNext == QInv /\ [Next]_vars => QInv'
BY ShapeNext, QueriesNext, OutcomesNext, ToAskedNext DEF QInv

LEMMA EnquiryInit == Init => Enquiry!Init
<1> SUFFICES ASSUME Init PROVE Enquiry!Init
  OBVIOUS
<1>1. ASSUME NEW t \in Tools
      PROVE  /\ StatusOf(tool[t]) = "new" /\ tool[t].dev = Nobody
             /\ {d \in Devices : t \in shown[d]} = {}
  BY DEF Init, StatusOf, IdleTool
<1>2. Asked = [t \in Tools |-> [status |-> "new", to |-> Nobody, seen |-> {}]]
  BY <1>1 DEF Asked
<1> QED BY <1>2 DEF Enquiry!Init

\* A call that has begun and has the same outcome looks the same to the agent.
LEMMA SameStatus ==
    ASSUME NEW c, NEW e, e.answer = c.answer, c.pc = "idle" <=> e.pc = "idle"
    PROVE  StatusOf(e) = StatusOf(c)
BY DEF StatusOf

\* The devices that were shown the query of t.
SeenBy(t) == {d \in Devices : t \in shown[d]}

LEMMA AskedIs ==
    /\ Asked = [t \in Tools |-> [status |-> StatusOf(tool[t]), to |-> tool[t].dev,
                                 seen |-> SeenBy(t)]]
    /\ Asked' = [t \in Tools |-> [status |-> StatusOf(tool'[t]), to |-> tool'[t].dev,
                                  seen |-> SeenBy(t)']]
<1>1. Asked = [t \in Tools |-> [status |-> StatusOf(tool[t]), to |-> tool[t].dev,
                               seen |-> SeenBy(t)]]
  BY DEF Asked, SeenBy
<1>2. Asked' = [t \in Tools |-> [status |-> StatusOf(tool[t])', to |-> tool'[t].dev,
                                 seen |-> SeenBy(t)']]
  BY DEF Asked, SeenBy
<1>3. \A t \in Tools : StatusOf(tool[t])' = StatusOf(tool'[t])
  BY DEF StatusOf
<1> QED BY <1>1, <1>2, <1>3

\* Nothing an agent knows of changed.
LEMMA EnquiryStutters ==
    ASSUME \A t \in Tools : StatusOf(tool'[t]) = StatusOf(tool[t]) /\ tool'[t].dev = tool[t].dev,
           \A t \in Tools : SeenBy(t)' = SeenBy(t)
    PROVE  Asked' = Asked
BY AskedIs

\* What the agent knows of a question is typed.
LEMMA AskedTyped == Shape => Asked \in [Tools -> Enquiry!Question]
<1> SUFFICES ASSUME Shape, NEW t \in Tools
             PROVE  [status |-> StatusOf(tool[t]), to |-> tool[t].dev, seen |-> SeenBy(t)]
                      \in Enquiry!Question
  BY AskedIs
<1>1. StatusOf(tool[t]) \in Enquiry!Statuses
  BY DEF StatusOf, Enquiry!Statuses
<1>2. tool[t].dev \in Devices \cup {Nobody}
  BY DEF Shape, TypeOK, Tool
<1>3. SeenBy(t) \in SUBSET Devices
  BY DEF SeenBy
<1> QED BY <1>1, <1>2, <1>3 DEF Enquiry!Question

\* A question that differs from another in one or two fields.
LEMMA QuestionFields ==
    ASSUME NEW r \in Enquiry!Question, NEW q \in Enquiry!Question
    PROVE  /\ q.seen = r.seen => q = [r EXCEPT !.status = q.status, !.to = q.to]
           /\ q.seen = r.seen /\ q.to = r.to => q = [r EXCEPT !.status = q.status]
           /\ q.status = r.status /\ q.to = r.to => q = [r EXCEPT !.seen = q.seen]
           /\ q.status = r.status /\ q.to = r.to /\ q.seen = r.seen => q = r
<1>1. ASSUME q.seen = r.seen PROVE q = [r EXCEPT !.status = q.status, !.to = q.to]
  BY <1>1 DEF Enquiry!Question, Enquiry!Statuses
<1>2. ASSUME q.seen = r.seen, q.to = r.to PROVE q = [r EXCEPT !.status = q.status]
  BY <1>2 DEF Enquiry!Question, Enquiry!Statuses
<1>3. ASSUME q.status = r.status, q.to = r.to PROVE q = [r EXCEPT !.seen = q.seen]
  BY <1>3 DEF Enquiry!Question, Enquiry!Statuses
<1>4. ASSUME q.status = r.status, q.to = r.to, q.seen = r.seen PROVE q = r
  BY <1>4 DEF Enquiry!Question, Enquiry!Statuses
<1> QED BY <1>1, <1>2, <1>3, <1>4

\* What an agent knows of each question, before and after a step.
LEMMA AskedFields ==
    ASSUME Shape, Shape'
    PROVE  /\ Asked \in [Tools -> Enquiry!Question] /\ Asked' \in [Tools -> Enquiry!Question]
           /\ \A t \in Tools : /\ Asked[t].status = StatusOf(tool[t])
                              /\ Asked[t].to = tool[t].dev
                              /\ Asked[t].seen = SeenBy(t)
                              /\ Asked'[t].status = StatusOf(tool'[t])
                              /\ Asked'[t].to = tool'[t].dev
                              /\ Asked'[t].seen = SeenBy(t)'
<1>1. Asked \in [Tools -> Enquiry!Question] /\ (Asked \in [Tools -> Enquiry!Question])'
  BY AskedTyped, PTL
<1>2. ASSUME NEW t \in Tools
      PROVE  /\ Asked[t].status = StatusOf(tool[t])
             /\ Asked[t].to = tool[t].dev
             /\ Asked[t].seen = SeenBy(t)
  <2>1. Asked[t] = [status |-> StatusOf(tool[t]), to |-> tool[t].dev, seen |-> SeenBy(t)]
    BY AskedIs
  <2>2. Asked[t].status = StatusOf(tool[t])
    BY <2>1
  <2>3. Asked[t].to = tool[t].dev
    BY <2>1
  <2>4. Asked[t].seen = SeenBy(t)
    BY <2>1
  <2> QED BY <2>2, <2>3, <2>4
<1>3. ASSUME NEW t \in Tools
      PROVE  /\ Asked'[t].status = StatusOf(tool'[t])
             /\ Asked'[t].to = tool'[t].dev
             /\ Asked'[t].seen = SeenBy(t)'
  <2>1. Asked'[t] = [status |-> StatusOf(tool'[t]), to |-> tool'[t].dev, seen |-> SeenBy(t)']
    BY AskedIs
  <2>2. Asked'[t].status = StatusOf(tool'[t])
    BY <2>1
  <2>3. Asked'[t].to = tool'[t].dev
    BY <2>1
  <2>4. Asked'[t].seen = SeenBy(t)'
    BY <2>1
  <2> QED BY <2>2, <2>3, <2>4
<1> QED BY <1>1, <1>2, <1>3

\* One call goes on, its phone knows what it knew.
LEMMA EnquiryMoves ==
    ASSUME Shape, Shape', shown' = shown, NEW t \in Tools,
           \A u \in Tools : u # t => tool'[u] = tool[u]
    PROVE  /\ Asked' = [Asked EXCEPT ![t].status = StatusOf(tool'[t]), ![t].to = tool'[t].dev]
           /\ tool'[t].dev = tool[t].dev
              => Asked' = [Asked EXCEPT ![t].status = StatusOf(tool'[t])]
<1>1. \A u \in Tools : SeenBy(u)' = SeenBy(u)
  BY DEF SeenBy
<1>q. \A u \in Tools : Asked[u] \in Enquiry!Question /\ Asked'[u] \in Enquiry!Question
  BY AskedFields
<1>2. ASSUME NEW u \in Tools, u # t PROVE Asked'[u] = Asked[u]
  <2>1. /\ Asked'[u].status = Asked[u].status /\ Asked'[u].to = Asked[u].to
        /\ Asked'[u].seen = Asked[u].seen
    BY <1>1, <1>2, AskedFields
  <2> QED BY <1>q, <2>1, QuestionFields
<1>3. Asked' = [Asked EXCEPT ![t] = Asked'[t]]
  BY <1>2, AskedFields
<1>4. Asked' = [Asked EXCEPT ![t].status = Asked'[t].status, ![t].to = Asked'[t].to]
  <2>1. Asked'[t] = [Asked[t] EXCEPT !.status = Asked'[t].status, !.to = Asked'[t].to]
    <3>1. Asked'[t].seen = Asked[t].seen
      BY <1>1, AskedFields
    <3> QED BY <1>q, <3>1, QuestionFields
  <2>2. Asked' = [Asked EXCEPT ![t] = [Asked[t] EXCEPT !.status = Asked'[t].status,
                                                       !.to = Asked'[t].to]]
    BY <1>3, <2>1
  <2> QED BY <2>2, AskedFields
<1>5. ASSUME tool'[t].dev = tool[t].dev
      PROVE  Asked' = [Asked EXCEPT ![t].status = Asked'[t].status]
  <2>1. Asked'[t] = [Asked[t] EXCEPT !.status = Asked'[t].status]
    <3>1. Asked'[t].seen = Asked[t].seen /\ Asked'[t].to = Asked[t].to
      BY <1>1, <1>5, AskedFields
    <3> QED BY <1>q, <3>1, QuestionFields
  <2>2. Asked' = [Asked EXCEPT ![t] = [Asked[t] EXCEPT !.status = Asked'[t].status]]
    BY <1>3, <2>1
  <2> QED BY <2>2, AskedFields
<1> QED BY <1>4, <1>5, AskedFields

\* Some calls end without an answer, the others look the same.
LEMMA EnquiryGives ==
    ASSUME Shape, Shape', shown' = shown, NEW S \in SUBSET Tools,
           \A t \in Tools : tool'[t].dev = tool[t].dev,
           \A t \in S : /\ StatusOf(tool[t]) \in {"open", "answered"}
                        /\ StatusOf(tool'[t]) = "silent",
           \A t \in Tools \ S : StatusOf(tool'[t]) = StatusOf(tool[t])
    PROVE  Enquiry!GiveUp(S)
<1>1. \A t \in Tools : SeenBy(t)' = SeenBy(t)
  BY DEF SeenBy
<1>q. \A t \in Tools : Asked[t] \in Enquiry!Question /\ Asked'[t] \in Enquiry!Question
  BY AskedFields
<1>2. ASSUME NEW t \in S PROVE Asked'[t] = [Asked[t] EXCEPT !.status = "silent"]
  <2>1. /\ Asked'[t].status = "silent" /\ Asked'[t].to = Asked[t].to
        /\ Asked'[t].seen = Asked[t].seen
    BY <1>1, AskedFields
  <2>2. Asked'[t] = [Asked[t] EXCEPT !.status = Asked'[t].status]
    BY <1>q, <2>1, QuestionFields
  <2> QED BY <2>1, <2>2
<1>3. ASSUME NEW t \in Tools \ S PROVE Asked'[t] = Asked[t]
  <2>1. /\ Asked'[t].status = Asked[t].status /\ Asked'[t].to = Asked[t].to
        /\ Asked'[t].seen = Asked[t].seen
    BY <1>1, AskedFields
  <2> QED BY <1>q, <2>1, QuestionFields
<1>4. Asked' = [t \in Tools |-> IF t \in S THEN [Asked[t] EXCEPT !.status = "silent"]
                                ELSE Asked[t]]
  BY <1>2, <1>3, AskedFields
<1>5. \A t \in S : Asked[t].status \in {"open", "answered"}
  BY AskedFields
<1> QED BY <1>4, <1>5 DEF Enquiry!GiveUp

\* Nothing an agent knows of is touched by a step that leaves the calls' outcomes alone.
LEMMA EnquiryRests ==
    ASSUME shown' = shown,
           \A t \in Tools : /\ tool'[t].answer = tool[t].answer /\ tool'[t].dev = tool[t].dev
                            /\ tool'[t].pc = "idle" <=> tool[t].pc = "idle"
    PROVE  Asked' = Asked
<1>1. \A t \in Tools : SeenBy(t)' = SeenBy(t)
  BY DEF SeenBy
<1>2. \A t \in Tools : StatusOf(tool'[t]) = StatusOf(tool[t])
  BY SameStatus
<1> QED BY <1>1, <1>2, EnquiryStutters

\* A drain's answer reaches its phone: the queries in it are shown to the asked device.
LEMMA ReplyShows ==
    ASSUME QInv, QInv', NEW h \in Drains, Reply(h)
    PROVE  drain[h].dev \in Devices /\ Enquiry!Show(drain[h].dev, drain[h].got)
<1> DEFINE d == drain[h].dev
           S == drain[h].got
<1>0. Shape /\ Shape' /\ ToAsked
  BY DEF QInv
<1>1. d \in Devices /\ S \subseteq Tools
  BY <1>0 DEF Reply, Shape, Served, TypeOK, Drain
<1>2. /\ shown'[d] = shown[d] \cup S
      /\ \A e \in Devices : e # d => shown'[e] = shown[e]
      /\ tool' = tool
  BY <1>0, <1>1 DEF Reply, Shape, TypeOK
<1>3. ASSUME NEW t \in S PROVE Asked[t].status # "new" /\ Asked[t].to = d
  <2>1. tool[t].pc # "idle" /\ tool[t].dev = d
    BY <1>0, <1>1 DEF ToAsked, AskedOf
  <2>2. StatusOf(tool[t]) # "new"
    BY <2>1 DEF StatusOf
  <2> QED BY <1>0, <1>1, <2>1, <2>2, AskedFields
<1>q. \A t \in Tools : Asked[t] \in Enquiry!Question /\ Asked'[t] \in Enquiry!Question
  BY <1>0, AskedFields
<1> HIDE DEF d, S
<1>4. ASSUME NEW t \in S PROVE Asked'[t] = [Asked[t] EXCEPT !.seen = @ \cup {d}]
  <2>1. SeenBy(t)' = SeenBy(t) \cup {d}
    BY <1>1, <1>2 DEF SeenBy
  <2>2. /\ Asked'[t].seen = Asked[t].seen \cup {d} /\ Asked'[t].to = Asked[t].to
        /\ Asked'[t].status = Asked[t].status
    BY <1>0, <1>1, <1>2, <2>1, AskedFields
  <2>3. Asked'[t] = [Asked[t] EXCEPT !.seen = Asked'[t].seen]
    BY <1>1, <1>q, <2>2, QuestionFields
  <2> QED BY <2>2, <2>3
<1>5. ASSUME NEW t \in Tools \ S PROVE Asked'[t] = Asked[t]
  <2>1. SeenBy(t)' = SeenBy(t)
    BY <1>1, <1>2, <1>5 DEF SeenBy
  <2>2. /\ Asked'[t].seen = Asked[t].seen /\ Asked'[t].to = Asked[t].to
        /\ Asked'[t].status = Asked[t].status
    BY <1>0, <1>2, <2>1, AskedFields
  <2> QED BY <1>q, <2>2, QuestionFields
<1>6. Asked' = [t \in Tools |-> IF t \in S THEN [Asked[t] EXCEPT !.seen = @ \cup {d}]
                                ELSE Asked[t]]
  BY <1>0, <1>4, <1>5, AskedFields
<1>7. Enquiry!Show(d, S)
  BY <1>3, <1>6 DEF Enquiry!Show
<1> QED BY <1>1, <1>7 DEF d, S

\* What each step of a drain is to the agent: nothing, or questions shown.
LEMMA DrainShows ==
    ASSUME QInv, QInv', NEW h \in Drains, Serve(h)
    PROVE  Enquiry!Next \/ Asked' = Asked
<1>1. CASE Reply(h)
  <2>1. drain[h].dev \in Devices /\ Enquiry!Show(drain[h].dev, drain[h].got)
    BY <1>1, ReplyShows
  <2>2. drain[h].got \in SUBSET Tools
    BY DEF QInv, Shape, TypeOK, Drain
  <2> QED BY <2>1, <2>2 DEF Enquiry!Next
<1>2. CASE ~Reply(h)
  <2>1. shown' = shown
    BY <1>2 DEF Serve, Parking, Take, ParkEvent, ParkMake, ParkLoop, ParkCheck, ParkWait, Consume,
                Woken, ParkTimeout, Retake, HangUp, past
  <2>2. tool' = tool
    BY Aside DEF QInv
  <2> QED BY <2>1, <2>2, EnquiryRests
<1> QED BY <1>1, <1>2

\* What each step of a call is to the agent.
LEMMA CallAsks ==
    ASSUME QInv, QInv', NEW t \in Tools,
           Run(t) \/ Timeout(t) \/ \E d \in Devices : Ask(t, d)
    PROVE  Enquiry!Next \/ Asked' = Asked
<1>0. tool \in [Tools -> Tool] /\ tool[t] \in Tool /\ Shape /\ Shape' /\ Outcomes
  BY DEF QInv, Shape, TypeOK
<1>1. shown' = shown
  BY DEF Run, List, Append, Register, WakeEvent, WakeMake, WakeLoop, WakeInline, Answered, Timeout,
         Discard, Sift, DiscardWrite, Ask, past
<1>2. \A u \in Tools : u # t => tool'[u] = tool[u]
  BY <1>0, Apart
<1>f. Asked[t].status = StatusOf(tool[t]) /\ DOMAIN Asked = Tools
  BY <1>0, AskedFields
<1>3. ASSUME NEW d \in Devices, Ask(t, d) PROVE Enquiry!Next
  <2>1. /\ tool[t].pc = "idle" /\ tool[t].answer = "none"
        /\ tool'[t].pc = "list" /\ tool'[t].dev = d /\ tool'[t].answer = "none"
    BY <1>0, <1>3 DEF Ask, Outcomes, Tool
  <2>2. StatusOf(tool[t]) = "new"
    BY <2>1 DEF StatusOf
  <2>3. StatusOf(tool'[t]) = "open"
    BY <2>1 DEF StatusOf
  <2>5. Asked' = [Asked EXCEPT ![t].status = "open", ![t].to = d]
    BY <1>0, <1>1, <1>2, <2>1, <2>3, EnquiryMoves
  <2>6. Enquiry!Ask(t, d)
    BY <1>f, <2>2, <2>5 DEF Enquiry!Ask, Enquiry!WithStatus
  <2> QED BY <2>6 DEF Enquiry!Next
<1>4. CASE Answered(t)
  <2>1. /\ tool'[t].pc = "discard" /\ tool'[t].answer = "got" /\ tool'[t].dev = tool[t].dev
        /\ tool[t].pc = "await" /\ tool[t].answer = "scheduled"
    BY <1>0, <1>4 DEF Answered, Tool
  <2>2. StatusOf(tool'[t]) = "heard"
    BY <2>1 DEF StatusOf
  <2>3. StatusOf(tool[t]) = "answered"
    BY <2>1 DEF StatusOf
  <2>5. Asked' = [Asked EXCEPT ![t].status = "heard"]
    BY <1>0, <1>1, <1>2, <2>1, <2>2, EnquiryMoves
  <2>6. Enquiry!Hear(t)
    BY <1>f, <2>3, <2>5 DEF Enquiry!Hear, Enquiry!Becomes, Enquiry!WithStatus
  <2> QED BY <2>6 DEF Enquiry!Next
<1>5. CASE Timeout(t)
  <2>1. /\ tool'[t].pc = "discard" /\ tool'[t].answer = "timeout" /\ tool'[t].dev = tool[t].dev
        /\ tool[t].pc = "await" /\ tool[t].answer \in {"none", "scheduled"}
    BY <1>0, <1>5 DEF Timeout, Tool, Outcomes, Asks
  <2>2. StatusOf(tool'[t]) = "silent"
    BY <2>1 DEF StatusOf
  <2>3. StatusOf(tool[t]) \in {"open", "answered"}
    BY <2>1 DEF StatusOf
  <2>4. \A u \in Tools : tool'[u].dev = tool[u].dev /\ (u # t => StatusOf(tool'[u]) = StatusOf(tool[u]))
    BY <1>2, <2>1
  <2>5. Enquiry!GiveUp({t})
    BY <1>0, <1>1, <2>1, <2>2, <2>3, <2>4, EnquiryGives
  <2> QED BY <2>5 DEF Enquiry!Next
\* The call goes on with the question as it is.
<1>r. ASSUME tool[t].pc # "idle", tool'[t].answer = tool[t].answer PROVE Asked' = Asked
  <2>1. tool'[t].dev = tool[t].dev /\ tool'[t].pc # "idle"
    BY <1>0, <1>r, Apart
  <2>2. \A u \in Tools : /\ tool'[u].answer = tool[u].answer /\ tool'[u].dev = tool[u].dev
                         /\ tool'[u].pc = "idle" <=> tool[u].pc = "idle"
    BY <1>2, <1>r, <2>1
  <2> QED BY <1>1, <2>2, EnquiryRests
<1>6. CASE List(t) \/ Discard(t) \/ (\E d \in Devices : Sift(t, d)) \/ DiscardWrite(t)
  <2>1. tool[t].pc # "idle" /\ tool'[t].answer = tool[t].answer
    BY <1>0, <1>6, ListTool, DiscardTool, SiftTool, Written DEF QInv, Queries
  <2> QED BY <1>r, <2>1
<1>7. CASE Append(t) \/ Register(t) \/ WakeEvent(t) \/ WakeMake(t)
  <2>1. tool[t].pc # "idle" /\ tool'[t].answer = tool[t].answer
    BY <1>0, <1>7 DEF Append, Register, WakeEvent, WakeMake, Go, Tool
  <2> QED BY <1>r, <2>1
<1>8. CASE WakeLoop(t) \/ WakeInline(t)
  <2>1. /\ tool[t].pc # "idle"
        /\ tool' = Go(t, "inline") \/ tool' = [tool EXCEPT ![t].pc = "await", ![t].ev = Nobody]
    BY <1>8 DEF WakeLoop, WakeInline
  <2>2. tool'[t].answer = tool[t].answer
    BY <1>0, <2>1 DEF Go, Tool
  <2> QED BY <1>r, <2>1, <2>2
<1> QED BY <1>3, <1>4, <1>5, <1>6, <1>7, <1>8 DEF Run

\* A phone's answer is one only while the call still waits, and its phone was asked.
LEMMA ResolveAnswers ==
    ASSUME QInv, QInv', NEW d \in Devices, NEW t \in Tools, Resolve(d, t)
    PROVE  Enquiry!Next \/ Asked' = Asked
<1>0. tool \in [Tools -> Tool] /\ tool[t] \in Tool /\ Shape /\ Shape'
  BY DEF QInv, Shape, TypeOK
<1>1. shown' = shown
  BY DEF Resolve, past
<1>2. CASE tool' = [tool EXCEPT ![t].answer = "scheduled"] /\ tool[t].answer = "none"
  <2>1. tool[t].pc # "idle" /\ tool[t].dev \in SeenBy(t)
    BY DEF QInv, ToAsked, AskedOf, SeenBy, Resolve
  <2>2. /\ tool'[t].pc = tool[t].pc /\ tool'[t].answer = "scheduled"
        /\ tool'[t].dev = tool[t].dev /\ \A u \in Tools : u # t => tool'[u] = tool[u]
    BY <1>0, <1>2 DEF Tool
  <2>3. StatusOf(tool'[t]) = "answered"
    BY <2>1, <2>2 DEF StatusOf
  <2>4. StatusOf(tool[t]) = "open"
    BY <1>2, <2>1 DEF StatusOf
  <2>5. Asked' = [Asked EXCEPT ![t].status = "answered"]
    BY <1>0, <1>1, <2>2, <2>3, EnquiryMoves
  <2>6. Asked[t].status = "open" /\ Asked[t].to \in Asked[t].seen
    BY <1>0, <2>1, <2>4, AskedFields
  <2>7. Enquiry!Answer(t)
    BY <2>5, <2>6 DEF Enquiry!Answer, Enquiry!Becomes, Enquiry!WithStatus
  <2> QED BY <2>7 DEF Enquiry!Next
<1>3. CASE tool' = tool
  BY <1>1, <1>3, EnquiryRests
<1> QED BY <1>2, <1>3 DEF Resolve

\* Whatever the HTTP loop and the tools' threads interleave, every drain, tool call,
\* dropped connection, late answer and list written back under another's hands is a
\* step of phone_query's promise, or changes nothing an agent can tell.
THEOREM KeepsQuestion == Spec => QuestionSpec
<1>1. Init => Enquiry!Init
  BY EnquiryInit
<1>2. ASSUME QInv, QInv', [Next]_vars PROVE Enquiry!Next \/ Asked' = Asked
  <2>1. ASSUME \/ \E e \in Event : Fire(e)
               \/ UNCHANGED vars
        PROVE  tool' = tool /\ shown' = shown
    BY <2>1 DEF Fire, vars, past
  <2> QED BY <1>2, <2>1, DrainShows, CallAsks, ResolveAnswers, EnquiryRests DEF Next
<1>3. QInv /\ QInv' /\ [Next]_vars => [Enquiry!Next]_Asked
  BY <1>2
<1> QED BY <1>1, <1>3, QInvInit, QInvNext, PTL DEF Spec, QuestionSpec, Enquiry!Spec
=============================================================================
