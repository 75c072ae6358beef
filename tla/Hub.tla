-------------------------------- MODULE Hub --------------------------------
(***************************************************************************)
(* The ephemeral half of Talaria: TransportHub (transport.py), the query   *)
(* legs of the drain and query_result verbs (envelope.py) and the tool     *)
(* that asks the phone a question and waits for the answer (tools.py).     *)
(*                                                                         *)
(* The hub's dictionaries have no lock.  The HTTP loop, one thread, runs   *)
(* every drain and every answer, and the callbacks scheduled onto it; each *)
(* tool call runs on a loop and thread of its own.  One action is one      *)
(* access to a shared dictionary or event: what two threads interleave.    *)
(* Between two awaits the HTTP loop is busy with one drain (busy).         *)
(***************************************************************************)
EXTENDS Naturals, FiniteSets

CONSTANTS Devices,   \* paired devices
          Drains,    \* drain requests the HTTP loop serves at once
          Tools,     \* tool calls; each asks one query, named by the call
          Earlier,   \* made the event of a device that parked before
          MaxEarly,  \* bound on the calls that begin before their device ever parked
          Nobody     \* None: no event, no list, no drain running

Makers == Drains \cup Tools \cup {Earlier}

\* A list of queries is an object with an identity of its own: made for a device
\* by the call that asked first, or by a discard that kept the rest.
Lists == {"asked", "kept"} \X Tools \X Devices

ASSUME MakerAssumption == /\ Drains \cap Tools = {}
                          /\ Earlier \notin Drains \cup Tools
                          /\ Nobody \notin Makers \cup Lists

VARIABLES queries, \* _queries: [Devices -> Lists \cup {Nobody}]
          items,   \* what is in each list: [Lists -> SUBSET Tools]
          future,  \* _futures: the registered queries
          event,   \* _events: [Devices -> Makers \cup {Nobody}], an event by its maker
          flag,    \* the events that are set
          loopOf,  \* _event_loops: the devices known to park on the HTTP loop
          ready,   \* event.set callbacks scheduled on the HTTP loop
          busy,    \* the drain the HTTP loop is inside of, between two awaits
          drain,   \* [Drains -> [pc, dev, got, ev, nudge]]
          tool,    \* [Tools -> [pc, dev, list, ev, old, at, keep, answer]]
          shown,   \* [Devices -> SUBSET Tools]: queries that reached the phone
          taken,   \* the queries some drain has popped from its queue
          dropped, \* the queries appended to a list no longer the device's, or in
                   \* a list that a discard has written over
          early    \* the calls that began before their device had ever parked

lists == <<queries, items>>
hub == <<lists, future, event, flag, loopOf, ready>>
past == <<shown, taken, dropped, early>>
vars == <<hub, busy, drain, tool, past>>

Event == Devices \X Makers

\* nudge: how the waiter of a parked drain was resolved.  "yes" by a callback
\* that runs on the HTTP loop; "quiet" from another thread, which leaves the
\* loop asleep until its next timer.
Drain == [pc : {"idle", "event", "make", "loop", "check", "wait", "parked", "retake", "reply"},
          dev : Devices \cup {Nobody}, got : SUBSET Tools,
          ev : Makers \cup {Nobody}, nudge : {"no", "quiet", "yes"}]

IdleDrain == [pc |-> "idle", dev |-> Nobody, got |-> {}, ev |-> Nobody, nudge |-> "no"]

\* list: what this call got from setdefault.  old: the lists its discard has still
\* to look through; at, keep: the device it is at, and what remains there.
Tool == [pc : {"idle", "list", "append", "register", "event", "make", "loop", "inline",
               "await", "discard", "sift", "write", "done"},
         dev : Devices \cup {Nobody}, list : Lists \cup {Nobody},
         ev : Makers \cup {Nobody}, old : [Devices -> Lists \cup {Nobody}],
         at : Devices \cup {Nobody}, keep : SUBSET Tools,
         answer : {"none", "scheduled", "got", "timeout"}]

NoLists == [d \in Devices |-> Nobody]

IdleTool == [pc |-> "idle", dev |-> Nobody, list |-> Nobody, ev |-> Nobody,
             old |-> NoLists, at |-> Nobody, keep |-> {}, answer |-> "none"]

\* What a drain of d would find.
Queue(d) == IF queries[d] = Nobody THEN {} ELSE items[queries[d]]

-----------------------------------------------------------------------------
(* The HTTP loop: drain *)

LoopFree == busy = Nobody

Step(h, pc) == [drain EXCEPT ![h].pc = pc]

\* take_queries, the first time; with nothing to answer the phone's wait parks
\* the request, and the loop goes on into park() without a pause.
Take(h, d) ==
    /\ LoopFree
    /\ drain[h].pc = "idle"
    /\ queries' = [queries EXCEPT ![d] = Nobody]
    /\ taken' = taken \cup Queue(d)
    /\ \/ /\ drain' = [drain EXCEPT ![h] = [IdleDrain EXCEPT !.pc = "reply", !.dev = d,
                                                            !.got = Queue(d)]]
          /\ UNCHANGED busy
       \/ /\ Queue(d) = {}
          /\ drain' = [drain EXCEPT ![h] = [IdleDrain EXCEPT !.pc = "event", !.dev = d]]
          /\ busy' = h
    /\ UNCHANGED <<items, future, event, flag, loopOf, ready, tool, shown, dropped, early>>

\* _event: look, make if absent, look again.
ParkEvent(h) ==
    /\ drain[h].pc = "event"
    /\ LET e == event[drain[h].dev]
       IN  drain' = IF e = Nobody THEN Step(h, "make")
                    ELSE [drain EXCEPT ![h].pc = "loop", ![h].ev = e]
    /\ UNCHANGED <<hub, busy, tool, past>>

ParkMake(h) ==
    /\ drain[h].pc = "make"
    /\ event' = [event EXCEPT ![drain[h].dev] = h]
    /\ drain' = Step(h, "event")
    /\ UNCHANGED <<lists, future, flag, loopOf, ready, busy, tool, past>>

\* Mutant: the loop is filed under the request instead of the device.
ParkLoopByRequest(h) ==
    /\ drain[h].pc = "loop"
    /\ loopOf' = loopOf \cup {h}
    /\ drain' = Step(h, "check")
    /\ UNCHANGED <<lists, future, event, flag, ready, busy, tool, past>>

ParkLoop(h) ==
    /\ drain[h].pc = "loop"
    /\ loopOf' = loopOf \cup {drain[h].dev}
    /\ drain' = Step(h, "check")
    /\ UNCHANGED <<lists, future, event, flag, ready, busy, tool, past>>

\* A wake that landed before is consumed and the park is over; else wait_for
\* looks once more and registers the waiter.
Consume(h, next) ==
    LET e == <<drain[h].dev, drain[h].ev>>
    IN  /\ IF e \in flag
           THEN flag' = flag \ {e} /\ drain' = Step(h, "retake") /\ busy' = Nobody
           ELSE UNCHANGED flag /\ drain' = Step(h, next)
                /\ busy' = IF next = "parked" THEN Nobody ELSE busy
        /\ UNCHANGED <<lists, future, event, loopOf, ready, tool, past>>

ParkCheck(h) == drain[h].pc = "check" /\ Consume(h, "wait")

ParkWait(h) == drain[h].pc = "wait" /\ Consume(h, "parked")

\* event.set(): does nothing to an event that is set already.
Set(e, how) ==
    /\ flag' = flag \cup {e}
    /\ drain' = [h \in Drains |->
         IF /\ drain[h].pc = "parked" /\ drain[h].nudge = "no"
            /\ <<drain[h].dev, drain[h].ev>> = e /\ e \notin flag
         THEN [drain[h] EXCEPT !.nudge = how] ELSE drain[h]]

\* A callback that call_soon_threadsafe put on the HTTP loop runs.
Fire(e) ==
    /\ LoopFree
    /\ e \in ready
    /\ ready' = ready \ {e}
    /\ Set(e, "yes")
    /\ UNCHANGED <<lists, future, event, loopOf, busy, tool, past>>

\* The waiter resumes.  After a quiet nudge it does so only when something else
\* happens to wake the loop.
Woken(h) ==
    /\ LoopFree
    /\ drain[h].pc = "parked"
    /\ drain[h].nudge # "no"
    /\ flag' = flag \ {<<drain[h].dev, drain[h].ev>>}
    /\ drain' = Step(h, "retake")
    /\ UNCHANGED <<lists, future, event, loopOf, ready, busy, tool, past>>

\* The hold is over.
ParkTimeout(h) ==
    /\ LoopFree
    /\ drain[h].pc = "parked"
    /\ drain' = Step(h, "retake")
    /\ UNCHANGED <<hub, busy, tool, past>>

\* take_queries after the park.
Retake(h) ==
    /\ LoopFree
    /\ drain[h].pc = "retake"
    /\ queries' = [queries EXCEPT ![drain[h].dev] = Nobody]
    /\ taken' = taken \cup Queue(drain[h].dev)
    /\ drain' = [drain EXCEPT ![h].pc = "reply", ![h].got = Queue(drain[h].dev)]
    /\ UNCHANGED <<items, future, event, flag, loopOf, ready, busy, tool, shown, dropped, early>>

Reply(h) ==
    /\ drain[h].pc = "reply"
    /\ shown' = [shown EXCEPT ![drain[h].dev] = @ \cup drain[h].got]
    /\ drain' = [drain EXCEPT ![h] = IdleDrain]
    /\ UNCHANGED <<hub, busy, tool, taken, dropped, early>>

\* The phone hangs up: the handler is cancelled, or its answer is lost.
HangUp(h) ==
    /\ LoopFree
    /\ drain[h].pc \in {"parked", "retake", "reply"}
    /\ drain' = [drain EXCEPT ![h] = IdleDrain]
    /\ UNCHANGED <<hub, busy, tool, past>>

\* Mutant: an answer is scheduled although the tool has given up on it.
ResolveLate(d, t) ==
    /\ LoopFree
    /\ t \in UNION {shown[e] : e \in Devices}
    /\ t \in future
    /\ d = tool[t].dev
    /\ future' = future \ {t}
    /\ tool' = [tool EXCEPT ![t].answer = "scheduled"]
    /\ UNCHANGED <<lists, event, flag, loopOf, ready, busy, drain, past>>

\* query_result: device d answers query t.  Only the asked device is heard, and
\* only once; an answer in time is scheduled onto the tool's loop.
Resolve(d, t) ==
    /\ LoopFree
    /\ t \in UNION {shown[e] : e \in Devices}
    /\ t \in future
    /\ d = tool[t].dev
    /\ future' = future \ {t}
    /\ \/ /\ tool[t].answer = "none"
          /\ tool' = [tool EXCEPT ![t].answer = "scheduled"]
       \/ /\ tool[t].answer = "timeout"
          /\ UNCHANGED tool
    /\ UNCHANGED <<lists, event, flag, loopOf, ready, busy, drain, past>>

-----------------------------------------------------------------------------
(* A tool call, on its own thread *)

Go(t, pc) == [tool EXCEPT ![t].pc = pc]

\* phone_query picks the freshest device: any that was heard of.
Ask(t, d) ==
    /\ tool[t].pc = "idle"
    /\ tool' = [tool EXCEPT ![t].pc = "list", ![t].dev = d]
    /\ \/ d \in loopOf /\ UNCHANGED early
       \/ d \notin loopOf /\ Cardinality(early) < MaxEarly /\ early' = early \cup {t}
    /\ UNCHANGED <<hub, busy, drain, shown, taken, dropped>>

\* enqueue_query: _queries.setdefault(device_id, []) ...
List(t) ==
    /\ tool[t].pc = "list"
    /\ LET d == tool[t].dev
           l == IF queries[d] = Nobody THEN <<"asked", t, d>> ELSE queries[d]
       IN  /\ queries' = [queries EXCEPT ![d] = l]
           /\ items' = IF queries[d] = Nobody THEN [items EXCEPT ![l] = {}] ELSE items
           /\ tool' = [tool EXCEPT ![t].pc = "append", ![t].list = l]
    /\ UNCHANGED <<future, event, flag, loopOf, ready, busy, drain, past>>

\* ... .append(...): the list may have been popped or replaced meanwhile.
Append(t) ==
    /\ tool[t].pc = "append"
    /\ LET l == tool[t].list
       IN  /\ items' = [items EXCEPT ![l] = @ \cup {t}]
           /\ dropped' = IF queries[tool[t].dev] = l THEN dropped ELSE dropped \cup {t}
    /\ tool' = [tool EXCEPT ![t].pc = "register", ![t].list = Nobody]
    /\ UNCHANGED <<queries, future, event, flag, loopOf, ready, busy, drain, shown, taken, early>>

Register(t) ==
    /\ tool[t].pc = "register"
    /\ future' = future \cup {t}
    /\ tool' = Go(t, "event")
    /\ UNCHANGED <<lists, event, flag, loopOf, ready, busy, drain, past>>

\* _wake_one: find the device's event ...
WakeEvent(t) ==
    /\ tool[t].pc = "event"
    /\ LET e == event[tool[t].dev]
       IN  tool' = IF e = Nobody THEN Go(t, "make")
                   ELSE [tool EXCEPT ![t].pc = "loop", ![t].ev = e]
    /\ UNCHANGED <<hub, busy, drain, past>>

WakeMake(t) ==
    /\ tool[t].pc = "make"
    /\ event' = [event EXCEPT ![tool[t].dev] = t]
    /\ tool' = Go(t, "event")
    /\ UNCHANGED <<lists, future, flag, loopOf, ready, busy, drain, past>>

\* Mutant: the set() is always called inline, issue 263(b) as it was shipped.
WakeLoopInline(t) ==
    /\ tool[t].pc = "loop"
    /\ tool' = Go(t, "inline")
    /\ UNCHANGED <<hub, busy, drain, past>>

\* ... look up the loop that parks, and schedule the set() there ...
WakeLoop(t) ==
    /\ tool[t].pc = "loop"
    /\ IF tool[t].dev \in loopOf
       THEN /\ ready' = ready \cup {<<tool[t].dev, tool[t].ev>>}
            /\ tool' = [tool EXCEPT ![t].pc = "await", ![t].ev = Nobody]
       ELSE /\ tool' = Go(t, "inline")
            /\ UNCHANGED ready
    /\ UNCHANGED <<lists, future, event, flag, loopOf, busy, drain, past>>

\* ... or, when no loop is known, set it here.
WakeInline(t) ==
    /\ tool[t].pc = "inline"
    /\ Set(<<tool[t].dev, tool[t].ev>>, "quiet")
    /\ tool' = [tool EXCEPT ![t].pc = "await", ![t].ev = Nobody]
    /\ UNCHANGED <<lists, future, event, loopOf, ready, busy, past>>

\* The scheduled answer completes the future the tool awaits.
Answered(t) ==
    /\ tool[t].pc = "await"
    /\ tool[t].answer = "scheduled"
    /\ tool' = [tool EXCEPT ![t].pc = "discard", ![t].answer = "got"]
    /\ UNCHANGED <<hub, busy, drain, past>>

\* wait_for gives up, also when an answer is already on its way.
Timeout(t) ==
    /\ tool[t].pc = "await"
    /\ tool' = [tool EXCEPT ![t].pc = "discard", ![t].answer = "timeout"]
    /\ UNCHANGED <<hub, busy, drain, past>>

\* discard_query, on every exit: forget the future, take a copy of the dictionary ...
Discard(t) ==
    /\ tool[t].pc = "discard"
    /\ future' = future \ {t}
    /\ tool' = [tool EXCEPT ![t].pc = IF queries = NoLists THEN "done" ELSE "sift",
                            ![t].old = queries]
    /\ UNCHANGED <<lists, event, flag, loopOf, ready, busy, drain, past>>

\* ... and for each device's list in it work out what remains, ...
Sift(t, d) ==
    /\ tool[t].pc = "sift"
    /\ tool[t].old[d] # Nobody
    /\ tool' = [tool EXCEPT ![t].pc = "write", ![t].at = d,
                            ![t].keep = items[tool[t].old[d]] \ {t}]
    /\ UNCHANGED <<hub, busy, drain, past>>

\* On to the next list, if there is one.
Sifted(t) == LET rest == [tool[t].old EXCEPT ![tool[t].at] = Nobody]
             IN  [tool EXCEPT ![t].pc = IF rest = NoLists THEN "done" ELSE "sift",
                              ![t].old = rest, ![t].at = Nobody, ![t].keep = {}]

\* ... and, if that list is now longer than what remains, be it for this query or
\* for one appended since, make what remains the device's list or remove the entry,
\* whatever the entry is by now.
DiscardWrite(t) ==
    /\ tool[t].pc = "write"
    /\ LET d == tool[t].at
           keep == tool[t].keep
           l == <<"kept", t, d>>
       IN  \/ /\ items[tool[t].old[d]] = keep
              /\ UNCHANGED <<lists, dropped>>
           \/ /\ items[tool[t].old[d]] # keep
              /\ queries' = [queries EXCEPT ![d] = IF keep = {} THEN Nobody ELSE l]
              /\ items' = [items EXCEPT ![l] = keep]
              /\ dropped' = dropped \cup (Queue(d) \ (keep \cup {t}))
    /\ tool' = Sifted(t)
    /\ UNCHANGED <<future, event, flag, loopOf, ready, busy, drain, shown, taken, early>>

-----------------------------------------------------------------------------
(* The specification *)

\* A gateway that is serving: some devices have parked before, each leaving its
\* event and its loop in the hub; nothing is under way.
Init == /\ queries = NoLists
        /\ items = [l \in Lists |-> {}]
        /\ future = {}
        /\ event \in [Devices -> {Earlier, Nobody}]
        /\ flag = {}
        /\ loopOf = {d \in Devices : event[d] = Earlier}
        /\ ready = {}
        /\ busy = Nobody
        /\ drain = [h \in Drains |-> IdleDrain]
        /\ tool = [t \in Tools |-> IdleTool]
        /\ shown = [d \in Devices |-> {}]
        /\ taken = {} /\ dropped = {} /\ early = {}

\* The steps of park() that run without a pause.
Parking(h) == ParkEvent(h) \/ ParkMake(h) \/ ParkLoop(h) \/ ParkCheck(h) \/ ParkWait(h)

Serve(h) == \/ \E d \in Devices : Take(h, d)
            \/ Parking(h) \/ Woken(h) \/ ParkTimeout(h) \/ Retake(h) \/ Reply(h) \/ HangUp(h)

Run(t) == \/ List(t) \/ Append(t) \/ Register(t) \/ WakeEvent(t) \/ WakeMake(t)
          \/ WakeLoop(t) \/ WakeInline(t) \/ Answered(t)
          \/ Discard(t) \/ (\E d \in Devices : Sift(t, d)) \/ DiscardWrite(t)

Next == \/ \E h \in Drains : Serve(h)
        \/ \E e \in Event : Fire(e)
        \/ \E d \in Devices, t \in Tools : Resolve(d, t) \/ Ask(t, d)
        \/ \E t \in Tools : Run(t) \/ Timeout(t)

Spec == Init /\ [][Next]_vars

\* The HTTP loop runs what is ready in the order it became ready, so nothing
\* ready waits for ever (strong fairness: the loop is busy now and then), and the
\* phones keep polling.  Nothing is assumed of the hold timer and the tool's
\* timer: they may never fire.
Fairness ==
    /\ \A h \in Drains : /\ WF_vars(Parking(h) \/ Reply(h))
                         /\ SF_vars(Retake(h))
                         /\ SF_vars(drain[h].nudge = "yes" /\ Woken(h))
                         /\ SF_vars(\E d \in Devices : Take(h, d))
    /\ SF_vars(\E e \in Event : Fire(e))
    /\ \A t \in Tools : WF_vars(Run(t))

FairSpec == Spec /\ Fairness

-----------------------------------------------------------------------------
(* Correctness *)

\* The hub's dictionaries and the two kinds of callers have their shapes.
TypeOK == /\ queries \in [Devices -> Lists \cup {Nobody}]
          /\ items \in [Lists -> SUBSET Tools]
          /\ future \subseteq Tools
          /\ event \in [Devices -> Makers \cup {Nobody}]
          /\ flag \subseteq Event
          /\ loopOf \subseteq Devices
          /\ ready \subseteq Event
          /\ busy \in Drains \cup {Nobody}
          /\ drain \in [Drains -> Drain]
          /\ tool \in [Tools -> Tool]
          /\ shown \in [Devices -> SUBSET Tools]
          /\ taken \subseteq Tools /\ dropped \subseteq Tools /\ early \subseteq Tools

\* The tool still wants the answer.
Waiting(t) == tool[t].pc \in {"register", "event", "make", "loop", "inline", "await"}

\* The drain h is about to resume, or its event is about to be set on its loop.
WakeComing(h) == \/ drain[h].nudge = "yes"
                 \/ <<drain[h].dev, drain[h].ev>> \in ready
                 \/ \E t \in Tools : /\ tool[t].pc \in {"register", "event", "make", "loop"}
                                     /\ tool[t].dev = drain[h].dev

\* No call on d began before d had ever parked: each finds d's event and d's loop.
\* It may have parked before these calls, or in the midst of them.
Calm(d) == \A t \in early : tool[t].dev # d

\* No lost wake (issue 263(b)): a drain never sleeps over a query that a tool
\* is waiting on and no drain has taken yet, unless its wake is on the way.
\* One event serves every drain of the device, and whichever resumes first
\* clears it for all.  After a call that began before the device's first park
\* this does not hold: its wake may be called inline, or make the device a second
\* event.  Nor for a query appended to a list that was no longer the device's, or
\* written over by a discard: a later discard may write it back, long after its wake.
NoSleepingQuery ==
    \A h \in Drains :
        drain[h].pc = "parked" /\ Calm(drain[h].dev) =>
            \A t \in Queue(drain[h].dev) \ (taken \cup dropped) : Waiting(t) => WakeComing(h)

\* "The query must survive the hand-off" (test_transport_cross_loop.py): while
\* its tool waits, a query is in its device's queue or a drain has taken it.
QuerySurvives == \A t \in Tools : Waiting(t) => t \in Queue(tool[t].dev) \cup taken

\* "Always schedule the set() onto the loop that is parked, never call it
\* inline" (transport.py).  The code does call it inline when it knows no loop yet,
\* and that may end a park that began meanwhile, its loop asleep to the end of the
\* hold.  Only a call that began before the device's first park can do that, then or
\* later; none that begins after it.
NeverInlineToParked ==
    \A h \in Drains : drain[h].nudge = "quiet" => ~Calm(drain[h].dev)

\* No query sits in a calm device's queue while its tool waits, unless it was once
\* out of it (see dropped): the wake brings a drain that takes it, without the hold
\* timer or the tool's timer ever firing.
NoQuerySits ==
    \A t \in Tools :
        Waiting(t) /\ Calm(tool[t].dev) /\ t \in Queue(tool[t].dev) \ dropped
            ~> ~Waiting(t) \/ t \in taken \/ t \notin Queue(tool[t].dev)

-----------------------------------------------------------------------------
(* What it implements: the promise of phone_query to the agent *)

\* How the question of call c stands.
StatusOf(c) == CASE c.pc = "idle" -> "new"
                 [] c.pc # "idle" /\ c.answer = "none" -> "open"
                 [] c.pc # "idle" /\ c.answer = "scheduled" -> "answered"
                 [] c.pc # "idle" /\ c.answer = "got" -> "heard"
                 [] OTHER -> "silent"

Asked == [t \in Tools |-> [status |-> StatusOf(tool[t]), to |-> tool[t].dev,
                           seen |-> {d \in Devices : t \in shown[d]}]]

Enquiry == INSTANCE Question WITH Questions <- Tools, question <- Asked

\* Whatever the threads interleave, lists handed over and lists written back under
\* another thread's hands included: only the asked device is shown a question, the
\* agent hears only an answer of a device that was shown it, and nothing after
\* its timer gave up, not even an answer that was scheduled before.
QuestionSpec == Enquiry!Spec
=============================================================================
