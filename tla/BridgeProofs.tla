---------------------------- MODULE BridgeProofs ----------------------------
(***************************************************************************)
(* The safety of Bridge for any number of devices, drains, tool calls and  *)
(* rows.  The invariant has two parts that are shown one after another:    *)
(* the shapes, and how far each call is with its answer.                   *)
(***************************************************************************)
EXTENDS Bridge, TLAPS

\* After the authorization a drain has a device, until it is idle again.
Served == \A h \in Drains : drain[h].pc # "idle" => drain[h].dev \in Devices

\* So has a call, from its question to its end.
Asking == \A t \in Tools : tool[t].pc \notin {"idle", "done"} => tool[t].dev \in Devices

Shape == TypeOK /\ Served /\ Asking

\* A query is registered only while its call runs, and a call that goes has an
\* outcome: an answer can be in time only before that.
CallsSound ==
    \A t \in Tools : /\ t \in future => tool[t].pc \in {"await", "discard"}
                     /\ tool[t].pc = "discard" => tool[t].answer # "none"

Calls == CallsSound /\ AnswerableWhileWaiting

IInv == Shape /\ Calls

-----------------------------------------------------------------------------
(* Shapes *)

\* What any record may become, one field or several at a time.
LEMMA Shapes ==
    /\ IdleDrain \in Drain /\ IdleTool \in Tool
    /\ \A r \in Drain : /\ [r EXCEPT !.pc = "read"] \in Drain
                        /\ [r EXCEPT !.pc = "parked"] \in Drain
                        /\ [r EXCEPT !.pc = "read", !.again = TRUE] \in Drain
    /\ \A r \in Drain, got \in SUBSET Tools :
         [r EXCEPT !.pc = "reply", !.again = FALSE, !.got = got] \in Drain
    /\ \A r \in Drain, items \in SUBSET Items :
         [r EXCEPT !.pc = "take", !.items = items] \in Drain
    /\ \A d \in Devices : [IdleDrain EXCEPT !.pc = "touch", !.dev = d] \in Drain
BY DEF IdleDrain, IdleTool, Drain, Tool

\* How a discard goes on.
LEMMA Scans ==
    /\ NoScan \in Scan
    /\ \A D \in SUBSET Devices : [NoScan EXCEPT !.unread = D, !.left = D] \in Scan
    /\ \A s \in Scan, D \in SUBSET Devices, d \in Devices, L \in SUBSET Tools :
         /\ [s EXCEPT !.unread = D, !.list[d] = L] \in Scan
         /\ [s EXCEPT !.left = D] \in Scan
BY DEF NoScan, Scan

LEMMA ShapeInit == Init => Shape
<1> SUFFICES ASSUME Init PROVE Shape
  OBVIOUS
<1>1. drain \in [Drains -> Drain] /\ tool \in [Tools -> Tool] /\ scan \in [Tools -> Scan]
  BY Shapes, Scans DEF Init
<1>2. Served /\ Asking
  BY DEF Init, Served, Asking, IdleDrain, IdleTool
<1> QED BY <1>1, <1>2, BridgeAssumption DEF Init, Shape, TypeOK, Row

\* The steps of the store and of the writers.
LEMMA ShapeStore ==
    ASSUME Shape,
           \/ \E d \in Devices : Pair(d) \/ Unpair(d)
           \/ \E i \in Items, d \in Devices : Send(i, d)
           \/ \E i \in Items : Ack(i)
    PROVE  Shape'
<1>1. ASSUME NEW d \in Devices, Pair(d) PROVE Shape'
  <2>1. mail' \in [Items -> Devices \cup {Nobody}]
    BY <1>1 DEF Pair, Shape, TypeOK
  <2> QED BY <1>1, <2>1 DEF Pair, hub, past, calls, Shape, TypeOK, Served, Asking
<1>2. ASSUME NEW d \in Devices, Unpair(d) PROVE Shape'
  BY <1>2 DEF Unpair, hub, past, calls, Shape, TypeOK, Served, Asking
<1>3. ASSUME NEW i \in Items, NEW d \in Devices, Send(i, d) PROVE Shape'
  BY <1>3 DEF Send, hub, past, calls, Row, Shape, TypeOK, Served, Asking
<1>4. ASSUME NEW i \in Items, Ack(i) PROVE Shape'
  BY <1>4 DEF Ack, hub, past, calls, Row, Shape, TypeOK, Served, Asking
<1> QED BY <1>1, <1>2, <1>3, <1>4

LEMMA ShapeDrain ==
    ASSUME Shape, NEW h \in Drains, Serve(h) \/ \E d \in Devices : Poll(h, d)
    PROVE  Shape'
<1>0. drain[h] \in Drain
  BY DEF Shape, TypeOK
<1>t. ASSUME NEW r \in Drain, drain' = [drain EXCEPT ![h] = r],
             r.pc # "idle" => r.dev \in Devices
      PROVE  drain' \in [Drains -> Drain] /\ Served'
  BY <1>t DEF Shape, TypeOK, Served
<1>1. ASSUME NEW d \in Devices, Poll(h, d) PROVE Shape'
  <2> DEFINE r == [IdleDrain EXCEPT !.pc = "touch", !.dev = d]
  <2>1. r \in Drain /\ r.dev = d
    BY Shapes DEF IdleDrain
  <2>2. drain' \in [Drains -> Drain] /\ Served'
    BY <1>1, <1>t, <2>1 DEF Poll
  <2> QED BY <1>1, <2>2 DEF Poll, store, hub, past, calls, Shape, TypeOK, Asking
<1>2. CASE Touch(h)
  <2>1. drain' \in [Drains -> Drain] /\ Served'
    <3> DEFINE r == [drain[h] EXCEPT !.pc = "read"]
    <3>1. r \in Drain /\ r.dev \in Devices
      BY <1>0, <1>2, Shapes DEF Touch, Shape, Served, Drain
    <3> QED BY <1>2, <1>t, <3>1 DEF Touch
  <2>2. drain[h].dev \in Devices
    BY <1>2 DEF Touch, Shape, Served
  <2> QED BY <1>2, <2>1, <2>2 DEF Touch, Touched, store, past, calls, Shape, TypeOK, Asking
<1>3. CASE Read(h)
  <2>1. Pending(drain[h].dev) \in SUBSET Items
    BY DEF Pending
  <2>2. drain' \in [Drains -> Drain] /\ Served'
    <3> DEFINE r == [drain[h] EXCEPT !.pc = "take", !.items = Pending(drain[h].dev)]
    <3>1. r \in Drain /\ r.dev \in Devices
      BY <1>0, <1>3, <2>1, Shapes DEF Read, Shape, Served, Drain
    <3> QED BY <1>3, <1>t, <3>1 DEF Read
  <2> QED BY <1>3, <2>2 DEF Read, store, hub, past, calls, Shape, TypeOK, Asking
<1>4. CASE Take(h)
  <2>0. drain[h].dev \in Devices
    BY <1>4 DEF Take, Shape, Served
  <2>1. queue[drain[h].dev] \in SUBSET Tools /\ queue' \in [Devices -> SUBSET Tools]
    BY <1>4, <2>0 DEF Take, Shape, TypeOK
  <2>2. drain' \in [Drains -> Drain] /\ Served'
    <3> DEFINE r == [drain[h] EXCEPT !.pc = "reply", !.again = FALSE,
                                      !.got = queue[drain[h].dev]]
    <3>1. r \in Drain /\ r.dev \in Devices
      <4>1. r \in Drain
        BY <1>0, <2>1, Shapes
      <4>2. r.dev = drain[h].dev
        BY <1>0 DEF Drain
      <4> QED BY <2>0, <4>1, <4>2
    <3>2. drain' = [drain EXCEPT ![h] = r]
      BY <1>0, <1>4 DEF Take, Shape, TypeOK, Drain
    <3> HIDE DEF r
    <3> QED BY <1>t, <3>1, <3>2
  <2> QED BY <1>4, <2>1, <2>2 DEF Take, store, past, calls, Shape, TypeOK, Asking
<1>6. CASE Park(h)
  <2>1. drain' \in [Drains -> Drain] /\ Served'
    <3> DEFINE r == [drain[h] EXCEPT !.pc = "parked"]
    <3>1. r \in Drain /\ r.dev \in Devices
      BY <1>0, <1>6, Shapes DEF Park, Shape, Served, Drain
    <3> QED BY <1>6, <1>t, <3>1 DEF Park
  <2> QED BY <1>6, <2>1 DEF Park, store, hub, past, calls, Shape, TypeOK, Asking
<1>7. CASE Resume(h)
  <2>1. drain' \in [Drains -> Drain] /\ Served' /\ freshest' \in Devices
    <3> DEFINE r == [drain[h] EXCEPT !.pc = "read", !.again = TRUE]
    <3>1. r \in Drain /\ r.dev \in Devices /\ drain[h].dev \in Devices
      BY <1>0, <1>7, Shapes DEF Resume, Shape, Served, Drain
    <3> QED BY <1>7, <1>t, <3>1 DEF Resume, Touched
  <2> QED BY <1>7, <2>1 DEF Resume, store, past, calls, Shape, TypeOK, Asking
<1>8. ASSUME drain' = [drain EXCEPT ![h] = IdleDrain]
      PROVE  drain' \in [Drains -> Drain] /\ Served'
  BY <1>8, <1>t, Shapes DEF IdleDrain
<1>9. CASE Reply(h)
  <2>1. drain[h].got \in SUBSET Tools /\ drain[h].items \in SUBSET Items
    BY <1>0 DEF Drain
  <2>2. shown' \in [Devices -> SUBSET (Tools \cup Items)]
    BY <1>9, <2>1 DEF Reply, Shape, TypeOK
  <2> QED BY <1>8, <1>9, <2>2 DEF Reply, store, hub, calls, Shape, TypeOK, Asking
<1>10. CASE Lose(h)
  BY <1>8, <1>10 DEF Lose, store, hub, past, calls, Shape, TypeOK, Asking
<1> QED BY <1>1, <1>2, <1>3, <1>4, <1>6, <1>7, <1>9, <1>10 DEF Serve

LEMMA ShapeTool ==
    ASSUME Shape, NEW t \in Tools, Ask(t) \/ Run(t) \/ Timeout(t)
    PROVE  Shape'
<1>0. tool[t] \in Tool
  BY DEF Shape, TypeOK
<1>1. CASE Ask(t)
  <2>1. tool' \in [Tools -> Tool] /\ Asking'
    <3>1. CASE freshest # Nobody /\ tool' = [tool EXCEPT ![t].pc = "append", ![t].dev = freshest]
      <4>1. freshest \in Devices
        BY <3>1 DEF Shape, TypeOK
      <4> QED BY <1>0, <3>1, <4>1 DEF Shape, TypeOK, Asking, Tool
    <3>2. CASE tool' = [tool EXCEPT ![t].pc = "done", ![t].answer = "unreachable"]
      BY <1>0, <3>2 DEF Shape, TypeOK, Asking, Tool
    <3> QED BY <1>1, <3>1, <3>2 DEF Ask
  <2> QED BY <1>1, <2>1 DEF Ask, store, hub, past, Shape, TypeOK, Served
<1>2. CASE Enqueue(t)
  <2>1. tool[t].dev \in Devices
    BY <1>2 DEF Enqueue, Shape, Asking
  <2> QED BY <1>0, <1>2, <2>1 DEF Enqueue, store, past, Shape, TypeOK, Served, Asking, Tool
<1>3. CASE Register(t)
  <2>1. tool[t].dev \in Devices
    BY <1>3 DEF Register, Shape, Asking
  <2> QED BY <1>0, <1>3, <2>1 DEF Register, store, past, Shape, TypeOK, Served, Asking, Tool
<1>4. ASSUME NEW a \in {"got", "timeout"}, Leave(t, a) PROVE Shape'
  <2>1. tool[t].dev \in Devices
    BY <1>4 DEF Leave, Shape, Asking
  <2> QED BY <1>0, <1>4, <2>1 DEF Leave, store, hub, past, Shape, TypeOK, Served, Asking, Tool
<1>5. CASE Discard(t)
  <2>1. scan' \in [Tools -> Scan]
    <3>1. Listed \in SUBSET Devices
      BY DEF Listed
    <3> QED BY <1>5, <3>1, Scans DEF Discard, Shape, TypeOK
  <2>2. tool[t].dev \in Devices
    BY <1>5 DEF Discard, Shape, Asking
  <2> QED BY <1>0, <1>5, <2>1, <2>2 DEF Discard, store, past, Shape, TypeOK, Served, Asking, Tool
<1>6. ASSUME NEW d \in Devices, ScanRead(t, d) PROVE Shape'
  <2>1. scan' \in [Tools -> Scan]
    <3>1. /\ scan[t].unread \ {d} \in SUBSET Devices /\ queue[d] \in SUBSET Tools
          /\ scan[t] \in Scan
      BY DEF Shape, TypeOK, Scan
    <3>2. [scan[t] EXCEPT !.unread = scan[t].unread \ {d}, !.list[d] = queue[d]] \in Scan
      BY <3>1, Scans
    <3>3. scan' = [scan EXCEPT ![t] = [scan[t] EXCEPT !.unread = scan[t].unread \ {d},
                                                      !.list[d] = queue[d]]]
      BY <1>6, <3>1 DEF ScanRead, Shape, TypeOK, Scan
    <3> QED BY <3>2, <3>3 DEF Shape, TypeOK
  <2> QED BY <1>6, <2>1 DEF ScanRead, store, hub, past, Shape, TypeOK, Served, Asking
<1>7. ASSUME NEW d \in Devices, ScanWrite(t, d) PROVE Shape'
  <2>1. scan[t] \in Scan /\ scan[t].left \ {d} \in SUBSET Devices
    BY DEF Shape, TypeOK, Scan
  <2>2. scan' \in [Tools -> Scan]
    BY <1>7, <2>1, Scans DEF ScanWrite, Shape, TypeOK
  <2>3. queue' \in [Devices -> SUBSET Tools]
    BY <1>7, <2>1 DEF ScanWrite, Shape, TypeOK, Scan
  <2> QED BY <1>7, <2>2, <2>3 DEF ScanWrite, store, past, Shape, TypeOK, Served, Asking
<1>8. CASE Discarded(t)
  <2>1. scan' \in [Tools -> Scan]
    BY <1>8, Scans DEF Discarded, Shape, TypeOK
  <2> QED BY <1>0, <1>8, <2>1 DEF Discarded, store, hub, past, Shape, TypeOK, Served, Asking, Tool
<1> QED BY <1>1, <1>2, <1>3, <1>4, <1>5, <1>6, <1>7, <1>8 DEF Run, Got, Timeout

LEMMA ShapeNext == Shape /\ [Next]_vars => Shape'
<1> SUFFICES ASSUME Shape, [Next]_vars PROVE Shape'
  OBVIOUS
<1>4. ASSUME NEW d \in Devices, NEW t \in Tools, Answer(d, t) PROVE Shape'
  BY <1>4 DEF Answer, store, hub, past, calls, Shape, TypeOK, Served, Asking
<1>5. ASSUME NEW d \in Devices, NEW t \in Tools, Resolve(d, t) PROVE Shape'
  <2>1. tool' \in [Tools -> Tool] /\ Asking'
    BY <1>5 DEF Resolve, Shape, TypeOK, Asking, Tool
  <2> QED BY <1>5, <2>1 DEF Resolve, store, Shape, TypeOK, Served
<1>6. CASE Restart
  <2>1. \A t \in Tools : /\ tool'[t] \in Tool
                         /\ tool'[t].pc \in {"idle", "done"}
    BY <1>6 DEF Restart, Ends, Shape, TypeOK, Tool
  <2>2. tool' \in [Tools -> Tool]
    <3>1. tool' = [t \in Tools |-> tool'[t]]
      BY <1>6 DEF Restart, Ends
    <3> QED BY <2>1, <3>1
  <2>3. drain' \in [Drains -> Drain] /\ Served' /\ scan' \in [Tools -> Scan]
    BY <1>6, Shapes, Scans DEF Restart, Ends, Served, IdleDrain
  <2> QED BY <1>6, <2>1, <2>2, <2>3 DEF Restart, Ends, past, Shape, TypeOK, Asking, Row
<1>7. CASE UNCHANGED vars
  BY <1>7 DEF vars, store, hub, past, calls, Shape, TypeOK, Served, Asking
<1> QED BY <1>4, <1>5, <1>6, <1>7, ShapeStore, ShapeDrain, ShapeTool DEF Next
-----------------------------------------------------------------------------
(* The calls and their answers *)

LEMMA CallsInit == Init => Calls
BY DEF Init, Calls, CallsSound, AnswerableWhileWaiting, IdleTool

\* One call goes on: t's record is r.
LEMMA CallStep ==
    ASSUME Shape, Calls, NEW t \in Tools, NEW r \in Tool,
           tool' = [tool EXCEPT ![t] = r],
           \A u \in Tools : u # t => (u \in future' <=> u \in future),
           t \in future' => r.pc \in {"await", "discard"},
           r.pc = "discard" => r.answer # "none",
           r.pc = "await" /\ r.answer = "none" => t \in future'
    PROVE  Calls'
<1>1. tool'[t] = r /\ \A u \in Tools : u # t => tool'[u] = tool[u]
  BY DEF Shape, TypeOK
<1> QED BY <1>1 DEF Calls, CallsSound, AnswerableWhileWaiting

LEMMA CallsTool ==
    ASSUME Shape, Calls, NEW t \in Tools, Ask(t) \/ Run(t) \/ Timeout(t)
    PROVE  Calls'
<1>0. tool[t] \in Tool
  BY DEF Shape, TypeOK
<1>f. tool[t].pc \notin {"await", "discard"} => t \notin future
  BY DEF Calls, CallsSound
<1>1. CASE Ask(t)
  <2>1. PICK r \in Tool : /\ tool' = [tool EXCEPT ![t] = r]
                          /\ r.pc \in {"append", "done"}
    <3>1. CASE freshest # Nobody /\ tool' = [tool EXCEPT ![t].pc = "append", ![t].dev = freshest]
      <4> DEFINE r == [tool[t] EXCEPT !.pc = "append", !.dev = freshest]
      <4>1. r \in Tool /\ r.pc = "append"
        BY <1>0, <3>1 DEF Shape, TypeOK, Tool
      <4> QED BY <3>1, <4>1
    <3>2. CASE tool' = [tool EXCEPT ![t].pc = "done", ![t].answer = "unreachable"]
      <4> DEFINE r == [tool[t] EXCEPT !.pc = "done", !.answer = "unreachable"]
      <4>1. r \in Tool /\ r.pc = "done"
        BY <1>0 DEF Tool
      <4> QED BY <3>2, <4>1
    <3> QED BY <1>1, <3>1, <3>2 DEF Ask
  <2>2. tool[t].pc = "idle" /\ future' = future
    BY <1>1 DEF Ask, hub
  <2> QED BY <1>f, <2>1, <2>2, CallStep
<1>2. CASE Enqueue(t)
  <2> DEFINE r == [tool[t] EXCEPT !.pc = "register"]
  <2>1. r \in Tool /\ r.pc = "register"
    BY <1>0 DEF Tool
  <2>2. /\ tool' = [tool EXCEPT ![t] = r] /\ future' = future
        /\ tool[t].pc = "append"
    BY <1>2 DEF Enqueue
  <2> HIDE DEF r
  <2> QED BY <1>f, <2>1, <2>2, CallStep
<1>3. CASE Register(t)
  <2> DEFINE r == [tool[t] EXCEPT !.pc = "await"]
  <2>1. r \in Tool /\ r.pc = "await"
    BY <1>0 DEF Tool
  <2>2. /\ tool' = [tool EXCEPT ![t] = r] /\ future' = future \cup {t}
    BY <1>3 DEF Register
  <2> HIDE DEF r
  <2> QED BY <2>1, <2>2, CallStep
<1>4. ASSUME NEW a \in {"got", "timeout"}, Leave(t, a) PROVE Calls'
  <2> DEFINE r == [tool[t] EXCEPT !.pc = "discard", !.answer = a]
  <2>1. r \in Tool /\ r.pc = "discard" /\ r.answer = a
    BY <1>0 DEF Tool
  <2>2. /\ tool' = [tool EXCEPT ![t] = r] /\ future' = future
    BY <1>4 DEF Leave, hub
  <2> HIDE DEF r
  <2> QED BY <2>1, <2>2, CallStep
<1>5. CASE Discard(t)
  <2> DEFINE r == [tool[t] EXCEPT !.pc = "scan"]
  <2>1. r \in Tool /\ r.pc = "scan"
    BY <1>0 DEF Tool
  <2>2. tool' = [tool EXCEPT ![t] = r] /\ future' = future \ {t}
    BY <1>5 DEF Discard
  <2> HIDE DEF r
  <2> QED BY <2>1, <2>2, CallStep
<1>6. ASSUME NEW d \in Devices, ScanRead(t, d) \/ ScanWrite(t, d) PROVE Calls'
  BY <1>6 DEF ScanRead, ScanWrite, hub, Calls, CallsSound, AnswerableWhileWaiting
<1>7. CASE Discarded(t)
  <2> DEFINE r == [tool[t] EXCEPT !.pc = "done"]
  <2>1. r \in Tool /\ r.pc = "done"
    BY <1>0 DEF Tool
  <2>2. tool' = [tool EXCEPT ![t] = r] /\ future' = future /\ tool[t].pc = "scan"
    BY <1>7 DEF Discarded, hub
  <2> HIDE DEF r
  <2> QED BY <1>f, <2>1, <2>2, CallStep
<1> QED BY <1>1, <1>2, <1>3, <1>4, <1>5, <1>6, <1>7 DEF Run, Got, Timeout

\* A device is told ok only while the call still waits.
LEMMA ResolveStep ==
    ASSUME Shape, Calls, NEW d \in Devices, NEW t \in Tools, Resolve(d, t)
    PROVE  /\ Calls'
           /\ told' # told => /\ told' = told \cup {<<d, t>>}
                              /\ tool[t].pc = "await" /\ tool[t].answer = "none"
<1>0. tool[t] \in Tool
  BY DEF Shape, TypeOK
<1>1. CASE t \in future /\ d = tool[t].dev /\ tool[t].answer = "none"
  <2>1. tool[t].pc = "await"
    BY <1>1 DEF Calls, CallsSound
  <2>2. /\ future' = future \ {t} /\ told' = told \cup {<<d, t>>}
        /\ tool' = [tool EXCEPT ![t].answer = "scheduled"]
    BY <1>1 DEF Resolve
  <2>3. /\ tool'[t].pc = "await" /\ tool'[t].answer = "scheduled" /\ tool'[t].dev = tool[t].dev
        /\ \A u \in Tools : u # t => tool'[u] = tool[u]
    BY <1>0, <2>1, <2>2 DEF Shape, TypeOK, Tool
  <2>4. CallsSound' /\ AnswerableWhileWaiting'
    BY <2>2, <2>3 DEF Calls, CallsSound, AnswerableWhileWaiting
  <2> QED BY <1>1, <2>1, <2>2, <2>4 DEF Calls
<1>2. CASE t \in future /\ d = tool[t].dev /\ tool[t].answer # "none"
  BY <1>2 DEF Resolve, Calls, CallsSound, AnswerableWhileWaiting
<1>3. CASE ~(t \in future /\ d = tool[t].dev)
  BY <1>3 DEF Resolve, Calls, CallsSound, AnswerableWhileWaiting
<1> QED BY <1>1, <1>2, <1>3

\* No other step tells anyone.
LEMMA ToldStep ==
    ASSUME [Next]_vars, ~\E d \in Devices, t \in Tools : Resolve(d, t)
    PROVE  told' = told
BY DEF Next, Serve, Run, vars, past, Pair, Unpair, Send, Ack, Poll, Touch, Read, Take, Park,
       Resume, Reply, Lose, Answer, Ask, Enqueue, Register, Got, Timeout, Leave, Discard,
       ScanRead, ScanWrite, Discarded, Restart, Ends

\* The store, the writers and the drains leave the calls alone.
LEMMA CallsUntouched ==
    ASSUME \/ \E d \in Devices : Pair(d) \/ Unpair(d)
           \/ \E i \in Items, d \in Devices : Send(i, d)
           \/ \E i \in Items : Ack(i)
           \/ \E h \in Drains, d \in Devices : Poll(h, d)
           \/ \E h \in Drains : Serve(h)
    PROVE  UNCHANGED <<future, tool>>
BY DEF Serve, hub, calls, Pair, Unpair, Send, Ack, Poll, Touch, Read, Take, Park, Resume,
       Reply, Lose

LEMMA CallsNext == Shape /\ Calls /\ [Next]_vars => Calls'
<1> SUFFICES ASSUME Shape, Calls, [Next]_vars PROVE Calls'
  OBVIOUS
<1>1. CASE UNCHANGED <<future, tool>>
  BY <1>1 DEF Calls, CallsSound, AnswerableWhileWaiting
<1>2. ASSUME NEW d \in Devices, NEW t \in Tools, Answer(d, t) PROVE Calls'
  BY <1>1, <1>2 DEF Answer, hub, calls
<1>3. CASE Restart
  <2>1. \A t \in Tools : tool'[t].pc \in {"idle", "done"}
    <3> TAKE t \in Tools
    <3>1. tool'[t] = IF tool[t].pc \in {"idle", "done"} THEN tool[t]
                     ELSE [tool[t] EXCEPT !.pc = "done"]
      BY <1>3 DEF Restart, Ends
    <3> QED BY <3>1 DEF Shape, TypeOK, Tool
  <2>2. future' = {}
    BY <1>3 DEF Restart, Ends
  <2> QED BY <2>1, <2>2 DEF Calls, CallsSound, AnswerableWhileWaiting
<1>4. CASE UNCHANGED vars
  BY <1>1, <1>4 DEF vars, hub, calls
<1> QED BY <1>1, <1>2, <1>3, <1>4, CallsTool, ResolveStep, CallsUntouched DEF Next
-----------------------------------------------------------------------------
(* The theorems *)

\* The two parts together are inductive.
THEOREM Inductive == Spec => []IInv
<1>1. Init => IInv
  BY ShapeInit, CallsInit DEF IInv
<1>2. IInv /\ [Next]_vars => IInv'
  BY ShapeNext, CallsNext DEF IInv
<1> QED BY <1>1, <1>2, PTL DEF Spec

\* Whatever the phones and the gateway do to each other, every part of the gateway
\* keeps its shape.
THEOREM TypeCorrect == Spec => []TypeOK
<1>1. IInv => TypeOK
  BY DEF IInv, Shape
<1> QED BY <1>1, Inductive, PTL

\* A wrong answer takes nothing away from the right one: while a tool waits, its
\* query stays registered (resolve_query, discard_query).
THEOREM StaysAnswerable == Spec => []AnswerableWhileWaiting
<1>1. IInv => AnswerableWhileWaiting
  BY DEF IInv, Calls
<1> QED BY <1>1, Inductive, PTL

\* The phone is told ok only while its tool still waits and has no answer: a late,
\* a second or a stale answer is refused (resolve_query).
THEOREM OkOnlyInTime == Spec => OkInTime
<1>1. ASSUME IInv, [Next]_vars
      PROVE  \A d \in Devices, t \in Tools :
               <<d, t>> \in told' \ told => /\ tool[t].pc = "await"
                                            /\ tool[t].answer = "none"
  <2>1. CASE \E d \in Devices, t \in Tools : Resolve(d, t)
    <3>1. PICK d \in Devices, t \in Tools : Resolve(d, t)
      BY <2>1
    <3>2. told' # told => /\ told' = told \cup {<<d, t>>}
                          /\ tool[t].pc = "await" /\ tool[t].answer = "none"
      BY <1>1, <3>1, ResolveStep DEF IInv
    <3>3. ASSUME NEW e \in Devices, NEW u \in Tools, <<e, u>> \in told' \ told
          PROVE  tool[u].pc = "await" /\ tool[u].answer = "none"
      <4>1. <<e, u>> = <<d, t>>
        BY <3>2, <3>3
      <4> QED BY <3>2, <3>3, <4>1
    <3> QED BY <3>3
  <2>2. CASE ~\E d \in Devices, t \in Tools : Resolve(d, t)
    BY <1>1, <2>2, ToldStep
  <2> QED BY <2>1, <2>2
<1>2. IInv /\ [Next]_vars => [\A d \in Devices, t \in Tools :
                               <<d, t>> \in told' \ told => /\ tool[t].pc = "await"
                                                            /\ tool[t].answer = "none"]_vars
  BY <1>1
<1> QED BY <1>2, Inductive, PTL DEF Spec, OkInTime
=============================================================================
