-------------------------- MODULE BridgeRefinement --------------------------
(***************************************************************************)
(* Bridge implements Question and Mailbox, for every instance: the gateway *)
(* keeps what phone_query promises the agent, and what the outbox promises *)
(* the phone.  Both rest on one more invariant, above the one BridgeProofs *)
(* shows: whatever is in a device's queue, in a drain's answer, with a     *)
(* phone, or in what a discard has read and may write back, is addressed   *)
(* to that device, and a call's outcome fits how far the call is.          *)
(***************************************************************************)
EXTENDS BridgeProofs

\* How far a call is tells what it may have heard.
Outcomes == \A t \in Tools :
    /\ tool[t].pc \in {"idle", "append", "register"} => tool[t].answer = "none"
    /\ tool[t].pc = "await" => tool[t].answer \in {"none", "scheduled"}
    /\ tool[t].pc \in {"discard", "scan"} => tool[t].answer \in {"got", "timeout"}

\* t has begun, and asks d.
AskedOf(t, d) == tool[t].pc # "idle" /\ tool[t].dev = d

Handed(t) == \E d \in Devices : t \in shown[d]

\* A query in a device's queue, in what a discard read of that queue, in a drain's
\* answer, or with a phone, is the asked device's; and a device answers only what
\* its phone was shown.
QueriesAddressed ==
    /\ \A d \in Devices, t \in Tools : t \in queue[d] => AskedOf(t, d)
    /\ \A d \in Devices, t, u \in Tools : t \in scan[u].list[d] => AskedOf(t, d)
    /\ \A h \in Drains, t \in Tools : t \in drain[h].got => AskedOf(t, drain[h].dev)
    /\ \A d \in Devices, t \in Tools : t \in shown[d] => AskedOf(t, d)
    /\ \A d \in Devices, t \in Tools : <<d, t>> \in answers => Handed(t)

\* The row i was sent to the phone of d.
SentTo(i, d) == row[i] # "unsent" /\ mail[i] \in SamePhone(d)

\* A row in a drain's answer, or with a phone, was sent to that phone.
RowsAddressed ==
    /\ \A i \in Items : row[i] = "unsent" => mail[i] = Nobody
    /\ \A h \in Drains, i \in Items : i \in drain[h].items => SentTo(i, drain[h].dev)
    /\ \A d \in Devices, i \in Items : i \in shown[d] => SentTo(i, d)

Addressed == Outcomes /\ QueriesAddressed /\ RowsAddressed

-----------------------------------------------------------------------------
(* How drains, phones, calls and rows move *)

\* A drain starts empty, keeps what it carries, or takes it from its own device.
LEMMA DrainMoves ==
    ASSUME Shape, [Next]_vars, NEW h \in Drains
    PROVE  \/ drain'[h].got = {} /\ drain'[h].items = {}
           \/ /\ drain'[h].dev = drain[h].dev
              /\ \/ drain'[h].got \subseteq drain[h].got
                 \/ drain[h].dev \in Devices /\ drain'[h].got = queue[drain[h].dev]
              /\ \/ drain'[h].items \subseteq drain[h].items
                 \/ drain[h].dev \in Devices /\ drain'[h].items = Pending(drain[h].dev)
<1> DEFINE Goal == \/ drain'[h].got = {} /\ drain'[h].items = {}
                   \/ /\ drain'[h].dev = drain[h].dev
                      /\ \/ drain'[h].got \subseteq drain[h].got
                         \/ drain[h].dev \in Devices /\ drain'[h].got = queue[drain[h].dev]
                      /\ \/ drain'[h].items \subseteq drain[h].items
                         \/ drain[h].dev \in Devices /\ drain'[h].items = Pending(drain[h].dev)
<1>0. drain \in [Drains -> Drain] /\ drain[h] \in Drain
  BY DEF Shape, TypeOK
<1>s. ASSUME drain'[h] = drain[h] PROVE Goal
  BY <1>s
<1>e. ASSUME drain'[h] = IdleDrain PROVE Goal
  BY <1>e DEF IdleDrain
<1>1. ASSUME NEW g \in Drains, NEW d \in Devices, Poll(g, d) PROVE Goal
  BY <1>0, <1>1, <1>s DEF Poll, IdleDrain
<1>2. ASSUME NEW g \in Drains, Serve(g) PROVE Goal
  <2>1. CASE g # h
    BY <1>0, <1>2, <1>s, <2>1
       DEF Serve, Touch, Read, Take, Park, Resume, Reply, Lose
  <2>2. CASE g = h
    <3>1. CASE Touch(h)
      BY <1>0, <3>1 DEF Touch, Drain
    <3>2. CASE Read(h)
      BY <1>0, <3>2 DEF Read, Drain, Shape, Served
    <3>3. CASE Take(h)
      BY <1>0, <3>3 DEF Take, Drain, Shape, Served
    <3>6. CASE Park(h) \/ Resume(h)
      BY <1>0, <3>6 DEF Park, Resume, Drain
    <3>7. CASE Reply(h) \/ Lose(h)
      BY <1>0, <1>e, <3>7 DEF Reply, Lose
    <3> QED BY <1>2, <2>2, <3>1, <3>2, <3>3, <3>6, <3>7 DEF Serve
  <2> QED BY <2>1, <2>2
<1>4. CASE Restart
  BY <1>4, <1>e DEF Restart, Ends
<1>5. ASSUME \/ \E d \in Devices : Pair(d) \/ Unpair(d)
             \/ \E i \in Items, d \in Devices : Send(i, d)
             \/ \E i \in Items : Ack(i)
             \/ \E d \in Devices, t \in Tools : Answer(d, t) \/ Resolve(d, t)
             \/ \E t \in Tools : Ask(t) \/ Run(t) \/ Timeout(t)
             \/ UNCHANGED vars
      PROVE  Goal
  BY <1>5, <1>s DEF Pair, Unpair, Send, Ack, Answer, Resolve, Ask, Run, Enqueue, Register,
                    Got, Timeout, Leave, Discard, ScanRead, ScanWrite, Discarded, vars
<1> QED BY <1>1, <1>2, <1>4, <1>5 DEF Next

\* A queue gets a query from its call, or back from a discard that has read it there.
LEMMA QueueMoves ==
    ASSUME Shape, [Next]_vars, NEW d \in Devices, NEW t \in Tools, t \in queue'[d]
    PROVE  \/ t \in queue[d]
           \/ tool[t].pc = "append" /\ tool[t].dev = d
           \/ \E u \in Tools : t \in scan[u].list[d]
<1>0. queue \in [Devices -> SUBSET Tools]
  BY DEF Shape, TypeOK
<1>1. ASSUME NEW h \in Drains, Take(h) PROVE t \in queue[d]
  BY <1>0, <1>1 DEF Take
<1>2. ASSUME NEW u \in Tools, Enqueue(u)
      PROVE  t \in queue[d] \/ (tool[t].pc = "append" /\ tool[t].dev = d)
  BY <1>0, <1>2 DEF Enqueue
<1>3. ASSUME NEW u \in Tools, NEW e \in Devices, ScanWrite(u, e)
      PROVE  t \in queue[d] \/ t \in scan[u].list[d]
  BY <1>0, <1>3 DEF ScanWrite
<1>4. CASE Restart
  BY <1>4 DEF Restart, Ends
<1>5. ASSUME ~\E h \in Drains : Take(h), ~\E u \in Tools : Enqueue(u),
             ~\E u \in Tools, e \in Devices : ScanWrite(u, e), ~Restart
      PROVE  queue' = queue
  BY <1>5 DEF Next, Serve, Run, vars, hub, Pair, Unpair, Send, Ack, Poll, Touch, Read, Park,
              Resume, Reply, Lose, Answer, Resolve, Ask, Register, Got, Timeout, Leave, Discard,
              ScanRead, Discarded
<1> QED BY <1>1, <1>2, <1>3, <1>4, <1>5

\* A discard reads what is in the queue.
LEMMA ScanMoves ==
    ASSUME Shape, [Next]_vars, NEW d \in Devices, NEW t \in Tools, NEW u \in Tools,
           t \in scan'[u].list[d]
    PROVE  t \in scan[u].list[d] \/ t \in queue[d]
<1>0. scan \in [Tools -> Scan] /\ scan[u] \in Scan
  BY DEF Shape, TypeOK
<1>n. ASSUME scan'[u] = NoScan PROVE FALSE
  BY <1>n DEF NoScan
<1>1. ASSUME NEW v \in Tools, NEW e \in Devices, ScanRead(v, e)
      PROVE  t \in scan[u].list[d] \/ t \in queue[d]
  <2>1. CASE v = u
    <3>1. scan'[u] = [scan[u] EXCEPT !.unread = @ \ {e}, !.list[e] = queue[e]]
      BY <1>0, <1>1, <2>1 DEF ScanRead
    <3>2. scan'[u].list = [scan[u].list EXCEPT ![e] = queue[e]]
      BY <1>0, <3>1 DEF Scan
    <3> QED BY <1>0, <3>2 DEF Scan
  <2>2. CASE v # u
    BY <1>0, <1>1, <2>2 DEF ScanRead
  <2> QED BY <2>1, <2>2
<1>2. ASSUME NEW v \in Tools, NEW e \in Devices, ScanWrite(v, e) PROVE t \in scan[u].list[d]
  <2>1. scan'[u] = scan[u] \/ scan'[u] = [scan[u] EXCEPT !.left = @ \ {e}]
    BY <1>0, <1>2 DEF ScanWrite
  <2> QED BY <1>0, <2>1 DEF Scan
<1>3. ASSUME NEW v \in Tools, Discard(v) PROVE t \in scan[u].list[d]
  <2>1. scan'[u] = scan[u] \/ scan'[u] = [NoScan EXCEPT !.unread = Listed, !.left = Listed]
    BY <1>0, <1>3 DEF Discard
  <2> QED BY <2>1 DEF NoScan
<1>4. ASSUME NEW v \in Tools, Discarded(v) PROVE t \in scan[u].list[d]
  BY <1>0, <1>4, <1>n DEF Discarded
<1>5. CASE Restart
  BY <1>5, <1>n DEF Restart, Ends
<1>6. ASSUME ~\E v \in Tools : Discard(v) \/ Discarded(v),
             ~\E v \in Tools, e \in Devices : ScanRead(v, e) \/ ScanWrite(v, e), ~Restart
      PROVE  scan' = scan
  BY <1>6 DEF Next, Serve, Run, vars, calls, Pair, Unpair, Send, Ack, Poll, Touch, Read, Take,
              Park, Resume, Reply, Lose, Answer, Resolve, Ask, Enqueue, Register, Got, Timeout,
              Leave
<1> QED BY <1>1, <1>2, <1>3, <1>4, <1>5, <1>6

\* A phone is shown only what a drain of its device answers.
LEMMA ShownMoves ==
    ASSUME Shape, [Next]_vars
    PROVE  \/ shown' = shown
           \/ \E h \in Drains :
                /\ Reply(h)
                /\ drain[h].dev \in Devices
                /\ shown'[drain[h].dev] = shown[drain[h].dev] \cup drain[h].got \cup drain[h].items
                /\ \A d \in Devices : d # drain[h].dev => shown'[d] = shown[d]
<1>1. CASE \E h \in Drains : Reply(h)
  BY <1>1 DEF Reply, Shape, Served, TypeOK
<1>2. CASE ~\E h \in Drains : Reply(h)
  BY <1>2 DEF Next, Serve, Run, vars, past, Pair, Unpair, Send, Ack, Poll, Touch, Read, Take,
              Park, Resume, Lose, Answer, Resolve, Ask, Enqueue, Register, Got, Timeout, Leave,
              Discard, ScanRead, ScanWrite, Discarded, Restart, Ends
<1> QED BY <1>1, <1>2

\* Whom a call asks is settled when it begins.
LEMMA AskedOnce ==
    ASSUME Shape, [Next]_vars, NEW t \in Tools, NEW d, AskedOf(t, d)
    PROVE  AskedOf(t, d)'
<1>0. tool \in [Tools -> Tool] /\ tool[t] \in Tool /\ tool[t].pc # "idle" /\ tool[t].dev = d
  BY DEF Shape, TypeOK, AskedOf
<1>s. ASSUME tool'[t].pc # "idle", tool'[t].dev = tool[t].dev PROVE AskedOf(t, d)'
  BY <1>0, <1>s DEF AskedOf
<1>1. ASSUME NEW u \in Tools, Ask(u) \/ Run(u) \/ Timeout(u) PROVE AskedOf(t, d)'
  <2>1. CASE u = t
    <3>1. Run(t) \/ Timeout(t)
      BY <1>0, <1>1, <2>1 DEF Ask
    <3>2. tool'[t].pc # "idle" /\ tool'[t].dev = tool[t].dev
      <4>1. CASE Enqueue(t) \/ Register(t) \/ Got(t) \/ Timeout(t)
        BY <1>0, <4>1 DEF Enqueue, Register, Got, Timeout, Leave, Tool
      <4>2. CASE Discard(t) \/ Discarded(t)
        BY <1>0, <4>2 DEF Discard, Discarded, Tool
      <4>3. ASSUME NEW e \in Devices, ScanRead(t, e) \/ ScanWrite(t, e)
            PROVE  tool'[t].pc # "idle" /\ tool'[t].dev = tool[t].dev
        BY <1>0, <4>3 DEF ScanRead, ScanWrite
      <4> QED BY <3>1, <4>1, <4>2, <4>3 DEF Run
    <3> QED BY <1>s, <3>2
  <2>2. CASE u # t
    BY <1>0, <1>1, <1>s, <2>2 DEF Ask, Run, Enqueue, Register, Got, Timeout, Leave, Discard,
                                  ScanRead, ScanWrite, Discarded
  <2> QED BY <2>1, <2>2
<1>2. ASSUME NEW e \in Devices, NEW u \in Tools, Resolve(e, u) PROVE AskedOf(t, d)'
  <2>1. tool'[t] = tool[t] \/ tool'[t] = [tool[t] EXCEPT !.answer = "scheduled"]
    BY <1>0, <1>2 DEF Resolve
  <2> QED BY <1>0, <1>s, <2>1 DEF Tool
<1>3. CASE Restart
  BY <1>0, <1>3, <1>s DEF Restart, Ends, Tool
<1>4. ASSUME \/ \E e \in Devices, u \in Tools : Answer(e, u)
             \/ UNCHANGED vars
      PROVE  AskedOf(t, d)'
  BY <1>0, <1>4, <1>s DEF Answer, calls, vars
<1>5. ASSUME UNCHANGED <<future, tool>> PROVE AskedOf(t, d)'
  BY <1>0, <1>5, <1>s
<1> QED BY <1>1, <1>2, <1>3, <1>4, <1>5, CallsUntouched DEF Next

\* A sent row stays sent, to its phone.
LEMMA RowMoves ==
    ASSUME Shape, RowsAddressed, [Next]_vars, NEW i \in Items
    PROVE  /\ row'[i] = "unsent" => mail'[i] = Nobody
           /\ \A d : SentTo(i, d) => SentTo(i, d)'
<1> DEFINE Goal == /\ row'[i] = "unsent" => mail'[i] = Nobody
                   /\ \A d : SentTo(i, d) => SentTo(i, d)'
<1>0. row \in [Items -> Row] /\ mail \in [Items -> Devices \cup {Nobody}]
  BY DEF Shape, TypeOK
<1>u. row[i] = "unsent" => mail[i] = Nobody
  BY DEF RowsAddressed
<1>s. ASSUME mail'[i] = mail[i], row'[i] = "unsent" <=> row[i] = "unsent" PROVE Goal
  BY <1>s, <1>u DEF SentTo, SamePhone
<1>1. ASSUME NEW d \in Devices, Pair(d) PROVE Goal
  <2>1. /\ mail'[i] = IF mail[i] \in SamePhone(d) /\ row[i] # "acked" THEN d ELSE mail[i]
        /\ row'[i] = row[i]
    BY <1>1 DEF Pair
  <2>2. CASE mail[i] \in SamePhone(d) /\ row[i] # "acked"
    BY <1>u, <2>1, <2>2, BridgeAssumption DEF SentTo, SamePhone
  <2>3. CASE ~(mail[i] \in SamePhone(d) /\ row[i] # "acked")
    BY <1>s, <2>1, <2>3
  <2> QED BY <2>2, <2>3
<1>2. ASSUME NEW j \in Items, NEW d \in Devices, Send(j, d) PROVE Goal
  <2>1. CASE j = i
    BY <1>0, <1>2, <2>1 DEF Send, SentTo
  <2>2. CASE j # i
    BY <1>0, <1>2, <1>s, <2>2 DEF Send
  <2> QED BY <2>1, <2>2
<1>3. ASSUME NEW j \in Items, Ack(j) PROVE Goal
  <2>1. mail' = mail /\ row' = [row EXCEPT ![j] = "acked"] /\ mail[j] \in Devices
    BY <1>3 DEF Ack, Shape, TypeOK
  <2>2. row[j] # "unsent"
    BY <2>1, BridgeAssumption DEF RowsAddressed
  <2> QED BY <1>0, <1>s, <2>1, <2>2
<1>4. ASSUME \/ \E d \in Devices : Unpair(d)
             \/ \E h \in Drains, d \in Devices : Poll(h, d)
             \/ \E h \in Drains : Serve(h)
             \/ \E d \in Devices, t \in Tools : Answer(d, t) \/ Resolve(d, t)
             \/ \E t \in Tools : Ask(t) \/ Run(t) \/ Timeout(t)
             \/ Restart
             \/ UNCHANGED vars
      PROVE  mail' = mail /\ row' = row
  BY <1>4 DEF Unpair, Poll, Serve, Touch, Read, Take, Park, Resume, Reply, Lose, Answer, Resolve,
              Ask, Run, Enqueue, Register, Got, Timeout, Leave, Discard, ScanRead, ScanWrite,
              Discarded, Restart, Ends, vars, store
<1> QED BY <1>1, <1>2, <1>3, <1>4, <1>s DEF Next

-----------------------------------------------------------------------------
(* The invariant *)

LEMMA AddressedInit == Init => Addressed
BY DEF Init, Addressed, Outcomes, QueriesAddressed, RowsAddressed, IdleDrain, IdleTool, NoScan

LEMMA OutcomesNext == Shape /\ Calls /\ Outcomes /\ [Next]_vars => Outcomes'
<1> SUFFICES ASSUME Shape, Calls, Outcomes, [Next]_vars, NEW t \in Tools
             PROVE  /\ tool'[t].pc \in {"idle", "append", "register"} => tool'[t].answer = "none"
                    /\ tool'[t].pc = "await" => tool'[t].answer \in {"none", "scheduled"}
                    /\ tool'[t].pc \in {"discard", "scan"} => tool'[t].answer \in {"got", "timeout"}
  BY DEF Outcomes
<1> DEFINE Goal == /\ tool'[t].pc \in {"idle", "append", "register"} => tool'[t].answer = "none"
                   /\ tool'[t].pc = "await" => tool'[t].answer \in {"none", "scheduled"}
                   /\ tool'[t].pc \in {"discard", "scan"} => tool'[t].answer \in {"got", "timeout"}
<1>0. tool \in [Tools -> Tool] /\ tool[t] \in Tool
  BY DEF Shape, TypeOK
<1>s. ASSUME tool'[t] = tool[t] PROVE Goal
  BY <1>s DEF Outcomes
<1>1. ASSUME NEW u \in Tools, Ask(u) \/ Run(u) \/ Timeout(u) PROVE Goal
  <2>1. CASE u # t
    BY <1>0, <1>1, <1>s, <2>1 DEF Ask, Run, Enqueue, Register, Got, Timeout, Leave, Discard,
                                  ScanRead, ScanWrite, Discarded
  <2>2. CASE u = t
    <3>1. CASE Ask(t)
      BY <1>0, <3>1 DEF Ask, Tool, Outcomes
    <3>2. CASE Enqueue(t) \/ Register(t) \/ Discard(t) \/ Discarded(t)
      BY <1>0, <3>2 DEF Enqueue, Register, Discard, Discarded, Tool, Outcomes
    <3>3. CASE Got(t) \/ Timeout(t)
      BY <1>0, <3>3 DEF Got, Timeout, Leave, Tool
    <3>4. ASSUME NEW d \in Devices, ScanRead(t, d) \/ ScanWrite(t, d) PROVE Goal
      BY <1>s, <3>4 DEF ScanRead, ScanWrite
    <3> QED BY <1>1, <2>2, <3>1, <3>2, <3>3, <3>4 DEF Run
  <2> QED BY <2>1, <2>2
<1>2. ASSUME NEW d \in Devices, NEW u \in Tools, Resolve(d, u) PROVE Goal
  <2>1. CASE u = t /\ t \in future /\ tool[t].answer = "none"
    <3>1. tool[t].pc = "await"
      BY <2>1 DEF Calls, CallsSound
    <3> QED BY <1>0, <1>2, <2>1, <3>1 DEF Resolve, Tool, Outcomes
  <2>2. CASE ~(u = t /\ t \in future /\ tool[t].answer = "none")
    BY <1>0, <1>2, <1>s, <2>2 DEF Resolve
  <2> QED BY <2>1, <2>2
<1>3. CASE Restart
  <2>1. tool'[t] = IF tool[t].pc \in {"idle", "done"} THEN tool[t]
                   ELSE [tool[t] EXCEPT !.pc = "done"]
    BY <1>3 DEF Restart, Ends
  <2>2. CASE tool[t].pc \notin {"idle", "done"}
    BY <1>0, <2>1, <2>2 DEF Tool
  <2> QED BY <1>s, <2>1, <2>2
<1>4. ASSUME \/ \E d \in Devices, u \in Tools : Answer(d, u)
             \/ UNCHANGED vars
      PROVE  tool' = tool
  BY <1>4 DEF Answer, calls, vars
<1> QED BY <1>1, <1>2, <1>3, <1>4, <1>s, CallsUntouched DEF Next

\* No request to answer comes from a device whose phone was not shown the query.
LEMMA AnswersMove ==
    ASSUME [Next]_vars, NEW d \in Devices, NEW t \in Tools, <<d, t>> \in answers'
    PROVE  <<d, t>> \in answers \/ Handed(t)
<1>1. CASE \E e \in Devices, u \in Tools : Answer(e, u)
  BY <1>1 DEF Answer, Handed, SamePhone
<1>2. CASE ~\E e \in Devices, u \in Tools : Answer(e, u)
  <2>1. answers' \subseteq answers
    BY <1>2 DEF Next, Serve, Run, vars, Pair, Unpair, Send, Ack, Poll, Touch, Read, Take, Park,
                Resume, Reply, Lose, Resolve, Ask, Enqueue, Register, Got, Timeout, Leave,
                Discard, ScanRead, ScanWrite, Discarded, Restart, Ends
  <2> QED BY <2>1
<1> QED BY <1>1, <1>2

LEMMA QueriesNext ==
    ASSUME Shape, QueriesAddressed, [Next]_vars
    PROVE  QueriesAddressed'
<1>1. ASSUME NEW d \in Devices, NEW t \in Tools, t \in queue'[d] PROVE AskedOf(t, d)'
  <2>1. AskedOf(t, d)
    BY <1>1, QueueMoves DEF QueriesAddressed, AskedOf
  <2> QED BY <2>1, AskedOnce
<1>2. ASSUME NEW d \in Devices, NEW t \in Tools, NEW u \in Tools, t \in scan'[u].list[d]
      PROVE  AskedOf(t, d)'
  <2>1. AskedOf(t, d)
    BY <1>2, ScanMoves DEF QueriesAddressed
  <2> QED BY <2>1, AskedOnce
<1>3. ASSUME NEW h \in Drains, NEW t \in Tools, NEW d, d = drain'[h].dev, t \in drain'[h].got
      PROVE  AskedOf(t, d)'
  <2>1. AskedOf(t, d)
    BY <1>3, DrainMoves DEF QueriesAddressed
  <2> QED BY <2>1, AskedOnce
<1>4. ASSUME NEW d \in Devices, NEW t \in Tools, t \in shown'[d] PROVE AskedOf(t, d)'
  <2>1. AskedOf(t, d)
    <3>1. CASE t \in shown[d]
      BY <3>1 DEF QueriesAddressed
    <3>2. CASE t \notin shown[d]
      <4>1. PICK h \in Drains : drain[h].dev = d /\ t \in drain[h].got \cup drain[h].items
        BY <1>4, <3>2, ShownMoves
      <4>2. t \in drain[h].got
        BY <4>1, BridgeAssumption DEF Shape, TypeOK, Drain
      <4> QED BY <4>1, <4>2 DEF QueriesAddressed
    <3> QED BY <3>1, <3>2
  <2> QED BY <2>1, AskedOnce
<1>5. ASSUME NEW d \in Devices, NEW t \in Tools, <<d, t>> \in answers'
      PROVE  Handed(t)'
  <2>1. PICK e \in Devices : t \in shown[e]
    BY <1>5, AnswersMove DEF QueriesAddressed, Handed
  <2>2. t \in shown'[e]
    BY <2>1, ShownMoves
  <2> QED BY <2>2 DEF Handed
<1>6. \A h \in Drains, t \in Tools : t \in drain'[h].got => AskedOf(t, drain[h].dev)'
  BY <1>3 DEF AskedOf
<1> QED BY <1>1, <1>2, <1>4, <1>5, <1>6 DEF QueriesAddressed

LEMMA RowsNext ==
    ASSUME Shape, RowsAddressed, [Next]_vars
    PROVE  RowsAddressed'
<1>1. ASSUME NEW h \in Drains, NEW i \in Items, NEW d, d = drain'[h].dev, i \in drain'[h].items
      PROVE  SentTo(i, d)'
  <2>1. SentTo(i, d)
    <3>1. CASE i \in drain[h].items
      BY <1>1, <3>1, DrainMoves DEF RowsAddressed
    <3>2. CASE i \notin drain[h].items
      <4>1. d \in Devices /\ i \in Pending(d)
        BY <1>1, <3>2, DrainMoves
      <4> QED BY <4>1, BridgeAssumption DEF Pending, RowsAddressed, SentTo, SamePhone
    <3> QED BY <3>1, <3>2
  <2> QED BY <2>1, RowMoves
<1>2. ASSUME NEW d \in Devices, NEW i \in Items, i \in shown'[d]
      PROVE  SentTo(i, d)'
  <2>1. SentTo(i, d)
    <3>1. CASE i \in shown[d]
      BY <3>1 DEF RowsAddressed
    <3>2. CASE i \notin shown[d]
      <4>1. PICK h \in Drains : drain[h].dev = d /\ i \in drain[h].got \cup drain[h].items
        BY <1>2, <3>2, ShownMoves
      <4>2. i \in drain[h].items
        BY <4>1, BridgeAssumption DEF Shape, TypeOK, Drain
      <4> QED BY <4>1, <4>2 DEF RowsAddressed
    <3> QED BY <3>1, <3>2
  <2> QED BY <2>1, RowMoves
<1>3. \A i \in Items : row'[i] = "unsent" => mail'[i] = Nobody
  BY RowMoves
<1> QED BY <1>1, <1>2, <1>3 DEF RowsAddressed, SentTo


-----------------------------------------------------------------------------
(* Bridge implements Question *)

\* The calls, where they are and what their outcome is, are typed and addressed.
QInv == Shape /\ Calls /\ Outcomes /\ QueriesAddressed

LEMMA EnquiryInit == Init => Enquiry!Init
<1> SUFFICES ASSUME Init PROVE Enquiry!Init
  OBVIOUS
<1>1. ASSUME NEW t \in Tools
      PROVE  /\ StatusOf(tool[t]) = "new" /\ tool[t].dev = Nobody
             /\ {d \in Devices : t \in shown[d]} = {}
  BY DEF Init, StatusOf, IdleTool
<1>2. Asked = [t \in Tools |-> [status |-> "new", to |-> Nobody, seen |-> {}]]
  BY <1>1 DEF Asked
<1> QED BY <1>2 DEF Enquiry!Init

\* A call that goes on with the same outcome looks the same to the agent.
LEMMA SameStatus ==
    ASSUME NEW c, NEW e, e.answer = c.answer,
           \/ c.pc \notin {"idle", "done"} /\ e.pc \notin {"idle", "done"}
           \/ e.pc = "done" /\ c.pc # "idle" /\ c.answer \in {"got", "timeout"}
           \/ e.pc = c.pc
    PROVE  StatusOf(e) = StatusOf(c)
BY DEF StatusOf

\* The devices that were shown the query of t.
SeenBy(t) == {d \in Devices : t \in shown[d]}

LEMMA AskedIs ==
    /\ Asked = [t \in Tools |-> [status |-> StatusOf(tool[t]), to |-> tool[t].dev,
                                 seen |-> SeenBy(t)]]
    /\ Asked' = [t \in Tools |-> [status |-> StatusOf(tool'[t]), to |-> tool'[t].dev,
                                  seen |-> SeenBy(t)']]
<1>1. Asked = [t \in Tools |-> [status |-> StatusOf(tool[t]), to |-> tool[t].dev,
                               seen |-> SeenBy(t)]]
  BY DEF Asked, SeenBy
<1>2. Asked' = [t \in Tools |-> [status |-> StatusOf(tool[t])', to |-> tool'[t].dev,
                                 seen |-> SeenBy(t)']]
  BY DEF Asked, SeenBy
<1>3. \A t \in Tools : StatusOf(tool[t])' = StatusOf(tool'[t])
  BY DEF StatusOf
<1> QED BY <1>1, <1>2, <1>3

\* Nothing an agent knows of changed.
LEMMA EnquiryStutters ==
    ASSUME \A t \in Tools : StatusOf(tool'[t]) = StatusOf(tool[t]) /\ tool'[t].dev = tool[t].dev,
           \A t \in Tools : SeenBy(t)' = SeenBy(t)
    PROVE  Asked' = Asked
BY AskedIs

\* What the agent knows of a question is typed.
LEMMA AskedTyped == Shape => Asked \in [Tools -> Enquiry!Question]
<1> SUFFICES ASSUME Shape, NEW t \in Tools
             PROVE  [status |-> StatusOf(tool[t]), to |-> tool[t].dev, seen |-> SeenBy(t)]
                      \in Enquiry!Question
  BY AskedIs
<1>1. StatusOf(tool[t]) \in Enquiry!Statuses
  BY DEF StatusOf, Enquiry!Statuses
<1>2. tool[t].dev \in Devices \cup {Nobody}
  BY DEF Shape, TypeOK, Tool
<1>3. SeenBy(t) \in SUBSET Devices
  BY DEF SeenBy
<1> QED BY <1>1, <1>2, <1>3 DEF Enquiry!Question

\* A question that differs from another in one or two fields.
LEMMA QuestionFields ==
    ASSUME NEW r \in Enquiry!Question, NEW q \in Enquiry!Question
    PROVE  /\ q.seen = r.seen => q = [r EXCEPT !.status = q.status, !.to = q.to]
           /\ q.seen = r.seen /\ q.to = r.to => q = [r EXCEPT !.status = q.status]
           /\ q.status = r.status /\ q.to = r.to => q = [r EXCEPT !.seen = q.seen]
           /\ q.status = r.status /\ q.to = r.to /\ q.seen = r.seen => q = r
<1>1. ASSUME q.seen = r.seen PROVE q = [r EXCEPT !.status = q.status, !.to = q.to]
  BY <1>1 DEF Enquiry!Question, Enquiry!Statuses
<1>2. ASSUME q.seen = r.seen, q.to = r.to PROVE q = [r EXCEPT !.status = q.status]
  BY <1>2 DEF Enquiry!Question, Enquiry!Statuses
<1>3. ASSUME q.status = r.status, q.to = r.to PROVE q = [r EXCEPT !.seen = q.seen]
  BY <1>3 DEF Enquiry!Question, Enquiry!Statuses
<1>4. ASSUME q.status = r.status, q.to = r.to, q.seen = r.seen PROVE q = r
  BY <1>4 DEF Enquiry!Question, Enquiry!Statuses
<1> QED BY <1>1, <1>2, <1>3, <1>4

\* What an agent knows of each question, before and after a step.
LEMMA AskedFields ==
    ASSUME Shape, Shape'
    PROVE  /\ Asked \in [Tools -> Enquiry!Question] /\ Asked' \in [Tools -> Enquiry!Question]
           /\ \A t \in Tools : /\ Asked[t].status = StatusOf(tool[t])
                              /\ Asked[t].to = tool[t].dev
                              /\ Asked[t].seen = SeenBy(t)
                              /\ Asked'[t].status = StatusOf(tool'[t])
                              /\ Asked'[t].to = tool'[t].dev
                              /\ Asked'[t].seen = SeenBy(t)'
<1>1. Asked \in [Tools -> Enquiry!Question] /\ (Asked \in [Tools -> Enquiry!Question])'
  BY AskedTyped, PTL
<1>2. ASSUME NEW t \in Tools
      PROVE  /\ Asked[t].status = StatusOf(tool[t])
             /\ Asked[t].to = tool[t].dev
             /\ Asked[t].seen = SeenBy(t)
  <2>1. Asked[t] = [status |-> StatusOf(tool[t]), to |-> tool[t].dev, seen |-> SeenBy(t)]
    BY AskedIs
  <2>2. Asked[t].status = StatusOf(tool[t])
    BY <2>1
  <2>3. Asked[t].to = tool[t].dev
    BY <2>1
  <2>4. Asked[t].seen = SeenBy(t)
    BY <2>1
  <2> QED BY <2>2, <2>3, <2>4
<1>3. ASSUME NEW t \in Tools
      PROVE  /\ Asked'[t].status = StatusOf(tool'[t])
             /\ Asked'[t].to = tool'[t].dev
             /\ Asked'[t].seen = SeenBy(t)'
  <2>1. Asked'[t] = [status |-> StatusOf(tool'[t]), to |-> tool'[t].dev, seen |-> SeenBy(t)']
    BY AskedIs
  <2>2. Asked'[t].status = StatusOf(tool'[t])
    BY <2>1
  <2>3. Asked'[t].to = tool'[t].dev
    BY <2>1
  <2>4. Asked'[t].seen = SeenBy(t)'
    BY <2>1
  <2> QED BY <2>2, <2>3, <2>4
<1> QED BY <1>1, <1>2, <1>3

\* One call goes on, its phone knows what it knew.
LEMMA EnquiryMoves ==
    ASSUME Shape, Shape', shown' = shown, NEW t \in Tools,
           \A u \in Tools : u # t => tool'[u] = tool[u]
    PROVE  /\ Asked' = [Asked EXCEPT ![t].status = StatusOf(tool'[t]), ![t].to = tool'[t].dev]
           /\ tool'[t].dev = tool[t].dev
              => Asked' = [Asked EXCEPT ![t].status = StatusOf(tool'[t])]
<1>1. \A u \in Tools : SeenBy(u)' = SeenBy(u)
  BY DEF SeenBy
<1>q. \A u \in Tools : Asked[u] \in Enquiry!Question /\ Asked'[u] \in Enquiry!Question
  BY AskedFields
<1>2. ASSUME NEW u \in Tools, u # t PROVE Asked'[u] = Asked[u]
  <2>1. /\ Asked'[u].status = Asked[u].status /\ Asked'[u].to = Asked[u].to
        /\ Asked'[u].seen = Asked[u].seen
    BY <1>1, <1>2, AskedFields
  <2> QED BY <1>q, <2>1, QuestionFields
<1>3. Asked' = [Asked EXCEPT ![t] = Asked'[t]]
  BY <1>2, AskedFields
<1>4. Asked' = [Asked EXCEPT ![t].status = Asked'[t].status, ![t].to = Asked'[t].to]
  <2>1. Asked'[t] = [Asked[t] EXCEPT !.status = Asked'[t].status, !.to = Asked'[t].to]
    <3>1. Asked'[t].seen = Asked[t].seen
      BY <1>1, AskedFields
    <3> QED BY <1>q, <3>1, QuestionFields
  <2>2. Asked' = [Asked EXCEPT ![t] = [Asked[t] EXCEPT !.status = Asked'[t].status,
                                                       !.to = Asked'[t].to]]
    BY <1>3, <2>1
  <2> QED BY <2>2, AskedFields
<1>5. ASSUME tool'[t].dev = tool[t].dev
      PROVE  Asked' = [Asked EXCEPT ![t].status = Asked'[t].status]
  <2>1. Asked'[t] = [Asked[t] EXCEPT !.status = Asked'[t].status]
    <3>1. Asked'[t].seen = Asked[t].seen /\ Asked'[t].to = Asked[t].to
      BY <1>1, <1>5, AskedFields
    <3> QED BY <1>q, <3>1, QuestionFields
  <2>2. Asked' = [Asked EXCEPT ![t] = [Asked[t] EXCEPT !.status = Asked'[t].status]]
    BY <1>3, <2>1
  <2> QED BY <2>2, AskedFields
<1> QED BY <1>4, <1>5, AskedFields

\* Some calls end without an answer, the others look the same.
LEMMA EnquiryGives ==
    ASSUME Shape, Shape', shown' = shown, NEW S \in SUBSET Tools,
           \A t \in Tools : tool'[t].dev = tool[t].dev,
           \A t \in S : /\ StatusOf(tool[t]) \in {"open", "answered"}
                        /\ StatusOf(tool'[t]) = "silent",
           \A t \in Tools \ S : StatusOf(tool'[t]) = StatusOf(tool[t])
    PROVE  Enquiry!GiveUp(S)
<1>1. \A t \in Tools : SeenBy(t)' = SeenBy(t)
  BY DEF SeenBy
<1>q. \A t \in Tools : Asked[t] \in Enquiry!Question /\ Asked'[t] \in Enquiry!Question
  BY AskedFields
<1>2. ASSUME NEW t \in S PROVE Asked'[t] = [Asked[t] EXCEPT !.status = "silent"]
  <2>1. /\ Asked'[t].status = "silent" /\ Asked'[t].to = Asked[t].to
        /\ Asked'[t].seen = Asked[t].seen
    BY <1>1, AskedFields
  <2>2. Asked'[t] = [Asked[t] EXCEPT !.status = Asked'[t].status]
    BY <1>q, <2>1, QuestionFields
  <2> QED BY <2>1, <2>2
<1>3. ASSUME NEW t \in Tools \ S PROVE Asked'[t] = Asked[t]
  <2>1. /\ Asked'[t].status = Asked[t].status /\ Asked'[t].to = Asked[t].to
        /\ Asked'[t].seen = Asked[t].seen
    BY <1>1, AskedFields
  <2> QED BY <1>q, <2>1, QuestionFields
<1>4. Asked' = [t \in Tools |-> IF t \in S THEN [Asked[t] EXCEPT !.status = "silent"]
                                ELSE Asked[t]]
  BY <1>2, <1>3, AskedFields
<1>5. \A t \in S : Asked[t].status \in {"open", "answered"}
  BY AskedFields
<1> QED BY <1>4, <1>5 DEF Enquiry!GiveUp

\* A drain's answer reaches its phone: the queries in it are shown to the asked device.
LEMMA ReplyShows ==
    ASSUME Shape, Shape', QueriesAddressed, NEW h \in Drains, Reply(h)
    PROVE  drain[h].dev \in Devices /\ Enquiry!Show(drain[h].dev, drain[h].got)
<1> DEFINE d == drain[h].dev
           S == drain[h].got
<1>1. d \in Devices /\ S \subseteq Tools /\ drain[h].items \subseteq Items
  BY DEF Reply, Shape, Served, TypeOK, Drain
<1>2. /\ shown'[d] = shown[d] \cup S \cup drain[h].items
      /\ \A e \in Devices : e # d => shown'[e] = shown[e]
      /\ tool' = tool
  BY <1>1 DEF Reply, calls, Shape, TypeOK
<1>3. ASSUME NEW t \in S PROVE Asked[t].status # "new" /\ Asked[t].to = d
  <2>1. tool[t].pc # "idle" /\ tool[t].dev = d
    BY <1>1 DEF QueriesAddressed, AskedOf
  <2>2. StatusOf(tool[t]) # "new"
    BY <2>1 DEF StatusOf
  <2> QED BY <1>1, <2>1, <2>2, AskedFields
<1>q. \A t \in Tools : Asked[t] \in Enquiry!Question /\ Asked'[t] \in Enquiry!Question
  BY AskedFields
<1>n. \A t \in Tools : t \notin drain[h].items
  BY <1>1, BridgeAssumption
<1> HIDE DEF d, S
<1>4. ASSUME NEW t \in S PROVE Asked'[t] = [Asked[t] EXCEPT !.seen = @ \cup {d}]
  <2>1. SeenBy(t)' = SeenBy(t) \cup {d}
    BY <1>1, <1>2, <1>n DEF SeenBy
  <2>2. /\ Asked'[t].seen = Asked[t].seen \cup {d} /\ Asked'[t].to = Asked[t].to
        /\ Asked'[t].status = Asked[t].status
    BY <1>1, <1>2, <2>1, AskedFields
  <2>3. Asked'[t] = [Asked[t] EXCEPT !.seen = Asked'[t].seen]
    BY <1>1, <1>q, <2>2, QuestionFields
  <2> QED BY <2>2, <2>3
<1>5. ASSUME NEW t \in Tools \ S PROVE Asked'[t] = Asked[t]
  <2>1. SeenBy(t)' = SeenBy(t)
    BY <1>1, <1>2, <1>5, <1>n DEF SeenBy
  <2>2. /\ Asked'[t].seen = Asked[t].seen /\ Asked'[t].to = Asked[t].to
        /\ Asked'[t].status = Asked[t].status
    BY <1>2, <2>1, AskedFields
  <2> QED BY <1>q, <2>2, QuestionFields
<1>6. Asked' = [t \in Tools |-> IF t \in S THEN [Asked[t] EXCEPT !.seen = @ \cup {d}]
                                ELSE Asked[t]]
  BY <1>4, <1>5, AskedFields
<1>7. Enquiry!Show(d, S)
  BY <1>3, <1>6 DEF Enquiry!Show
<1> QED BY <1>1, <1>7 DEF d, S

\* What each step of a call is to the agent.
LEMMA ToolSteps ==
    ASSUME QInv, QInv', NEW t \in Tools, Ask(t) \/ Run(t) \/ Timeout(t)
    PROVE  Enquiry!Next \/ Asked' = Asked
<1>0. tool \in [Tools -> Tool] /\ tool[t] \in Tool /\ Shape /\ Shape' /\ Outcomes
  BY DEF QInv, Shape, TypeOK
<1>1. shown' = shown /\ \A u \in Tools : u # t => tool'[u] = tool[u]
  BY <1>0 DEF Ask, Run, Enqueue, Register, Got, Timeout, Leave, Discard, ScanRead, ScanWrite,
              Discarded, past
<1>f. Asked[t].status = StatusOf(tool[t]) /\ DOMAIN Asked = Tools
  BY <1>0, AskedFields
<1>2. CASE Ask(t)
  <2>1. tool[t].pc = "idle" /\ tool[t].answer = "none" /\ StatusOf(tool[t]) = "new"
    BY <1>0, <1>2 DEF Ask, Outcomes, StatusOf
  <2>2. CASE freshest # Nobody /\ tool' = [tool EXCEPT ![t].pc = "append", ![t].dev = freshest]
    <3>1. /\ tool'[t].pc = "append" /\ tool'[t].dev = freshest /\ tool'[t].answer = "none"
          /\ freshest \in Devices
      BY <1>0, <2>1, <2>2 DEF Tool, Shape, TypeOK
    <3>2. StatusOf(tool'[t]) = "open"
      BY <3>1 DEF StatusOf
    <3>3. Asked' = [Asked EXCEPT ![t].status = "open", ![t].to = freshest]
      BY <1>0, <1>1, <3>1, <3>2, EnquiryMoves
    <3>4. Enquiry!Ask(t, freshest)
      BY <1>f, <2>1, <3>3 DEF Enquiry!Ask, Enquiry!WithStatus
    <3> QED BY <3>1, <3>4 DEF Enquiry!Next
  <2>3. CASE tool' = [tool EXCEPT ![t].pc = "done", ![t].answer = "unreachable"]
    <3>1. /\ tool'[t].pc = "done" /\ tool'[t].dev = tool[t].dev
          /\ tool'[t].answer = "unreachable"
      BY <1>0, <2>3 DEF Tool
    <3>2. StatusOf(tool'[t]) = "silent"
      BY <3>1 DEF StatusOf
    <3>3. Asked' = [Asked EXCEPT ![t].status = "silent"]
      BY <1>0, <1>1, <3>1, <3>2, EnquiryMoves
    <3>4. Enquiry!Refuse(t)
      BY <1>f, <2>1, <3>3 DEF Enquiry!Refuse, Enquiry!Becomes, Enquiry!WithStatus
    <3> QED BY <3>4 DEF Enquiry!Next
  <2> QED BY <1>2, <2>2, <2>3 DEF Ask
<1>3. CASE Enqueue(t) \/ Register(t) \/ Discard(t) \/ Discarded(t)
  <2>1. /\ tool'[t].answer = tool[t].answer /\ tool'[t].dev = tool[t].dev
        /\ \/ tool[t].pc \notin {"idle", "done"} /\ tool'[t].pc \notin {"idle", "done"}
           \/ /\ tool'[t].pc = "done" /\ tool[t].pc # "idle"
              /\ tool[t].answer \in {"got", "timeout"}
    BY <1>0, <1>3 DEF Enqueue, Register, Discard, Discarded, Tool, Outcomes
  <2>2. StatusOf(tool'[t]) = StatusOf(tool[t])
    BY <2>1, SameStatus
  <2>3. \A u \in Tools : StatusOf(tool'[u]) = StatusOf(tool[u]) /\ tool'[u].dev = tool[u].dev
    BY <1>1, <2>1, <2>2
  <2>4. \A u \in Tools : SeenBy(u)' = SeenBy(u)
    BY <1>1 DEF SeenBy
  <2> QED BY <2>3, <2>4, EnquiryStutters
<1>4. CASE Got(t)
  <2>1. /\ tool'[t].pc = "discard" /\ tool'[t].answer = "got" /\ tool'[t].dev = tool[t].dev
        /\ tool[t].pc = "await" /\ tool[t].answer = "scheduled"
    BY <1>0, <1>4 DEF Got, Leave, Tool
  <2>2. StatusOf(tool'[t]) = "heard" /\ StatusOf(tool[t]) = "answered"
    BY <2>1 DEF StatusOf
  <2>3. Asked' = [Asked EXCEPT ![t].status = "heard"]
    BY <1>0, <1>1, <2>1, <2>2, EnquiryMoves
  <2>4. Enquiry!Hear(t)
    BY <1>f, <2>2, <2>3 DEF Enquiry!Hear, Enquiry!Becomes, Enquiry!WithStatus
  <2> QED BY <2>4 DEF Enquiry!Next
<1>5. CASE Timeout(t)
  <2>1. /\ tool'[t].pc = "discard" /\ tool'[t].answer = "timeout" /\ tool'[t].dev = tool[t].dev
        /\ tool[t].pc = "await" /\ tool[t].answer \in {"none", "scheduled"}
    BY <1>0, <1>5 DEF Timeout, Leave, Tool, Outcomes
  <2>2. StatusOf(tool'[t]) = "silent" /\ StatusOf(tool[t]) \in {"open", "answered"}
    BY <2>1 DEF StatusOf
  <2>3. Enquiry!GiveUp({t})
    BY <1>0, <1>1, <2>1, <2>2, EnquiryGives
  <2> QED BY <2>3 DEF Enquiry!Next
<1>6. ASSUME NEW d \in Devices, ScanRead(t, d) \/ ScanWrite(t, d) PROVE Asked' = Asked
  <2>1. tool' = tool
    BY <1>6 DEF ScanRead, ScanWrite
  <2>2. \A u \in Tools : SeenBy(u)' = SeenBy(u)
    BY <1>1 DEF SeenBy
  <2> QED BY <2>1, <2>2, EnquiryStutters
<1> QED BY <1>2, <1>3, <1>4, <1>5, <1>6 DEF Run

\* The phone answers: only then does a question become answered.
LEMMA ResolveAnswers ==
    ASSUME QInv, QInv', NEW d \in Devices, NEW t \in Tools, Resolve(d, t)
    PROVE  Enquiry!Next \/ Asked' = Asked
<1>0. tool \in [Tools -> Tool] /\ tool[t] \in Tool /\ Shape /\ Shape'
  BY DEF QInv, Shape, TypeOK
<1>1. CASE t \in future /\ d = tool[t].dev /\ tool[t].answer = "none"
  <2>1. tool[t].pc \in {"await", "discard"} /\ d \in SeenBy(t)
    BY <1>1 DEF QInv, Calls, CallsSound, QueriesAddressed, AskedOf, Handed, SeenBy, Resolve
  <2>2. /\ tool' = [tool EXCEPT ![t].answer = "scheduled"] /\ shown' = shown
    BY <1>1 DEF Resolve
  <2>3. /\ tool'[t].pc = tool[t].pc /\ tool'[t].answer = "scheduled"
        /\ tool'[t].dev = tool[t].dev /\ \A u \in Tools : u # t => tool'[u] = tool[u]
    BY <1>0, <2>2 DEF Tool
  <2>4. StatusOf(tool'[t]) = "answered" /\ StatusOf(tool[t]) = "open"
    BY <1>1, <2>1, <2>3 DEF StatusOf
  <2>5. Asked' = [Asked EXCEPT ![t].status = "answered"]
    BY <1>0, <2>2, <2>3, <2>4, EnquiryMoves
  <2>6. Asked[t].status = "open" /\ Asked[t].to \in Asked[t].seen
    BY <1>0, <1>1, <2>1, <2>4, AskedFields
  <2>7. Enquiry!Answer(t)
    BY <2>5, <2>6 DEF Enquiry!Answer, Enquiry!Becomes, Enquiry!WithStatus
  <2> QED BY <2>7 DEF Enquiry!Next
<1>2. CASE ~(t \in future /\ d = tool[t].dev /\ tool[t].answer = "none")
  <2>1. tool' = tool /\ shown' = shown
    BY <1>2 DEF Resolve
  <2>2. \A u \in Tools : SeenBy(u)' = SeenBy(u)
    BY <2>1 DEF SeenBy
  <2> QED BY <2>1, <2>2, EnquiryStutters
<1> QED BY <1>1, <1>2

\* A call that has not begun or is over is neither open nor answered.
LEMMA StatusOver ==
    ASSUME NEW c, \/ c.pc = "idle" /\ c.answer = "none"
                  \/ c.pc = "done"
    PROVE  StatusOf(c) \notin {"open", "answered"}
<1>1. ASSUME c.pc = "idle", c.answer = "none" PROVE StatusOf(c) = "new"
  BY <1>1 DEF StatusOf
<1>2. ASSUME c.pc = "done", c.answer = "got" PROVE StatusOf(c) = "heard"
  BY <1>2 DEF StatusOf
<1>3. ASSUME c.pc = "done", c.answer # "got" PROVE StatusOf(c) = "silent"
  BY <1>3 DEF StatusOf
<1> QED BY <1>1, <1>2, <1>3

\* A gateway that ends gives up on every question that was still under way.
LEMMA RestartGivesUp ==
    ASSUME QInv, QInv', Restart
    PROVE  Enquiry!Next
<1> DEFINE S == {t \in Tools : StatusOf(tool[t]) \in {"open", "answered"}}
<1>1. Shape /\ Shape' /\ Outcomes /\ shown' = shown /\ S \in SUBSET Tools
  BY DEF QInv, Restart, Ends, past
<1>2. ASSUME NEW t \in Tools
      PROVE  /\ tool'[t].dev = tool[t].dev
             /\ t \in S => StatusOf(tool'[t]) = "silent"
             /\ t \notin S => StatusOf(tool'[t]) = StatusOf(tool[t])
  <2>1. tool[t] \in Tool
    BY <1>1 DEF Shape, TypeOK
  <2>2. tool'[t] = IF tool[t].pc \in {"idle", "done"} THEN tool[t]
                   ELSE [tool[t] EXCEPT !.pc = "done"]
    BY DEF Restart, Ends
  <2>3. CASE tool[t].pc \in {"idle", "done"}
    <3>1. tool'[t] = tool[t]
      BY <2>2, <2>3
    <3>2. StatusOf(tool[t]) \notin {"open", "answered"}
      BY <1>1, <2>3, StatusOver DEF Outcomes
    <3> QED BY <3>1, <3>2
  <2>4. CASE tool[t].pc \notin {"idle", "done"}
    <3>1. /\ tool'[t].pc = "done" /\ tool'[t].answer = tool[t].answer
          /\ tool'[t].dev = tool[t].dev
      BY <2>1, <2>2, <2>4 DEF Tool
    <3>2. tool[t].answer \in {"none", "scheduled", "got", "timeout"}
      BY <1>1, <2>1, <2>4 DEF Outcomes, Tool
    <3>3. CASE tool[t].answer \in {"got", "timeout"}
      BY <2>4, <3>1, <3>3 DEF StatusOf
    <3>4. CASE tool[t].answer \in {"none", "scheduled"}
      BY <2>4, <3>1, <3>4 DEF StatusOf
    <3> QED BY <3>2, <3>3, <3>4
  <2> QED BY <2>3, <2>4
<1>3. Enquiry!GiveUp(S)
  <2>1. \A t \in S : StatusOf(tool[t]) \in {"open", "answered"}
    OBVIOUS
  <2> HIDE DEF S
  <2> QED BY <1>1, <1>2, <2>1, EnquiryGives
<1> QED BY <1>1, <1>3 DEF Enquiry!Next

LEMMA EnquiryNext ==
    ASSUME QInv, QInv', [Next]_vars
    PROVE  Enquiry!Next \/ Asked' = Asked
<1>1. ASSUME tool' = tool, shown' = shown PROVE Asked' = Asked
  <2>1. \A t \in Tools : SeenBy(t)' = SeenBy(t)
    BY <1>1 DEF SeenBy
  <2> QED BY <1>1, <2>1, EnquiryStutters
<1>2. ASSUME NEW h \in Drains, Reply(h) PROVE Enquiry!Next
  <2>1. drain[h].dev \in Devices /\ Enquiry!Show(drain[h].dev, drain[h].got)
    BY <1>2, ReplyShows DEF QInv
  <2>2. drain[h].got \in SUBSET Tools
    BY DEF QInv, Shape, TypeOK, Drain
  <2> QED BY <2>1, <2>2 DEF Enquiry!Next
<1>3. ASSUME \/ \E d \in Devices : Pair(d) \/ Unpair(d)
             \/ \E i \in Items, d \in Devices : Send(i, d)
             \/ \E i \in Items : Ack(i)
             \/ \E h \in Drains, d \in Devices : Poll(h, d)
             \/ \E h \in Drains : Touch(h) \/ Read(h) \/ Take(h) \/ Park(h) \/ Resume(h) \/ Lose(h)
             \/ \E d \in Devices, t \in Tools : Answer(d, t)
             \/ UNCHANGED vars
      PROVE  tool' = tool /\ shown' = shown
  BY <1>3 DEF Pair, Unpair, Send, Ack, Poll, Touch, Read, Take, Park, Resume, Lose, Answer, vars,
              calls, past
<1> QED BY <1>1, <1>2, <1>3, ToolSteps, ResolveAnswers, RestartGivesUp DEF Next, Serve

-----------------------------------------------------------------------------
(* Bridge implements Mailbox *)

LEMMA PromiseInit == Init => Promise!Init
<1> SUFFICES ASSUME Init PROVE Promise!Init
  OBVIOUS
<1>1. Posted = [i \in Items |-> [status |-> "absent", to |-> Nobody, kind |-> "message"]]
  BY DEF Init, Posted
<1>2. Posted \in [Items -> {l \in Promise!Letter : l.status = "absent"}]
  BY <1>1 DEF Promise!Letter, Promise!Statuses, Promise!Kinds
<1>3. Shown = [p \in Phones |-> {}]
  BY DEF Init, Shown
<1> QED BY <1>2, <1>3 DEF Promise!Init

\* What the phone knows of a row: nothing, that it waits, or that it is settled.
Lot(i) == CASE row[i] = "unsent" -> "absent"
            [] row[i] = "acked" -> "delivered"
            [] OTHER -> "queued"

Address(i) == IF mail[i] = Nobody THEN Nobody ELSE PhoneOf[mail[i]]

LEMMA PostedIs ==
    /\ Posted = [i \in Items |-> [status |-> Lot(i), to |-> Address(i), kind |-> "message"]]
    /\ Posted' = [i \in Items |-> [status |-> Lot(i)', to |-> Address(i)', kind |-> "message"]]
BY DEF Posted, Lot, Address

\* Neither where a row goes nor what became of it has changed.
LEMMA PromiseStutters ==
    ASSUME \A i \in Items : Lot(i)' = Lot(i) /\ Address(i)' = Address(i),
           \A d \in Devices, i \in Items : i \in shown'[d] <=> i \in shown[d]
    PROVE  Posted' = Posted /\ Shown' = Shown
<1>1. Posted' = Posted
  BY PostedIs
<1>2. Shown' = Shown
  BY DEF Shown
<1> QED BY <1>1, <1>2

\* What a row is to the phone, before and after a step.
LEMMA PostedFields ==
    ASSUME Shape, Shape', NEW i \in Items
    PROVE  /\ Posted[i] = [status |-> Lot(i), to |-> Address(i), kind |-> "message"]
           /\ Posted'[i] = [status |-> Lot(i)', to |-> Address(i)', kind |-> "message"]
           /\ Posted[i].status = Lot(i) /\ Posted[i].to = Address(i)
<1>1. /\ Posted[i] = [status |-> Lot(i), to |-> Address(i), kind |-> "message"]
      /\ Posted'[i] = [status |-> Lot(i)', to |-> Address(i)', kind |-> "message"]
  BY PostedIs
<1>2. Posted[i].status = Lot(i)
  BY <1>1
<1>3. Posted[i].to = Address(i)
  BY <1>1
<1> QED BY <1>1, <1>2, <1>3

LEMMA SendPosts ==
    ASSUME Shape, Shape', NEW i \in Items, NEW d \in Devices, Send(i, d)
    PROVE  Promise!Next
<1> DEFINE to == [j \in {i} |-> PhoneOf[d]]
<1>1. /\ row[i] = "unsent" /\ row'[i] = "queued" /\ mail'[i] = d
      /\ \A j \in Items : j # i => row'[j] = row[j] /\ mail'[j] = mail[j]
      /\ shown' = shown
  BY DEF Send, past, Shape, TypeOK
<1>2. Lot(i) = "absent" /\ Lot(i)' = "queued" /\ Address(i)' = PhoneOf[d]
  BY <1>1, BridgeAssumption DEF Lot, Address
<1>3. \A j \in Items : j # i => Lot(j)' = Lot(j) /\ Address(j)' = Address(j)
  BY <1>1 DEF Lot, Address
<1>4. DOMAIN to = {i} /\ to[i] = PhoneOf[d] /\ to \in [{i} -> Phones]
  BY DEF Phones
<1>5. DOMAIN to \subseteq Promise!WithStatus("absent")
  BY <1>2, <1>4, PostedFields DEF Promise!WithStatus
<1> HIDE DEF to
<1>6. Posted' = [j \in Items |-> IF j \in DOMAIN to
                                 THEN [status |-> "queued", to |-> to[j], kind |-> "message"]
                                 ELSE Posted[j]]
  <2>1. Posted'[i] = [status |-> "queued", to |-> to[i], kind |-> "message"]
    BY <1>2, <1>4, PostedFields
  <2>2. \A j \in Items : j # i => Posted'[j] = Posted[j]
    BY <1>3, PostedFields
  <2>3. Posted' = [j \in Items |-> Posted'[j]]
    BY PostedIs
  <2> QED BY <1>4, <2>1, <2>2, <2>3
<1>7. Shown' = Shown
  BY <1>1 DEF Shown
<1>8. Promise!Post(to, "message")
  BY <1>5, <1>6, <1>7 DEF Promise!Post
<1> QED BY <1>4, <1>8 DEF Promise!Next, Promise!Kinds

LEMMA AckConfirms ==
    ASSUME Shape, Shape', RowsAddressed, NEW i \in Items, Ack(i)
    PROVE  Promise!Next
<1> DEFINE p == PhoneOf[mail[i]]
<1>1. PICK d \in SamePhone(mail[i]) : i \in shown[d]
  BY DEF Ack
<1>2. d \in Devices /\ PhoneOf[d] = p /\ mail[i] \in Devices
  BY <1>1 DEF SamePhone, Ack, Shape, TypeOK
<1>3. p \in Phones /\ i \in Shown[p]
  BY <1>1, <1>2 DEF Phones, Shown
<1>4. /\ row[i] \notin {"unsent", "acked"} /\ row'[i] = "acked"
      /\ \A j \in Items : j # i => row'[j] = row[j]
      /\ mail' = mail /\ shown' = shown
  BY <1>1, <1>2 DEF Ack, RowsAddressed, SentTo, past, Shape, TypeOK
<1>5. Lot(i) = "queued" /\ Lot(i)' = "delivered"
  BY <1>4 DEF Lot
<1>6. /\ \A j \in Items : Address(j)' = Address(j)
      /\ \A j \in Items : j # i => Lot(j)' = Lot(j)
  BY <1>4 DEF Address, Lot
<1>7. Posted'[i] = [Posted[i] EXCEPT !.status = "delivered"]
  <2>1. /\ Posted'[i] = [status |-> "delivered", to |-> Address(i), kind |-> "message"]
        /\ Posted[i] = [status |-> "queued", to |-> Address(i), kind |-> "message"]
    BY <1>5, <1>6, PostedFields
  <2> QED BY <2>1
<1>8. \A j \in Items : j # i => Posted'[j] = Posted[j]
  BY <1>6, PostedFields
<1>9. Posted' = [j \in Items |-> IF j \in {i} THEN [Posted[j] EXCEPT !.status = "delivered"]
                                 ELSE Posted[j]]
  <2>1. Posted' = [j \in Items |-> Posted'[j]]
    BY PostedIs
  <2> QED BY <1>7, <1>8, <2>1
<1>10. {i} \subseteq Shown[p] \cap Promise!WithStatus("queued")
  BY <1>3, <1>5, PostedFields DEF Promise!WithStatus
<1>11. Shown' = Shown
  BY <1>4 DEF Shown
<1> HIDE DEF p
<1>12. Promise!Confirm(p, {i})
  BY <1>9, <1>10, <1>11 DEF Promise!Confirm, Promise!Marked
<1> QED BY <1>3, <1>12 DEF Promise!Next

\* The rows in a drain's answer were sent to the phone they are shown to.
LEMMA ReplyShowsRows ==
    ASSUME Shape, Shape', RowsAddressed, NEW h \in Drains, Reply(h)
    PROVE  Promise!Next
<1> DEFINE d == drain[h].dev
           p == PhoneOf[d]
           S == drain[h].items
<1>1. d \in Devices /\ S \in SUBSET Items /\ drain[h].got \subseteq Tools
  BY DEF Reply, Shape, Served, TypeOK, Drain
<1>2. /\ shown'[d] = shown[d] \cup drain[h].got \cup S
      /\ \A e \in Devices : e # d => shown'[e] = shown[e]
      /\ UNCHANGED <<mail, row>>
  BY <1>1 DEF Reply, Shape, TypeOK, store
<1>3. p \in Phones
  BY <1>1 DEF Phones
<1>4. ASSUME NEW i \in S PROVE Posted[i].status # "absent" /\ Posted[i].to \in {p, Nobody}
  <2>1. row[i] # "unsent" /\ mail[i] \in Devices /\ PhoneOf[mail[i]] = p
    BY <1>1 DEF RowsAddressed, SentTo, SamePhone
  <2>2. Lot(i) # "absent" /\ Address(i) = p
    BY <2>1, BridgeAssumption DEF Lot, Address
  <2> QED BY <1>1, <2>2, PostedFields
<1>5. Posted' = Posted
  <2>1. \A i \in Items : Lot(i)' = Lot(i) /\ Address(i)' = Address(i)
    BY <1>2 DEF Lot, Address
  <2> QED BY <2>1, PostedIs
<1>n. \A i \in Items : i \notin drain[h].got
  BY <1>1, BridgeAssumption
<1> HIDE DEF S, d
<1>6. ASSUME NEW q \in Phones
      PROVE  Shown'[q] = IF q = p THEN Shown[q] \cup S ELSE Shown[q]
  <2>1. /\ Shown[q] = {i \in Items : \E e \in Devices : PhoneOf[e] = q /\ i \in shown[e]}
        /\ Shown'[q] = {i \in Items : \E e \in Devices : PhoneOf[e] = q /\ i \in shown'[e]}
    BY DEF Shown
  <2>2. ASSUME NEW i \in Items, NEW e \in Devices
        PROVE  i \in shown'[e] <=> i \in shown[e] \/ (e = d /\ i \in S)
    BY <1>1, <1>2, <1>n
  <2>3. CASE q = p
    BY <1>1, <2>1, <2>2, <2>3
  <2>4. CASE q # p
    BY <1>1, <2>1, <2>2, <2>4
  <2> QED BY <2>3, <2>4
<1>7. Shown' = [Shown EXCEPT ![p] = @ \cup S]
  BY <1>3, <1>6 DEF Shown
<1> HIDE DEF p
<1>8. Promise!Show(p, S)
  BY <1>4, <1>5, <1>7 DEF Promise!Show
<1> QED BY <1>1, <1>3, <1>8 DEF Promise!Next

\* Re-pairing, losing and restarting leave a row where it is, for the phone.
LEMMA PromiseNext ==
    ASSUME Shape, Shape', RowsAddressed, [Next]_vars
    PROVE  Promise!Next \/ (Posted' = Posted /\ Shown' = Shown)
<1> DEFINE Goal == Promise!Next \/ (Posted' = Posted /\ Shown' = Shown)
<1>s. ASSUME shown' = shown, mail' = mail, row' = row PROVE Goal
  <2>1. \A i \in Items : Lot(i)' = Lot(i) /\ Address(i)' = Address(i)
    BY <1>s DEF Lot, Address
  <2> QED BY <1>s, <2>1, PromiseStutters
<1>1. ASSUME NEW d \in Devices, Pair(d) PROVE Goal
  <2>1. ASSUME NEW i \in Items PROVE Lot(i)' = Lot(i) /\ Address(i)' = Address(i)
    <3>1. /\ mail'[i] = (IF mail[i] \in SamePhone(d) /\ row[i] # "acked" THEN d ELSE mail[i])
          /\ row'[i] = row[i]
      BY <1>1 DEF Pair
    <3>2. CASE mail[i] \in SamePhone(d) /\ row[i] # "acked"
      BY <3>1, <3>2, BridgeAssumption DEF Lot, Address, SamePhone
    <3>3. CASE ~(mail[i] \in SamePhone(d) /\ row[i] # "acked")
      BY <3>1, <3>3 DEF Lot, Address
    <3> QED BY <3>2, <3>3
  <2>2. shown' = shown
    BY <1>1 DEF Pair, past
  <2> QED BY <2>1, <2>2, PromiseStutters
<1>2. ASSUME \/ \E d \in Devices : Unpair(d)
             \/ \E h \in Drains, d \in Devices : Poll(h, d)
             \/ \E h \in Drains : Touch(h) \/ Read(h) \/ Take(h) \/ Park(h) \/ Resume(h) \/ Lose(h)
             \/ \E d \in Devices, t \in Tools : Answer(d, t) \/ Resolve(d, t)
             \/ \E t \in Tools : Ask(t) \/ Run(t) \/ Timeout(t)
             \/ Restart
             \/ UNCHANGED vars
      PROVE  shown' = shown /\ mail' = mail /\ row' = row
  BY <1>2 DEF Unpair, Poll, Touch, Read, Take, Park, Resume, Lose, Answer, Resolve, Ask, Run,
              Enqueue, Register, Got, Timeout, Leave, Discard, ScanRead, ScanWrite, Discarded,
              Restart, Ends, vars, store, past
<1> QED BY <1>1, <1>2, <1>s, SendPosts, AckConfirms, ReplyShowsRows DEF Next, Serve

-----------------------------------------------------------------------------
(* The theorems *)

\* Whatever waits for a device, whatever a drain carries, whatever a phone was shown and
\* whatever a discard may write back is addressed to that device.
THEOREM AllAddressed == Spec => []Addressed
<1>1. Init => Addressed
  BY AddressedInit
<1>2. IInv /\ Addressed /\ [Next]_vars => Addressed'
  BY OutcomesNext, QueriesNext, RowsNext DEF IInv, Addressed
<1> QED BY <1>1, <1>2, Inductive, PTL DEF Spec

\* The gateway keeps what phone_query promises an agent: the question goes to the one
\* device it was asked of, an answer counts only from that device, once it was shown
\* the question and while the agent waits, and an agent that gave up hears nothing
\* more, through re-pairings, hang-ups, wrong, late and second answers and restarts.
THEOREM KeepsQuestion == Spec => QuestionSpec
<1>1. IInv /\ Addressed => QInv
  BY DEF IInv, Addressed, QInv
<1>2. QInv /\ QInv' /\ [Next]_vars => [Enquiry!Next]_Asked
  BY EnquiryNext
<1> QED
  BY <1>1, <1>2, EnquiryInit, Inductive, AllAddressed, PTL DEF Spec, QuestionSpec, Enquiry!Spec

\* The gateway keeps what the outbox promises a phone, end to end: a row reaches only
\* the phone it was sent to, under any of that phone's device ids, and is settled once,
\* by that phone, after it was shown.
THEOREM KeepsMailbox == Spec => MailboxSpec
<1>1. IInv /\ Addressed => Shape /\ RowsAddressed
  BY DEF IInv, Addressed
<1>2. Shape /\ Shape' /\ RowsAddressed /\ [Next]_vars => [Promise!Next]_(Promise!vars)
  BY PromiseNext DEF Promise!vars
<1> QED
  BY <1>1, <1>2, PromiseInit, Inductive, AllAddressed, PTL DEF Spec, MailboxSpec, Promise!Spec
=============================================================================
