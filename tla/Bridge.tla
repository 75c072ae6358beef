------------------------------- MODULE Bridge -------------------------------
(***************************************************************************)
(* One gateway and its phones, end to end: the device table and the outbox *)
(* (store.py, outbox.py), the hub (transport.py), the drain, query_result, *)
(* pair and unpair verbs (envelope.py), the tool that asks the phone       *)
(* (tools.py), and the writers of rows.                                    *)
(*                                                                         *)
(* Delivery and Hub look inside one half each.  Here a transaction, a      *)
(* read of the store and a hub method are one step each, but for the two   *)
(* methods that the tool's own thread runs, enqueue_query and              *)
(* discard_query; what interleaves are the awaits of a request, that       *)
(* thread, and the phone, which may be re-paired, hang up or answer late   *)
(* at any of them.  When a parked drain resumes is left open: at any time, *)
(* woken or not.  Hub tells which wakes come.                              *)
(***************************************************************************)
EXTENDS Naturals, FiniteSets

CONSTANTS Devices,     \* device ids the store may mint
          PhoneOf,     \* [Devices -> phones]: the app a device id is minted for
          First,       \* the devices paired at the start, one per phone
          Drains,      \* drain requests the gateway serves at once
          Tools,       \* tool calls; each asks one query, named by the call
          Items,       \* outbox rows
          MaxAnswers,  \* bound on the query_result requests served at once
          Nobody

ASSUME BridgeAssumption ==
    /\ First \subseteq Devices
    /\ \A d, e \in First : PhoneOf[d] = PhoneOf[e] => d = e
    /\ MaxAnswers \in Nat
    /\ Items \cap Tools = {}
    /\ Nobody \notin Devices

VARIABLES active,   \* the active devices
          minted,   \* the device ids ever paired
          mail,     \* [Items -> Devices \cup {Nobody}]: whose row it is
          row,      \* [Items -> Row]
          freshest, \* _last_seen: the device touched last
          queue,    \* _queries: [Devices -> SUBSET Tools]
          future,   \* _futures: the registered queries
          drain,    \* [Drains -> [pc, dev, again, items, got]]
          tool,     \* [Tools -> [pc, dev, answer]]
          scan,     \* [Tools -> Scan]: how far its discard is
          answers,  \* query_result requests past authorization: <<device, query>>
          told,     \* <<device, query>>: the phone was answered ok
          shown     \* [Devices -> SUBSET (Tools \cup Items)]: what the phone got

store == <<active, minted, mail, row>>
hub == <<freshest, queue, future>>
past == <<told, shown>>
calls == <<tool, scan>>
vars == <<store, hub, drain, calls, answers, past>>

Row == {"unsent", "queued", "acked"}

Drain == [pc : {"idle", "touch", "read", "take", "parked", "reply"},
          dev : Devices \cup {Nobody},
          again : BOOLEAN,               \* it has parked and not taken since
          items : SUBSET Items, got : SUBSET Tools]

IdleDrain == [pc |-> "idle", dev |-> Nobody, again |-> FALSE,
              items |-> {}, got |-> {}]

\* answer: what became of the future.
Tool == [pc : {"idle", "append", "register", "await", "discard", "scan", "done"},
         dev : Devices \cup {Nobody},
         answer : {"none", "scheduled", "got", "timeout", "unreachable"}]

IdleTool == [pc |-> "idle", dev |-> Nobody, answer |-> "none"]

\* A discard on its way through the devices' lists: those it has yet to read, those
\* it has yet to deal with, and what it has read.
Scan == [unread : SUBSET Devices, left : SUBSET Devices, list : [Devices -> SUBSET Tools]]

NoScan == [unread |-> {}, left |-> {}, list |-> [d \in Devices |-> {}]]

SamePhone(d) == {e \in Devices : PhoneOf[e] = PhoneOf[d]}

Pending(d) == {i \in Items : d \in active /\ mail[i] = d /\ row[i] # "acked"}

-----------------------------------------------------------------------------
(* store.py, outbox.py and the writers *)

\* create_paired_device: the phone gets a fresh id, its old one is deactivated
\* and the old one's undelivered rows move to the fresh one.
Pair(d) ==
    /\ d \notin minted
    /\ minted' = minted \cup {d}
    /\ active' = (active \ SamePhone(d)) \cup {d}
    /\ mail' = [i \in Items |-> IF mail[i] \in SamePhone(d) /\ row[i] # "acked"
                                THEN d ELSE mail[i]]
    /\ UNCHANGED <<row, hub, drain, calls, answers, past>>

Unpair(d) ==
    /\ d \in active
    /\ active' = active \ {d}
    /\ UNCHANGED <<minted, mail, row, hub, drain, calls, answers, past>>

\* append(), by send(), the mirror or the CLI.  The wake that some of them owe the
\* device only makes a parked drain resume.
Send(i, d) ==
    /\ row[i] = "unsent"
    /\ d \in active
    /\ row' = [row EXCEPT ![i] = "queued"]
    /\ mail' = [mail EXCEPT ![i] = d]
    /\ UNCHANGED <<active, minted, hub, drain, calls, answers, past>>

\* The phone acks a row it was handed, under its current credentials.
Ack(i) ==
    /\ mail[i] \in active /\ row[i] # "acked"
    /\ \E d \in SamePhone(mail[i]) : i \in shown[d]
    /\ row' = [row EXCEPT ![i] = "acked"]
    /\ UNCHANGED <<active, minted, mail, hub, drain, calls, answers, past>>

-----------------------------------------------------------------------------
(* envelope.py: drain *)

\* Authorized: the device is active now.  It is not looked at again.
Poll(h, d) ==
    /\ drain[h].pc = "idle"
    /\ d \in active
    /\ drain' = [drain EXCEPT ![h] = [IdleDrain EXCEPT !.pc = "touch", !.dev = d]]
    /\ UNCHANGED <<store, hub, calls, answers, past>>

\* Mutant: the touch is filed under the phone.
TouchedPhone(d) == freshest' = PhoneOf[d]

\* hub.touch, once at the start and again after the park.
Touched(d) == freshest' = d

Touch(h) ==
    /\ drain[h].pc = "touch"
    /\ drain' = [drain EXCEPT ![h].pc = "read"]
    /\ Touched(drain[h].dev)
    /\ UNCHANGED <<store, queue, future, calls, answers, past>>

\* pending()
Read(h) ==
    /\ drain[h].pc = "read"
    /\ drain' = [drain EXCEPT ![h].pc = "take", ![h].items = Pending(drain[h].dev)]
    /\ UNCHANGED <<store, hub, calls, answers, past>>

\* Mutant: one queue for all devices.
TakeAll(h) ==
    /\ drain[h].pc = "take"
    /\ queue' = [d \in Devices |-> {}]
    /\ drain' = [drain EXCEPT ![h].pc = "reply", ![h].again = FALSE,
                              ![h].got = UNION {queue[d] : d \in Devices}]
    /\ UNCHANGED <<store, freshest, future, calls, answers, past>>

\* take_queries, and the answer goes out.
Take(h) ==
    /\ drain[h].pc = "take"
    /\ queue' = [queue EXCEPT ![drain[h].dev] = {}]
    /\ drain' = [drain EXCEPT ![h].pc = "reply", ![h].again = FALSE,
                              ![h].got = queue[drain[h].dev]]
    /\ UNCHANGED <<store, freshest, future, calls, answers, past>>

\* Nothing to answer and the phone waits: park.
Park(h) ==
    /\ drain[h].pc = "take"
    /\ drain[h].items = {} /\ queue[drain[h].dev] = {} /\ ~drain[h].again
    /\ drain' = [drain EXCEPT ![h].pc = "parked"]
    /\ UNCHANGED <<store, hub, calls, answers, past>>

\* A wake, an event that was set before, or the end of the hold.  The device is
\* touched again and its rows and queries are looked up again.
Resume(h) ==
    /\ drain[h].pc = "parked"
    /\ drain' = [drain EXCEPT ![h].pc = "read", ![h].again = TRUE]
    /\ Touched(drain[h].dev)
    /\ UNCHANGED <<store, queue, future, calls, answers, past>>

Reply(h) ==
    /\ drain[h].pc = "reply"
    /\ shown' = [shown EXCEPT ![drain[h].dev] = @ \cup drain[h].got \cup drain[h].items]
    /\ drain' = [drain EXCEPT ![h] = IdleDrain]
    /\ UNCHANGED <<store, hub, calls, answers, told>>

\* The phone hangs up, a storage error, or a lost answer: what take_queries
\* popped is gone.
Lose(h) ==
    /\ drain[h].pc # "idle"
    /\ drain' = [drain EXCEPT ![h] = IdleDrain]
    /\ UNCHANGED <<store, hub, calls, answers, past>>

-----------------------------------------------------------------------------
(* tools.py, and the query legs of transport.py *)

Parked == {h \in Drains : drain[h].pc = "parked"}

\* phone_query asks the device heard last, if some drain is parked or it was
\* heard within the live window, whose end is not timed.  The device table is
\* not consulted.
Ask(t) ==
    /\ tool[t].pc = "idle"
    /\ \/ /\ freshest # Nobody
          /\ tool' = [tool EXCEPT ![t].pc = "append", ![t].dev = freshest]
       \/ /\ Parked = {}
          /\ tool' = [tool EXCEPT ![t].pc = "done", ![t].answer = "unreachable"]
    /\ UNCHANGED <<store, hub, drain, scan, answers, past>>

\* enqueue_query appends the query ...
Enqueue(t) ==
    /\ tool[t].pc = "append"
    /\ queue' = [queue EXCEPT ![tool[t].dev] = @ \cup {t}]
    /\ tool' = [tool EXCEPT ![t].pc = "register"]
    /\ UNCHANGED <<store, freshest, future, drain, scan, answers, past>>

\* ... registers its future and wakes the device (Resume).
Register(t) ==
    /\ tool[t].pc = "register"
    /\ future' = future \cup {t}
    /\ tool' = [tool EXCEPT ![t].pc = "await"]
    /\ UNCHANGED <<store, freshest, queue, drain, scan, answers, past>>

\* query_result is authorized: an active device of a phone that saw the query.
Answer(d, t) ==
    /\ d \in active
    /\ \E e \in SamePhone(d) : t \in shown[e]
    /\ Cardinality(answers) < MaxAnswers
    /\ answers' = answers \cup {<<d, t>>}
    /\ UNCHANGED <<store, hub, drain, calls, past>>

\* Mutant: the entry is popped before its owner is compared.
ResolvePopping(d, t) ==
    /\ <<d, t>> \in answers
    /\ answers' = answers \ {<<d, t>>}
    /\ future' = future \ {t}
    /\ IF t \in future /\ d = tool[t].dev /\ tool[t].answer = "none"
       THEN /\ tool' = [tool EXCEPT ![t].answer = "scheduled"]
            /\ told' = told \cup {<<d, t>>}
       ELSE UNCHANGED <<tool, told>>
    /\ UNCHANGED <<store, freshest, queue, drain, scan, shown>>

\* Mutant: the future is not looked at.
ResolveLate(d, t) ==
    /\ <<d, t>> \in answers
    /\ t \in future /\ d = tool[t].dev
    /\ answers' = answers \ {<<d, t>>}
    /\ future' = future \ {t}
    /\ told' = told \cup {<<d, t>>}
    /\ tool' = [tool EXCEPT ![t].answer = IF @ = "none" THEN "scheduled" ELSE @]
    /\ UNCHANGED <<store, freshest, queue, drain, scan, shown>>

\* query_result reaches resolve_query: d claims to answer t.  An answer to a
\* query that is not d's is refused and changes nothing.  One in time is
\* scheduled onto the tool's loop, which may time out before it gets there.
Resolve(d, t) ==
    /\ <<d, t>> \in answers
    /\ answers' = answers \ {<<d, t>>}
    /\ IF t \in future /\ d = tool[t].dev
       THEN /\ future' = future \ {t}
            /\ IF tool[t].answer = "none"
               THEN /\ tool' = [tool EXCEPT ![t].answer = "scheduled"]
                    /\ told' = told \cup {<<d, t>>}
               ELSE UNCHANGED <<tool, told>>
       ELSE UNCHANGED <<future, tool, told>>
    /\ UNCHANGED <<store, freshest, queue, drain, scan, shown>>

Leave(t, answer) ==
    /\ tool[t].pc = "await"
    /\ tool' = [tool EXCEPT ![t].pc = "discard", ![t].answer = answer]
    /\ UNCHANGED <<store, hub, drain, scan, answers, past>>

\* The scheduled result runs on the tool's loop.
Got(t) == tool[t].answer = "scheduled" /\ Leave(t, "got")

\* wait_for gives up, or the turn is stopped: the future is cancelled, also when an
\* answer is on its way.
Timeout(t) == Leave(t, "timeout")

\* The devices that have a list.
Listed == {d \in Devices : queue[d] # {}}

\* discard_query, on every exit: the future goes, and then every list there is gets
\* gone through on the tool's thread, each read and written back in two steps.
Discard(t) ==
    /\ tool[t].pc = "discard"
    /\ future' = future \ {t}
    /\ tool' = [tool EXCEPT ![t].pc = "scan"]
    /\ scan' = [scan EXCEPT ![t] = [NoScan EXCEPT !.unread = Listed, !.left = Listed]]
    /\ UNCHANGED <<store, freshest, queue, drain, answers, past>>

\* A list that is popped before it is read reads as it did when it was popped, so
\* the reads come in any order.
ScanRead(t, d) ==
    /\ d \in scan[t].unread
    /\ scan' = [scan EXCEPT ![t] = [scan[t] EXCEPT !.unread = @ \ {d}, !.list[d] = queue[d]]]
    /\ UNCHANGED <<store, hub, drain, tool, answers, past>>

\* What was read, less t, replaces the device's list, if t was in it or the list has
\* grown since.  Hub tells when it has; here it may have.
ScanWrite(t, d) ==
    /\ d \in scan[t].left \ scan[t].unread
    /\ \/ queue' = [queue EXCEPT ![d] = scan[t].list[d] \ {t}]
       \/ t \notin scan[t].list[d] /\ UNCHANGED queue
    /\ scan' = [scan EXCEPT ![t].left = @ \ {d}]
    /\ UNCHANGED <<store, freshest, future, drain, tool, answers, past>>

Discarded(t) ==
    /\ tool[t].pc = "scan" /\ scan[t].left = {}
    /\ tool' = [tool EXCEPT ![t].pc = "done"]
    /\ scan' = [scan EXCEPT ![t] = NoScan]
    /\ UNCHANGED <<store, hub, drain, answers, past>>

-----------------------------------------------------------------------------
(* The gateway restarts: the store is what survives *)

\* All that a gateway keeps in memory goes, and with it whatever was under way.
Ends ==
    /\ freshest' = Nobody /\ future' = {}
    /\ queue' = [d \in Devices |-> {}]
    /\ drain' = [h \in Drains |-> IdleDrain]
    /\ tool' = [t \in Tools |-> IF tool[t].pc \in {"idle", "done"} THEN tool[t]
                                ELSE [tool[t] EXCEPT !.pc = "done"]]
    /\ scan' = [t \in Tools |-> NoScan]
    /\ answers' = {}
    /\ UNCHANGED <<active, minted, mail, past>>

\* Mutant: the acks of this life are in memory only.
RestartForgetting ==
    /\ Ends
    /\ row' = [i \in Items |-> IF row[i] = "acked" THEN "queued" ELSE row[i]]

Restart == Ends /\ UNCHANGED row

-----------------------------------------------------------------------------
(* The specification *)

Init == /\ active = First /\ minted = First
        /\ mail = [i \in Items |-> Nobody] /\ row = [i \in Items |-> "unsent"]
        /\ freshest = Nobody /\ future = {}
        /\ queue = [d \in Devices |-> {}]
        /\ drain = [h \in Drains |-> IdleDrain]
        /\ tool = [t \in Tools |-> IdleTool]
        /\ scan = [t \in Tools |-> NoScan]
        /\ answers = {} /\ told = {}
        /\ shown = [d \in Devices |-> {}]

Serve(h) == Touch(h) \/ Read(h) \/ Take(h) \/ Park(h) \/ Resume(h)
            \/ Reply(h) \/ Lose(h)

Run(t) == \/ Enqueue(t) \/ Register(t) \/ Got(t) \/ Discard(t) \/ Discarded(t)
          \/ \E d \in Devices : ScanRead(t, d) \/ ScanWrite(t, d)

Next == \/ \E d \in Devices : Pair(d) \/ Unpair(d)
        \/ \E i \in Items, d \in Devices : Send(i, d)
        \/ \E i \in Items : Ack(i)
        \/ \E h \in Drains, d \in Devices : Poll(h, d)
        \/ \E h \in Drains : Serve(h)
        \/ \E d \in Devices, t \in Tools : Answer(d, t) \/ Resolve(d, t)
        \/ \E t \in Tools : Ask(t) \/ Run(t) \/ Timeout(t)
        \/ Restart

Spec == Init /\ [][Next]_vars

-----------------------------------------------------------------------------
(* Correctness *)

\* Every part of the gateway has its shape.
TypeOK ==
    /\ active \subseteq minted /\ minted \subseteq Devices
    /\ mail \in [Items -> Devices \cup {Nobody}]
    /\ row \in [Items -> Row]
    /\ freshest \in Devices \cup {Nobody}
    /\ queue \in [Devices -> SUBSET Tools]
    /\ future \subseteq Tools
    /\ drain \in [Drains -> Drain]
    /\ tool \in [Tools -> Tool]
    /\ scan \in [Tools -> Scan]
    /\ answers \subseteq Devices \X Tools /\ told \subseteq Devices \X Tools
    /\ shown \in [Devices -> SUBSET (Tools \cup Items)]

\* "Refuse WITHOUT popping or resolving, so the rightful owner can still
\* resolve it" (transport.py): as long as a tool waits and no answer is on its
\* way to it, its query is registered, whoever else tried to answer.
AnswerableWhileWaiting ==
    \A t \in Tools : tool[t].pc = "await" /\ tool[t].answer = "none" => t \in future

\* The phone is told ok only while the tool waits: never after it gave up,
\* never twice, never for a query of an earlier life of the gateway.
OkInTime == [][\A d \in Devices, t \in Tools :
                  <<d, t>> \in told' \ told => /\ tool[t].pc = "await"
                                               /\ tool[t].answer = "none"]_vars

-----------------------------------------------------------------------------
(* What it implements *)

\* Question's view of a call: what the agent knows of its question.
StatusOf(c) == CASE c.pc = "idle" -> "new"
                 [] c.answer = "got" -> "heard"
                 [] c.answer = "scheduled" /\ c.pc # "done" -> "answered"
                 [] c.answer = "none" /\ c.pc \notin {"idle", "done"} -> "open"
                 [] OTHER -> "silent"

Asked == [t \in Tools |-> [status |-> StatusOf(tool[t]), to |-> tool[t].dev,
                           seen |-> {d \in Devices : t \in shown[d]}]]

Enquiry == INSTANCE Question WITH Questions <- Tools, question <- Asked

\* The gateway keeps phone_query's promise through re-pairing, hang-ups, wrong and
\* late answers and restarts: a question reaches the asked device only, the agent
\* hears only an answer of a device that was shown it, and nothing after it gave up.
QuestionSpec == Enquiry!Spec

\* Mailbox's view of a row, addressed to the phone behind its device.  Bridge does
\* not tell messages from artifacts.
Phones == {PhoneOf[d] : d \in Devices}

Posted == [i \in Items |->
             [status |-> CASE row[i] = "unsent" -> "absent"
                           [] row[i] = "acked" -> "delivered"
                           [] OTHER -> "queued",
              to |-> IF mail[i] = Nobody THEN Nobody ELSE PhoneOf[mail[i]],
              kind |-> "message"]]

Shown == [p \in Phones |->
            {i \in Items : \E d \in Devices : PhoneOf[d] = p /\ i \in shown[d]}]

Promise == INSTANCE Mailbox WITH Letters <- Items, Anyone <- Nobody,
                                 letter <- Posted, seen <- Shown

\* The outbox's promise holds end to end: whatever drains, parks, losses, restarts
\* and re-pairings do, a row reaches the phone it was sent to and no other, and only
\* that phone, once it has the row, settles it.
MailboxSpec == Promise!Spec

=============================================================================
