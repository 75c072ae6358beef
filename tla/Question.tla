------------------------------ MODULE Question ------------------------------
(***************************************************************************)
(* What phone_query promises the agent that asks, said without queues,     *)
(* drains, futures, events or threads.  A question goes to one device or   *)
(* to none; only that device is shown it; it is answered at most once,     *)
(* after the device was shown it and before the agent gives up; the agent  *)
(* hears an answer only if there was one, and once it has given up it      *)
(* hears nothing.                                                          *)
(* Bridge and Hub both implement this specification, with QuestionSpec.    *)
(***************************************************************************)
CONSTANTS Questions,    \* tool calls, one question each
          Devices,      \* whom they may be asked of
          Nobody        \* asked of nobody yet

VARIABLE question       \* [Questions -> [status, to, seen]]

Statuses == {"new", "open", "answered", "heard", "silent"}

\* seen: the devices that were shown the question.
Question == [status : Statuses, to : Devices \cup {Nobody}, seen : SUBSET Devices]

WithStatus(S) == {q \in Questions : question[q].status \in S}

Becomes(q, s) == question' = [question EXCEPT ![q].status = s]

Init == question = [q \in Questions |-> [status |-> "new", to |-> Nobody, seen |-> {}]]

\* The agent asks the device heard last ...
Ask(q, d) ==
    /\ q \in WithStatus({"new"})
    /\ question' = [question EXCEPT ![q].status = "open", ![q].to = d]

\* ... or is told at once that there is none.
Refuse(q) == q \in WithStatus({"new"}) /\ Becomes(q, "silent")

\* The asked device is shown questions, some of which nobody waits for any more.
Show(d, S) ==
    /\ \A q \in S : question[q].status # "new" /\ question[q].to = d
    /\ question' = [q \in Questions |-> IF q \in S
                                        THEN [question[q] EXCEPT !.seen = @ \cup {d}]
                                        ELSE question[q]]

Answer(q) == /\ q \in WithStatus({"open"})
             /\ question[q].to \in question[q].seen
             /\ Becomes(q, "answered")

Hear(q) == q \in WithStatus({"answered"}) /\ Becomes(q, "heard")

\* The agent gives up on questions: one of them, or all when the gateway ends.  An
\* answer that is on its way is then lost.
GiveUp(S) ==
    /\ \A q \in S : question[q].status \in {"open", "answered"}
    /\ question' = [q \in Questions |-> IF q \in S
                                        THEN [question[q] EXCEPT !.status = "silent"]
                                        ELSE question[q]]

Next == \/ \E S \in SUBSET Questions : GiveUp(S)
        \/ \E q \in Questions : Refuse(q) \/ Answer(q) \/ Hear(q)
        \/ \E q \in Questions, d \in Devices : Ask(q, d)
        \/ \E d \in Devices, S \in SUBSET Questions : Show(d, S)

Spec == Init /\ [][Next]_question
=============================================================================
