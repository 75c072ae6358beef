------------------------------ MODULE Mailbox ------------------------------
(***************************************************************************)
(* What Talaria's outbox promises, said without devices, tokens, claims,   *)
(* transactions or polling.  A letter is addressed once, to one phone or   *)
(* to anyone; it is only ever shown to a phone it is addressed to; it is   *)
(* settled only by a phone it was shown to; an artifact may go out of date *)
(* and lose its text, a message never does.                                *)
(* Delivery implements this specification: see MailboxSpec there.          *)
(***************************************************************************)
CONSTANTS Letters,      \* outbox rows
          Phones,       \* app installs
          Anyone        \* the address of a row imported without a target

VARIABLES letter,       \* [Letters -> [status, to, kind]]
          seen          \* [Phones -> SUBSET Letters]: what a phone was shown

Kinds == {"message", "artifact"}

Statuses == {"absent", "queued", "delivered", "expired", "scrubbed"}

Letter == [status : Statuses, to : Phones \cup {Anyone}, kind : Kinds]

WithStatus(s) == {l \in Letters : letter[l].status = s}

Marked(S, s) == [l \in Letters |->
                   IF l \in S THEN [letter[l] EXCEPT !.status = s] ELSE letter[l]]

Init == /\ letter \in [Letters -> {l \in Letter : l.status = "absent"}]
        /\ seen = [p \in Phones |-> {}]

\* Some letters are posted together, each to a phone of its own.
Post(to, k) == /\ DOMAIN to \subseteq WithStatus("absent")
               /\ letter' = [l \in Letters |->
                    IF l \in DOMAIN to
                    THEN [status |-> "queued", to |-> to[l], kind |-> k]
                    ELSE letter[l]]
               /\ UNCHANGED seen

\* Letters of an earlier store are taken over, addressed to a phone or to anyone.
TakeOver(new) == /\ DOMAIN new \subseteq WithStatus("absent")
                 /\ letter' = [l \in Letters |-> IF l \in DOMAIN new THEN new[l]
                                                 ELSE letter[l]]
                 /\ UNCHANGED seen

\* A phone is shown letters; one settled meanwhile may still reach it.
Show(p, S) == /\ \A l \in S : /\ letter[l].status # "absent"
                              /\ letter[l].to \in {p, Anyone}
              /\ seen' = [seen EXCEPT ![p] = @ \cup S]
              /\ UNCHANGED letter

\* A phone confirms letters it was shown and that are still queued.
Confirm(p, S) == /\ S \subseteq seen[p] \cap WithStatus("queued")
                 /\ letter' = Marked(S, "delivered")
                 /\ UNCHANGED seen

\* Artifacts past retention: undelivered ones expire, delivered ones lose
\* their text.  No message is in either set.
Forget(expire, scrub) ==
    /\ expire \subseteq WithStatus("queued")
    /\ scrub \subseteq WithStatus("delivered")
    /\ \A l \in expire \cup scrub : letter[l].kind = "artifact"
    /\ letter' = [l \in Letters |->
         IF l \in expire THEN [letter[l] EXCEPT !.status = "expired"]
         ELSE IF l \in scrub THEN [letter[l] EXCEPT !.status = "scrubbed"]
         ELSE letter[l]]
    /\ UNCHANGED seen

Next == \/ \E p \in Phones, S \in SUBSET Letters : Show(p, S) \/ Confirm(p, S)
        \/ \E S \in SUBSET Letters, k \in Kinds :
             \E to \in [S -> Phones] : Post(to, k)
        \/ \E S \in SUBSET Letters :
             \E new \in [S -> {l \in Letter : l.status = "queued"}] : TakeOver(new)
        \/ \E expire, scrub \in SUBSET Letters : Forget(expire, scrub)

vars == <<letter, seen>>

Spec == Init /\ [][Next]_vars
=============================================================================
