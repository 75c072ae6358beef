---------------------------- MODULE DeliveryLive ----------------------------
(***************************************************************************)
(* Delivery with the scheduling it needs to make progress.  Requests and   *)
(* writers may be lost any number of times, but not for ever: from some    *)
(* moment on (calm) they are not.  The gateway's threads run every request *)
(* to its end (weak fairness), and the app, while it is paired, keeps      *)
(* polling and keeps acknowledging what it was shown (strong fairness: the *)
(* gateway may be busy with another request each time it tries).           *)
(***************************************************************************)
EXTENDS Delivery

VARIABLE calm

liveVars == <<vars, calm>>

LiveInit == Init /\ calm = FALSE

CalmDown == ~calm /\ calm' = TRUE /\ UNCHANGED vars

LiveNext == \/ Work /\ UNCHANGED calm
            \/ ~calm /\ Lose /\ UNCHANGED calm
            \/ CalmDown

Poll(d) == \E r \in Requests : Drain(r, d) /\ UNCHANGED calm

AckAll(d) == \E r \in Requests : /\ Ack(r, d, PhoneHas(d) \cap PendingFor(d))
                                 /\ UNCHANGED calm

Handle(r) == /\ \/ CheckActive(r) \/ SeeClaimable(r) \/ Claim(r)
                \/ Read(r) \/ Reply(r) \/ MarkDelivered(r)
             /\ UNCHANGED calm

Fairness == /\ WF_liveVars(CalmDown)
            /\ \A r \in Requests : WF_liveVars(Handle(r))
            /\ \A d \in Devices : SF_liveVars(Poll(d)) /\ SF_liveVars(AckAll(d))

LiveSpec == LiveInit /\ [][LiveNext]_liveVars /\ Fairness

\* The row is queued for this phone.
QueuedFor(i, p) == /\ Pending(i)
                   /\ item[i].scope = "target_device"
                   /\ Phone(item[i].target) = p

\* A phone that stays paired gets everything addressed to it: a queued row is
\* in time delivered (or, an artifact, expired), whatever re-pairing and losses
\* come in between, unless its phone is unpaired, or an import gives it a second
\* device.
QueuedRowSettles ==
    \A i \in Items : \A p \in Devices \cup Installs :
        QueuedFor(i, p) ~> \/ ~Pending(i) \/ p \in twinned
                           \/ \A d \in Devices : Active(d) => Phone(d) # p

\* The same for a row anyone may claim: while some device is paired, it is in
\* time delivered.  "(nothing else may drain or ack it)" is the comment on what
\* a stale claim does to a row (store.py); releasing claims on each change of
\* the device population is meant to rule that out.
ClaimableRowSettles ==
    \A i \in Items :
        Pending(i) /\ item[i].scope = "legacy_any"
            ~> ~Pending(i) \/ ActiveDevices = {}
=============================================================================
