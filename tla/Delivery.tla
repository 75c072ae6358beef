------------------------------ MODULE Delivery ------------------------------
(***************************************************************************)
(* The durable half of Talaria: the devices and outbox_items tables        *)
(* (store.py, outbox.py), the retention sweep (hygiene.py), the writers    *)
(* that queue rows (platform_adapter.py, admin.py, artifact_mirror.py) and *)
(* the wire verbs pair, unpair, drain and ack (envelope.py) that a phone   *)
(* calls, and the import of the JSON-era files (database.py), early or     *)
(* late.  One action is one SQLite statement or one transaction: what two  *)
(* threads or two processes of the gateway can interleave.                 *)
(*                                                                         *)
(* A drain authorizes, then runs the four statements of pending() one by   *)
(* one, may park once and run them again, and answers; a fan-out reads the *)
(* active devices in one connection and inserts in another.  Between any   *)
(* two of these steps a device may be paired, rotated or unpaired.         *)
(***************************************************************************)
EXTENDS Integers, FiniteSets

CONSTANTS Devices,        \* device ids the store may mint
          Installs,       \* install ids: one per phone
          Items,          \* outbox row ids
          Requests,       \* drain and ack requests the gateway runs at once
          Producers,      \* fan-out writers (mirror hook, CLI) running at once
          NoDevice,       \* NULL in a device column, and "no target given"
          NoInstall,      \* NULL in devices.install_id
          LegacyDevices,  \* devices that may come from devices.json
          LegacyItems,    \* rows that may come from outbox.json
          Retention,      \* RETENTION_DAYS, in ticks
          MaxClock        \* bound on the clock

ASSUME ConstantAssumption ==
    /\ NoDevice \notin Devices
    /\ NoInstall \notin Installs \cup Devices
    /\ Installs \cap Devices = {}
    /\ LegacyDevices \subseteq Devices
    /\ LegacyItems \subseteq Items
    /\ Retention \in Nat
    /\ MaxClock \in Nat

VARIABLES device,     \* table devices: [Devices -> [state, install]]
          item,       \* table outbox_items: [Items -> row]
          clock,      \* wall time, in ticks
          request,    \* [Requests -> [pc, dev, ids, parked]]
          producer,   \* [Producers -> [pc, ids, kind]]
          handed,     \* [Devices -> SUBSET Items]: rows in answers the phone got
          marker,     \* schema_metadata: the JSON-era files were imported
          twinned     \* installs the import gave a second device: see Import

legacy == <<marker, twinned>>
vars == <<device, item, clock, request, producer, handed, legacy>>

-----------------------------------------------------------------------------
(* Rows *)

Never == -1           \* NULL in delivered_at

Kinds == {"message", "artifact"}

DeviceRow == [state : {"unminted", "active", "inactive"},
              install : Installs \cup {NoInstall}]

ItemRow == [scope : {"none", "target_device", "legacy_any"},
            kind : Kinds,
            target : Devices \cup {NoDevice},
            claimed : Devices \cup {NoDevice},
            created : 0 .. MaxClock,
            delivered : 0 .. MaxClock \cup {Never},
            active : BOOLEAN,
            text : BOOLEAN]          \* FALSE once text = ''

\* An id no row has yet: never active, so no query selects it.
NoRow == [scope |-> "none", kind |-> "message", target |-> NoDevice,
          claimed |-> NoDevice, created |-> 0, delivered |-> Never,
          active |-> FALSE, text |-> FALSE]

Request == [pc : {"idle", "check", "claimable", "claim", "read", "answer", "mark"},
            dev : Devices \cup {NoDevice}, ids : SUBSET Items, parked : BOOLEAN]

IdleRequest == [pc |-> "idle", dev |-> NoDevice, ids |-> {}, parked |-> FALSE]

Producer == [pc : {"idle", "commit"}, ids : SUBSET Devices, kind : Kinds]

IdleProducer == [pc |-> "idle", ids |-> {}, kind |-> "message"]

Minted(d) == device[d].state # "unminted"
Active(d) == device[d].state = "active"
ActiveDevices == {d \in Devices : Active(d)}
Free == {i \in Items : item[i].scope = "none"}

\* active = 1 AND delivered_at IS NULL
Undelivered(row) == row.active /\ row.delivered = Never
Pending(i) == Undelivered(item[i])

\* Mutant: the routing clause without its target_device branch.
EntitledByClaim(d, i) == item[i].scope = "legacy_any" /\ item[i].claimed = d

\* The routing clause shared by pending() and mark_delivered().
Entitled(d, i) == \/ item[i].scope = "target_device" /\ item[i].target = d
                  \/ item[i].scope = "legacy_any" /\ item[i].claimed = d

PendingFor(d) == {i \in Items : Pending(i) /\ Entitled(d, i)}

\* Mutant: the claim UPDATE without claimed_by_device_id IS NULL.
ClaimableAgain(i) == Pending(i) /\ item[i].scope = "legacy_any"

Claimable(i) == /\ Pending(i)
                /\ item[i].scope = "legacy_any"
                /\ item[i].claimed = NoDevice

\* The app that owns a device's credentials.  An imported device may carry no
\* install id; then it is an app of its own.
Phone(d) == IF device[d].install = NoInstall THEN d ELSE device[d].install
SamePhone(d) == {e \in Devices : Minted(e) /\ Phone(e) = Phone(d)}
PhoneHas(d) == UNION {handed[e] : e \in SamePhone(d)}

-----------------------------------------------------------------------------
(* store.py *)

\* _RELEASE_STALE_CLAIMS, seen by one row; dev is the devices table it reads.
Released(row, dev) ==
    IF /\ row.scope = "legacy_any"
       /\ Undelivered(row)
       /\ row.claimed \in {d \in Devices : dev[d].state = "inactive"}
    THEN [row EXCEPT !.claimed = NoDevice]
    ELSE row

\* Mutant: pairing re-homes nothing.
RehomedNever(row, d, n, dev) == row

\* Mutant: the re-homing UPDATE without install_id = ?.
RehomedFromAny(row, d, n, dev) ==
    IF row.scope = "target_device" /\ Undelivered(row)
       /\ row.target \in {e \in Devices : dev[e].state = "inactive"}
    THEN [row EXCEPT !.target = d]
    ELSE row

\* The re-homing UPDATE of create_paired_device: d is the fresh device of n.
Rehomed(row, d, n, dev) ==
    IF /\ row.scope = "target_device"
       /\ Undelivered(row)
       /\ row.target \in {e \in Devices : dev[e].state = "inactive" /\ dev[e].install = n}
    THEN [row EXCEPT !.target = d]
    ELSE row

Deactivated(D) ==
    [e \in Devices |-> IF e \in D /\ Active(e)
                       THEN [device[e] EXCEPT !.state = "inactive"]
                       ELSE device[e]]

\* Mutant: pairing adds a device and leaves the install's others active.
RotatedByInsert(d, n) == [device EXCEPT ![d] = [state |-> "active", install |-> n]]

\* Deactivate the install's active rows, then insert d as its active device.
Rotated(d, n) ==
    [Deactivated({e \in Devices : device[e].install = n})
       EXCEPT ![d] = [state |-> "active", install |-> n]]

\* Verb pair: create_paired_device, one IMMEDIATE transaction.
Pair(d, n) ==
    /\ ~Minted(d)
    /\ device' = Rotated(d, n)
    /\ item' = [i \in Items |->
                  Released(Rehomed(item[i], d, n, Rotated(d, n)), Rotated(d, n))]
    /\ twinned' = twinned \ {n}
    /\ UNCHANGED <<clock, request, producer, handed, marker>>

\* deactivate: D is one device (verb unpair, CLI unpair <id>) or all of them
\* (CLI unpair).  Claims are released even when no device row changed.
Deactivate(D) ==
    /\ device' = Deactivated(D)
    /\ item' = [i \in Items |-> Released(item[i], Deactivated(D))]
    /\ UNCHANGED <<clock, request, producer, handed, legacy>>

Unpair == \/ \E d \in Devices : Minted(d) /\ Deactivate({d})
          \/ Deactivate(Devices)

-----------------------------------------------------------------------------
(* outbox.py: writing *)

\* Mutant: a target resolves without AND active = 1.
ResolvedAny(t) == {d \in Devices : Minted(d) /\ (d = t \/ device[d].install = t)}

\* The device a target resolves to: an active device id, an install_id with an
\* active device, or, with no target, the only active device.  Of two active
\* devices of one install the code takes the one created last; an imported date
\* may be any, so here it may be either.
Resolved(t) ==
    {d \in ActiveDevices : IF t = NoDevice THEN ActiveDevices = {d}
                           ELSE d = t \/ device[d].install = t}

\* Mutant: the INSERT leaves created_at NULL.
NewRowUndated(d, k) == [scope |-> "target_device", kind |-> k, target |-> d,
                        claimed |-> NoDevice, created |-> Never, delivered |-> Never,
                        active |-> TRUE, text |-> TRUE]

NewRow(d, k) == [scope |-> "target_device", kind |-> k, target |-> d,
                 claimed |-> NoDevice, created |-> clock, delivered |-> Never,
                 active |-> TRUE, text |-> TRUE]

\* append: platform_adapter.send and the CLI's send --device.  With no match
\* it raises UnknownTargetError and nothing is queued.
Append(t) ==
    /\ \E d \in Resolved(t), i \in Free : item' = [item EXCEPT ![i] = NewRow(d, "message")]
    /\ UNCHANGED <<device, clock, request, producer, handed, legacy>>

\* store.active_devices() of the mirror hook (artifacts), of CLI send --all and
\* of CLI send with one paired device (messages): a read of its own.
Snapshot(p, k) ==
    /\ producer[p].pc = "idle"
    /\ ActiveDevices # {}
    /\ producer' = [producer EXCEPT ![p] = [pc |-> "commit", ids |-> ActiveDevices, kind |-> k]]
    /\ UNCHANGED <<device, item, clock, request, handed, legacy>>

\* append_for_devices, one transaction: a row per device, or none at all when
\* one of the ids has been deactivated since the snapshot.
FanOut(p) ==
    /\ producer[p].pc = "commit"
    /\ \/ /\ producer[p].ids \subseteq ActiveDevices
          /\ \E S \in SUBSET Free : \E to \in [S -> producer[p].ids] :
               /\ \A d \in producer[p].ids : \E i \in S : \A j \in S : to[j] = d <=> j = i
               /\ item' = [i \in Items |-> IF i \in S THEN NewRow(to[i], producer[p].kind)
                                           ELSE item[i]]
       \/ /\ ~(producer[p].ids \subseteq ActiveDevices)
          /\ UNCHANGED item
    /\ producer' = [producer EXCEPT ![p] = IdleProducer]
    /\ UNCHANGED <<device, clock, request, handed, legacy>>

\* The writer fails or its process dies before the transaction commits.
DropFanOut(p) ==
    /\ producer[p].pc = "commit"
    /\ producer' = [producer EXCEPT ![p] = IdleProducer]
    /\ UNCHANGED <<device, item, clock, request, handed, legacy>>

-----------------------------------------------------------------------------
(* envelope.py: drain, with the statements of outbox.pending() *)

Goto(r, pc) == request' = [request EXCEPT ![r].pc = pc]

\* _device_authorized: device_for_token finds the row active.
Drain(r, d) ==
    /\ request[r].pc = "idle"
    /\ Active(d)
    /\ request' = [request EXCEPT ![r] = [IdleRequest EXCEPT !.pc = "check", !.dev = d]]
    /\ UNCHANGED <<device, item, clock, producer, handed, legacy>>

\* SELECT 1 FROM devices WHERE id = ? AND active = 1
CheckActive(r) ==
    /\ request[r].pc = "check"
    /\ Goto(r, IF Active(request[r].dev) THEN "claimable" ELSE "answer")
    /\ UNCHANGED <<device, item, clock, producer, handed, legacy>>

\* SELECT 1 FROM outbox_items WHERE ... claimed_by_device_id IS NULL
SeeClaimable(r) ==
    /\ request[r].pc = "claimable"
    /\ Goto(r, IF \E i \in Items : Claimable(i) THEN "claim" ELSE "read")
    /\ UNCHANGED <<device, item, clock, producer, handed, legacy>>

\* BEGIN IMMEDIATE; UPDATE outbox_items SET claimed_by_device_id = ? ...
\* The device is not looked at again.
Claim(r) ==
    /\ request[r].pc = "claim"
    /\ item' = [i \in Items |-> IF Claimable(i)
                                THEN [item[i] EXCEPT !.claimed = request[r].dev]
                                ELSE item[i]]
    /\ Goto(r, "read")
    /\ UNCHANGED <<device, clock, producer, handed, legacy>>

Read(r) ==
    /\ request[r].pc = "read"
    /\ request' = [request EXCEPT ![r].pc = "answer", ![r].ids = PendingFor(request[r].dev)]
    /\ UNCHANGED <<device, item, clock, producer, handed, legacy>>

\* Nothing to answer and the phone asked to wait: park, then look once more.
Park(r) ==
    /\ request[r].pc = "answer"
    /\ request[r].ids = {}
    /\ ~request[r].parked
    /\ request' = [request EXCEPT ![r].pc = "check", ![r].parked = TRUE]
    /\ UNCHANGED <<device, item, clock, producer, handed, legacy>>

\* The answer reaches the phone that asked.
Reply(r) ==
    /\ request[r].pc = "answer"
    /\ handed' = [handed EXCEPT ![request[r].dev] = @ \cup request[r].ids]
    /\ request' = [request EXCEPT ![r] = IdleRequest]
    /\ UNCHANGED <<device, item, clock, producer, legacy>>

\* A storage error, a lost connection or a dead gateway ends the request
\* between two statements.
Abandon(r) ==
    /\ request[r].pc # "idle"
    /\ request' = [request EXCEPT ![r] = IdleRequest]
    /\ UNCHANGED <<device, item, clock, producer, handed, legacy>>

-----------------------------------------------------------------------------
(* envelope.py: ack, with outbox.mark_delivered() *)

\* The phone acknowledges rows it was handed, under its current credentials.
Ack(r, d, S) ==
    /\ request[r].pc = "idle"
    /\ Active(d)
    /\ S # {}
    /\ S \subseteq PhoneHas(d)
    /\ request' = [request EXCEPT ![r] =
                     [IdleRequest EXCEPT !.pc = "mark", !.dev = d, !.ids = S]]
    /\ UNCHANGED <<device, item, clock, producer, handed, legacy>>

\* Mutant: an ack is matched on the row id alone.
AckedById(r) == IF Active(request[r].dev) THEN {i \in request[r].ids : Pending(i)} ELSE {}

\* The rows the transaction marks: none when the device is no longer active.
Acked(r) == IF Active(request[r].dev)
            THEN request[r].ids \cap PendingFor(request[r].dev)
            ELSE {}

MarkDelivered(r) ==
    /\ request[r].pc = "mark"
    /\ item' = [i \in Items |-> IF i \in Acked(r) THEN [item[i] EXCEPT !.delivered = clock]
                                ELSE item[i]]
    /\ request' = [request EXCEPT ![r] = IdleRequest]
    /\ UNCHANGED <<device, clock, producer, handed, legacy>>

-----------------------------------------------------------------------------
(* hygiene.py: sweep(), from the mirror hook or CLI prune *)

Scrubbable(row) == /\ row.kind = "artifact"
                   /\ row.delivered # Never
                   /\ row.delivered < clock - Retention
                   /\ row.active \/ row.text

\* Mutant: the retention sweep without kind = 'artifact'.
ExpirableAnyKind(row) == /\ row.delivered = Never
                         /\ row.created < clock - Retention
                         /\ row.active

Expirable(row) == /\ row.kind = "artifact"
                  /\ row.delivered = Never
                  /\ row.created < clock - Retention
                  /\ row.active

Sweep == /\ item' = [i \in Items |->
              IF Scrubbable(item[i]) THEN [item[i] EXCEPT !.text = FALSE, !.active = FALSE]
              ELSE IF Expirable(item[i]) THEN [item[i] EXCEPT !.active = FALSE]
              ELSE item[i]]
         /\ UNCHANGED <<device, clock, request, producer, handed, legacy>>

Tick == /\ clock < MaxClock
        /\ clock' = clock + 1
        /\ UNCHANGED <<device, item, request, producer, handed, legacy>>

-----------------------------------------------------------------------------
(* database.py: the import of devices.json and outbox.json *)

\* A row of outbox.json that is still to be delivered.  t: its device, if it has one.
LegacyRow(k, t, c) == [scope |-> IF t = NoDevice THEN "legacy_any" ELSE "target_device",
                       kind |-> k, target |-> t, claimed |-> NoDevice, created |-> c,
                       delivered |-> Never, active |-> TRUE, text |-> TRUE]

\* _migrate_outbox: it goes to the device its chat_id names if that is active,
\* else to the only active device, else to anyone.
LegacyRows(dev) ==
    LET active == {d \in Devices : dev[d].state = "active"}
        anyone == IF Cardinality(active) = 1 THEN {} ELSE {NoDevice}
    IN  {LegacyRow(k, t, c) : k \in Kinds, t \in active \cup anyone, c \in 0 .. clock}

\* The installs that have a device already, or get two, when D is imported.
Twinned(D, dev) ==
    {n \in Installs : \E d \in D, e \in Devices :
        /\ d # e /\ dev[d] = [state |-> "active", install |-> n] /\ dev[e].install = n
        /\ Minted(e) \/ dev[e].state = "active"}

\* _migrate_legacy_json, once per database, at the first initialize() that finds the
\* files: before any pairing, or late, beside the devices paired meanwhile.  Either
\* file may be missing or be rejected.  No imported device rotates another: an
\* install may end up with two active ones.
Import ==
    /\ ~marker
    /\ marker' = TRUE
    /\ \E D \in SUBSET {d \in LegacyDevices : ~Minted(d)} :
         \E new \in [D -> {row \in DeviceRow : row.state # "unminted"}] :
           LET dev == [d \in Devices |-> IF d \in D THEN new[d] ELSE device[d]]
           IN  /\ device' = dev
               /\ twinned' = twinned \cup Twinned(D, dev)
               /\ \E S \in SUBSET (LegacyItems \cap Free) : \E row \in [S -> LegacyRows(dev)] :
                    item' = [i \in Items |-> IF i \in S THEN row[i] ELSE item[i]]
    /\ UNCHANGED <<clock, request, producer, handed>>

-----------------------------------------------------------------------------
(* The specification *)

\* The tables as initialize() creates them.
Init == /\ device = [d \in Devices |-> [state |-> "unminted", install |-> NoInstall]]
        /\ item = [i \in Items |-> NoRow]
        /\ clock = 0
        /\ request = [r \in Requests |-> IdleRequest]
        /\ producer = [p \in Producers |-> IdleProducer]
        /\ handed = [d \in Devices |-> {}]
        /\ marker = FALSE /\ twinned = {}

Store == \/ \E d \in Devices, n \in Installs : Pair(d, n)
         \/ Unpair
         \/ \E t \in Devices \cup Installs \cup {NoDevice} : Append(t)
         \/ Import
         \/ Sweep
         \/ Tick

Write(p) == FanOut(p) \/ \E k \in Kinds : Snapshot(p, k)

Serve(r) == \/ \E d \in Devices : Drain(r, d)
            \/ CheckActive(r) \/ SeeClaimable(r) \/ Claim(r) \/ Read(r)
            \/ Park(r) \/ Reply(r)
            \/ \E d \in Devices : \E S \in SUBSET PhoneHas(d) : Ack(r, d, S)
            \/ MarkDelivered(r)

Lose == (\E r \in Requests : Abandon(r)) \/ (\E p \in Producers : DropFanOut(p))

Work == \/ Store
        \/ \E p \in Producers : Write(p)
        \/ \E r \in Requests : Serve(r)

Next == Work \/ Lose

Spec == Init /\ [][Next]_vars

-----------------------------------------------------------------------------
(* Correctness *)

\* Every table and every request in flight has the shape of its schema.
TypeOK == /\ device \in [Devices -> DeviceRow]
          /\ item \in [Items -> ItemRow]
          /\ clock \in 0 .. MaxClock
          /\ request \in [Requests -> Request]
          /\ producer \in [Producers -> Producer]
          /\ handed \in [Devices -> SUBSET Items]
          /\ marker \in BOOLEAN /\ twinned \subseteq Installs

\* Pairing rotates: the only install that has two active credentials is one the
\* import gave a second device, and only until that phone pairs again, whichever
\* of the two it was.  No UNIQUE index says so.
OneActivePerInstall ==
    \A d, e \in Devices :
        /\ Active(d) /\ Active(e)
        /\ device[d].install = device[e].install
        /\ device[d].install \notin twinned \cup {NoInstall}
        => d = e

\* Rotation never strands a queued row: a pending row addressed to an inactive
\* device has no active device of the same phone it could be drained by, unless
\* an import has put that device beside it and the phone has not paired since.
\* Row inserts, unpairings and re-pairings may come in any order before this state.
NoStrandedRow ==
    \A i \in Items :
        /\ Pending(i)
        /\ item[i].scope = "target_device"
        /\ ~Active(item[i].target)
        /\ Phone(item[i].target) \notin twinned
        => \A d \in SamePhone(item[i].target) : ~Active(d)

\* What a device holds: rows it was handed, and rows in an answer being sent.
Holding(d) ==
    handed[d] \cup UNION {request[r].ids : r \in {q \in Requests :
                             request[q].pc = "answer" /\ request[q].dev = d}}

\* A row shown to a device stays that device's to acknowledge for as long as
\* the row is pending and the device is paired: no later claim, rotation,
\* unpairing or release takes it away, so two paired devices never both show
\* an undelivered row, and the ack of a shown row is never refused.
HolderMayAck ==
    \A d \in Devices : \A i \in Holding(d) :
        Active(d) /\ Pending(i) => Entitled(d, i)

\* delivered_at is only ever stamped on a row that reached the phone it is
\* routed to: no ack, from whichever credentials and however late, marks
\* another phone's row delivered.
DeliveredWasReceived ==
    \A i \in Items : \A d \in Devices :
        item[i].delivered # Never /\ Entitled(d, i) => i \in PhoneHas(d)

\* What the store says of one row, as the outbox's promise sees it.
Status(row) == IF row.scope = "none" THEN "absent"
               ELSE IF row.delivered = Never
                    THEN IF row.active THEN "queued" ELSE "expired"
                    ELSE IF row.active THEN "delivered" ELSE "scrubbed"

Addressee(row) == IF row.scope = "target_device" THEN Phone(row.target) ELSE NoDevice

Phones == Devices \cup Installs

Posted == [i \in Items |-> [status |-> Status(item[i]), to |-> Addressee(item[i]),
                            kind |-> item[i].kind]]

Shown == [p \in Phones |-> UNION {handed[d] : d \in {e \in Devices : Phone(e) = p}}]

Promise == INSTANCE Mailbox WITH Letters <- Items, Anyone <- NoDevice,
                                 letter <- Posted, seen <- Shown

\* The store keeps the outbox's promise: through rotation, claims, releases,
\* late answers and sweeps a row keeps its addressee, reaches no other phone,
\* is settled once and only by a phone that was shown it, and only artifacts
\* expire or lose their text.
MailboxSpec == Promise!Spec

-----------------------------------------------------------------------------
(* The inductive invariant behind the properties above *)

\* A row that was never written is not selected; a routed row has a target.
RowsWellFormed ==
    \A i \in Items :
        /\ item[i].scope = "none" => ~item[i].active /\ item[i].delivered = Never
        /\ item[i].scope = "target_device" => item[i].target # NoDevice

\* REFERENCES devices(id): rows name devices that exist.
ForeignKeys ==
    \A i \in Items :
        /\ item[i].target # NoDevice => Minted(item[i].target)
        /\ item[i].claimed # NoDevice => Minted(item[i].claimed)

\* What makes it right for d to have been shown i: i exists, it is addressed to
\* d's phone or to anyone, and it is d's while it is pending and d is paired.
Mine(d, i) == /\ item[i].scope # "none"
              /\ item[i].scope = "target_device" => Phone(item[i].target) = Phone(d)
              /\ Active(d) /\ Pending(i) => Entitled(d, i)

HandedMine == \A d \in Devices : \A i \in handed[d] : Minted(d) /\ Mine(d, i)

\* A request runs for a device that exists and carries no row before it has read
\* any; what it is about to answer, or to mark delivered, is the device's to be
\* shown, or was shown to its phone.
Sound(q) == /\ q.pc # "idle" => q.dev # NoDevice /\ Minted(q.dev)
            /\ q.pc \in {"check", "claimable", "claim", "read"} => q.ids = {}
            /\ q.pc = "answer" => \A i \in q.ids : Mine(q.dev, i)
            /\ q.pc = "mark" => q.ids \subseteq PhoneHas(q.dev)

RequestsSound == \A r \in Requests : Sound(request[r])

IInv == /\ TypeOK
        /\ OneActivePerInstall
        /\ NoStrandedRow
        /\ DeliveredWasReceived
        /\ RowsWellFormed
        /\ ForeignKeys
        /\ HandedMine
        /\ RequestsSound
=============================================================================
