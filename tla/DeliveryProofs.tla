--------------------------- MODULE DeliveryProofs ---------------------------
(***************************************************************************)
(* Theorems about Delivery, for every set of devices, installs, rows,      *)
(* requests and writers.  First that the tables stay typed, one step per   *)
(* action; then that IInv is inductive, and the properties it implies.     *)
(***************************************************************************)
EXTENDS Delivery, TLAPS

-----------------------------------------------------------------------------
(* Rows stay rows *)

\* Releasing a claim or re-homing a row yields a row.
LEMMA RowType ==
    ASSUME NEW row \in ItemRow, NEW dev
    PROVE  /\ Released(row, dev) \in ItemRow
           /\ \A d \in Devices, n \in Installs : Rehomed(row, d, n, dev) \in ItemRow
BY DEF ItemRow, Released, Rehomed

\* Deactivating or rotating yields a devices table.
LEMMA DeviceType ==
    ASSUME TypeOK
    PROVE  /\ \A D \in SUBSET Devices : Deactivated(D) \in [Devices -> DeviceRow]
           /\ \A d \in Devices, n \in Installs : Rotated(d, n) \in [Devices -> DeviceRow]
BY DEF TypeOK, DeviceRow, Deactivated, Rotated, Active

\* A freshly inserted row is a row.
LEMMA NewRowType ==
    ASSUME TypeOK, NEW d \in Devices, NEW k \in Kinds
    PROVE  NewRow(d, k) \in ItemRow
BY DEF TypeOK, NewRow, ItemRow

LEMMA NoRowType == NoRow \in ItemRow
BY ConstantAssumption DEF NoRow, ItemRow, Kinds

\* What a legacy import writes is typed, and stands at an active device or at nobody.
LEMMA LegacyRowsType ==
    ASSUME TypeOK, NEW dev, NEW row \in LegacyRows(dev)
    PROVE  /\ row \in ItemRow
           /\ row.active /\ row.claimed = NoDevice /\ row.delivered = Never
           /\ \/ /\ row.scope = "target_device"
                 /\ row.target \in {d \in Devices : dev[d].state = "active"}
              \/ row.scope = "legacy_any" /\ row.target = NoDevice
<1> DEFINE active == {d \in Devices : dev[d].state = "active"}
           anyone == IF Cardinality(active) = 1 THEN {} ELSE {NoDevice}
<1>0. anyone \subseteq {NoDevice}
  OBVIOUS
<1> HIDE DEF anyone
<1>1. PICK k \in Kinds, t \in active \cup anyone, c \in 0 .. clock : row = LegacyRow(k, t, c)
  BY DEF LegacyRows, anyone
<1>2. c \in 0 .. MaxClock
  BY ConstantAssumption DEF TypeOK
<1> QED
  BY <1>0, <1>1, <1>2, ConstantAssumption DEF LegacyRow, ItemRow

\* The empty tables are typed.
LEMMA InitType == Init => TypeOK
<1> SUFFICES ASSUME Init PROVE TypeOK
  OBVIOUS
<1>1. NoRow \in ItemRow /\ [state |-> "unminted", install |-> NoInstall] \in DeviceRow
  BY NoRowType DEF DeviceRow
<1>2. IdleRequest \in Request /\ IdleProducer \in Producer
  BY DEF IdleRequest, Request, IdleProducer, Producer, Kinds
<1>3. 0 \in 0 .. MaxClock
  BY ConstantAssumption
<1> QED
  BY <1>1, <1>2, <1>3 DEF Init, TypeOK

\* A step that only moves a request to another program counter.
LEMMA GotoType ==
    ASSUME TypeOK, NEW r \in Requests,
           NEW pc \in {"idle", "check", "claimable", "claim", "read", "answer", "mark"},
           Goto(r, pc)
    PROVE  request' \in [Requests -> Request]
BY DEF TypeOK, Request, Goto

-----------------------------------------------------------------------------
(* Type correctness *)

\* Every step leaves every table and every request typed.
LEMMA StepType == TypeOK /\ [Next]_vars => TypeOK'
<1> SUFFICES ASSUME TypeOK, [Next]_vars PROVE TypeOK'
  OBVIOUS
<1>idle. IdleRequest \in Request /\ IdleProducer \in Producer
  BY DEF IdleRequest, Request, IdleProducer, Producer, Kinds
<1>1. ASSUME NEW d \in Devices, NEW n \in Installs, Pair(d, n) PROVE TypeOK'
  BY <1>1, RowType, DeviceType DEF Pair, TypeOK
<1>2. ASSUME Unpair PROVE TypeOK'
  <2>1. PICK D \in SUBSET Devices : Deactivate(D)
    BY <1>2 DEF Unpair
  <2> QED
    BY <2>1, RowType, DeviceType DEF Deactivate, TypeOK, legacy
<1>3. ASSUME NEW t, Append(t) PROVE TypeOK'
  <2>1. PICK d \in Devices, i \in Items : item' = [item EXCEPT ![i] = NewRow(d, "message")]
    BY <1>3 DEF Append, Resolved, ActiveDevices, Free
  <2> QED
    BY <1>3, <2>1, NewRowType DEF Append, TypeOK, legacy, Kinds
<1>4. ASSUME Sweep PROVE TypeOK'
  <2>1. \A i \in Items : /\ [item[i] EXCEPT !.text = FALSE, !.active = FALSE] \in ItemRow
                         /\ [item[i] EXCEPT !.active = FALSE] \in ItemRow
    BY DEF TypeOK, ItemRow
  <2> QED
    BY <1>4, <2>1 DEF Sweep, TypeOK, legacy
<1>5. ASSUME Tick PROVE TypeOK'
  BY <1>5, ConstantAssumption DEF Tick, TypeOK, legacy
<1>6. ASSUME NEW p \in Producers, NEW k \in Kinds, Snapshot(p, k) PROVE TypeOK'
  BY <1>6 DEF Snapshot, TypeOK, legacy, Producer, ActiveDevices
<1>7. ASSUME NEW p \in Producers, FanOut(p) PROVE TypeOK'
  <2>1. producer[p].kind \in Kinds /\ producer[p].ids \subseteq Devices
    BY DEF TypeOK, Producer
  <2>2. item' \in [Items -> ItemRow]
    <3>1. CASE UNCHANGED item
      BY <3>1 DEF TypeOK
    <3>2. ASSUME NEW S \in SUBSET Free, NEW to \in [S -> producer[p].ids],
                 item' = [i \in Items |-> IF i \in S THEN NewRow(to[i], producer[p].kind)
                                          ELSE item[i]]
          PROVE  item' \in [Items -> ItemRow]
      <4>1. \A i \in S : NewRow(to[i], producer[p].kind) \in ItemRow
        BY <2>1, NewRowType
      <4> QED
        BY <3>2, <4>1 DEF TypeOK
    <3> QED
      BY <1>7, <3>1, <3>2 DEF FanOut
  <2> QED
    BY <1>7, <1>idle, <2>2 DEF FanOut, TypeOK, legacy
<1>8. ASSUME NEW r \in Requests, NEW d \in Devices, Drain(r, d) PROVE TypeOK'
  BY <1>8 DEF Drain, TypeOK, legacy, IdleRequest, Request
<1>9. ASSUME NEW r \in Requests, CheckActive(r) PROVE TypeOK'
  BY <1>9, GotoType DEF CheckActive, TypeOK, legacy
<1>10. ASSUME NEW r \in Requests, SeeClaimable(r) PROVE TypeOK'
  BY <1>10, GotoType DEF SeeClaimable, TypeOK, legacy
<1>11. ASSUME NEW r \in Requests, Claim(r) PROVE TypeOK'
  <2>1. request[r].dev \in Devices \cup {NoDevice}
    BY DEF TypeOK, Request
  <2>2. \A i \in Items : [item[i] EXCEPT !.claimed = request[r].dev] \in ItemRow
    BY <2>1 DEF TypeOK, ItemRow
  <2>3. request' \in [Requests -> Request]
    BY <1>11, GotoType DEF Claim
  <2> QED
    BY <1>11, <2>2, <2>3 DEF Claim, TypeOK, legacy
<1>12. ASSUME NEW r \in Requests, Read(r) PROVE TypeOK'
  BY <1>12 DEF Read, TypeOK, legacy, Request, PendingFor
<1>13. ASSUME NEW r \in Requests, Park(r) PROVE TypeOK'
  BY <1>13 DEF Park, TypeOK, legacy, Request
<1>14. ASSUME NEW r \in Requests, Reply(r) PROVE TypeOK'
  <2>1. request[r].ids \subseteq Items
    BY DEF TypeOK, Request
  <2> QED
    BY <1>14, <1>idle, <2>1 DEF Reply, TypeOK, legacy
<1>15. ASSUME NEW r \in Requests, Abandon(r) PROVE TypeOK'
  BY <1>15, <1>idle DEF Abandon, TypeOK, legacy
<1>16. ASSUME NEW p \in Producers, DropFanOut(p) PROVE TypeOK'
  BY <1>16, <1>idle DEF DropFanOut, TypeOK, legacy
<1>17. ASSUME NEW r \in Requests, NEW d \in Devices, NEW S \in SUBSET PhoneHas(d), Ack(r, d, S)
       PROVE TypeOK'
  <2>1. PhoneHas(d) \subseteq Items
    BY DEF PhoneHas, SamePhone, TypeOK
  <2> QED
    BY <1>17, <2>1 DEF Ack, TypeOK, legacy, IdleRequest, Request
<1>18. ASSUME NEW r \in Requests, MarkDelivered(r) PROVE TypeOK'
  <2>1. \A i \in Items : [item[i] EXCEPT !.delivered = clock] \in ItemRow
    BY DEF TypeOK, ItemRow
  <2> QED
    BY <1>18, <1>idle, <2>1 DEF MarkDelivered, TypeOK, legacy
<1>19. ASSUME Import PROVE TypeOK'
  <2>1. PICK D \in SUBSET {d \in LegacyDevices : ~Minted(d)} :
         \E new \in [D -> {row \in DeviceRow : row.state # "unminted"}] :
           LET dev == [d \in Devices |-> IF d \in D THEN new[d] ELSE device[d]]
           IN  /\ device' = dev
               /\ twinned' = twinned \cup Twinned(D, dev)
               /\ \E S \in SUBSET (LegacyItems \cap Free) : \E row \in [S -> LegacyRows(dev)] :
                    item' = [i \in Items |-> IF i \in S THEN row[i] ELSE item[i]]
    BY <1>19 DEF Import
  <2>a. PICK new \in [D -> {row \in DeviceRow : row.state # "unminted"}] :
           /\ device' = [d \in Devices |-> IF d \in D THEN new[d] ELSE device[d]]
           /\ twinned' = twinned \cup Twinned(D, device')
           /\ \E S \in SUBSET (LegacyItems \cap Free) : \E row \in [S -> LegacyRows(device')] :
                item' = [i \in Items |-> IF i \in S THEN row[i] ELSE item[i]]
    BY <2>1
  <2>2. device' \in [Devices -> DeviceRow]
    BY <2>a DEF TypeOK
  <2>3. twinned' \subseteq Installs
    BY <2>a DEF TypeOK, Twinned
  <2>4. LegacyRows(device') \subseteq ItemRow
    BY LegacyRowsType
  <2>5. PICK S \in SUBSET (LegacyItems \cap Free) : \E row \in [S -> LegacyRows(device')] :
               item' = [i \in Items |-> IF i \in S THEN row[i] ELSE item[i]]
    BY <2>a
  <2>6. item' \in [Items -> ItemRow]
    BY <2>4, <2>5 DEF TypeOK
  <2> QED
    BY <1>19, <2>2, <2>3, <2>6 DEF Import, TypeOK
<1>20. CASE UNCHANGED vars
  BY <1>20 DEF vars, legacy, TypeOK
<1> QED
  BY <1>1, <1>2, <1>3, <1>4, <1>5, <1>6, <1>7, <1>8, <1>9, <1>10, <1>11, <1>12, <1>13,
     <1>14, <1>15, <1>16, <1>17, <1>18, <1>19, <1>20
     DEF Next, Work, Store, Write, Serve, Lose

\* Whatever the gateway does, the two tables keep the shape of the schema.
THEOREM TypeCorrect == Spec => []TypeOK
BY InitType, StepType, PTL DEF Spec

-----------------------------------------------------------------------------
(* The inductive invariant: what its parts have in common *)

\* Devices are never forgotten and never change hands.
Lasting == \A d \in Devices : Minted(d) => Minted(d)' /\ device'[d].install = device[d].install

\* Under a lasting step a phone keeps what it was handed.
LEMMA PhoneKeeps ==
    ASSUME Lasting, \A d \in Devices : handed[d] \subseteq handed'[d]
    PROVE  \A d \in Devices : Minted(d) => PhoneHas(d) \subseteq PhoneHas(d)'
BY DEF Lasting, PhoneHas, SamePhone, Phone, Minted

\* What was rightly shown or is rightly being served stays so, if the step
\* takes no row away from its holder and answers only what is right.
LEMMA Evolution ==
    ASSUME IInv, TypeOK', Lasting,
           \A d \in Devices : handed[d] \subseteq handed'[d],
           \A d \in Devices : \A i \in handed'[d] \ handed[d] : Minted(d) /\ Mine(d, i),
           \A d \in Devices, i \in Items : Minted(d) /\ Mine(d, i) => Mine(d, i)',
           \A r \in Requests : request'[r] = request[r] \/ Sound(request[r])'
    PROVE  HandedMine' /\ RequestsSound'
<1>1. HandedMine'
  <2> SUFFICES ASSUME NEW d \in Devices, NEW i \in handed'[d]
               PROVE  Minted(d)' /\ Mine(d, i)'
    BY DEF HandedMine
  <2>1. i \in Items
    BY DEF TypeOK
  <2>2. Minted(d) /\ Mine(d, i)
    BY DEF IInv, HandedMine
  <2> QED
    BY <2>1, <2>2 DEF Lasting
<1>2. ASSUME NEW r \in Requests, request'[r] = request[r] PROVE Sound(request[r])'
  <2> DEFINE q == request[r]
  <2>1. Sound(q) /\ q \in Request
    BY DEF IInv, RequestsSound, TypeOK
  <2>2. q.dev \in Devices \cup {NoDevice} /\ q.ids \subseteq Items
    BY <2>1 DEF Request
  <2>3. q.pc # "idle" => q.dev \in Devices /\ Minted(q.dev) /\ Minted(q.dev)'
    BY <2>1, <2>2, <1>2 DEF Sound, Lasting, Minted
  <2>4. q.pc = "answer" => \A i \in q.ids : Mine(q.dev, i) /\ q.dev \in Devices /\ Minted(q.dev)
    BY <2>1, <2>3 DEF Sound
  <2>5. ASSUME NEW d \in Devices, d = q.dev, NEW i \in q.ids, q.pc = "answer" PROVE Mine(d, i)'
    BY <2>2, <2>4, <2>5
  <2>6. q.pc = "mark" => \A d \in Devices : d = q.dev => q.ids \subseteq PhoneHas(d)'
    BY <2>1, <2>3, PhoneKeeps DEF Sound
  <2>7. (request[r].pc = "answer" => \A i \in request[r].ids : Mine(request[r].dev, i))'
    BY <1>2, <2>2, <2>3, <2>5 DEF Mine, Entitled, Pending, Undelivered, Active, Phone
  <2>8. (request[r].pc = "mark" => request[r].ids \subseteq PhoneHas(request[r].dev))'
    BY <1>2, <2>2, <2>3, <2>6 DEF PhoneHas, SamePhone, Phone, Minted
  <2>9. (/\ request[r].pc # "idle" => request[r].dev # NoDevice /\ Minted(request[r].dev)
         /\ request[r].pc \in {"check", "claimable", "claim", "read"} => request[r].ids = {})'
    BY <1>2, <2>1, <2>3 DEF Sound, Minted
  <2> QED
    BY <2>7, <2>8, <2>9 DEF Sound
<1> QED
  BY <1>1, <1>2 DEF RequestsSound

\* A device entitled to a row exists.
LEMMA EntitledMinted ==
    ASSUME IInv, NEW d \in Devices, NEW i \in Items, Entitled(d, i)
    PROVE  Minted(d)
BY ConstantAssumption DEF IInv, ForeignKeys, Entitled

\* Rows delivered before stay received, if each row that counts as delivered to
\* a device after the step did so before or is one its phone already has.
LEMMA ReceivedEvolves ==
    ASSUME IInv, Lasting,
           \A d \in Devices : handed[d] \subseteq handed'[d],
           \A d \in Devices, i \in Items :
               item'[i].delivered # Never /\ Entitled(d, i)' =>
                  \/ item[i].delivered # Never /\ Entitled(d, i)
                  \/ Minted(d) /\ i \in PhoneHas(d)
    PROVE  DeliveredWasReceived'
<1> SUFFICES ASSUME NEW i \in Items, NEW d \in Devices,
                    item'[i].delivered # Never, Entitled(d, i)'
             PROVE  i \in PhoneHas(d)'
  BY DEF DeliveredWasReceived
<1>1. Minted(d) /\ i \in PhoneHas(d)
  BY EntitledMinted DEF IInv, DeliveredWasReceived
<1> QED
  BY <1>1, PhoneKeeps

\* A step that leaves the tables and the phones alone keeps IInv if the request
\* it moves is sound where it arrives.
LEMMA Quiet ==
    ASSUME IInv, TypeOK', UNCHANGED <<device, item, handed, twinned>>,
           \A r \in Requests : request'[r] = request[r] \/ Sound(request[r])'
    PROVE  IInv'
<1>1. Lasting
  BY DEF Lasting, Minted
<1>2. \A d \in Devices, i \in Items : Minted(d) /\ Mine(d, i) => Mine(d, i)'
  BY DEF Mine, Entitled, Pending, Undelivered, Active, Phone
<1>3. HandedMine' /\ RequestsSound'
  BY <1>1, <1>2, Evolution
<1>4. (OneActivePerInstall /\ NoStrandedRow /\ DeliveredWasReceived /\ RowsWellFormed /\ ForeignKeys)'
  BY DEF IInv, OneActivePerInstall, NoStrandedRow, DeliveredWasReceived, RowsWellFormed, ForeignKeys,
         Active, Pending, Undelivered, SamePhone, Phone, Minted, Entitled, PhoneHas
<1> QED
  BY <1>3, <1>4 DEF IInv

\* Empty tables: nothing is pending, nobody holds anything.
LEMMA InitInductive == Init => IInv
<1> SUFFICES ASSUME Init PROVE IInv
  OBVIOUS
<1>1. TypeOK
  BY InitType
<1>2. /\ \A i \in Items : item[i] = NoRow
      /\ \A d \in Devices : ~Active(d)
  BY DEF Init, Active
<1>3. OneActivePerInstall
  BY <1>2 DEF OneActivePerInstall
<1>4. NoStrandedRow /\ DeliveredWasReceived /\ RowsWellFormed /\ ForeignKeys
  BY <1>2, ConstantAssumption DEF NoStrandedRow, DeliveredWasReceived, RowsWellFormed, ForeignKeys,
     NoRow, Pending, Undelivered
<1>5. HandedMine
  BY DEF Init, HandedMine
<1>6. RequestsSound
  BY DEF Init, RequestsSound, Sound, IdleRequest
<1> QED
  BY <1>1, <1>3, <1>4, <1>5, <1>6 DEF IInv

-----------------------------------------------------------------------------
(* Pairing and unpairing *)

\* What a rotation does to the devices table.
LEMMA RotatedFacts ==
    ASSUME TypeOK, NEW d \in Devices, ~Minted(d), NEW n \in Installs, device' = Rotated(d, n)
    PROVE  /\ Lasting
           /\ device'[d] = [state |-> "active", install |-> n]
           /\ \A e \in Devices \ {d} :
                 /\ device'[e].install = device[e].install
                 /\ device'[e].state = IF Active(e) /\ device[e].install = n
                                       THEN "inactive" ELSE device[e].state
BY DEF TypeOK, DeviceRow, Rotated, Deactivated, Lasting, Minted, Active

\* What an unpairing does to the devices table.
LEMMA DeactivatedFacts ==
    ASSUME TypeOK, NEW D \in SUBSET Devices, device' = Deactivated(D)
    PROVE  /\ Lasting
           /\ \A e \in Devices :
                 /\ device'[e].install = device[e].install
                 /\ device'[e].state = IF Active(e) /\ e \in D
                                       THEN "inactive" ELSE device[e].state
BY DEF TypeOK, DeviceRow, Deactivated, Lasting, Minted, Active

\* Releasing touches nothing but a claim held by an inactive device.
LEMMA ReleasedFacts ==
    ASSUME NEW row \in ItemRow, NEW dev
    PROVE  LET new == Released(row, dev)
           IN  /\ new.scope = row.scope /\ new.kind = row.kind /\ new.target = row.target
               /\ new.created = row.created /\ new.delivered = row.delivered
               /\ new.active = row.active /\ new.text = row.text
               /\ \/ new.claimed = row.claimed
                  \/ /\ new.claimed = NoDevice
                     /\ Undelivered(row)
                     /\ row.scope = "legacy_any"
                     /\ row.claimed \in Devices
                     /\ dev[row.claimed].state = "inactive"
BY DEF ItemRow, Released

\* Pairing keeps IInv: the fresh device holds nothing yet, its install's other
\* devices are inactive, and the rows they left behind are the fresh device's.
LEMMA PairInductive ==
    ASSUME IInv, TypeOK', NEW d \in Devices, NEW n \in Installs, Pair(d, n)
    PROVE  IInv'
<1> DEFINE dev == Rotated(d, n)
<1>1. ~Minted(d) /\ device' = dev /\ twinned' = twinned \ {n} /\ UNCHANGED <<request, handed>> /\ TypeOK
  BY DEF Pair, IInv
<1>2. /\ Lasting
      /\ device'[d] = [state |-> "active", install |-> n]
      /\ \A e \in Devices \ {d} :
            /\ device'[e].install = device[e].install
            /\ device'[e].state = IF Active(e) /\ device[e].install = n
                                  THEN "inactive" ELSE device[e].state
  BY <1>1, RotatedFacts
<1>3. ASSUME NEW i \in Items
      PROVE  /\ item'[i].scope = item[i].scope /\ item'[i].active = item[i].active
             /\ item'[i].delivered = item[i].delivered
             /\ \/ /\ item'[i].target = item[i].target
                   /\ \/ item[i].scope # "target_device"
                      \/ ~Pending(i)
                      \/ item[i].target \notin Devices
                      \/ device'[item[i].target].state # "inactive"
                      \/ device'[item[i].target].install # n
                \/ /\ item'[i].target = d
                   /\ item[i].scope = "target_device"
                   /\ Pending(i)
                   /\ item[i].target \in Devices
                   /\ device'[item[i].target].state = "inactive"
                   /\ device'[item[i].target].install = n
             /\ \/ item'[i].claimed = item[i].claimed
                \/ /\ item'[i].claimed = NoDevice
                   /\ Pending(i)
                   /\ item[i].scope = "legacy_any"
                   /\ item[i].claimed \in Devices
                   /\ device'[item[i].claimed].state = "inactive"
  <2> DEFINE mid == Rehomed(item[i], d, n, dev)
  <2>1. item[i] \in ItemRow /\ mid \in ItemRow
    BY <1>1, RowType DEF TypeOK
  <2>2. item'[i] = Released(mid, dev)
    BY DEF Pair
  <2>3. /\ mid.scope = item[i].scope /\ mid.claimed = item[i].claimed
        /\ mid.delivered = item[i].delivered /\ mid.active = item[i].active
        /\ \/ /\ mid.target = item[i].target
              /\ \/ item[i].scope # "target_device"
                 \/ ~Undelivered(item[i])
                 \/ item[i].target \notin Devices
                 \/ dev[item[i].target].state # "inactive"
                 \/ dev[item[i].target].install # n
           \/ /\ mid.target = d
              /\ item[i].scope = "target_device"
              /\ Undelivered(item[i])
              /\ item[i].target \in Devices
              /\ dev[item[i].target].state = "inactive"
              /\ dev[item[i].target].install = n
    BY <2>1 DEF Rehomed, ItemRow
  <2> HIDE DEF mid, dev
  <2>4. /\ item'[i].scope = mid.scope /\ item'[i].active = mid.active
        /\ item'[i].delivered = mid.delivered /\ item'[i].target = mid.target
        /\ \/ item'[i].claimed = mid.claimed
           \/ /\ item'[i].claimed = NoDevice
              /\ Undelivered(mid)
              /\ mid.scope = "legacy_any"
              /\ mid.claimed \in Devices
              /\ dev[mid.claimed].state = "inactive"
    BY <2>1, <2>2, ReleasedFacts
  <2> QED
    BY <1>1, <2>3, <2>4 DEF Pending, Undelivered
<1>4. \A i \in Items : item[i].target # d /\ item[i].claimed # d
  BY <1>1, ConstantAssumption DEF IInv, ForeignKeys
<1>5. n \notin Devices /\ n # NoInstall
  BY ConstantAssumption
<1>types. \A i \in Items : item[i].target \in Devices \cup {NoDevice}
                        /\ item[i].claimed \in Devices \cup {NoDevice}
  BY <1>1 DEF TypeOK, ItemRow
<1>6. ASSUME NEW e \in Devices, NEW i \in Items, Minted(e), Mine(e, i) PROVE Mine(e, i)'
  <2>1. e # d /\ (Active(e)' => Active(e)) /\ Phone(e)' = Phone(e)
    BY <1>1, <1>2, <1>6 DEF Active, Phone
  <2>2. item[i].scope = "target_device" => Phone(item[i].target)' = Phone(item[i].target)
    <3> SUFFICES ASSUME item[i].scope = "target_device"
                 PROVE  Phone(item[i].target)' = Phone(item[i].target)
      OBVIOUS
    <3>1. item[i].target \in Devices \ {d}
      BY <1>4, <1>types DEF IInv, RowsWellFormed
    <3> QED
      BY <1>2, <1>3, <1>5, <3>1 DEF Phone
  <2>3. Active(e)' /\ Pending(i)' => Entitled(e, i)'
    BY <1>2, <1>3, <1>6, <2>1 DEF Mine, Entitled, Pending, Undelivered, Active
  <2> QED
    BY <1>3, <1>6, <2>1, <2>2, <2>3 DEF Mine, Phone
<1>7. HandedMine' /\ RequestsSound'
  BY <1>1, <1>2, <1>6, Evolution
<1>8. DeliveredWasReceived'
  <2>1. \A e \in Devices, i \in Items :
          item'[i].delivered # Never /\ Entitled(e, i)' => item[i].delivered # Never /\ Entitled(e, i)
    BY <1>3 DEF Entitled, Pending, Undelivered
  <2> QED
    BY <1>1, <1>2, <2>1, ReceivedEvolves
<1>9. OneActivePerInstall'
  BY <1>1, <1>2 DEF IInv, OneActivePerInstall, Active
<1>10. NoStrandedRow'
  <2> SUFFICES ASSUME NEW i \in Items, Pending(i)', item[i].scope' = "target_device",
                      ~Active(item[i].target)', Phone(item[i].target)' \notin twinned',
                      NEW f \in Devices, Minted(f)', Phone(f)' = Phone(item[i].target)', Active(f)'
               PROVE  FALSE
    BY DEF NoStrandedRow, SamePhone
  <2> DEFINE e == item[i].target
  <2>1. item'[i].target = e /\ e \in Devices \ {d} /\ Minted(e) /\ Pending(i) /\ item[i].scope = "target_device"
    BY <1>2, <1>3, <1>4, <1>types DEF IInv, RowsWellFormed, ForeignKeys, Active, Pending, Undelivered
  <2>2. device'[e].state = "inactive"
    <3>1. device'[e] \in DeviceRow
      BY <2>1 DEF TypeOK
    <3> QED
      BY <1>2, <2>1, <3>1 DEF Lasting, Minted, Active, DeviceRow
  <2>3. device[e].install # n /\ ~Active(e)
    BY <1>2, <1>3, <2>1, <2>2 DEF Active
  <2>4. f # d
    BY <1>2, <1>5, <2>1, <2>3 DEF Phone
  <2>5. Minted(f) /\ Active(f) /\ Phone(f) = Phone(e)
    BY <1>2, <2>1, <2>4 DEF Phone, Active, Minted
  <2>6. Phone(e)' = Phone(e) /\ Phone(e) \notin twinned
    BY <1>1, <1>2, <1>5, <2>1, <2>3 DEF Phone
  <2> QED
    BY <2>1, <2>3, <2>5, <2>6 DEF IInv, NoStrandedRow, SamePhone
<1>11. RowsWellFormed' /\ ForeignKeys'
  BY <1>2, <1>3, <1>types, ConstantAssumption
     DEF IInv, RowsWellFormed, ForeignKeys, Lasting, Minted, Pending, Undelivered
<1> QED
  BY <1>7, <1>8, <1>9, <1>10, <1>11 DEF IInv

\* Unpairing keeps IInv: what it strands belongs to a phone with no device left,
\* and what it releases nobody still paired was holding.
LEMMA DeactivateInductive ==
    ASSUME IInv, TypeOK', NEW D \in SUBSET Devices, Deactivate(D)
    PROVE  IInv'
<1>1. TypeOK /\ device' = Deactivated(D) /\ UNCHANGED <<request, handed, twinned>>
  BY DEF Deactivate, IInv, legacy
<1>2. /\ Lasting
      /\ \A e \in Devices :
            /\ device'[e].install = device[e].install
            /\ device'[e].state = IF Active(e) /\ e \in D
                                  THEN "inactive" ELSE device[e].state
  BY <1>1, DeactivatedFacts
<1>3. ASSUME NEW i \in Items
      PROVE  /\ item'[i].scope = item[i].scope /\ item'[i].active = item[i].active
             /\ item'[i].delivered = item[i].delivered /\ item'[i].target = item[i].target
             /\ \/ item'[i].claimed = item[i].claimed
                \/ /\ item'[i].claimed = NoDevice
                   /\ Pending(i)
                   /\ item[i].scope = "legacy_any"
                   /\ item[i].claimed \in Devices
                   /\ device'[item[i].claimed].state = "inactive"
  <2>1. item[i] \in ItemRow
    BY <1>1 DEF TypeOK
  <2>2. item'[i] = Released(item[i], device')
    BY <1>1 DEF Deactivate
  <2> QED
    BY <2>1, <2>2, ReleasedFacts DEF Pending
<1>types. \A i \in Items : item[i].target \in Devices \cup {NoDevice}
                        /\ item[i].claimed \in Devices \cup {NoDevice}
  BY <1>1 DEF TypeOK, ItemRow
<1>4. \A e \in Devices : Phone(e)' = Phone(e) /\ (Active(e)' => Active(e))
  BY <1>2 DEF Phone, Active
<1>5. ASSUME NEW e \in Devices, NEW i \in Items, Minted(e), Mine(e, i) PROVE Mine(e, i)'
  <2>1. item[i].scope = "target_device" => Phone(item[i].target)' = Phone(item[i].target)
    BY <1>2, <1>3, <1>types DEF IInv, RowsWellFormed, Phone
  <2>2. Active(e)' /\ Pending(i)' => Entitled(e, i)'
    BY <1>2, <1>3, <1>4, <1>5 DEF Mine, Entitled, Pending, Undelivered, Active
  <2> QED
    BY <1>3, <1>4, <1>5, <2>1, <2>2 DEF Mine, Phone
<1>6. HandedMine' /\ RequestsSound'
  BY <1>1, <1>2, <1>5, Evolution
<1>7. DeliveredWasReceived'
  <2>1. \A e \in Devices, i \in Items :
          item'[i].delivered # Never /\ Entitled(e, i)' => item[i].delivered # Never /\ Entitled(e, i)
    BY <1>3 DEF Entitled, Pending, Undelivered
  <2> QED
    BY <1>1, <1>2, <2>1, ReceivedEvolves
<1>8. OneActivePerInstall'
  BY <1>1, <1>2, <1>4 DEF IInv, OneActivePerInstall
<1>9. NoStrandedRow'
  <2> SUFFICES ASSUME NEW i \in Items, Pending(i)', item[i].scope' = "target_device",
                      ~Active(item[i].target)', Phone(item[i].target)' \notin twinned',
                      NEW f \in Devices, Minted(f)', Phone(f)' = Phone(item[i].target)', Active(f)'
               PROVE  FALSE
    BY DEF NoStrandedRow, SamePhone
  <2> DEFINE e == item[i].target
  <2>1. item'[i].target = e /\ e \in Devices /\ Pending(i) /\ item[i].scope = "target_device"
    BY <1>3, <1>types DEF IInv, RowsWellFormed, Pending, Undelivered
  <2>2. Active(f) /\ Minted(f) /\ Phone(f) = Phone(e) /\ Phone(e) \notin twinned
    BY <1>1, <1>2, <1>4, <2>1 DEF Phone, Active, Minted
  <2>3. CASE ~Active(e)
    BY <2>1, <2>2, <2>3 DEF IInv, NoStrandedRow, SamePhone
  <2>4. CASE Active(e)
    <3>1. device[e].install = device[f].install
      BY <2>1, <2>2, ConstantAssumption DEF Phone, IInv, TypeOK, DeviceRow
    <3>2. e = f
      BY <2>1, <2>2, <2>4, <3>1 DEF Phone, IInv, OneActivePerInstall
    <3> QED
      BY <2>1, <3>2 DEF Active
  <2> QED
    BY <2>3, <2>4
<1>10. RowsWellFormed' /\ ForeignKeys'
  BY <1>2, <1>3, <1>types
     DEF IInv, RowsWellFormed, ForeignKeys, Lasting, Minted, Pending, Undelivered
<1> QED
  BY <1>6, <1>7, <1>8, <1>9, <1>10 DEF IInv

-----------------------------------------------------------------------------
(* Steps that write rows under an unchanged devices table *)

LEMMA SameDevices ==
    ASSUME IInv, UNCHANGED <<device, twinned>>
    PROVE  /\ Lasting
           /\ OneActivePerInstall'
           /\ \A d \in Devices : /\ Active(d)' <=> Active(d)
                                 /\ Minted(d)' <=> Minted(d)
                                 /\ Phone(d)' = Phone(d)
                                 /\ SamePhone(d)' = SamePhone(d)
BY DEF Lasting, IInv, OneActivePerInstall, Active, Minted, Phone, SamePhone

\* Rows inserted for active devices keep IInv: nobody holds an unused id.
LEMMA InsertInductive ==
    ASSUME IInv, TypeOK', UNCHANGED <<device, request, handed, twinned>>,
           \A i \in Items :
              \/ item'[i] = item[i]
              \/ /\ item[i].scope = "none"
                 /\ \E d \in ActiveDevices, k \in Kinds : item'[i] = NewRow(d, k)
    PROVE  IInv'
<1>1. /\ Lasting
      /\ OneActivePerInstall'
      /\ \A d \in Devices : /\ Active(d)' <=> Active(d)
                            /\ Minted(d)' <=> Minted(d)
                            /\ Phone(d)' = Phone(d)
                            /\ SamePhone(d)' = SamePhone(d)
  BY SameDevices
<1>2. ASSUME NEW i \in Items
      PROVE  \/ item'[i] = item[i]
             \/ /\ item[i].scope = "none"
                /\ item'[i].scope = "target_device"
                /\ item'[i].target \in Devices /\ Active(item[i].target)' /\ Minted(item[i].target)'
                /\ item'[i].claimed = NoDevice
                /\ item'[i].delivered = Never
  <2>1. ASSUME NEW d \in ActiveDevices, NEW k \in Kinds, item'[i] = NewRow(d, k)
        PROVE  /\ item'[i].scope = "target_device" /\ item'[i].target = d
               /\ item'[i].claimed = NoDevice /\ item'[i].delivered = Never
               /\ d \in Devices /\ device'[d].state = "active"
    BY <2>1 DEF NewRow, ActiveDevices, Active
  <2> QED
    BY <2>1 DEF Active, Minted
<1>3. \A e \in Devices, i \in Items : Minted(e) /\ Mine(e, i) => Mine(e, i)'
  BY <1>2 DEF Mine, Entitled, Pending, Undelivered, Active, Phone
<1>4. HandedMine' /\ RequestsSound'
  BY <1>1, <1>3, Evolution
<1>5. DeliveredWasReceived'
  <2>1. \A e \in Devices, i \in Items :
          item'[i].delivered # Never /\ Entitled(e, i)' => item[i].delivered # Never /\ Entitled(e, i)
    BY <1>2 DEF Entitled
  <2> QED
    BY <1>1, <2>1, ReceivedEvolves
<1>6. NoStrandedRow'
  BY <1>2 DEF IInv, NoStrandedRow, SamePhone, Pending, Undelivered, Active, Phone, Minted
<1>7. RowsWellFormed' /\ ForeignKeys'
  BY <1>2, ConstantAssumption DEF IInv, RowsWellFormed, ForeignKeys, Minted
<1> QED
  BY <1>1, <1>4, <1>5, <1>6, <1>7 DEF IInv

\* A request that runs names a device that exists.
LEMMA RequestDevice ==
    ASSUME IInv, NEW r \in Requests
    PROVE  /\ request[r] \in Request
           /\ request[r].pc # "idle" => request[r].dev \in Devices /\ Minted(request[r].dev)
BY DEF IInv, TypeOK, Request, RequestsSound, Sound

\* A late claim keeps IInv: an unclaimed row is in no paired device's hands.
LEMMA ClaimInductive ==
    ASSUME IInv, TypeOK', NEW r \in Requests, Claim(r)
    PROVE  IInv'
<1> DEFINE c == request[r].dev
<1>1. c \in Devices /\ Minted(c) /\ UNCHANGED <<device, handed, twinned>>
  BY RequestDevice DEF Claim, legacy
<1>2. /\ Lasting
      /\ OneActivePerInstall'
      /\ \A d \in Devices : /\ Active(d)' <=> Active(d)
                            /\ Minted(d)' <=> Minted(d)
                            /\ Phone(d)' = Phone(d)
                            /\ SamePhone(d)' = SamePhone(d)
  BY <1>1, SameDevices
<1>3. ASSUME NEW i \in Items
      PROVE  /\ item'[i].scope = item[i].scope /\ item'[i].active = item[i].active
             /\ item'[i].delivered = item[i].delivered /\ item'[i].target = item[i].target
             /\ \/ item'[i].claimed = item[i].claimed
                \/ item'[i].claimed = c /\ Claimable(i)
  BY DEF Claim, IInv, TypeOK, ItemRow
<1>4. \A e \in Devices, i \in Items : Minted(e) /\ Mine(e, i) => Mine(e, i)'
  BY <1>1, <1>3, ConstantAssumption
     DEF Mine, Entitled, Pending, Undelivered, Active, Phone, Claimable
<1>5. \A q \in Requests : request'[q] = request[q] \/ Sound(request[q])'
  <2>1. \A q \in Requests \ {r} : request'[q] = request[q]
    BY DEF Claim, Goto, IInv, TypeOK
  <2>2. request'[r].pc = "read" /\ request'[r].dev = c /\ request'[r].ids = {}
    BY RequestDevice DEF Claim, Goto, IInv, TypeOK, Request, RequestsSound, Sound
  <2>3. Sound(request[r])'
    BY <1>1, <2>2, ConstantAssumption DEF Sound, Minted
  <2> QED
    BY <2>1, <2>3
<1>6. HandedMine' /\ RequestsSound'
  BY <1>1, <1>2, <1>4, <1>5, Evolution
<1>7. DeliveredWasReceived'
  <2>1. \A e \in Devices, i \in Items :
          item'[i].delivered # Never /\ Entitled(e, i)' => item[i].delivered # Never /\ Entitled(e, i)
    BY <1>3 DEF Entitled, Claimable, Pending, Undelivered
  <2> QED
    BY <1>1, <1>2, <2>1, ReceivedEvolves
<1>8. NoStrandedRow'
  BY <1>1, <1>3 DEF IInv, NoStrandedRow, SamePhone, Pending, Undelivered, Active, Phone, Minted
<1>9. RowsWellFormed' /\ ForeignKeys'
  BY <1>1, <1>3 DEF IInv, RowsWellFormed, ForeignKeys, Minted, Claimable, Pending, Undelivered
<1> QED
  BY <1>2, <1>6, <1>7, <1>8, <1>9 DEF IInv

\* An acknowledgement keeps IInv: it marks rows of the device that its phone
\* was handed.
LEMMA MarkInductive ==
    ASSUME IInv, TypeOK', NEW r \in Requests, MarkDelivered(r)
    PROVE  IInv'
<1> DEFINE c == request[r].dev
<1>1. c \in Devices /\ Minted(c) /\ request[r].ids \subseteq PhoneHas(c) /\ UNCHANGED <<device, handed, twinned>>
  BY RequestDevice DEF MarkDelivered, legacy, IInv, RequestsSound, Sound
<1>2. /\ Lasting
      /\ OneActivePerInstall'
      /\ \A d \in Devices : /\ Active(d)' <=> Active(d)
                            /\ Minted(d)' <=> Minted(d)
                            /\ Phone(d)' = Phone(d)
                            /\ SamePhone(d)' = SamePhone(d)
  BY <1>1, SameDevices
<1>3. ASSUME NEW i \in Items
      PROVE  /\ item'[i].scope = item[i].scope /\ item'[i].active = item[i].active
             /\ item'[i].claimed = item[i].claimed /\ item'[i].target = item[i].target
             /\ \/ item'[i].delivered = item[i].delivered
                \/ i \in PhoneHas(c) /\ Pending(i) /\ Entitled(c, i) /\ item'[i].delivered # Never
  <2>1. item'[i] = IF i \in Acked(r) THEN [item[i] EXCEPT !.delivered = clock] ELSE item[i]
    BY DEF MarkDelivered
  <2>2. clock # Never /\ item[i] \in ItemRow
    BY DEF IInv, TypeOK, Never
  <2>3. i \in Acked(r) => i \in PhoneHas(c) /\ Pending(i) /\ Entitled(c, i)
    BY <1>1 DEF Acked, PendingFor
  <2> QED
    BY <2>1, <2>2, <2>3 DEF ItemRow
<1>4. \A e \in Devices, i \in Items : Minted(e) /\ Mine(e, i) => Mine(e, i)'
  BY <1>1, <1>3 DEF Mine, Entitled, Pending, Undelivered, Active, Phone
<1>5. \A q \in Requests : request'[q] = request[q] \/ Sound(request[q])'
  BY DEF MarkDelivered, IInv, TypeOK, IdleRequest, Sound
<1>6. HandedMine' /\ RequestsSound'
  BY <1>1, <1>2, <1>4, <1>5, Evolution
<1>7. DeliveredWasReceived'
  <2>1. ASSUME NEW e \in Devices, NEW i \in Items, item'[i].delivered # Never, Entitled(e, i)'
        PROVE  \/ item[i].delivered # Never /\ Entitled(e, i)
               \/ Minted(e) /\ i \in PhoneHas(e)
    <3>1. Entitled(e, i)
      BY <1>3, <2>1 DEF Entitled
    <3>2. CASE item'[i].delivered = item[i].delivered
      BY <2>1, <3>1, <3>2
    <3>3. CASE i \in PhoneHas(c) /\ Entitled(c, i)
      BY <1>1, <3>1, <3>3 DEF Entitled
    <3> QED
      BY <1>3, <3>2, <3>3
  <2> QED
    BY <1>1, <1>2, <2>1, ReceivedEvolves
<1>8. NoStrandedRow'
  BY <1>1, <1>3 DEF IInv, NoStrandedRow, SamePhone, Pending, Undelivered, Active, Phone, Minted
<1>9. RowsWellFormed' /\ ForeignKeys'
  BY <1>1, <1>3 DEF IInv, RowsWellFormed, ForeignKeys, Minted, Pending, Undelivered, Entitled
<1> QED
  BY <1>2, <1>6, <1>7, <1>8, <1>9 DEF IInv

\* The sweep keeps IInv: it only ever takes rows out of circulation.
LEMMA SweepInductive ==
    ASSUME IInv, TypeOK', Sweep
    PROVE  IInv'
<1>1. UNCHANGED <<device, request, handed, twinned>>
  BY DEF Sweep, legacy
<1>2. /\ Lasting
      /\ OneActivePerInstall'
      /\ \A d \in Devices : /\ Active(d)' <=> Active(d)
                            /\ Minted(d)' <=> Minted(d)
                            /\ Phone(d)' = Phone(d)
                            /\ SamePhone(d)' = SamePhone(d)
  BY <1>1, SameDevices
<1>3. ASSUME NEW i \in Items
      PROVE  /\ item'[i].scope = item[i].scope /\ item'[i].delivered = item[i].delivered
             /\ item'[i].claimed = item[i].claimed /\ item'[i].target = item[i].target
             /\ item'[i].active => item[i].active
  <2>1. item[i] \in ItemRow
    BY DEF IInv, TypeOK
  <2> QED
    BY <2>1 DEF Sweep, ItemRow
<1>4. \A e \in Devices, i \in Items : Minted(e) /\ Mine(e, i) => Mine(e, i)'
  BY <1>1, <1>3 DEF Mine, Entitled, Pending, Undelivered, Active, Phone
<1>5. HandedMine' /\ RequestsSound'
  BY <1>1, <1>2, <1>4, Evolution
<1>6. DeliveredWasReceived'
  <2>1. \A e \in Devices, i \in Items :
          item'[i].delivered # Never /\ Entitled(e, i)' => item[i].delivered # Never /\ Entitled(e, i)
    BY <1>3 DEF Entitled
  <2> QED
    BY <1>1, <1>2, <2>1, ReceivedEvolves
<1>7. NoStrandedRow'
  BY <1>1, <1>3 DEF IInv, NoStrandedRow, SamePhone, Pending, Undelivered, Active, Phone, Minted
<1>8. RowsWellFormed' /\ ForeignKeys'
  BY <1>1, <1>3 DEF IInv, RowsWellFormed, ForeignKeys, Minted
<1> QED
  BY <1>2, <1>5, <1>6, <1>7, <1>8 DEF IInv

\* Handing over an answer keeps IInv: every row in it was rightly read, and has
\* stayed rightly the device's since.
LEMMA ReplyInductive ==
    ASSUME IInv, TypeOK', NEW r \in Requests, Reply(r)
    PROVE  IInv'
<1> DEFINE c == request[r].dev
<1>1. /\ UNCHANGED <<device, item, twinned>> /\ c \in Devices /\ Minted(c)
      /\ \A i \in request[r].ids : i \in Items /\ Mine(c, i)
      /\ handed' = [handed EXCEPT ![c] = @ \cup request[r].ids]
      /\ request' = [request EXCEPT ![r] = IdleRequest]
  BY RequestDevice DEF Reply, legacy, IInv, RequestsSound, Sound, Request
<1>2. /\ Lasting
      /\ OneActivePerInstall'
      /\ \A d \in Devices : /\ Active(d)' <=> Active(d)
                            /\ Minted(d)' <=> Minted(d)
                            /\ Phone(d)' = Phone(d)
                            /\ SamePhone(d)' = SamePhone(d)
  BY <1>1, SameDevices
<1>3. /\ \A d \in Devices : handed[d] \subseteq handed'[d]
      /\ \A d \in Devices : \A i \in handed'[d] \ handed[d] : Minted(d) /\ Mine(d, i)
  BY <1>1 DEF IInv, TypeOK
<1>4. \A e \in Devices, i \in Items : Minted(e) /\ Mine(e, i) => Mine(e, i)'
  BY <1>1 DEF Mine, Entitled, Pending, Undelivered, Active, Phone
<1>5. \A q \in Requests : request'[q] = request[q] \/ Sound(request[q])'
  BY <1>1 DEF IInv, TypeOK, IdleRequest, Sound
<1>6. HandedMine' /\ RequestsSound'
  BY <1>2, <1>3, <1>4, <1>5, Evolution
<1>7. DeliveredWasReceived'
  <2>1. \A e \in Devices, i \in Items :
          item'[i].delivered # Never /\ Entitled(e, i)' => item[i].delivered # Never /\ Entitled(e, i)
    BY <1>1 DEF Entitled
  <2> QED
    BY <1>2, <1>3, <2>1, ReceivedEvolves
<1>8. (NoStrandedRow /\ RowsWellFormed /\ ForeignKeys)'
  BY <1>1 DEF IInv, NoStrandedRow, RowsWellFormed, ForeignKeys, SamePhone, Pending, Undelivered,
              Active, Phone, Minted
<1> QED
  BY <1>2, <1>6, <1>7, <1>8 DEF IInv

\* What an import does: it mints devices beside those there are, and writes
\* unused rows.
LEMMA ImportFacts ==
    ASSUME TypeOK, TypeOK', Import
    PROVE  /\ UNCHANGED <<request, handed>>
           /\ twinned \subseteq twinned'
           /\ \A d \in Devices : Minted(d) => device'[d] = device[d]
           /\ \A a, b \in Devices, n \in Installs :
                 /\ a # b /\ ~Minted(a)
                 /\ device'[a].state = "active" /\ device'[a].install = n
                 /\ device'[b].install = n
                 /\ Minted(b) \/ device'[b].state = "active"
                 => n \in twinned'
           /\ \A i \in Items :
                 \/ item'[i] = item[i]
                 \/ item[i].scope = "none" /\ item'[i] \in LegacyRows(device')
<1>1. PICK D \in SUBSET {d \in LegacyDevices : ~Minted(d)} :
         \E new \in [D -> {row \in DeviceRow : row.state # "unminted"}] :
           LET dev == [d \in Devices |-> IF d \in D THEN new[d] ELSE device[d]]
           IN  /\ device' = dev
               /\ twinned' = twinned \cup Twinned(D, dev)
               /\ \E S \in SUBSET (LegacyItems \cap Free) : \E row \in [S -> LegacyRows(dev)] :
                    item' = [i \in Items |-> IF i \in S THEN row[i] ELSE item[i]]
  BY DEF Import
<1>2. PICK new \in [D -> {row \in DeviceRow : row.state # "unminted"}] :
        /\ device' = [d \in Devices |-> IF d \in D THEN new[d] ELSE device[d]]
        /\ twinned' = twinned \cup Twinned(D, device')
        /\ \E S \in SUBSET (LegacyItems \cap Free) : \E row \in [S -> LegacyRows(device')] :
             item' = [i \in Items |-> IF i \in S THEN row[i] ELSE item[i]]
  BY <1>1
<1>3. PICK S \in SUBSET (LegacyItems \cap Free) : \E row \in [S -> LegacyRows(device')] :
             item' = [i \in Items |-> IF i \in S THEN row[i] ELSE item[i]]
  BY <1>2
<1>4. ASSUME NEW d \in Devices, Minted(d) PROVE device'[d] = device[d]
  BY <1>2, <1>4
<1>5. ASSUME NEW a \in Devices, NEW b \in Devices, NEW n \in Installs, a # b, ~Minted(a),
             device'[a].state = "active", device'[a].install = n, device'[b].install = n,
             Minted(b) \/ device'[b].state = "active"
      PROVE  n \in twinned'
  <2>1. a \in D
    BY <1>2, <1>5 DEF Minted
  <2>2. device'[a] \in DeviceRow
    BY DEF TypeOK
  <2>3. device'[a] = [state |-> "active", install |-> n]
    BY <1>5, <2>2 DEF DeviceRow
  <2> QED
    BY <1>2, <1>5, <2>1, <2>3 DEF Twinned
<1>6. ASSUME NEW i \in Items
      PROVE  \/ item'[i] = item[i]
             \/ item[i].scope = "none" /\ item'[i] \in LegacyRows(device')
  BY <1>3 DEF Free
<1> QED
  BY <1>2, <1>4, <1>5, <1>6 DEF Import

\* An import keeps IInv: nobody holds an unused id, its rows wait for active
\* devices, and the installs it gives a second device are in twinned.
LEMMA ImportInductive ==
    ASSUME IInv, TypeOK', Import
    PROVE  IInv'
<1>1. /\ TypeOK /\ UNCHANGED <<request, handed>>
      /\ twinned \subseteq twinned'
      /\ \A d \in Devices : Minted(d) => device'[d] = device[d]
  BY ImportFacts DEF IInv
<1>2. ASSUME NEW i \in Items
      PROVE  \/ item'[i] = item[i]
             \/ /\ item[i].scope = "none"
                /\ item'[i].claimed = NoDevice /\ item'[i].delivered = Never
                /\ \/ /\ item'[i].scope = "target_device"
                      /\ item'[i].target \in Devices /\ Active(item[i].target)'
                   \/ item'[i].scope = "legacy_any" /\ item'[i].target = NoDevice
  <2>1. CASE item'[i] \in LegacyRows(device') /\ item[i].scope = "none"
    <3>1. /\ item'[i].claimed = NoDevice /\ item'[i].delivered = Never
          /\ \/ /\ item'[i].scope = "target_device"
                /\ item'[i].target \in {d \in Devices : device'[d].state = "active"}
             \/ item'[i].scope = "legacy_any" /\ item'[i].target = NoDevice
      BY <1>1, <2>1, LegacyRowsType
    <3> QED
      BY <2>1, <3>1 DEF Active
  <2>2. CASE item'[i] = item[i]
    BY <2>2
  <2>3. \/ item'[i] = item[i]
        \/ item[i].scope = "none" /\ item'[i] \in LegacyRows(device')
    BY <1>1, ImportFacts
  <2> QED
    BY <2>1, <2>2, <2>3
<1>3. /\ Lasting
      /\ \A d \in Devices : Minted(d) => /\ Active(d)' <=> Active(d)
                                        /\ Minted(d)'
                                        /\ Phone(d)' = Phone(d)
  BY <1>1 DEF Lasting, Minted, Active, Phone
<1>4. ASSUME NEW i \in Items, item[i].scope = "target_device"
      PROVE  item[i].target \in Devices /\ Minted(item[i].target)
  <2>1. item[i] \in ItemRow
    BY <1>1 DEF TypeOK
  <2> QED
    BY <1>4, <2>1 DEF ItemRow, IInv, RowsWellFormed, ForeignKeys
<1>5. ASSUME NEW e \in Devices, NEW i \in Items, Minted(e), Mine(e, i) PROVE Mine(e, i)'
  <2>1. item'[i] = item[i]
    BY <1>2, <1>5 DEF Mine
  <2>2. item[i].scope = "target_device" => Phone(item[i].target)' = Phone(item[i].target)
    BY <1>3, <1>4, <2>1 DEF Phone
  <2>3. Phone(e)' = Phone(e) /\ (Active(e)' <=> Active(e)) /\ item'[i].scope = item[i].scope
        /\ (Pending(i)' <=> Pending(i)) /\ (Entitled(e, i)' <=> Entitled(e, i))
    BY <1>3, <1>5, <2>1 DEF Pending, Entitled
  <2> QED
    BY <1>5, <2>2, <2>3 DEF Mine
<1>6. HandedMine' /\ RequestsSound'
  BY <1>1, <1>3, <1>5, Evolution
<1>7. DeliveredWasReceived'
  <2>1. \A e \in Devices, i \in Items :
          item'[i].delivered # Never /\ Entitled(e, i)' => item[i].delivered # Never /\ Entitled(e, i)
    BY <1>2 DEF Entitled
  <2> QED
    BY <1>1, <1>3, <2>1, ReceivedEvolves
<1>8. ASSUME NEW a \in Devices, NEW b \in Devices, a # b, NEW n \in Installs,
             Active(a)', ~Minted(a), device'[a].install = n, device'[b].install = n,
             Minted(b) \/ Active(b)'
      PROVE  n \in twinned'
  BY <1>1, <1>8, ImportFacts DEF Active
<1>9. OneActivePerInstall'
  <2> SUFFICES ASSUME NEW a \in Devices, NEW b \in Devices, Active(a)', Active(b)', a # b,
                      device'[a].install = device'[b].install,
                      device'[a].install \notin twinned' \cup {NoInstall}
               PROVE  FALSE
    BY DEF OneActivePerInstall
  <2>1. device'[a].install \in Installs
    BY DEF TypeOK, DeviceRow
  <2>2. Minted(a) /\ Minted(b)
    BY <1>8, <2>1
  <2>3. Active(a) /\ Active(b) /\ device[a] = device'[a] /\ device[b] = device'[b]
    BY <1>1, <1>3, <2>2
  <2> QED
    BY <1>1, <2>3 DEF IInv, OneActivePerInstall
<1>10. NoStrandedRow'
  <2> SUFFICES ASSUME NEW i \in Items, Pending(i)', item[i].scope' = "target_device",
                      ~Active(item[i].target)', Phone(item[i].target)' \notin twinned',
                      NEW f \in Devices, Minted(f)', Phone(f)' = Phone(item[i].target)', Active(f)'
               PROVE  FALSE
    BY DEF NoStrandedRow, SamePhone
  <2> DEFINE e == item[i].target
  <2>1. item'[i] = item[i]
    BY <1>2
  <2>2. e \in Devices /\ Minted(e) /\ Pending(i) /\ item[i].scope = "target_device" /\ e = item'[i].target
    BY <1>4, <2>1 DEF Pending
  <2>3. ~Active(e) /\ Phone(e)' = Phone(e) /\ Phone(f)' = Phone(e) /\ device'[e] = device[e]
    BY <1>1, <1>3, <2>1, <2>2 DEF Active, Phone
  <2>4. CASE Minted(f)
    <3>1. Active(f) /\ Phone(f) = Phone(e) /\ Phone(e) \notin twinned
      BY <1>1, <1>3, <2>1, <2>3, <2>4 DEF Phone
    <3> QED
      BY <2>2, <2>3, <2>4, <3>1 DEF IInv, NoStrandedRow, SamePhone
  <2>5. CASE ~Minted(f)
    <3>1. f # e /\ device'[f] \in DeviceRow /\ device[e] \in DeviceRow
      BY <1>1, <2>2, <2>5 DEF TypeOK
    <3>2. /\ device'[f].install \in Installs
          /\ device'[f].install = device'[e].install
          /\ device'[f].install = Phone(e)
      BY <2>2, <2>3, <3>1, ConstantAssumption DEF Phone, DeviceRow
    <3>3. device'[f].install \in twinned'
      BY <1>8, <2>2, <2>5, <3>1, <3>2
    <3> QED
      BY <2>1, <2>3, <3>2, <3>3 DEF Phone
  <2> QED
    BY <2>4, <2>5
<1>11. RowsWellFormed' /\ ForeignKeys'
  <2> SUFFICES ASSUME NEW i \in Items
               PROVE  /\ item'[i].scope = "none" => ~item'[i].active /\ item'[i].delivered = Never
                      /\ item'[i].scope = "target_device" => item'[i].target # NoDevice
                      /\ item'[i].target # NoDevice => Minted(item[i].target)'
                      /\ item'[i].claimed # NoDevice => Minted(item[i].claimed)'
    BY DEF RowsWellFormed, ForeignKeys
  <2>1. CASE item'[i] = item[i]
    <3>1. item[i] \in ItemRow
      BY <1>1 DEF TypeOK
    <3> QED
      BY <1>3, <2>1, <3>1 DEF IInv, RowsWellFormed, ForeignKeys, ItemRow, Minted
  <2>2. CASE /\ item'[i].scope = "target_device"
             /\ item'[i].target \in Devices /\ Active(item[i].target)'
             /\ item'[i].claimed = NoDevice
    BY <2>2, ConstantAssumption DEF Active, Minted
  <2>3. CASE item'[i].scope = "legacy_any" /\ item'[i].target = NoDevice /\ item'[i].claimed = NoDevice
    BY <2>3
  <2> QED
    BY <1>2, <2>1, <2>2, <2>3
<1> QED
  BY <1>6, <1>7, <1>9, <1>10, <1>11 DEF IInv

\* What a drain reads is the device's to be shown.
LEMMA ReadSound ==
    ASSUME IInv, NEW d \in Devices, Minted(d), NEW i \in PendingFor(d)
    PROVE  Mine(d, i)
BY DEF PendingFor, Entitled, Mine, IInv, RowsWellFormed, Pending, Undelivered

-----------------------------------------------------------------------------
(* The inductive invariant, action by action *)

LEMMA StepInductive == IInv /\ [Next]_vars => IInv'
<1> SUFFICES ASSUME IInv, [Next]_vars PROVE IInv'
  OBVIOUS
<1>type. TypeOK /\ TypeOK'
  BY StepType DEF IInv
<1>idle. ASSUME NEW r \in Requests, request' = [request EXCEPT ![r] = IdleRequest]
         PROVE  \A q \in Requests : request'[q] = request[q] \/ Sound(request[q])'
  BY <1>idle, <1>type DEF TypeOK, IdleRequest, Sound
<1>1. ASSUME NEW d \in Devices, NEW n \in Installs, Pair(d, n) PROVE IInv'
  BY <1>1, <1>type, PairInductive
<1>2. ASSUME Unpair PROVE IInv'
  <2>1. PICK D \in SUBSET Devices : Deactivate(D)
    BY <1>2 DEF Unpair
  <2> QED
    BY <2>1, <1>type, DeactivateInductive
<1>3. ASSUME NEW t, Append(t) PROVE IInv'
  <2>1. PICK d \in ActiveDevices, i \in Free : item' = [item EXCEPT ![i] = NewRow(d, "message")]
    BY <1>3 DEF Append, Resolved
  <2>2. \A j \in Items : \/ item'[j] = item[j]
                         \/ item[j].scope = "none" /\ item'[j] = NewRow(d, "message")
    <3>1. i \in Items /\ item[i].scope = "none"
      BY DEF Free
    <3>2. item' = [j \in Items |-> IF j = i THEN NewRow(d, "message") ELSE item[j]]
      BY <1>type, <2>1 DEF TypeOK
    <3> QED
      BY <3>1, <3>2
  <2>3. "message" \in Kinds
    BY DEF Kinds
  <2> QED
    BY <1>3, <1>type, <2>2, <2>3, InsertInductive DEF Append, legacy
<1>4. ASSUME Sweep PROVE IInv'
  BY <1>4, <1>type, SweepInductive
<1>5. ASSUME Tick PROVE IInv'
  BY <1>5, <1>type, Quiet DEF Tick, legacy
<1>6. ASSUME NEW p \in Producers, NEW k \in Kinds, Snapshot(p, k) PROVE IInv'
  BY <1>6, <1>type, Quiet DEF Snapshot, legacy
<1>7. ASSUME NEW p \in Producers, FanOut(p) PROVE IInv'
  <2>1. CASE UNCHANGED item
    BY <1>7, <1>type, <2>1, Quiet DEF FanOut, legacy
  <2>2. ASSUME producer[p].ids \subseteq ActiveDevices,
               NEW S \in SUBSET Free, NEW to \in [S -> producer[p].ids],
               item' = [i \in Items |-> IF i \in S THEN NewRow(to[i], producer[p].kind)
                                        ELSE item[i]]
        PROVE  IInv'
    <3>1. producer[p].kind \in Kinds
      BY <1>type DEF TypeOK, Producer
    <3>2. \A i \in Items : \/ item'[i] = item[i]
                           \/ /\ item[i].scope = "none" /\ to[i] \in ActiveDevices
                              /\ item'[i] = NewRow(to[i], producer[p].kind)
      BY <2>2 DEF Free
    <3> QED
      BY <1>7, <1>type, <3>1, <3>2, InsertInductive DEF FanOut, legacy
  <2> QED
    BY <1>7, <2>1, <2>2 DEF FanOut
<1>8. ASSUME NEW r \in Requests, NEW d \in Devices, Drain(r, d) PROVE IInv'
  <2>1. \A q \in Requests : request'[q] = request[q] \/ Sound(request[q])'
    BY <1>8, <1>type, ConstantAssumption DEF Drain, TypeOK, IdleRequest, Sound, Minted, Active
  <2> QED
    BY <1>8, <1>type, <2>1, Quiet DEF Drain, legacy
<1>9. ASSUME NEW r \in Requests, CheckActive(r) PROVE IInv'
  <2>1. \A q \in Requests : request'[q] = request[q] \/ Sound(request[q])'
    <3>1. PICK pc \in {"claimable", "answer"} : Goto(r, pc)
      BY <1>9 DEF CheckActive
    <3>2. request[r].ids = {} /\ request[r].dev # NoDevice /\ Minted(request[r].dev)
      BY <1>9 DEF CheckActive, IInv, RequestsSound, Sound
    <3> QED
      BY <1>9, <1>type, <3>1, <3>2 DEF Goto, CheckActive, TypeOK, Request, Sound, Minted
  <2> QED
    BY <1>9, <1>type, <2>1, Quiet DEF CheckActive, legacy
<1>10. ASSUME NEW r \in Requests, SeeClaimable(r) PROVE IInv'
  <2>1. \A q \in Requests : request'[q] = request[q] \/ Sound(request[q])'
    <3>1. PICK pc \in {"claim", "read"} : Goto(r, pc)
      BY <1>10 DEF SeeClaimable
    <3>2. request[r].ids = {} /\ request[r].dev # NoDevice /\ Minted(request[r].dev)
      BY <1>10 DEF SeeClaimable, IInv, RequestsSound, Sound
    <3> QED
      BY <1>10, <1>type, <3>1, <3>2 DEF Goto, SeeClaimable, TypeOK, Request, Sound, Minted
  <2> QED
    BY <1>10, <1>type, <2>1, Quiet DEF SeeClaimable, legacy
<1>11. ASSUME NEW r \in Requests, Claim(r) PROVE IInv'
  BY <1>11, <1>type, ClaimInductive
<1>12. ASSUME NEW r \in Requests, Read(r) PROVE IInv'
  <2>1. request[r].dev \in Devices /\ Minted(request[r].dev)
    BY <1>12, RequestDevice DEF Read
  <2>2. /\ request'[r].pc = "answer" /\ request'[r].dev = request[r].dev
        /\ request'[r].ids = PendingFor(request[r].dev)
        /\ \A q \in Requests \ {r} : request'[q] = request[q]
    BY <1>12, <1>type DEF Read, TypeOK, Request
  <2>3. \A i \in PendingFor(request[r].dev) : Mine(request[r].dev, i)
    BY <2>1, ReadSound
  <2>4. (\A i \in request[r].ids : Mine(request[r].dev, i))'
    BY <1>12, <2>2, <2>3 DEF Read, Mine, Entitled, Pending, Undelivered, Active, Phone
  <2>5. Sound(request[r])'
    BY <1>12, <2>1, <2>2, <2>4, ConstantAssumption DEF Sound, Read, Minted
  <2> QED
    BY <1>12, <1>type, <2>2, <2>5, Quiet DEF Read, legacy
<1>13. ASSUME NEW r \in Requests, Park(r) PROVE IInv'
  <2>1. request[r].dev # NoDevice /\ Minted(request[r].dev)
    BY <1>13 DEF Park, IInv, RequestsSound, Sound
  <2>2. \A q \in Requests : request'[q] = request[q] \/ Sound(request[q])'
    BY <1>13, <1>type, <2>1 DEF Park, TypeOK, Request, Sound, Minted
  <2> QED
    BY <1>13, <1>type, <2>2, Quiet DEF Park, legacy
<1>14. ASSUME NEW r \in Requests, Reply(r) PROVE IInv'
  BY <1>14, <1>type, ReplyInductive
<1>15. ASSUME NEW r \in Requests, Abandon(r) PROVE IInv'
  BY <1>15, <1>idle, <1>type, Quiet DEF Abandon, legacy
<1>16. ASSUME NEW p \in Producers, DropFanOut(p) PROVE IInv'
  BY <1>16, <1>type, Quiet DEF DropFanOut, legacy
<1>17. ASSUME NEW r \in Requests, NEW d \in Devices, NEW S \in SUBSET PhoneHas(d), Ack(r, d, S)
       PROVE IInv'
  <2>1. /\ request'[r].pc = "mark" /\ request'[r].dev = d /\ request'[r].ids \subseteq PhoneHas(d)
        /\ \A q \in Requests \ {r} : request'[q] = request[q]
    BY <1>17, <1>type DEF Ack, TypeOK, IdleRequest
  <2>2. Sound(request[r])'
    BY <1>17, <2>1, ConstantAssumption
       DEF Ack, Sound, Minted, Active, PhoneHas, SamePhone, Phone
  <2> QED
    BY <1>17, <1>type, <2>1, <2>2, Quiet DEF Ack, legacy
<1>18. ASSUME NEW r \in Requests, MarkDelivered(r) PROVE IInv'
  BY <1>18, <1>type, MarkInductive
<1>19. ASSUME Import PROVE IInv'
  BY <1>19, <1>type, ImportInductive
<1>20. CASE UNCHANGED vars
  BY <1>20, <1>type, Quiet DEF vars, legacy
<1> QED
  BY <1>1, <1>2, <1>3, <1>4, <1>5, <1>6, <1>7, <1>8, <1>9, <1>10, <1>11, <1>12, <1>13,
     <1>14, <1>15, <1>16, <1>17, <1>18, <1>19, <1>20
     DEF Next, Work, Store, Write, Serve, Lose

-----------------------------------------------------------------------------
(* The properties, for every instance *)

\* The inductive invariant holds.
THEOREM Inductive == Spec => []IInv
BY InitInductive, StepInductive, PTL DEF Spec

\* Rotation leaves one credential per install (create_paired_device), whatever was
\* imported and when (_migrate_legacy_json): the only install with two is one the
\* import gave a second device, and it has one again when its phone next pairs.
THEOREM SingleCredential == Spec => []OneActivePerInstall
<1>1. IInv => OneActivePerInstall
  BY DEF IInv
<1> QED
  BY <1>1, Inductive, PTL

\* A pending row never waits for a dead device while its phone has a live one
\* (the re-homing UPDATE of create_paired_device).
THEOREM NothingStranded == Spec => []NoStrandedRow
<1>1. IInv => NoStrandedRow
  BY DEF IInv
<1> QED
  BY <1>1, Inductive, PTL

\* A row shown to a paired device is that device's to acknowledge until it is
\* settled (the claim and the routing clause of pending and mark_delivered).
THEOREM HoldersMayAck == Spec => []HolderMayAck
<1>1. IInv => HolderMayAck
  <2> SUFFICES ASSUME IInv, NEW d \in Devices, NEW i \in Holding(d), Active(d), Pending(i)
               PROVE  Entitled(d, i)
    BY DEF HolderMayAck
  <2>1. Mine(d, i)
    BY DEF Holding, IInv, HandedMine, RequestsSound, Sound
  <2> QED
    BY <2>1 DEF Mine
<1> QED
  BY <1>1, Inductive, PTL

\* No two paired devices hold the same pending row: what one was shown, or is
\* being answered, the other was not.
NoSharedRow ==
    \A d, e \in Devices :
        Active(d) /\ Active(e) /\ d # e => \A i \in Holding(d) \cap Holding(e) : ~Pending(i)

\* A legacy row is claimed by one device only, a targeted row has one target.
THEOREM NothingShared == Spec => []NoSharedRow
<1>1. HolderMayAck => NoSharedRow
  BY DEF HolderMayAck, NoSharedRow, Entitled
<1> QED
  BY <1>1, HoldersMayAck, PTL

\* Only what reached a phone counts as delivered to it (mark_delivered).
THEOREM DeliveredReceived == Spec => []DeliveredWasReceived
<1>1. IInv => DeliveredWasReceived
  BY DEF IInv
<1> QED
  BY <1>1, Inductive, PTL
=============================================================================
