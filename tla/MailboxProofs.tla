--------------------------- MODULE MailboxProofs ---------------------------
(***************************************************************************)
(* Delivery implements Mailbox, for every instance: initial states map to  *)
(* initial states and every step to a step of Mailbox or to none.  The     *)
(* argument is the inductive invariant of DeliveryProofs: a request only   *)
(* carries rows addressed to the phone it serves, and acknowledges only    *)
(* rows that phone was handed.                                             *)
(***************************************************************************)
EXTENDS DeliveryProofs

\* What Mailbox sees of a row is typed as a letter.
LEMMA LettersType ==
    ASSUME TypeOK, RowsWellFormed
    PROVE  /\ Posted \in [Items -> Promise!Letter]
           /\ Shown \in [Phones -> SUBSET Items]
<1>1. ASSUME NEW i \in Items
      PROVE  /\ Status(item[i]) \in Promise!Statuses
             /\ Addressee(item[i]) \in Phones \cup {NoDevice}
             /\ item[i].kind \in Kinds
  <2>1. item[i] \in ItemRow
    BY DEF TypeOK
  <2>2. \A d \in Devices : Phone(d) \in Phones
    BY DEF TypeOK, DeviceRow, Phone, Phones
  <2>3. item[i].scope = "target_device" => item[i].target \in Devices
    BY <2>1 DEF RowsWellFormed, ItemRow
  <2> QED
    BY <2>1, <2>2, <2>3 DEF ItemRow, Status, Addressee, Promise!Statuses
<1>2. Posted \in [Items -> Promise!Letter]
  BY <1>1 DEF Posted, Promise!Letter, Promise!Kinds, Kinds
<1> QED
  BY <1>2 DEF Shown, TypeOK

\* So is what it sees after a step.
LEMMA LettersTypeNext == TypeOK' /\ RowsWellFormed' => (Posted \in [Items -> Promise!Letter])'
<1>1. TypeOK /\ RowsWellFormed => Posted \in [Items -> Promise!Letter]
  BY LettersType
<1> QED
  BY <1>1, PTL

\* Empty tables are an empty mailbox.
LEMMA InitRefines == Init => Promise!Init
<1> SUFFICES ASSUME Init PROVE Promise!Init
  OBVIOUS
<1>1. Posted \in [Items -> Promise!Letter]
  BY InitInductive, LettersType DEF IInv
<1>2. \A i \in Items : Posted[i].status = "absent"
  BY DEF Posted, Status, NoRow, Init
<1>3. Shown = [p \in Phones |-> {}]
  BY DEF Shown, Init
<1>4. Posted \in [Items -> {l \in Promise!Letter : l.status = "absent"}]
  BY <1>1, <1>2 DEF Posted
<1> QED
  BY <1>3, <1>4 DEF Promise!Init

\* Nobody was shown anything new, no letter changed: Mailbox stutters.
LEMMA Stutters ==
    ASSUME TypeOK, TypeOK', IInv,
           \A d \in Devices : Minted(d) => Phone(d)' = Phone(d),
           \A i \in Items : /\ item'[i].scope = item[i].scope
                            /\ item'[i].kind = item[i].kind
                            /\ item'[i].active = item[i].active
                            /\ item'[i].delivered = item[i].delivered
                            /\ item[i].scope = "target_device"
                                 => Phone(item[i].target)' = Phone(item[i].target),
           handed' = handed
    PROVE  Posted' = Posted /\ Shown' = Shown
<1>1. Posted' = Posted
  BY DEF Posted, Status, Addressee, Phone
<1>2. \A d \in Devices : handed[d] # {} => Phone(d)' = Phone(d)
  BY DEF IInv, HandedMine
<1>3. ASSUME NEW p \in Phones
      PROVE  (UNION {handed[d] : d \in {e \in Devices : Phone(e) = p}})'
               = UNION {handed[d] : d \in {e \in Devices : Phone(e) = p}}
  BY <1>2 DEF Phone
<1> QED
  BY <1>1, <1>3 DEF Shown

-----------------------------------------------------------------------------
(* The steps Mailbox sees *)

\* Rows inserted together are letters posted together.
LEMMA InsertPosts ==
    ASSUME TypeOK, TypeOK', UNCHANGED <<device, handed>>,
           NEW S \in SUBSET Free, NEW to \in [S -> Devices], NEW k \in Kinds,
           item' = [i \in Items |-> IF i \in S THEN NewRow(to[i], k) ELSE item[i]]
    PROVE  Promise!Next
<1> DEFINE addr == [i \in S |-> Phone(to[i])]
<1>1. addr \in [S -> Phones] /\ DOMAIN addr = S /\ S \subseteq Items
  BY DEF Phone, Phones, TypeOK, DeviceRow, Free
<1>2. S \subseteq Promise!WithStatus("absent")
  BY DEF Free, Promise!WithStatus, Posted, Status
<1>3. ASSUME NEW i \in Items
      PROVE  Posted'[i] = IF i \in S THEN [status |-> "queued", to |-> addr[i], kind |-> k]
                           ELSE Posted[i]
  <2>1. CASE i \in S
    <3>1. item'[i] = NewRow(to[i], k)
      BY <2>1
    <3> QED
      BY <2>1, <3>1 DEF NewRow, Posted, Status, Addressee, Phone
  <2>2. CASE i \notin S
    BY <2>2 DEF Posted, Status, Addressee, Phone
  <2> QED
    BY <2>1, <2>2
<1>4. Posted' = [i \in Items |-> IF i \in S
                                  THEN [status |-> "queued", to |-> addr[i], kind |-> k]
                                  ELSE Posted[i]]
  BY <1>3 DEF Posted
<1>5. Shown' = Shown
  BY DEF Shown, Phone
<1>6. Promise!Post(addr, k)
  BY <1>1, <1>2, <1>4, <1>5 DEF Promise!Post
<1> QED
  BY <1>1, <1>6 DEF Promise!Next, Promise!Kinds, Kinds

\* An answer that arrives shows its rows to the phone of the device.
LEMMA ReplyShows ==
    ASSUME IInv, IInv', NEW r \in Requests, Reply(r)
    PROVE  Promise!Next
<1> DEFINE c == request[r].dev
           S == request[r].ids
<1>1. /\ UNCHANGED <<device, item>> /\ c \in Devices /\ S \subseteq Items
      /\ \A i \in S : Mine(c, i)
      /\ handed' = [handed EXCEPT ![c] = @ \cup S]
  BY RequestDevice DEF Reply, IInv, RequestsSound, Sound, Request
<1>2. Phone(c) \in Phones
  BY <1>1 DEF Phone, Phones, IInv, TypeOK, DeviceRow
<1>3. Posted' = Posted
  BY <1>1 DEF Posted, Status, Addressee, Phone
<1>4. \A i \in S : /\ Posted[i].status # "absent"
                   /\ Posted[i].to \in {Phone(c), NoDevice}
  BY <1>1 DEF Posted, Mine, Status, Addressee
<1>5. Shown' = [Shown EXCEPT ![Phone(c)] = @ \cup S]
  <2>1. ASSUME NEW p \in Phones
        PROVE  Shown'[p] = IF p = Phone(c) THEN Shown[p] \cup S ELSE Shown[p]
    BY <1>1 DEF Shown, Phone, IInv, TypeOK
  <2> QED
    BY <2>1 DEF Shown
<1>6. Promise!Show(Phone(c), S)
  BY <1>3, <1>4, <1>5 DEF Promise!Show
<1> QED
  BY <1>1, <1>2, <1>6 DEF Promise!Next

\* An acknowledgement confirms letters the phone was shown.
LEMMA MarkConfirms ==
    ASSUME IInv, IInv', NEW r \in Requests, MarkDelivered(r)
    PROVE  Promise!Next
<1> DEFINE c == request[r].dev
           S == Acked(r)
<1>1. /\ c \in Devices /\ UNCHANGED <<device, handed>>
      /\ request[r].ids \subseteq PhoneHas(c)
  BY RequestDevice DEF MarkDelivered, IInv, RequestsSound, Sound
<1>2. Phone(c) \in Phones
  BY <1>1 DEF Phone, Phones, IInv, TypeOK, DeviceRow
<1>3. PhoneHas(c) \subseteq Shown[Phone(c)]
  BY <1>2 DEF PhoneHas, SamePhone, Shown
<1>4. S \subseteq Items /\ S \subseteq Shown[Phone(c)] /\ \A i \in S : Pending(i) /\ item[i].scope # "none"
  BY <1>1, <1>3 DEF Acked, PendingFor, Entitled
<1>5. S \subseteq Promise!WithStatus("queued")
  BY <1>4 DEF Promise!WithStatus, Posted, Status, Pending, Undelivered
<1>6. ASSUME NEW i \in Items
      PROVE  Posted'[i] = IF i \in S THEN [Posted[i] EXCEPT !.status = "delivered"]
                           ELSE Posted[i]
  <2>1. item[i] \in ItemRow /\ clock # Never
    BY DEF IInv, TypeOK, Never
  <2>2. CASE i \in S
    <3>1. item'[i] = [item[i] EXCEPT !.delivered = clock]
      BY <2>2 DEF MarkDelivered
    <3>2. Status(item'[i]) = "delivered"
      BY <1>4, <2>1, <2>2, <3>1 DEF Status, Pending, Undelivered, ItemRow
    <3>3. Addressee(item[i])' = Addressee(item[i]) /\ item'[i].kind = item[i].kind
      BY <1>1, <2>1, <3>1 DEF Addressee, Phone, ItemRow
    <3> QED
      BY <2>2, <3>2, <3>3 DEF Posted
  <2>3. CASE i \notin S
    <3>1. item'[i] = item[i]
      BY <2>3 DEF MarkDelivered
    <3> QED
      BY <1>1, <2>3, <3>1 DEF Posted, Status, Addressee, Phone
  <2> QED
    BY <2>2, <2>3
<1>7. Posted' = Promise!Marked(S, "delivered")
  <2> HIDE DEF S
  <2> QED
    BY <1>6 DEF Posted, Promise!Marked
<1>8. Shown' = Shown
  BY <1>1 DEF Shown, Phone
<1>9. Promise!Confirm(Phone(c), S)
  BY <1>4, <1>5, <1>7, <1>8 DEF Promise!Confirm
<1> QED
  BY <1>2, <1>4, <1>9 DEF Promise!Next

\* The sweep forgets artifacts past retention and nothing else.
LEMMA SweepForgets ==
    ASSUME IInv, IInv', Sweep
    PROVE  Promise!Next
<1> DEFINE scrub == {i \in Items : Posted[i].status = "delivered" /\ Scrubbable(item[i])}
           expire == {i \in Items : Posted[i].status = "queued" /\ Expirable(item[i])}
<1>1. UNCHANGED <<device, handed>>
  BY DEF Sweep
<1>2. \A i \in Items : /\ Posted[i].status = Status(item[i])
                       /\ Posted[i].to = Addressee(item[i])
                       /\ Posted[i].kind = item[i].kind
  BY DEF Posted
<1>3. ASSUME NEW i \in Items
      PROVE  Posted'[i] = IF i \in expire THEN [Posted[i] EXCEPT !.status = "expired"]
                           ELSE IF i \in scrub THEN [Posted[i] EXCEPT !.status = "scrubbed"]
                           ELSE Posted[i]
  <2>1. /\ item[i] \in ItemRow
        /\ item[i].scope = "none" => ~item[i].active /\ item[i].delivered = Never
    BY DEF IInv, TypeOK, RowsWellFormed
  <2>2. ASSUME Addressee(item[i])' = Addressee(item[i]), item'[i].kind = item[i].kind,
               NEW s, Status(item'[i]) = s
        PROVE  Posted'[i] = [Posted[i] EXCEPT !.status = s]
    BY <2>2 DEF Posted
  <2>3. CASE Scrubbable(item[i])
    <3>1. item'[i] = [item[i] EXCEPT !.text = FALSE, !.active = FALSE]
      BY <2>3 DEF Sweep
    <3>2. /\ item'[i].scope = item[i].scope /\ item'[i].kind = item[i].kind
          /\ item'[i].target = item[i].target /\ item'[i].delivered = item[i].delivered
          /\ item'[i].active = FALSE
      BY <2>1, <3>1 DEF ItemRow
    <3>3. Status(item'[i]) = "scrubbed"
      BY <2>1, <2>3, <3>2 DEF Status, Scrubbable
    <3>4. Addressee(item[i])' = Addressee(item[i])
      BY <1>1, <3>2 DEF Addressee, Phone
    <3>5. Status(item[i]) = IF item[i].active THEN "delivered" ELSE "scrubbed"
      BY <2>1, <2>3 DEF Status, Scrubbable
    <3>6. i \notin expire /\ (i \in scrub <=> Posted[i].status = "delivered")
      BY <2>3 DEF Scrubbable, Expirable
    <3>7. Posted'[i] = [Posted[i] EXCEPT !.status = "scrubbed"]
      BY <2>2, <3>2, <3>3, <3>4
    <3>8. Posted[i].status = "scrubbed" => Posted'[i] = Posted[i]
      BY <3>7 DEF Posted
    <3>9. Posted[i].status \in {"delivered", "scrubbed"}
      BY <1>2, <3>5
    <3> HIDE DEF expire, scrub
    <3> QED
      BY <3>6, <3>7, <3>8, <3>9
  <2>4. CASE ~Scrubbable(item[i]) /\ Expirable(item[i])
    <3>1. item'[i] = [item[i] EXCEPT !.active = FALSE]
      BY <2>4 DEF Sweep
    <3>2. /\ item'[i].scope = item[i].scope /\ item'[i].kind = item[i].kind
          /\ item'[i].target = item[i].target /\ item'[i].delivered = item[i].delivered
          /\ item'[i].active = FALSE
      BY <2>1, <3>1 DEF ItemRow
    <3>3. Status(item'[i]) = "expired" /\ Status(item[i]) = "queued"
      BY <2>1, <2>4, <3>2 DEF Status, Expirable
    <3>4. Addressee(item[i])' = Addressee(item[i])
      BY <1>1, <3>2 DEF Addressee, Phone
    <3>5. i \in expire
      BY <1>2, <2>4, <3>3
    <3>6. Posted'[i] = [Posted[i] EXCEPT !.status = "expired"]
      BY <2>2, <3>2, <3>3, <3>4
    <3> HIDE DEF expire, scrub
    <3> QED
      BY <3>5, <3>6
  <2>5. CASE ~Scrubbable(item[i]) /\ ~Expirable(item[i])
    <3>1. item'[i] = item[i]
      BY <2>5 DEF Sweep
    <3>2. Addressee(item[i])' = Addressee(item[i])
      BY <1>1, <3>1 DEF Addressee, Phone
    <3>3. Posted'[i] = Posted[i]
      BY <3>1, <3>2 DEF Posted
    <3>4. i \notin expire
      BY <2>5
    <3>5. i \notin scrub
      BY <2>5
    <3> HIDE DEF expire, scrub
    <3> QED
      BY <3>3, <3>4, <3>5
  <2> QED
    BY <2>3, <2>4, <2>5
<1>4. /\ expire \subseteq Promise!WithStatus("queued")
      /\ scrub \subseteq Promise!WithStatus("delivered")
      /\ \A i \in expire \cup scrub : Posted[i].kind = "artifact"
  <2>1. \A i \in expire \cup scrub : i \in Items /\ item[i].kind = "artifact"
    BY DEF Scrubbable, Expirable
  <2>2. \A i \in Items : Posted[i].kind = item[i].kind
    BY <1>2
  <2>3. expire \subseteq Promise!WithStatus("queued") /\ scrub \subseteq Promise!WithStatus("delivered")
    BY DEF Promise!WithStatus
  <2> HIDE DEF expire, scrub
  <2> QED
    BY <2>1, <2>2, <2>3
<1>5. Shown' = Shown
  BY <1>1 DEF Shown, Phone
<1>6. expire \in SUBSET Items /\ scrub \in SUBSET Items
  OBVIOUS
<1> HIDE DEF expire, scrub
<1>7. Posted' = [i \in Items |-> IF i \in expire THEN [Posted[i] EXCEPT !.status = "expired"]
                                 ELSE IF i \in scrub THEN [Posted[i] EXCEPT !.status = "scrubbed"]
                                 ELSE Posted[i]]
  BY <1>3 DEF Posted
<1>8. Promise!Forget(expire, scrub)
  BY <1>4, <1>5, <1>7 DEF Promise!Forget
<1> QED
  BY <1>6, <1>8 DEF Promise!Next

\* The rows of an import are letters taken over.  A device that is minted by it
\* was nobody's before: no letter was addressed to it, and it was shown nothing.
LEMMA ImportTakesOver ==
    ASSUME IInv, IInv', Import
    PROVE  Promise!Next
<1> DEFINE S == {i \in Items : item[i].scope = "none" /\ item'[i] # item[i]}
           new == [i \in S |-> Posted'[i]]
<1>1. /\ TypeOK /\ TypeOK' /\ handed' = handed
      /\ \A d \in Devices : Minted(d) => device'[d] = device[d]
  BY ImportFacts DEF IInv
<1>2. ASSUME NEW i \in Items
      PROVE  \/ item'[i] = item[i]
             \/ item[i].scope = "none" /\ item'[i] \in LegacyRows(device')
  BY <1>1, ImportFacts
<1>3. \A d \in Devices : Minted(d) => Phone(d)' = Phone(d)
  BY <1>1 DEF Phone
<1>4. ASSUME NEW i \in S
      PROVE  Posted'[i] \in {l \in Promise!Letter : l.status = "queued"}
  <2>1. item'[i] \in LegacyRows(device')
    BY <1>2
  <2>2. Status(item'[i]) = "queued"
    <3>1. item'[i].active /\ item'[i].delivered = Never /\ item'[i].scope # "none"
      BY <1>1, <2>1, LegacyRowsType
    <3> QED
      BY <3>1 DEF Status
  <2>3. Posted' \in [Items -> Promise!Letter]
    BY LettersTypeNext DEF IInv
  <2> QED
    BY <2>2, <2>3 DEF Posted
<1>5. ASSUME NEW i \in Items, i \notin S PROVE Posted'[i] = Posted[i]
  <2>1. item'[i] = item[i] /\ item[i] \in ItemRow
    BY <1>1, <1>2, <1>5 DEF TypeOK
  <2>2. item[i].scope = "target_device" => item[i].target \in Devices /\ Minted(item[i].target)
    BY <2>1 DEF ItemRow, IInv, RowsWellFormed, ForeignKeys
  <2>3. item[i].scope = "target_device" => Phone(item[i].target)' = Phone(item[i].target)
    BY <1>3, <2>1, <2>2 DEF Phone
  <2> QED
    BY <2>1, <2>3 DEF Posted, Addressee
<1>6. Shown' = Shown
  <2>1. \A d \in Devices : handed[d] # {} => Phone(d)' = Phone(d)
    BY <1>3 DEF IInv, HandedMine
  <2>2. ASSUME NEW p \in Phones
        PROVE  (UNION {handed[d] : d \in {e \in Devices : Phone(e) = p}})'
                 = UNION {handed[d] : d \in {e \in Devices : Phone(e) = p}}
    BY <1>1, <2>1 DEF Phone
  <2> QED
    BY <2>2 DEF Shown
<1>7. /\ S \subseteq Items
      /\ DOMAIN new = S
      /\ new \in [S -> {l \in Promise!Letter : l.status = "queued"}]
      /\ S \subseteq Promise!WithStatus("absent")
  BY <1>4 DEF Promise!WithStatus, Posted, Status
<1>8. Posted' = [i \in Items |-> IF i \in DOMAIN new THEN new[i] ELSE Posted[i]]
  <2> HIDE DEF S
  <2> QED
    BY <1>5, <1>7 DEF Posted
<1> HIDE DEF S, new
<1>9. Promise!TakeOver(new)
  BY <1>6, <1>7, <1>8 DEF Promise!TakeOver
<1> QED
  BY <1>7, <1>9 DEF Promise!Next

-----------------------------------------------------------------------------
(* The steps Mailbox does not see *)

\* Pairing re-homes rows within a phone and brings nothing to light.
LEMMA PairStutters ==
    ASSUME IInv, IInv', NEW d \in Devices, NEW n \in Installs, Pair(d, n)
    PROVE  Posted' = Posted /\ Shown' = Shown
<1>1. TypeOK /\ TypeOK' /\ ~Minted(d) /\ device' = Rotated(d, n) /\ handed' = handed
  BY DEF IInv, Pair
<1>2. /\ Lasting
      /\ device'[d] = [state |-> "active", install |-> n]
      /\ \A e \in Devices \ {d} : device'[e].install = device[e].install
  BY <1>1, RotatedFacts
<1>3. \A e \in Devices : Minted(e) => Phone(e)' = Phone(e)
  BY <1>2 DEF Lasting, Phone
<1>4. ASSUME NEW i \in Items
      PROVE  /\ item'[i].scope = item[i].scope
             /\ item'[i].kind = item[i].kind
             /\ item'[i].active = item[i].active
             /\ item'[i].delivered = item[i].delivered
             /\ item[i].scope = "target_device" => Phone(item[i].target)' = Phone(item[i].target)
  <2> DEFINE dev == Rotated(d, n)
             mid == Rehomed(item[i], d, n, dev)
  <2>1. item[i] \in ItemRow /\ mid \in ItemRow
    BY <1>1, RowType DEF TypeOK
  <2>2. item'[i] = Released(mid, dev)
    BY DEF Pair
  <2>3. /\ mid.scope = item[i].scope /\ mid.kind = item[i].kind
        /\ mid.active = item[i].active /\ mid.delivered = item[i].delivered
        /\ \/ mid.target = item[i].target
           \/ /\ mid.target = d
              /\ item[i].target \in Devices
              /\ dev[item[i].target].state = "inactive"
              /\ dev[item[i].target].install = n
    BY <2>1 DEF Rehomed, ItemRow
  <2> HIDE DEF mid
  <2>4. /\ item'[i].scope = mid.scope /\ item'[i].kind = mid.kind
        /\ item'[i].active = mid.active /\ item'[i].delivered = mid.delivered
        /\ item'[i].target = mid.target
    BY <2>1, <2>2, ReleasedFacts
  <2>5. ASSUME item[i].scope = "target_device"
        PROVE  Phone(item[i].target)' = Phone(item[i].target)
    <3>1. item[i].target \in Devices /\ Minted(item[i].target) /\ item[i].target # d
      BY <1>1, <2>1, <2>5 DEF IInv, RowsWellFormed, ForeignKeys, ItemRow
    <3>2. CASE item'[i].target = item[i].target
      BY <1>2, <3>1, <3>2 DEF Phone
    <3>3. CASE item'[i].target = d /\ device'[item[i].target].install = n
      BY <1>2, <3>1, <3>3, ConstantAssumption DEF Phone
    <3> QED
      BY <1>1, <2>3, <2>4, <3>2, <3>3
  <2> QED
    BY <2>3, <2>4, <2>5
<1> QED
  BY <1>1, <1>3, <1>4, Stutters

\* Unpairing addresses nothing anew.
LEMMA DeactivateStutters ==
    ASSUME IInv, IInv', NEW D \in SUBSET Devices, Deactivate(D)
    PROVE  Posted' = Posted /\ Shown' = Shown
<1>1. TypeOK /\ TypeOK' /\ device' = Deactivated(D) /\ handed' = handed
  BY DEF IInv, Deactivate
<1>2. \A e \in Devices : device'[e].install = device[e].install
  BY <1>1, DeactivatedFacts
<1>3. ASSUME NEW i \in Items
      PROVE  /\ item'[i].scope = item[i].scope
             /\ item'[i].kind = item[i].kind
             /\ item'[i].active = item[i].active
             /\ item'[i].delivered = item[i].delivered
             /\ item'[i].target = item[i].target
             /\ item[i].scope = "target_device" => item[i].target \in Devices
  <2>1. item[i] \in ItemRow /\ item'[i] = Released(item[i], device')
    BY <1>1 DEF TypeOK, Deactivate
  <2>2. item[i].scope = "target_device" => item[i].target \in Devices
    BY <2>1 DEF IInv, RowsWellFormed, ItemRow
  <2> QED
    BY <2>1, <2>2, ReleasedFacts
<1>4. \A i \in Items : item[i].scope = "target_device"
                         => Phone(item[i].target)' = Phone(item[i].target)
  BY <1>2, <1>3 DEF Phone
<1>5. \A e \in Devices : Minted(e) => Phone(e)' = Phone(e)
  BY <1>2 DEF Phone
<1> QED
  BY <1>1, <1>3, <1>4, <1>5, Stutters

\* A claim addresses nothing anew.
LEMMA ClaimStutters ==
    ASSUME IInv, IInv', NEW r \in Requests, Claim(r)
    PROVE  Posted' = Posted /\ Shown' = Shown
<1>1. TypeOK /\ TypeOK' /\ UNCHANGED <<device, handed>>
  BY DEF IInv, Claim
<1>2. \A i \in Items : /\ item'[i].scope = item[i].scope
                       /\ item'[i].kind = item[i].kind
                       /\ item'[i].active = item[i].active
                       /\ item'[i].delivered = item[i].delivered
                       /\ item'[i].target = item[i].target
  BY <1>1 DEF Claim, TypeOK, ItemRow
<1>3. \A i \in Items : Phone(item[i].target)' = Phone(item[i].target)
  BY <1>1, <1>2 DEF Phone
<1>4. \A e \in Devices : Minted(e) => Phone(e)' = Phone(e)
  BY <1>1 DEF Phone
<1> QED
  BY <1>1, <1>2, <1>3, <1>4, Stutters

\* A step that leaves the tables and the phones alone.
LEMMA QuietStutters ==
    ASSUME UNCHANGED <<device, item, handed>>
    PROVE  Posted' = Posted /\ Shown' = Shown
BY DEF Posted, Shown, Status, Addressee, Phone

-----------------------------------------------------------------------------
(* Refinement *)

LEMMA StepRefines ==
    ASSUME IInv, IInv', [Next]_vars
    PROVE  Promise!Next \/ (Posted' = Posted /\ Shown' = Shown)
<1> DEFINE Goal == Promise!Next \/ (Posted' = Posted /\ Shown' = Shown)
<1>type. TypeOK /\ TypeOK'
  BY DEF IInv
<1>1. ASSUME NEW d \in Devices, NEW n \in Installs, Pair(d, n) PROVE Goal
  BY <1>1, PairStutters
<1>2. ASSUME Unpair PROVE Goal
  <2>1. PICK D \in SUBSET Devices : Deactivate(D)
    BY <1>2 DEF Unpair
  <2> QED
    BY <2>1, DeactivateStutters
<1>3. ASSUME NEW t, Append(t) PROVE Goal
  <2>1. PICK d \in Devices, i \in Free : item' = [item EXCEPT ![i] = NewRow(d, "message")]
    BY <1>3 DEF Append, Resolved, ActiveDevices
  <2> DEFINE to == [j \in {i} |-> d]
  <2>2. to \in [{i} -> Devices] /\ {i} \in SUBSET Free /\ "message" \in Kinds
    BY DEF Kinds
  <2>3. item' = [j \in Items |-> IF j \in {i} THEN NewRow(to[j], "message") ELSE item[j]]
    BY <1>type, <2>1 DEF TypeOK
  <2>4. UNCHANGED <<device, handed>>
    BY <1>3 DEF Append
  <2> HIDE DEF to
  <2> QED
    BY <1>type, <2>2, <2>3, <2>4, InsertPosts
<1>4. ASSUME Sweep PROVE Goal
  BY <1>4, SweepForgets
<1>5. ASSUME NEW p \in Producers, FanOut(p) PROVE Goal
  <2>1. CASE UNCHANGED item
    BY <1>5, <2>1, QuietStutters DEF FanOut
  <2>2. ASSUME NEW S \in SUBSET Free, NEW to \in [S -> producer[p].ids],
               item' = [i \in Items |-> IF i \in S THEN NewRow(to[i], producer[p].kind)
                                        ELSE item[i]]
        PROVE  Goal
    <3>1. producer[p].kind \in Kinds /\ to \in [S -> Devices]
      BY <1>type DEF TypeOK, Producer
    <3> QED
      BY <1>5, <1>type, <2>2, <3>1, InsertPosts DEF FanOut
  <2> QED
    BY <1>5, <2>1, <2>2 DEF FanOut
<1>6. ASSUME NEW r \in Requests, Claim(r) PROVE Goal
  BY <1>6, ClaimStutters
<1>7. ASSUME NEW r \in Requests, Reply(r) PROVE Goal
  BY <1>7, ReplyShows
<1>8. ASSUME NEW r \in Requests, MarkDelivered(r) PROVE Goal
  BY <1>8, MarkConfirms
<1>9. ASSUME NEW r \in Requests,
             \/ \E d \in Devices : Drain(r, d) \/ \E S \in SUBSET PhoneHas(d) : Ack(r, d, S)
             \/ CheckActive(r) \/ SeeClaimable(r) \/ Read(r) \/ Park(r) \/ Abandon(r)
      PROVE  Goal
  BY <1>9, QuietStutters DEF Drain, Ack, CheckActive, SeeClaimable, Read, Park, Abandon
<1>10. ASSUME NEW p \in Producers,
              DropFanOut(p) \/ \E k \in Kinds : Snapshot(p, k)
       PROVE  Goal
  BY <1>10, QuietStutters DEF DropFanOut, Snapshot
<1>11. ASSUME Import PROVE Goal
  BY <1>11, ImportTakesOver
<1>12. CASE Tick \/ UNCHANGED vars
  BY <1>12, QuietStutters DEF Tick, vars
<1> QED
  BY <1>1, <1>2, <1>3, <1>4, <1>5, <1>6, <1>7, <1>8, <1>9, <1>10, <1>11, <1>12
     DEF Next, Work, Store, Write, Serve, Lose

\* The store keeps the outbox's promise, whatever is paired, lost or swept.
THEOREM KeepsPromise == Spec => MailboxSpec
<1>1. IInv /\ IInv' /\ [Next]_vars => [Promise!Next]_(Promise!vars)
  BY StepRefines DEF Promise!vars
<1> QED
  BY <1>1, InitRefines, Inductive, PTL DEF Spec, MailboxSpec, Promise!Spec
=============================================================================
