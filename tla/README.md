# Talaria in TLA+

Talaria is the gateway plugin that connects a Hermes host to the Talaria phone
app: it pairs phones, queues messages and file artifacts for them in SQLite,
hands these out over a long poll, and lets a tool on the host ask a paired
phone a question and wait for its answer. This directory holds TLA+ models of
that code, the TLC configurations that check them on small instances, and
proofs for TLAPS of what holds for every value of the constants.

    tlc -workers 2 -config MCDelivery_claims.cfg MCDelivery.tla
    tlapm DeliveryProofs.tla

## The system

| part | state | operations | called by |
|---|---|---|---|
| store (`store.py`) | table `devices` | pair with rotation, deactivate one or all, look up a token | envelope, CLI |
| outbox (`outbox.py`) | table `outbox_items` | append, fan out, pending (claims legacy rows), mark delivered | envelope, adapter, CLI, mirror |
| hygiene (`hygiene.py`) | throttle stamp | scrub delivered artifacts, expire old ones | mirror, CLI `prune` |
| database (`database.py`) | schema, migration marker, quarantined files | open, create, import `devices.json` and `outbox.json` | everything that connects |
| transport hub (`transport.py`) | queries, futures, events, event loops, last seen, counters (memory only) | park, wake, enqueue, take, resolve, discard | envelope, tools, adapter, mirror |
| envelope (`envelope.py`) | voice sessions, touch throttle | verbs pair, unpair, drain, ack, query_result, talk_*, approval_mode | phones, over HTTP |
| tools (`tools.py`) | none | `phone_query`: ask, wait, give up, discard | the agent, each call on a loop of its own |
| artifact mirror | none | on a written file, a row for each active device, then wake them | the agent's tool dispatch |
| platform adapter | none | `send`: append, then wake | the host's delivery, cron, ledger |
| admin CLI | none | send, unpair, prune, pair-qr, status | operator, another process |
| voice (`voice.py`) | none of its own; `.env` and the environment are read anew for each setting | resolve a configuration, offer it to the provider's models in turn | envelope |
| dashboard API (`plugin_api.py`) | one probe result per target, without a lock | `/status`: look up, probe, store, read the devices | the pane, over a thread pool |
| desktop plugin (`plugin.js`) | what the pane shows | poll, map the answer to a state | its timer |
| pairing QR, registration, approval mode | none | URL resolution, version check, one host command | operator, host, phone |

Durable state is shared by threads of the gateway and by the CLI's process and
is only protected by SQLite's transactions. The hub is shared by the HTTP loop
and one loop and thread per tool call and has no lock at all. Everything that
is hard here comes from those two facts:

- a drain is several statements (authorize, look, claim, read, park, look
  again) and a device may be rotated or unpaired between any two of them;
- an answer the phone never received, an ack that comes late or twice, under
  old or new credentials;
- a fan-out that reads in one connection and inserts in another;
- a wake that has to cross threads, events created and looked up on two of
  them, lists popped on one while the other appends;
- queries that are popped before the response that carries them is sent;
- a legacy import that may come late, crash half-way, or meet a second process;
- a configuration read line by line from a file the user may be saving;
- a cache that several threads look up and fill around a slow probe.

What makes each part correct:

- **store**: rotation leaves one active credential per install, carries queued rows
  along and releases claims.
- **outbox**: a row addressed to a phone is shown to no other, and one that anyone
  may claim to one paired phone at a time; it is settled once, by a phone that was
  shown it, and is not lost while its phone stays paired.
- **hygiene**: only artifacts expire or lose their text, and only after the
  retention.
- **hub**: no drain sleeps over a query once its device's first park is past; an
  answer reaches the call that asked, from the device it asked, and only while it
  waits. (Queries are lost, and handed out twice: see below.)
- **database**: an import is all or nothing per file and undoes nothing; bad input is
  set aside and kept, and a start ends in a process that serves, with exceptions that
  are named below.
- **voice**: one bootstrap offers one block, one the provider takes, the one that
  readiness showed, and every bootstrap ends.
- **dashboard**: what a pane is told was so within the cache's window, and a pane
  catches up with a gateway that stays as it is.

`PROJECT.json` lists the hazards line by line.

## Modules

| module | what it is |
|---|---|
| `Mailbox` | abstract: the outbox's promise about letters, addressees and what each phone has seen |
| `Question` | abstract: what `phone_query` promises the agent about its question |
| `Intake` | abstract: what a database promises about the legacy files it takes in |
| `Delivery` | store, outbox, hygiene, the writers, and the drain, ack, pair and unpair verbs |
| `DeliveryLive` | `Delivery` with the fairness of gateway and app |
| `DeliveryProofs` | the inductive invariant of `Delivery` and its safety theorems |
| `MailboxProofs` | `Delivery` refines `Mailbox` |
| `Hub` | transport hub, the query legs of drain and query_result, the asking tool |
| `HubProofs` | the inductive invariant of `Hub`: no lost wake, whatever the threads do; `Hub` refines `Question` |
| `Bridge` | device table, outbox, hub, drain, query_result, tool, writers and phone together |
| `BridgeProofs` | the inductive invariant of `Bridge` and its safety theorems |
| `BridgeRefinement` | `Bridge` refines `Question` and `Mailbox` |
| `Migration` | opening, quarantine and import of legacy files by processes that start together |
| `MigrationProofs` | the inductive invariant of `Migration` and its safety theorems; `Migration` refines `Intake` |
| `Voice` | the realtime bootstrap and the talk verbs, over a `.env` that changes |
| `VoiceProofs` | the inductive invariant of `Voice` and its safety theorems |
| `Probe` | the dashboard's probe cache, its pane and the gateway they look at |
| `ProbeProofs` | the inductive invariant of `Probe` and the freshness of its answers |
| `MCDelivery`, `MCDeliveryLive`, `MCHub`, `MCBridge`, `MCMigration`, `MCVoice`, `MCProbe` | instances for TLC |

`Delivery` and `Hub` are the close views of the two halves of the gateway, one by
SQLite statements and one by accesses of two threads. `Bridge` composes the halves
with coarser steps, except in what the tool's own thread does to the hub while a drain
is at it; what it shows needs both of them. It says nothing about wakes: a parked drain
may resume at any time there, and which wakes come is `Hub`'s subject.

Three abstract specifications say what all this is for, each without any of the
machinery below it:

- `Mailbox`, to a phone: a letter reaches the reader it is addressed to, and only a
  reader that has it settles it. `Delivery` and `Bridge` implement it (`MailboxSpec`).
- `Question`, to an agent: a question is shown to the asked device only, answered at
  most once, after it was shown and before the agent gives up; who gave up hears
  nothing. `Hub` and `Bridge` implement it (`QuestionSpec`).
- `Intake`, to the operator of a host: a database takes the legacy files in whole and
  at one moment, adds what is missing and touches nothing that is there, and is closed
  by that until it is reopened. `Migration` implements it (`IntakeSpec`).

### Delivery

One action is one SQLite statement or one transaction. `device` and `item` are
the two tables; `request` holds the drains and acks in progress, `producer` the
fan-outs in progress, `handed` what each credential's phone has received.

| action | code |
|---|---|
| `Pair(d, n)` | `create_paired_device`: deactivate the install's devices, insert, re-home, release, one transaction |
| `Deactivate(D)` | `deactivate` with or without an id, and the release in the same transaction |
| `Append(t)` | `append` to a device id, an install id or the only active device |
| `Snapshot`, `FanOut` | `active_devices()` in the mirror or the CLI, then `append_for_devices`; `DropFanOut` is a writer that dies in between |
| `Drain` ... `Reply` | `_drain`: authorize; `CheckActive`, `SeeClaimable`, `Claim`, `Read` are the four statements of `pending()`; `Park` sends it round once more |
| `Ack`, `MarkDelivered` | `_ack`: authorize, then the transaction of `mark_delivered` |
| `Abandon` | a storage error, a lost connection or a crash of the gateway between two statements |
| `Sweep`, `Tick` | `sweep()` at any time; the clock |
| `Import` | `_migrate_legacy_json`, one transaction, once per database: at any time |

`Init` is an empty database. `Import` may come before any pairing or late, beside
devices paired meanwhile (`database.py:348-352`), since no marker is written while no
file is there. It brings any of the `LegacyDevices`, active or not, with any install id
or none, and any of the `LegacyItems`, routed as `_migrate_outbox` routes them. It
rotates nothing, so an install may come to have two active devices; `twinned` is a
history variable that names these installs until their phones pair again, and
`OneActivePerInstall` and `NoStrandedRow` except just them. Imported rows that were
delivered or inactive before are left out: no statement but the sweep's touches them.
How files are read, rejected and read again is `Migration`'s subject.
Rows are never deleted in the code, so a
crash of the gateway loses exactly the requests and fan-outs in progress.
Left out: row text and metadata, order within an answer, `last_seen` and
`touch_device` (advisory, read by nothing that decides), the throttle of the
sweep (it may run at any time instead).

The app is external. It is modelled as far as the code relies on it: it acks
only rows it was shown, under whichever of its credentials is active. A phone is
an install, or an imported device that carries no install id.

### Hub

One action is one access to a shared dictionary or event, because that is what
the two threads interleave; between two awaits the HTTP loop runs one drain
(`busy`), so drains do not interleave there, but tool threads do. `List`,
`Append`, `Register`, `WakeEvent`, `WakeMake`, `WakeLoop` and `WakeInline` are
`enqueue_query` and `_wake_one` in that order. `Discard`, `Sift` and `DiscardWrite`
are `discard_query`: it forgets the future and copies the dictionary, then for each
device's list works out what remains, and then looks at the list again and writes what
remains over the device's entry if the list is longer by now, be it for its own query
or for one appended in between. `Consume` is `park`'s look at the event, which
happens twice, before and inside `wait_for`.

An event object is named by the request or call that made it, so that two
objects for one device can be told apart. `nudge` says how a parked drain's
waiter was resolved: by a callback on its own loop, or `quiet`, by a plain
`set()` from another thread, which does not wake a loop that is asleep. A list is
an object too (`Lists`, `items`): `take_queries` pops it from the dictionary, and a
call that got it from `setdefault` before still appends to it. A drain's outbox items
are reduced to whether there was something to answer.

`Init` lets each device have parked before or not: the two cases differ, since
until the first park the hub has neither event nor loop for the device. `early` names
the calls that began before their device had ever parked. Such a call may set the event
inline, or make a second one, and so wake a drain that its loop does not resume before
the hold ends; it may do so at any later time. `NoSleepingQuery`,
`NeverInlineToParked` and `NoQuerySits` are about a device while no such call was made
on it (`Calm`), be its first park before the run or in it.

`dropped` names the queries that were appended to a list that was no longer the
device's, or that a discard wrote over. Such a query may come back by another call's
write-back, long after its wake was spent on a drain that found nothing; so
`NoSleepingQuery` and `NoQuerySits` speak of the others.

### Bridge

A transaction, a read of the store and a hub method are one step each, but for
`enqueue_query` and `discard_query`, which the tool's own thread runs beside the drains.
What interleaves are the awaits of a request, that thread, and a phone that may be
re-paired, hang up, or answer late at any of them.

| action | code |
|---|---|
| `Pair`, `Unpair` | the two verbs, reduced to active ids and whose pending rows are whose |
| `Send` | an append, by `send()`, the mirror or the CLI |
| `Ack` | `mark_delivered` under whichever credential of the phone is active |
| `Poll`, `Touch`, `Read`, `Take`, `Reply` | `_drain`: authorize, `hub.touch`, `pending()`, `take_queries`, the answer |
| `Park`, `Resume` | `hub.park`, ended by a wake, by an event that was set before, or by the hold: at any time; then `_drain` touches, reads and takes again without authorizing again |
| `Lose` | a phone that hangs up, a storage error, a lost answer |
| `Ask`, `Enqueue`, `Register` | `phone_query`'s liveness gate and choice of device, `enqueue_query` in its two parts |
| `Answer`, `Resolve` | `query_result`: authorized, then `resolve_query` |
| `Got`, `Timeout` | the two ways out of the wait |
| `Discard`, `ScanRead`, `ScanWrite`, `Discarded` | `discard_query` on each: the future goes, every list is read, and written back later |
| `Restart` | the gateway's memory is gone, the store stays |

`row` is `unsent`, then `queued`, then `acked`; `told` is what the phone was answered
ok for, and `shown` what each device's phone was handed, queries and rows. A discard that
is late brings a query back that a drain has just taken, so a query may be in a queue and
with the phone at once; `QuestionSpec` holds all the same.

### Voice

| action | code |
|---|---|
| `Begin`, `ReadKey` | `talk_session_create`: tuning off the wire, key or `talk_not_configured` |
| `ReadSetting` | one `_resolve_setting` inside `resolve_turn_detection`, in the code's order |
| `Offer` | one model of `create_realtime_session` |
| `Record`, `End` | `_voice_sessions` gains and loses the session |
| `Edit`, `Restart` | the user saves `.env`; the gateway restarts |

`_read_hermes_dotenv` opens the file again for every setting, so an edit may fall
between any two. The values of a setting are classes: unset, right, out of range or
of the wrong kind (`Junk`). `Readiness` is `talk_readiness`.

### Probe

| action | code |
|---|---|
| `Poll` | the pane's timer, and what a backend without the plugin or no backend says |
| `Lookup`, `Observe`, `Store` | `probe_gateway_adapter`: stamp and cache; `_probe_once`; the cache's entry |
| `Tick`, `Change`, `Storage`, `Stop`, `Start` | the clock, the gateway, the backend's store and its process |

`since` is a history variable: how long ago the gateway was last in each condition.
The constants are scaled: 60 s, 10 s and the probe's timeout of 3 s become ticks that
keep `MaxProbe < FailFloor <= OkFloor`, which is all the argument uses. A gateway that
sends its headers drop by drop could hold a probe longer; that is not modelled.

### Migration

`disk` is what the two names of each legacy file hold (`x.json`, `x.json.rejected`);
a database file is a generation in `db`, and `path` the one `talaria.db` names: a
rename leaves open connections on the old generation. `proc` is each process's way
through `initialize()`, with the tables as its transaction sees them.

| action | code |
|---|---|
| `Start`, `Open`, `SwitchToWal`, `SwitchRefused` | `_open`, the first or second time |
| `QuarantineDatabase` | `_quarantine_database`: renames what the path names by then |
| `Begin` | `BEGIN IMMEDIATE`, the schema, the look at the marker |
| `ImportFile`, `FileAbsent`, `FileRaises` | `_import_file` and `_legacy_rows`, one savepoint |
| `LookRejected`, `QuarantineFile` | the two steps of `_quarantine_file`: is there a copy, and the rename, which overwrites; in the same transaction but on the disk at once |
| `Commit`, `Fail` | commit with the marker iff a file was there; or an `sqlite3.Error` in the transaction, which rolls back and is raised |
| `Pair`, `Deactivate`, `Touch`, `Settle` | requests of processes that serve, reduced to what they do to imported rows |
| `LateFile`, `Repair`, `Stop`, `Damage` | external: an old gateway, the operator, a kill, the disk |

A file is `good` (passes every field check; it may still conflict with rows that are
there), `malformed` (some check raises `MigrationError`, at any row), or `raising`
(anything else is raised: bytes that are not UTF-8, a string with a lone surrogate, which
SQLite refuses to bind, an integer of too many digits, too deep a nesting).
A database is `damaged` if a page of it cannot be read, and `headless` if the PRAGMAs of
`_open` already meet that page; other damage is met by a statement of the transaction, or
never. A database that fails in the transaction is not quarantined.
A row is `changed` once any column that the import verifies differs from the file.
A process that fails calls `initialize()` again at its next `connect()`.
Left out: permissions, the gap between the renames of the database and of its
two sidecar files, and a rename of the database that fails.

## Runs

| run | instance | states | what it shows |
|---|---|---|---|
| `claims` | 3 devices (1 may be imported, early or late), 2 installs, 1 row, 2 requests | 1.25 M | `TypeOK`, `OneActivePerInstall`, `NoStrandedRow`, `HolderMayAck`, `DeliveredWasReceived`, refinement of `Mailbox` |
| `retention` | 2 devices, 2 installs, 2 rows, 1 request, 1 fan-out, 1 tick | 566 k | `NoStrandedRow` and the refinement with fan-outs and the sweep |
| `settles` | 3 devices of 1 install, 1 row, 1 request | 14 k | `QueuedRowSettles` |
| `wake` | 1 device, 2 drains, 2 tool calls, 1 of them early | 7.1 M | `TypeOK`, `NoSleepingQuery`, `NeverInlineToParked` |
| `taken` | 1 device, 1 drain, 2 tool calls, none early | 321 k | `NoQuerySits`, refinement of `Question` |
| `bridge` | 1 phone re-paired once, 1 drain, 2 tool calls, 1 row, 1 answer at a time | 3.4 M | `TypeOK`, `AnswerableWhileWaiting`, `OkInTime`, refinement of `Question` and `Mailbox` |
| `starts` | 2 processes, 3 devices (2 legacy, 1 of them active), 1 legacy item, 1 trouble | 537 k | `TypeOK`, `AllOrNothing`, `NoReversal`, `RejectedCopyKept`, `EveryStartServes`, refinement of `Intake` |
| `voice` | 1 bootstrap, 2 models, 8 settings with 1 to 3 values each | 229 k | `TypeOK`, `OneConfiguration`, `AcceptableBlock`, `AsReadinessShows`, `BootEnds` |
| `probe` | 2 panes, 3 conditions, windows of 3 and 2 ticks | 1.2 M | `TypeOK`, `AnswerFresh`, `PaneCatchesUp` |
| `claimable`, `handoff`, `locked` | `settles` with 2 imported devices; 1 drain, 1 call; `starts` with good files | 200 k or fewer | counterexamples, below |

The bounds. A lost or stolen row takes two devices that compete for it and a third that
replaces one of them; one of the three may be imported, early or late. Rows are independent
of each other in every statement but the fan-out, so one row is enough for claims and two
for a fan-out to two devices. Two requests give a claim or an ack from one device inside the
drain of another. With retention 0 one tick already puts a row past the cutoff while another
is not. In the hub two drains share an event and two calls share a list, which is all the
sharing there is; what a third call adds is named under `Hub`, and the proof covers it.
`MaxEarly` is the number of calls that may begin before their device has ever parked: one is
enough for an inline wake beside a call that finds event and loop, and `taken`, where such
calls are of no interest, has none. In `Bridge` one phone with two credentials is where a
re-pairing meets a parked drain, an answer under the wrong credential, and a second answer
after the first; two calls are what one's discard needs to write over, or bring back, a
query that the drain is carrying. `MaxAnswers` bounds the answers that are authorized and
not yet resolved; an authorization only fixes under which device an answer is heard, so
answers that overlap differ from answers in turn by little, and the theorems hold for any
number. The hub's runs have one device: addressing between two, and a discard that goes
through the lists of several, are `Bridge`'s subject there, and the theorems' everywhere.
Bootstraps share nothing but the file and the session table, so one is enough, and two
models have a first and a last refusal between them. Two panes are two threads around one
cache entry. Symmetry is used where only safety is checked, over identifiers nothing in the
configuration tells apart.

`MaxTrouble` counts stops, damage and lock errors. One is enough for a repair and a
restart, for two processes that both meet a damaged database, and for a lock error
between two first starts. `MaxGen` leaves room for as many quarantines as one trouble
and two processes can cause, so it never stops one: `EveryStartServes` would fail.
Of two legacy devices one is active (`FirstActive`), which is what tells a whole file
from half of one and a row that is set back from one that is not.

Deadlock is checked everywhere but in `Migration`: there is always a device to
deactivate or a drain to start. A database damaged under processes that serve stops
them all until one is restarted, and restarts are bounded.

### What the counterexamples show

- `claimable`: a drain authorized for a device claims legacy rows after the device
  was rotated or unpaired. `pending()` looks at the device, then at the rows, then
  claims; the claim does not look again. The release of stale claims happened with
  the rotation, before the claim, so the row is stuck until some later pairing or
  unpairing.
- `handoff`: a query is appended to a list that was just popped.
- `locked`: two processes open a new database together, SQLite refuses one of them
  the switch to WAL, and that one renames the other's database away. The second way
  to the same end needs no lock: both find a damaged file, and the second quarantines
  what the first has rebuilt.

`discard_query` writes back what it read, so the `handoff` hazard exists there too.

### What the code does that no run shows

Met while modelling; each is in the models, or one test would show it.

- `artifact_mirror.py:82`: one device that goes away between the mirror's two
  connections makes the artifact be dropped for the others too (`FanOut`).
- `database.py:201`: `outbox.json` was rejected; a device of the imported
  `devices.json` is used or unpaired; the operator follows the recovery of the
  repository's `README.md:146-152`; the next start verifies the valid
  `devices.json` against rows that have moved on, and rejects it (`ImportFile`).
- A legacy file that raises anything but `MigrationError` makes every `initialize()`
  raise, where the docstring promises a quarantine and never a raise: bytes that are not
  UTF-8 (`UnicodeDecodeError`), a string such as `"\ud800"`, which is read well and
  cannot be bound (`UnicodeEncodeError`), an integer of thousands of digits
  (`ValueError`), nesting too deep (`RecursionError`). `EveryStartServes` names the
  exception (`FileRaises`).
- Damage that the PRAGMAs of `_open` do not read is met in the transaction, outside the
  handler that quarantines; every start fails there until the operator acts. Named in
  `EveryStartServes` too (`Fail`).
- `database.py:294-295`: `rename` overwrites an earlier `.rejected` copy that has come
  between the look and the rename. The write lock of the database excludes that, but
  once the database was quarantined under a start there are two files and two locks: the
  start on the old one may rename a late file over the copy that a start on the new one
  has made. TLC finds it when `path = 0` is taken out of `RejectedCopyKept`.
- `database.py:348-352`: an import beside devices paired meanwhile rotates nothing, so
  an install may have two active devices, one that its phone no longer uses; a row sent
  to that one is not seen, nor moved by an unpairing, before the phone pairs again
  (`Import`, `twinned`).
- While a device parks for the first time a wake may run inline on the tool's thread, or
  set an event that the drain does not wait on: `transport.py:146-147` says never inline.
  The drain sleeps to the end of its hold (`WakeInline`; `early`, `Calm`).
- `discard_query` brings back a query that a drain has taken while it was between its
  look and its write: the query is handed out again, to the same device. It may also
  write over one that was just appended, which is lost (`DiscardWrite`, `ScanWrite`).
- `send()` to an install id appends to the device and wakes the install id, under
  which nobody parks (`platform_adapter.py:75`); the row waits for the end of the hold.
- `freshest_device` may name a device that was rotated away or unpaired, and the touch
  after a park makes it freshest once more; the tool then times out (`Ask`, `Touch`).
- A phone may be told ok while the tool's timer cancels the answer that is on its way
  (`Timeout` with a scheduled answer). `OkInTime` is what remains true.
- A query that was written over may come back by a later write-back, without a wake
  (`dropped`).
- A refusal whose JSON is no object, or a success that is not JSON, ends a bootstrap
  as `storage_error` with models left, though `voice.py:462-465` says that only an
  exhausted list raises (`Offer` with "odd").
- `_voice_sessions` keeps a session whose answer was lost until the gateway restarts.
- An older probe may overwrite a newer result; it brings its older stamp along, which
  is why `AnswerFresh` holds.
- `_probe_once` lets `http.client.HTTPException` escape; the answer is then an error, as
  with a store that cannot be read.

### Fairness

`DeliveryLive`: every request in progress is run on (its thread is scheduled:
weak fairness), and a paired app keeps polling and acknowledging (strong
fairness, since the gateway may be busy each time it tries). Losses may happen
any number of times, but not for ever. Pairing, unpairing, writing and the sweep
are under no fairness.

`Hub`: the HTTP loop runs ready callbacks first come first served, hence strong
fairness of callbacks and resumptions that have to wait for the loop; tool
threads are scheduled; phones come back with another drain. The hold timer and
the tool's timer are under no fairness, on purpose: a query must get through by
the wake alone. A quiet nudge is under none either, since nothing wakes the loop.
On a first park a wake may run inline on the tool's thread, and then nothing wakes the
loop: `NoQuerySits` is about calm devices.

`Migration`: `initialize()` is one call and is run on (weak fairness per process);
nothing in it waits but `BEGIN IMMEDIATE`, for transactions that are part of the
same calls. Starting, stopping, repairing and every request are under no fairness.

`Voice`: a bootstrap is run on, and the provider answers, refuses or times out (weak
fairness per bootstrap); the user may edit `.env` for ever. `Probe`: the clock runs,
and each pane polls and is served (weak fairness per pane); the gateway and the
backend are under none. `Bridge` is checked for safety only.

## Proofs

For any sets of devices, installs, rows, requests and producers, any retention
and any clock bound, assuming only `ConstantAssumption` (the null values are not
identifiers, install ids are not device ids, the imported sets are subsets):

- `DeliveryProofs`: `Spec => []IInv`, and from it `TypeCorrect`,
  `SingleCredential`, `NothingStranded`, `HoldersMayAck`, `NothingShared` and
  `DeliveredReceived`.
- `MailboxProofs`: `KeepsPromise`, i.e. `Spec => MailboxSpec`.

Like the refinements below, this is proved step by step: an invariant, what each
action does to the mapped state, and then that every step of the detailed
specification is a step of the abstract one or leaves the mapped state alone.

`IInv` adds to the safety properties: rows reference devices that exist, unwritten
rows are inert, and two statements about what is under way. `HandedMine`: what a
device was shown is addressed to its phone or to anyone, and is the device's own
to ack while the row is pending and the device paired. `RequestsSound`: the same
for the rows in an answer not yet sent, and, for an ack being processed, that its
rows were shown to the phone. Without them `HolderMayAck` and
`DeliveredWasReceived` are not inductive: the harm is done by a row that is in a
request, not in a table. The heart of the argument is rotation: re-homing moves a
row only between credentials of one phone, and the old credential is inactive when
it does, so nothing paired loses a row it holds; a claim is taken only from inactive devices.
An import touches no row and no device that is there; what it adds beside them is what
`twinned` excepts in `SingleCredential` and `NothingStranded`, and a pairing of the install
restores both.

The refinement maps a row to a letter (`Posted`) and the credentials of a phone to
one reader (`Shown`). A pairing, a claim, a release and a re-homing are stutters.

`MigrationProofs`, assuming only `MigrationAssumption` and for any number of
processes, devices, items, quarantines and troubles: `TypeCorrect`, `FilesWhole`,
`NothingReverted`, `QuarantineKeeps` and `KeepsIntake`, i.e. `Spec => IntakeSpec`.
`AllOrNothing` is not inductive by itself:
what is committed was built in a transaction begun earlier. `Ahead` says that such a
transaction holds whole files and has lost nothing of what is committed to its file;
it stays true because nobody else commits there (`OneWriter`), which is SQLite's
lock and, for requests, `~Locked(path)`. `QuarantineKeeps` is by the same lock: nobody
has a copy of a file between another's look for it and rename (`Looked`), as long as all
transactions are on the first database (`Behind`).

`KeepsIntake` maps a database to whether its marker is absent (`open`) and each of its
rows to absent, intact or changed. The step that matters is `Commit`, which must be one
`Import` of whole files by an open database, though the files were read one by one and
the marker was looked at when the transaction began. `Fresh` says what carries over:
the database of a transaction is still open, the transaction has only added rows of
legacy files to it, and none if it saw no file. `Unseen` says that no transaction
begins with a file that an earlier one saw; without it a commit could close a database
that had found nothing. `NoGhosts` says that only rows that are there are changed, so
that an imported row is new and intact.

`HubProofs`, assuming only `MakerAssumption` (requests and calls that make event
objects have names of their own), for any number of devices, drains and calls:
`TypeCorrect`, `NeverInline`, `NoLostWake`. The invariant has five parts. `Shape` is the
types. `Old`: a device that has parked keeps event and loop, and no call that began
since sets inline, makes an event or holds another than the device's. `Parks`: the HTTP
loop is inside one park at a time, and nobody is asleep
on a set event unless resolved. `Queries`: a query in a list was asked of the list's
device and appended, and one that a discard means to write back is still there, taken,
dropped or given up. `Awake` is the argument: where a drain of a calm device parks, or is
parked, over a query, the
wake is coming: a call of that device has yet to make it, or a callback is scheduled.

`KeepsQuestion`, i.e. `Spec => QuestionSpec`, needs `Shape`, `Queries` and two parts
more. `Outcomes` says what a call may have heard at each of its steps: nothing before
it begins, and no outcome before its wait ends. `ToAsked` says that a query in an answer
under way, or with a phone, is of a call that asked that device. It is inductive only
with `Queries`, because a discard may write a list back long after it read it, into a
queue from which a drain then takes: what the discard kept must have been appended for
that device.

`BridgeProofs`, assuming only `BridgeAssumption`: `TypeCorrect`, `StaysAnswerable`,
`OkOnlyInTime`. The invariant is the types and what a tool's pc says about its future
and its discard (`Calls`).

`BridgeRefinement`: `AllAddressed`, `KeepsQuestion` and `KeepsMailbox`, i.e.
`Spec => QuestionSpec` and `Spec => MailboxSpec`. The first is the invariant `Addressed`
that the two rest on, above `BridgeProofs`' own: queries and rows in a drain's answer
or with a phone are addressed to it (`QueriesAddressed`, `RowsAddressed`), what a discard
has read of a device's list was asked of that device, and a call's
outcome fits its pc (`Outcomes`). It is needed because what is read is sent only
several awaits later: a drain that was authorized before a re-pairing answers after it,
and its rows must still be its phone's then. They are, since a re-pairing moves a row
only between ids of one phone (`SamePhone`); an ack is therefore of the right phone,
whichever id it comes under. An answer counts under the asked id only, so `Resolve` is
an `Answer` of `Question` exactly when the tool still waits. `Restart` is a `GiveUp` of
every open question, and a stutter to `Mailbox`.

`ProbeProofs`, assuming only `ProbeAssumption`: `TypeCorrect` and `AnswersFresh`. The
invariant says that no entry, in the cache or under way, is stamped later than the
gateway was last like it; the stamp taken before the probe is what makes it so.

`VoiceProofs`, assuming only `VoiceAssumption`, for any settings, environment and list
of models: `TypeCorrect`, `OneBlock`, `BlocksTaken`, `ReadinessTrue`, and
`ShownBlockTaken`, which is about no behaviour: the block that `talk_readiness` shows is
one the provider takes, for every tuning and every text in `.env`. The invariant names,
for each pc, the settings the block already has (`ReadBefore`) and, from
`threshold` or `eagerness` on, its type; so a block is complete when it is offered.
`Faithful` ties what was read to what `.env` says as long as it is not edited.

Only model-checked: liveness (`QueuedRowSettles`, `NoQuerySits`, `EveryStartServes`,
`BootEnds`, `PaneCatchesUp`), which rests on fairness and `ENABLED` and is out of the
prover's reach. Every invariant, action property and refinement that a passing run
checks is also a theorem.

## Not modelled

- The content of messages, metadata, tokens and hashes; HTTP framing.
- The column `last_seen`, the hub's counters and the log: nothing that decides reads
  them.
- A tool loop that is closed while its future is registered (`_settle` returning
  False): the tool's discard pops the future before its loop closes.
- `wake()` without a device, which nothing in `src/` calls.
- Approval mode (one command of the host, no state), pairing QR (resolution of a URL
  from strings, no steps), registration (runs once at load).
- Wakes in `Bridge`, hence a row whose writer wakes nobody; the hub's own wakes are in
  `Hub`, for queries.

## What is left

1. `Hub` with a tool loop that closes, and with rows whose writer wakes the device.
2. A run of `Hub` for what `transport.py:146-147` says of inline wakes, refuted by a first
   park.
3. `Bridge` with two phones, beyond what TLC reaches here in minutes; the theorems cover
   it.
