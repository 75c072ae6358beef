------------------------------ MODULE Migration ------------------------------
(***************************************************************************)
(* database.py: how a process gets a database to serve from.  initialize() *)
(* opens the file, quarantines it when that fails, creates the schema and  *)
(* imports the JSON files of older releases, one savepoint per file, in    *)
(* one transaction.  Gateways, dashboards and CLIs do so independently, on *)
(* the same directory, and stop at any point.                              *)
(*                                                                         *)
(* A database file is a generation: a rename leaves connections on the old *)
(* one, and the next open creates a new one.  SQLite is external: one      *)
(* transaction per file, atomic, rolled back when its process stops.       *)
(***************************************************************************)
EXTENDS Naturals, FiniteSets

CONSTANTS Processes,
          Devices,     \* device ids
          Filed,       \* those devices.json has a row of
          FiledActive, \* those it has an active row of
          Items,       \* ids of the rows of outbox.json
          Chat,        \* [Items -> Devices \cup {Anyone}]: the meta.chat_id of an item
          Anyone,      \* no target: delivery_scope legacy_any
          NoRow,
          Contents,    \* what may be found in a legacy file
          MaxTrouble,  \* bound on stops, damage and lock errors
          MaxGen       \* bound on generations

ASSUME MigrationAssumption == /\ FiledActive \subseteq Filed
                              /\ Filed \subseteq Devices
                              /\ Chat \in [Items -> Devices \cup {Anyone}]
                              /\ Anyone # NoRow /\ {Anyone, NoRow} \cap Devices = {}
                              /\ Devices \cap Items = {}
                              /\ Contents \subseteq {"good", "malformed", "raising"}
                              /\ MaxTrouble \in Nat /\ MaxGen \in Nat

VARIABLES disk,     \* [Files -> [json, rejected]]: what the two names of a file hold
          db,       \* [Gens -> Tables]: what is committed
          wal,      \* the generations in WAL mode
          damaged,  \* the generations with a page SQLite cannot read
          headless, \* those of them whose damage the PRAGMAs of _open meet
          path,     \* the generation talaria.db names
          proc,     \* [Processes -> Process]
          trouble   \* counts stops, damage and lock errors

vars == <<disk, db, wal, damaged, headless, path, proc, trouble>>

Files == {"devices", "outbox"}
Gens == 0 .. MaxGen

\* changed: the rows whose columns are no longer those that were imported.
Tables == [ready : BOOLEAN, marker : BOOLEAN,
           device : [Devices -> {"none", "active", "inactive"}],
           item : [Items -> Devices \cup {Anyone, NoRow}],
           changed : SUBSET (Devices \cup Items)]

EmptyFile == [ready |-> FALSE, marker |-> FALSE, device |-> [d \in Devices |-> "none"],
              item |-> [i \in Items |-> NoRow], changed |-> {}]

\* "import:f" reads file f, "reject:f" and "rename:f" quarantine it.  again: the
\* database was quarantined by this initialize().  t: the tables as its transaction
\* sees them.
InTransaction == {"import:devices", "reject:devices", "rename:devices",
                  "import:outbox", "reject:outbox", "rename:outbox", "commit"}
Process == [pc : {"down", "open", "switch", "corrupt", "begin", "up"} \cup InTransaction,
            gen : Gens, again : BOOLEAN, saw : BOOLEAN, t : Tables]

Stopped == [pc |-> "down", gen |-> 0, again |-> FALSE, saw |-> FALSE, t |-> EmptyFile]
\* initialize() raised: nothing is kept, and the next connect() calls it anew.
Retry == [Stopped EXCEPT !.pc = "open"]
Serving == [Stopped EXCEPT !.pc = "up"]

Import == [f \in Files |-> IF f = "devices" THEN "import:devices" ELSE "import:outbox"]
Reject == [f \in Files |-> IF f = "devices" THEN "reject:devices" ELSE "reject:outbox"]
Rename == [f \in Files |-> IF f = "devices" THEN "rename:devices" ELSE "rename:outbox"]
After == [f \in Files |-> IF f = "devices" THEN "import:outbox" ELSE "commit"]

Locked(g) == \E p \in Processes : proc[p].pc \in InTransaction /\ proc[p].gen = g

-----------------------------------------------------------------------------
(* initialize: open and quarantine *)

Start(p) ==
    /\ proc[p].pc = "down"
    /\ proc' = [proc EXCEPT ![p] = Retry]
    /\ UNCHANGED <<disk, db, wal, damaged, headless, path, trouble>>

\* Any sqlite3.Error of the first _open quarantines; one of the second is raised.
OpenFails(p) == IF proc[p].again THEN Retry ELSE [proc[p] EXCEPT !.pc = "corrupt"]

Open(p) ==
    /\ proc[p].pc = "open"
    /\ proc' = [proc EXCEPT ![p] =
           IF path \in headless THEN OpenFails(p)
           ELSE [proc[p] EXCEPT !.gen = path, !.pc = IF path \in wal THEN "begin" ELSE "switch"]]
    /\ UNCHANGED <<disk, db, wal, damaged, headless, path, trouble>>

\* PRAGMA journal_mode = WAL
SwitchToWal(p) ==
    /\ proc[p].pc = "switch"
    /\ proc[p].gen \notin headless
    /\ wal' = wal \cup {proc[p].gen}
    /\ proc' = [proc EXCEPT ![p].pc = "begin"]
    /\ UNCHANGED <<disk, db, damaged, headless, path, trouble>>

\* The file is unreadable by now, or another connection switches it at the same
\* time: of two SQLite refuses one, "database is locked", without waiting.
SwitchRefused(p) ==
    /\ proc[p].pc = "switch"
    /\ \/ /\ proc[p].gen \in headless
          /\ UNCHANGED trouble
       \/ /\ \E q \in Processes \ {p} : proc[q].pc = "switch" /\ proc[q].gen = proc[p].gen
          /\ trouble < MaxTrouble
          /\ trouble' = trouble + 1
    /\ proc' = [proc EXCEPT ![p] = OpenFails(p)]
    /\ UNCHANGED <<disk, db, wal, damaged, headless, path>>

\* Mutant: the handler quarantines and does not get to its second _open.
QuarantineLoop(p) ==
    /\ proc[p].pc = "corrupt"
    /\ path' = path + 1
    /\ UNCHANGED <<disk, db, wal, damaged, headless, proc, trouble>>

\* Renames what the path names now, not the file that could not be opened.
QuarantineDatabase(p) ==
    /\ proc[p].pc = "corrupt"
    /\ path < MaxGen
    /\ path' = path + 1
    /\ proc' = [proc EXCEPT ![p] = [Retry EXCEPT !.again = TRUE]]
    /\ UNCHANGED <<disk, db, wal, damaged, headless, trouble>>

-----------------------------------------------------------------------------
(* initialize: the transaction *)

\* Mutant: the migration does not look for its marker.
BeginUnmarked(p) ==
    LET g == proc[p].gen
    IN  /\ proc[p].pc = "begin"
        /\ ~Locked(g)
        /\ g \notin headless
        /\ proc' = [proc EXCEPT ![p].pc = "import:devices",
                                ![p].t = [db[g] EXCEPT !.ready = TRUE]]
        /\ UNCHANGED <<disk, db, wal, damaged, headless, path, trouble>>

\* Mutant: BEGIN DEFERRED, which takes no lock before the first row is written.
BeginDeferred(p) ==
    LET g == proc[p].gen
        t == [db[g] EXCEPT !.ready = TRUE]
    IN  /\ proc[p].pc = "begin"
        /\ g \notin headless
        /\ IF t.marker
           THEN proc' = [proc EXCEPT ![p] = Serving]
           ELSE proc' = [proc EXCEPT ![p].pc = "import:devices", ![p].t = t]
        /\ UNCHANGED <<disk, db, wal, damaged, headless, path, trouble>>

\* BEGIN IMMEDIATE waits for the file's lock; the schema is created if absent,
\* and a marker ends the migration before it starts.
Begin(p) ==
    LET g == proc[p].gen
        t == [db[g] EXCEPT !.ready = TRUE]
    IN  /\ proc[p].pc = "begin"
        /\ ~Locked(g)
        /\ g \notin headless
        /\ IF t.marker
           THEN proc' = [proc EXCEPT ![p] = Serving]
           ELSE proc' = [proc EXCEPT ![p].pc = "import:devices", ![p].t = t]
        /\ UNCHANGED <<disk, db, wal, damaged, headless, path, trouble>>

\* A file that was renamed or damaged under the connection, or whose damage the
\* PRAGMAs did not meet and a statement does: an sqlite3.Error rolls back and is
\* raised, and quarantines nothing.
Fail(p) ==
    /\ proc[p].pc \in InTransaction \cup {"begin"}
    /\ proc[p].gen # path \/ proc[p].gen \in damaged
    /\ proc' = [proc EXCEPT ![p] = Retry]
    /\ UNCHANGED <<disk, db, wal, damaged, headless, path, trouble>>

Active(t) == {d \in Devices : t.device[d] = "active"}

\* The device meta.chat_id names, else the only active one, else anyone.
Target(t, i) ==
    IF Chat[i] \in Active(t) THEN Chat[i]
    ELSE IF Cardinality(Active(t)) = 1 THEN CHOOSE d \in Active(t) : TRUE
    ELSE Anyone

\* Mutant: INSERT OR REPLACE for INSERT OR IGNORE.
InsertedOver(t, f) ==
    IF f = "devices"
    THEN [t EXCEPT !.device = [d \in Devices |-> IF d \notin Filed THEN @[d]
                                                 ELSE IF d \in FiledActive THEN "active"
                                                 ELSE "inactive"],
                   !.changed = @ \ Filed]
    ELSE [t EXCEPT !.item = [i \in Items |-> Target(t, i)], !.changed = @ \ Items]

\* INSERT OR IGNORE of the rows of a file.
Inserted(t, f) ==
    IF f = "devices"
    THEN [t EXCEPT !.device = [d \in Devices |-> IF d \notin Filed \/ @[d] # "none" THEN @[d]
                                                 ELSE IF d \in FiledActive THEN "active"
                                                 ELSE "inactive"]]
    ELSE [t EXCEPT !.item = [i \in Items |-> IF @[i] # NoRow THEN @[i] ELSE Target(t, i)]]

\* The read-back: every row equals what the file says it is.
Verified(t, f) ==
    IF f = "devices" THEN t.changed \cap Filed = {}
    ELSE \A i \in Items : i \notin t.changed /\ t.item[i] = Target(t, i)

\* Mutant: the savepoint is released and not rolled back when a file fails.
Unrolled(p, f) ==
    LET c == disk[f].json
        t == Inserted(proc[p].t, f)
    IN  /\ proc[p].pc = Import[f]
        /\ c \in {"malformed", "good"}
        /\ IF c = "good" /\ Verified(t, f)
           THEN proc' = [proc EXCEPT ![p].t = t, ![p].saw = TRUE, ![p].pc = After[f]]
           ELSE \E S \in SUBSET Filed :
                  proc' = [proc EXCEPT ![p].pc = Reject[f], ![p].saw = TRUE,
                            ![p].t.device = [d \in Devices |-> IF d \in S THEN t.device[d] ELSE @[d]]]
        /\ UNCHANGED <<disk, db, wal, damaged, headless, path, trouble>>

\* Mutant: before #351-A, a file that fails raised out of initialize().
Raised(p, f) ==
    LET t == Inserted(proc[p].t, f)
    IN  /\ proc[p].pc = Import[f]
        /\ disk[f].json \in {"malformed", "good"}
        /\ proc' = [proc EXCEPT ![p] =
               IF disk[f].json = "good" /\ Verified(t, f)
               THEN [proc[p] EXCEPT !.t = t, !.saw = TRUE, !.pc = After[f]]
               ELSE Retry]
        /\ UNCHANGED <<disk, db, wal, damaged, headless, path, trouble>>

\* A file that is there and readable: imported and verified whole, or rolled
\* back to its savepoint, whatever prefix of it was inserted.
ImportFile(p, f) ==
    LET t == Inserted(proc[p].t, f)
    IN  /\ proc[p].pc = Import[f]
        /\ disk[f].json \in {"malformed", "good"}
        /\ proc' = [proc EXCEPT ![p] =
               IF disk[f].json = "good" /\ Verified(t, f)
               THEN [proc[p] EXCEPT !.t = t, !.saw = TRUE, !.pc = After[f]]
               ELSE [proc[p] EXCEPT !.saw = TRUE, !.pc = Reject[f]]]
        /\ UNCHANGED <<disk, db, wal, damaged, headless, path, trouble>>

FileAbsent(p, f) ==
    /\ proc[p].pc = Import[f]
    /\ disk[f].json = "absent"
    /\ proc' = [proc EXCEPT ![p].pc = After[f]]
    /\ UNCHANGED <<disk, db, wal, damaged, headless, path, trouble>>

\* Only MigrationError is a file's failure.  Bytes that are not UTF-8, a number of
\* too many digits, nesting too deep or a string with a lone surrogate, which
\* SQLite refuses to bind, raise something else, out of initialize().
FileRaises(p, f) ==
    /\ proc[p].pc = Import[f]
    /\ disk[f].json = "raising"
    /\ proc' = [proc EXCEPT ![p] = Retry]
    /\ UNCHANGED <<disk, db, wal, damaged, headless, path, trouble>>

\* _quarantine_file: is there an earlier copy? ...
LookRejected(p, f) ==
    /\ proc[p].pc = Reject[f]
    /\ proc' = [proc EXCEPT ![p].pc = IF disk[f].rejected = "absent" THEN Rename[f] ELSE After[f]]
    /\ UNCHANGED <<disk, db, wal, damaged, headless, path, trouble>>

\* ... if not, rename what the name holds now, over a copy made since then; an
\* OSError, such as no file, is ignored.
QuarantineFile(p, f) ==
    /\ proc[p].pc = Rename[f]
    /\ proc' = [proc EXCEPT ![p].pc = After[f]]
    /\ disk' = IF disk[f].json # "absent"
               THEN [disk EXCEPT ![f] = [json |-> "absent", rejected |-> disk[f].json]]
               ELSE disk
    /\ UNCHANGED <<db, wal, damaged, headless, path, trouble>>

\* The marker is written when a file was there, imported or not.
Commit(p) ==
    /\ proc[p].pc = "commit"
    /\ db' = [db EXCEPT ![proc[p].gen] = [proc[p].t EXCEPT !.marker = proc[p].saw]]
    /\ proc' = [proc EXCEPT ![p] = Serving]
    /\ UNCHANGED <<disk, wal, damaged, headless, path, trouble>>

-----------------------------------------------------------------------------
(* What else happens to the directory *)

\* A request of a serving process: connect() opens what the path names now.
Request(t) ==
    /\ \E p \in Processes : proc[p].pc = "up"
    /\ db[path].ready /\ path \notin headless /\ ~Locked(path)
    /\ db' = [db EXCEPT ![path] = t]
    /\ UNCHANGED <<disk, wal, damaged, headless, path, proc, trouble>>

Pair(d) ==
    /\ d \notin Filed /\ db[path].device[d] = "none"
    /\ Request([db[path] EXCEPT !.device[d] = "active"])

\* Unpaired, or rotated out.
Deactivate(d) ==
    /\ db[path].device[d] = "active"
    /\ Request([db[path] EXCEPT !.device[d] = "inactive", !.changed = @ \cup {d}])

\* Every drain moves last_seen.
Touch(d) ==
    /\ db[path].device[d] = "active"
    /\ Request([db[path] EXCEPT !.changed = @ \cup {d}])

\* Claimed, delivered or expired.
Settle(i) ==
    /\ db[path].item[i] # NoRow
    /\ Request([db[path] EXCEPT !.changed = @ \cup {i}])

\* An old gateway still writing, or a restore from backup.
LateFile(f, c) ==
    /\ disk[f].json = "absent"
    /\ disk' = [disk EXCEPT ![f].json = c]
    /\ UNCHANGED <<db, wal, damaged, headless, path, proc, trouble>>

\* README, "Migration recovery": repair the file, rename it back, drop the marker.
Repair(f) ==
    /\ disk[f].rejected # "absent" /\ disk[f].json = "absent"
    /\ ~Locked(path)
    /\ disk' = [disk EXCEPT ![f] = [json |-> "good", rejected |-> "absent"]]
    /\ db' = [db EXCEPT ![path].marker = FALSE]
    /\ UNCHANGED <<wal, damaged, headless, path, proc, trouble>>

Stop(p) ==
    /\ proc[p].pc # "down"
    /\ trouble < MaxTrouble
    /\ trouble' = trouble + 1
    /\ proc' = [proc EXCEPT ![p] = Stopped]
    /\ UNCHANGED <<disk, db, wal, damaged, headless, path>>

Damage ==
    /\ trouble < MaxTrouble
    /\ trouble' = trouble + 1
    /\ damaged' = damaged \cup {path}
    /\ headless' \in {headless, headless \cup {path}}
    /\ UNCHANGED <<disk, db, wal, path, proc>>

-----------------------------------------------------------------------------

Init ==
    /\ disk \in [Files -> [json : Contents \cup {"absent"}, rejected : {"absent"}]]
    /\ db = [g \in Gens |-> EmptyFile]
    /\ wal = {} /\ damaged = {} /\ headless = {}
    /\ path = 0
    /\ proc = [p \in Processes |-> Stopped]
    /\ trouble = 0

ImportStep(p, f) ==
    \/ ImportFile(p, f) \/ FileAbsent(p, f) \/ FileRaises(p, f)
    \/ LookRejected(p, f) \/ QuarantineFile(p, f)

Initialize(p) ==
    \/ Open(p) \/ SwitchToWal(p) \/ SwitchRefused(p) \/ QuarantineDatabase(p)
    \/ Begin(p) \/ Fail(p) \/ Commit(p)
    \/ \E f \in Files : ImportStep(p, f)

Next ==
    \/ \E p \in Processes : Start(p) \/ Initialize(p) \/ Stop(p)
    \/ \E d \in Devices : Pair(d) \/ Deactivate(d) \/ Touch(d)
    \/ \E i \in Items : Settle(i)
    \/ \E f \in Files : Repair(f)
    \/ \E f \in Files, c \in Contents : LateFile(f, c)
    \/ Damage

\* initialize() is one call: nothing in it waits but BEGIN IMMEDIATE, for a
\* transaction that ends; each connect() of a process that is not up calls it.
Spec == Init /\ [][Next]_vars /\ \A p \in Processes : WF_vars(Initialize(p))

-----------------------------------------------------------------------------
(* Properties *)

TypeOK ==
    /\ disk \in [Files -> [json : Contents \cup {"absent", "good"},
                           rejected : Contents \cup {"absent", "good"}]]
    /\ db \in [Gens -> Tables]
    /\ wal \subseteq Gens /\ path \in Gens
    /\ damaged \subseteq Gens /\ headless \subseteq damaged
    /\ proc \in [Processes -> Process]
    /\ trouble \in 0 .. MaxTrouble

Whole(t) == /\ {d \in Filed : t.device[d] # "none"} \in {{}, Filed}
            /\ {i \in Items : t.item[i] # NoRow} \in {{}, Items}

\* A legacy file is in a database whole or not at all, whichever row of it
\* failed, whoever else was starting and wherever a process stopped
\* (database.py, _import_file; test_semantically_invalid_device_file_...).
AllOrNothing == \A g \in Gens : Whole(db[g])

Follows(t, u) ==
    /\ t.changed \subseteq u.changed
    /\ \A d \in Devices : t.device[d] = "inactive" => u.device[d] = "inactive"

\* What the plugin did to a row since it was imported outlives every later
\* import of the file: a device stays out, a settled row stays settled
\* (database.py, INSERT OR IGNORE; README "re-import is idempotent").
NoReversal == [][\A g \in Gens : Follows(db[g], db'[g])]_vars

\* Between _quarantine_file's look and its rename over, the write lock that the
\* transaction holds on the database keeps every other start from quarantining the
\* same file: the copy that is there stays until the operator takes it back.  Once
\* the database was quarantined too there are two locks, and a start on the old
\* file may rename a late one over the copy a start on the new one has made.
RejectedCopyKept ==
    [][\A f \in Files : path = 0 /\ disk[f].rejected # "absent" =>
           disk'[f].rejected \in {disk[f].rejected, "absent"}]_vars

\* A start ends in a process that serves, whoever else starts or stops and whatever
\* file or database is quarantined meanwhile (database.py, _quarantine_file: "one
\* malformed field must never brick auth and the CLI forever"), but for two
\* exceptions that the code makes, and meets again at every start: a legacy file that
\* raises something else than MigrationError, and a database whose damage _open does
\* not read.
EveryStartServes ==
    \A p \in Processes :
        proc[p].pc = "open" ~> \/ proc[p].pc \in {"up", "down"}
                               \/ \E f \in Files : disk[f].json = "raising"
                               \/ path \in damaged \ headless

\* What initialize() says: "an unreadable database file is itself quarantined",
\* and no other.  (Refuted: run locked.)
OnlyUnreadableQuarantined == [][path' # path => path \in damaged]_vars

-----------------------------------------------------------------------------
(* What it implements: Intake *)

Present(t, x) == IF x \in Devices THEN t.device[x] # "none" ELSE t.item[x] # NoRow

RowStatus(t, x) == IF ~Present(t, x) THEN "absent"
                   ELSE IF x \in t.changed THEN "changed" ELSE "intact"

Store == [g \in Gens |-> [open |-> ~db[g].marker,
                          row  |-> [x \in Devices \cup Items |-> RowStatus(db[g], x)]]]

RowsOf == [f \in Files |-> IF f = "devices" THEN Filed ELSE Items]

Taking == INSTANCE Intake WITH Databases <- Gens, Rows <- Devices \cup Items, store <- Store

\* Whoever starts beside whom, stops half-way or finds which file: a database takes
\* the legacy files in at one moment, whole, and once it has looked at one it takes
\* no more until the operator drops its marker (database.py, _migrate_legacy_json;
\* README, "Migration recovery").  Rows come and change, and never go.
IntakeSpec == Taking!Spec
=============================================================================
