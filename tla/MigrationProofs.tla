--------------------------- MODULE MigrationProofs ---------------------------
(***************************************************************************)
(* What Migration's imports keep, for any number of processes, devices,    *)
(* items and quarantined databases: the argument is that a transaction is  *)
(* alone on its file (OneWriter) and therefore still starts from what is   *)
(* committed when it commits (Ahead).                                      *)
(***************************************************************************)
EXTENDS Migration, FiniteSetTheorems, TLAPS

Writing(p) == proc[p].pc \in InTransaction

OneWriter == \A p, q \in Processes :
    Writing(p) /\ Writing(q) /\ proc[p].gen = proc[q].gen => p = q

Ahead == \A p \in Processes : Writing(p) =>
    Whole(proc[p].t) /\ Follows(db[proc[p].gen], proc[p].t)

IInv == TypeOK /\ OneWriter /\ AllOrNothing /\ Ahead

-----------------------------------------------------------------------------

\* One file inserted: whole tables stay whole, and nothing in them is undone.
LEMMA InsertedKeeps ==
    ASSUME NEW t \in Tables, NEW f \in Files, Whole(t)
    PROVE  /\ Inserted(t, f) \in Tables
           /\ Whole(Inserted(t, f))
           /\ Follows(t, Inserted(t, f))
<1> DEFINE u == Inserted(t, f)
<1>t. \A i \in Items : Target(t, i) \in Devices \cup {Anyone}
  <2> SUFFICES ASSUME NEW i \in Items PROVE Target(t, i) \in Devices \cup {Anyone}
    OBVIOUS
  <2>1. CASE Chat[i] \in Active(t)
    BY <2>1 DEF Target, Active
  <2>2. CASE Chat[i] \notin Active(t) /\ Active(t) # {}
    <3>1. (CHOOSE d \in Active(t) : TRUE) \in Active(t)
      BY <2>2
    <3> QED BY <2>2, <3>1 DEF Target, Active
  <2>3. CASE Active(t) = {}
    <3>1. Cardinality(Active(t)) # 1
      BY <2>3, FS_EmptySet
    <3> QED BY <2>3, <3>1 DEF Target
  <2> QED BY <2>1, <2>2, <2>3
<1>1. CASE f = "devices"
  <2>1. u \in Tables /\ u.item = t.item /\ u.changed = t.changed
    BY <1>1, MigrationAssumption DEF Inserted, Tables
  <2>2. \A d \in Devices : u.device[d] = IF d \notin Filed \/ t.device[d] # "none" THEN t.device[d]
                                         ELSE IF d \in FiledActive THEN "active" ELSE "inactive"
    BY <1>1 DEF Inserted, Tables
  <2>3. Follows(t, u)
    BY <2>1, <2>2 DEF Follows, Tables
  <2>4. {d \in Filed : u.device[d] # "none"} = Filed
    BY <2>2, MigrationAssumption
  <2> QED BY <2>1, <2>3, <2>4 DEF Whole
<1>2. CASE f = "outbox"
  <2>1. u \in Tables /\ u.device = t.device /\ u.changed = t.changed
    BY <1>2, <1>t DEF Inserted, Tables, Files
  <2>2. \A i \in Items : u.item[i] = IF t.item[i] # NoRow THEN t.item[i] ELSE Target(t, i)
    BY <1>2 DEF Inserted, Tables
  <2>3. Follows(t, u)
    BY <2>1 DEF Follows, Tables
  <2>4. {i \in Items : u.item[i] # NoRow} = Items
    BY <2>2, <1>t, MigrationAssumption
  <2> QED BY <2>1, <2>3, <2>4 DEF Whole
<1> QED BY <1>1, <1>2 DEF Files

\* A step of one process that commits nothing: its new record must fit.
LEMMA ProcStep ==
    ASSUME IInv, db' = db, NEW p \in Processes, NEW r \in Process,
           proc' = [proc EXCEPT ![p] = r],
           r.pc \in InTransaction =>
               /\ Whole(r.t) /\ Follows(db[r.gen], r.t)
               /\ \A q \in Processes : Writing(q) /\ proc[q].gen = r.gen => q = p
    PROVE  proc' \in [Processes -> Process] /\ OneWriter' /\ AllOrNothing' /\ Ahead'
<1>1. proc' \in [Processes -> Process]
  BY DEF IInv, TypeOK
<1>2. proc'[p] = r /\ \A q \in Processes : q # p => proc'[q] = proc[q]
  BY DEF IInv, TypeOK
<1>3. OneWriter'
  BY <1>2 DEF IInv, OneWriter, Writing
<1>4. AllOrNothing'
  BY DEF IInv, AllOrNothing
<1>5. Ahead'
  BY <1>2 DEF IInv, Ahead, Writing
<1> QED BY <1>1, <1>3, <1>4, <1>5

\* A file's tables are replaced by a step after which nobody writes to it.
LEMMA TableStep ==
    ASSUME IInv, NEW g \in Gens, NEW t \in Tables, Whole(t),
           db' = [db EXCEPT ![g] = t],
           proc' \in [Processes -> Process],
           \A q \in Processes : Writing(q)' => proc'[q] = proc[q] /\ proc[q].gen # g
    PROVE  db' \in [Gens -> Tables] /\ OneWriter' /\ AllOrNothing' /\ Ahead'
<1>1. db' \in [Gens -> Tables] /\ db'[g] = t /\ \A h \in Gens : h # g => db'[h] = db[h]
  BY DEF IInv, TypeOK
<1>2. OneWriter'
  BY DEF IInv, OneWriter, Writing
<1>3. AllOrNothing'
  BY <1>1 DEF IInv, AllOrNothing
<1>4. Ahead'
  <2> SUFFICES ASSUME NEW q \in Processes, Writing(q)'
               PROVE  Whole(proc'[q].t) /\ Follows(db'[proc'[q].gen], proc'[q].t)
    BY DEF Ahead, Writing
  <2>1. proc'[q] = proc[q] /\ proc[q].gen # g
    OBVIOUS
  <2>2. proc[q].gen \in Gens /\ Writing(q)
    BY <2>1 DEF IInv, TypeOK, Process, Writing
  <2> QED BY <1>1, <2>1, <2>2 DEF IInv, Ahead
<1> QED BY <1>1, <1>2, <1>3, <1>4

LEMMA EmptyIsWhole == EmptyFile \in Tables /\ Whole(EmptyFile)
<1>1. EmptyFile \in Tables
  BY DEF EmptyFile, Tables
<1>2. {d \in Filed : EmptyFile.device[d] # "none"} = {}
  BY MigrationAssumption DEF EmptyFile
<1>3. {i \in Items : EmptyFile.item[i] # NoRow} = {}
  BY DEF EmptyFile
<1> QED BY <1>1, <1>2, <1>3 DEF Whole

LEMMA IdleRecords ==
    /\ Stopped \in Process /\ Retry \in Process /\ Serving \in Process
    /\ {Stopped.pc, Retry.pc, Serving.pc} \cap InTransaction = {}
<1>1. 0 \in Gens
  BY MigrationAssumption DEF Gens
<1> QED BY <1>1, EmptyIsWhole DEF Stopped, Retry, Serving, Process, InTransaction

LEMMA InitInv == Init => IInv
<1> SUFFICES ASSUME Init PROVE IInv
  OBVIOUS
<1>1. TypeOK
  BY IdleRecords, EmptyIsWhole, MigrationAssumption DEF Init, TypeOK, Gens
<1>2. \A p \in Processes : ~Writing(p)
  BY IdleRecords DEF Init, Writing
<1>3. AllOrNothing
  BY EmptyIsWhole DEF Init, AllOrNothing
<1> QED BY <1>1, <1>2, <1>3 DEF IInv, OneWriter, Ahead

\* The steps of initialize() that commit nothing.
LEMMA InitializeInv ==
    ASSUME IInv, NEW p \in Processes, Initialize(p), ~Commit(p)
    PROVE  IInv' /\ db' = db
<1> USE DEF IInv
<1>0. proc[p] \in Process /\ path \in Gens
  BY DEF TypeOK
<1>1. CASE Open(p)
  <2> DEFINE r == IF path \in headless THEN OpenFails(p)
                  ELSE [proc[p] EXCEPT !.gen = path, !.pc = IF path \in wal THEN "begin" ELSE "switch"]
  <2>1. r \in Process /\ r.pc \notin InTransaction
    BY <1>0, <1>1, IdleRecords DEF Open, OpenFails, Process, InTransaction
  <2>2. proc' = [proc EXCEPT ![p] = r] /\ db' = db
    BY <1>1 DEF Open
  <2>3. proc' \in [Processes -> Process] /\ OneWriter' /\ AllOrNothing' /\ Ahead'
    BY <2>1, <2>2, ProcStep
  <2> QED BY <1>1, <2>2, <2>3 DEF Open, TypeOK
<1>2. CASE SwitchToWal(p)
  <2> DEFINE r == [proc[p] EXCEPT !.pc = "begin"]
  <2>1. r \in Process /\ r.pc \notin InTransaction
    BY <1>0 DEF Process, InTransaction
  <2>2. proc' = [proc EXCEPT ![p] = r] /\ db' = db
    BY <1>2 DEF SwitchToWal, TypeOK
  <2>3. proc' \in [Processes -> Process] /\ OneWriter' /\ AllOrNothing' /\ Ahead'
    BY <2>1, <2>2, ProcStep
  <2> QED BY <1>0, <1>2, <2>2, <2>3 DEF SwitchToWal, TypeOK, Process
<1>3. CASE SwitchRefused(p)
  <2> DEFINE r == OpenFails(p)
  <2>1. r \in Process /\ r.pc \notin InTransaction
    BY <1>0, IdleRecords DEF OpenFails, Process, InTransaction
  <2>2. proc' = [proc EXCEPT ![p] = r] /\ db' = db
    BY <1>3 DEF SwitchRefused
  <2>3. proc' \in [Processes -> Process] /\ OneWriter' /\ AllOrNothing' /\ Ahead'
    BY <2>1, <2>2, ProcStep
  <2> QED BY <1>3, <2>2, <2>3, MigrationAssumption DEF SwitchRefused, TypeOK
<1>4. CASE QuarantineDatabase(p)
  <2> DEFINE r == [Retry EXCEPT !.again = TRUE]
  <2>1. r \in Process /\ r.pc \notin InTransaction
    BY IdleRecords DEF Process, Retry, Stopped
  <2>2. proc' = [proc EXCEPT ![p] = r] /\ db' = db
    BY <1>4 DEF QuarantineDatabase
  <2>3. proc' \in [Processes -> Process] /\ OneWriter' /\ AllOrNothing' /\ Ahead'
    BY <2>1, <2>2, ProcStep
  <2>4. path' \in Gens
    BY <1>0, <1>4, MigrationAssumption DEF QuarantineDatabase, Gens
  <2> QED BY <1>4, <2>2, <2>3, <2>4 DEF QuarantineDatabase, TypeOK
<1>5. CASE Begin(p)
  <2> DEFINE g == proc[p].gen
             t == [db[g] EXCEPT !.ready = TRUE]
             r == IF t.marker THEN Serving ELSE [proc[p] EXCEPT !.pc = "import:devices", !.t = t]
  <2>1. g \in Gens /\ db[g] \in Tables
    BY <1>0 DEF TypeOK, Process
  <2>2. t \in Tables /\ Whole(t) /\ Follows(db[g], t)
    BY <2>1 DEF Tables, Whole, Follows, AllOrNothing
  <2>3. r \in Process
    BY <1>0, <2>2, IdleRecords DEF Process, InTransaction
  <2>4. proc' = [proc EXCEPT ![p] = r] /\ db' = db
    BY <1>5 DEF Begin, TypeOK
  <2>5. r.pc \in InTransaction => r.t = t /\ r.gen = g
    BY <1>0, IdleRecords DEF Process
  <2>6. \A q \in Processes : ~(Writing(q) /\ proc[q].gen = g)
    BY <1>5 DEF Begin, Locked, Writing
  <2>7. proc' \in [Processes -> Process] /\ OneWriter' /\ AllOrNothing' /\ Ahead'
    <3> HIDE DEF r, t, g, IInv
    <3> QED BY <2>2, <2>3, <2>4, <2>5, <2>6, ProcStep
  <2> QED BY <1>5, <2>4, <2>7 DEF Begin, TypeOK
<1>6. CASE Fail(p)
  <2>1. proc' = [proc EXCEPT ![p] = Retry] /\ db' = db
    BY <1>6 DEF Fail
  <2>2. proc' \in [Processes -> Process] /\ OneWriter' /\ AllOrNothing' /\ Ahead'
    BY <2>1, IdleRecords, ProcStep
  <2> QED BY <1>6, <2>1, <2>2 DEF Fail, TypeOK
<1>7. ASSUME NEW f \in Files, ImportStep(p, f)
      PROVE  IInv' /\ db' = db
  <2>1. CASE ImportFile(p, f)
    <3> DEFINE t == Inserted(proc[p].t, f)
               r == IF disk[f].json = "good" /\ Verified(t, f)
                    THEN [proc[p] EXCEPT !.t = t, !.saw = TRUE, !.pc = After[f]]
                    ELSE [proc[p] EXCEPT !.saw = TRUE, !.pc = Reject[f]]
    <3>1. Writing(p)
      BY <2>1 DEF ImportFile, Writing, Import, InTransaction, Files
    <3>2. proc[p].t \in Tables /\ Whole(proc[p].t) /\ Follows(db[proc[p].gen], proc[p].t)
      BY <1>0, <3>1 DEF Ahead, Process
    <3>3. t \in Tables /\ Whole(t) /\ Follows(proc[p].t, t)
      BY <3>2, InsertedKeeps
    <3>4. Follows(db[proc[p].gen], t)
      BY <3>2, <3>3 DEF Follows
    <3>5. After[f] \in InTransaction /\ Reject[f] \in InTransaction
      BY DEF After, Reject, InTransaction, Files
    <3>6. r \in Process
      BY <1>0, <3>3, <3>5 DEF Process
    <3>7. r.gen = proc[p].gen /\ r.t \in {t, proc[p].t}
      BY <1>0 DEF Process
    <3>8. proc' = [proc EXCEPT ![p] = r] /\ db' = db
      BY <2>1 DEF ImportFile
    <3>9. \A q \in Processes : Writing(q) /\ proc[q].gen = r.gen => q = p
      BY <3>1, <3>7 DEF OneWriter
    <3>10. proc' \in [Processes -> Process] /\ OneWriter' /\ AllOrNothing' /\ Ahead'
      <4> HIDE DEF r, t, IInv
      <4> QED BY <3>2, <3>3, <3>4, <3>6, <3>7, <3>8, <3>9, ProcStep
    <3> QED BY <2>1, <3>8, <3>10 DEF ImportFile, TypeOK
  <2>2. CASE FileAbsent(p, f) \/ LookRejected(p, f) \/ QuarantineFile(p, f)
    <3>1. Writing(p)
      BY <2>2 DEF FileAbsent, LookRejected, QuarantineFile, Writing, Import, Reject, Rename,
                  InTransaction, Files
    <3>a. After[f] \in InTransaction /\ Rename[f] \in InTransaction
      BY DEF After, Rename, InTransaction, Files
    <3>2. PICK pc \in InTransaction : proc' = [proc EXCEPT ![p].pc = pc]
      BY <2>2, <3>a DEF FileAbsent, LookRejected, QuarantineFile
    <3> DEFINE r == [proc[p] EXCEPT !.pc = pc]
    <3>3. r \in Process /\ r.t = proc[p].t /\ r.gen = proc[p].gen
      BY <1>0, <3>2 DEF Process
    <3>4. proc' = [proc EXCEPT ![p] = r] /\ db' = db
      BY <2>2, <3>2 DEF FileAbsent, LookRejected, QuarantineFile, TypeOK
    <3>5. \A q \in Processes : Writing(q) /\ proc[q].gen = r.gen => q = p
      BY <3>1, <3>3 DEF OneWriter
    <3>6. Whole(r.t) /\ Follows(db[r.gen], r.t)
      BY <3>1, <3>3 DEF Ahead
    <3>7. proc' \in [Processes -> Process] /\ OneWriter' /\ AllOrNothing' /\ Ahead'
      <4> HIDE DEF r, IInv
      <4> QED BY <3>3, <3>4, <3>5, <3>6, ProcStep
    <3>8. disk' \in [Files -> [json : Contents \cup {"absent", "good"},
                               rejected : Contents \cup {"absent", "good"}]]
      BY <2>2 DEF FileAbsent, LookRejected, QuarantineFile, TypeOK
    <3> QED BY <2>2, <3>4, <3>7, <3>8 DEF FileAbsent, LookRejected, QuarantineFile, TypeOK
  <2>3. CASE FileRaises(p, f)
    <3>1. proc' = [proc EXCEPT ![p] = Retry] /\ db' = db
      BY <2>3 DEF FileRaises
    <3>2. proc' \in [Processes -> Process] /\ OneWriter' /\ AllOrNothing' /\ Ahead'
      BY <3>1, IdleRecords, ProcStep
    <3> QED BY <2>3, <3>1, <3>2 DEF FileRaises, TypeOK
  <2> QED BY <1>7, <2>1, <2>2, <2>3 DEF ImportStep
<1> QED BY <1>1, <1>2, <1>3, <1>4, <1>5, <1>6, <1>7 DEF Initialize

LEMMA CommitInv ==
    ASSUME IInv, NEW p \in Processes, Commit(p)
    PROVE  IInv' /\ \A g \in Gens : Follows(db[g], db'[g])
<1> USE DEF IInv
<1> DEFINE g == proc[p].gen
           t == [proc[p].t EXCEPT !.marker = proc[p].saw]
<1>1. proc[p] \in Process /\ g \in Gens /\ proc[p].t \in Tables /\ Writing(p)
  BY DEF TypeOK, Process, Commit, Writing, InTransaction
<1>2. t \in Tables /\ Whole(t) /\ Follows(db[g], t)
  BY <1>1 DEF Ahead, Whole, Follows, Tables, Process
<1>3. proc' = [proc EXCEPT ![p] = Serving] /\ db' = [db EXCEPT ![g] = t]
  BY DEF Commit
<1>4. proc' \in [Processes -> Process] /\ proc'[p] = Serving
      /\ \A q \in Processes : q # p => proc'[q] = proc[q]
  BY <1>3, IdleRecords DEF TypeOK
<1>5. \A q \in Processes : Writing(q)' => proc'[q] = proc[q] /\ proc[q].gen # g
  BY <1>1, <1>4, IdleRecords DEF OneWriter, Writing
<1>6. db' \in [Gens -> Tables] /\ OneWriter' /\ AllOrNothing' /\ Ahead'
  <2> HIDE DEF t, g, IInv
  <2> QED BY <1>1, <1>2, <1>3, <1>4, <1>5, TableStep
<1>7. \A h \in Gens : Follows(db[h], db'[h])
  BY <1>1, <1>2, <1>3 DEF TypeOK, Follows
<1> QED BY <1>4, <1>6, <1>7 DEF Commit, TypeOK

LEMMA RequestInv ==
    ASSUME IInv, NEW t \in Tables, Whole(t), Follows(db[path], t), Request(t)
    PROVE  IInv' /\ \A g \in Gens : Follows(db[g], db'[g])
<1> USE DEF IInv
<1>1. path \in Gens /\ db' = [db EXCEPT ![path] = t] /\ proc' = proc
  BY DEF TypeOK, Request
<1>2. proc' \in [Processes -> Process]
  BY <1>1 DEF TypeOK
<1>3. \A q \in Processes : Writing(q)' => proc'[q] = proc[q] /\ proc[q].gen # path
  BY <1>1 DEF Request, Locked, Writing
<1>4. db' \in [Gens -> Tables] /\ OneWriter' /\ AllOrNothing' /\ Ahead'
  <2> HIDE DEF IInv
  <2> QED BY <1>1, <1>2, <1>3, TableStep
<1>5. \A g \in Gens : Follows(db[g], db'[g])
  BY <1>1 DEF TypeOK, Follows
<1> QED BY <1>2, <1>4, <1>5 DEF Request, TypeOK

\* Requests of serving processes leave every imported row where it is.
LEMMA RequestsInv ==
    ASSUME IInv, \/ \E d \in Devices : Pair(d) \/ Deactivate(d) \/ Touch(d)
                 \/ \E i \in Items : Settle(i)
    PROVE  IInv' /\ \A g \in Gens : Follows(db[g], db'[g])
<1> DEFINE u == db[path]
<1>0. u \in Tables /\ Whole(u)
  BY DEF IInv, TypeOK, AllOrNothing
<1>1. ASSUME NEW d \in Devices, Pair(d)
      PROVE  IInv' /\ \A g \in Gens : Follows(db[g], db'[g])
  <2> DEFINE t == [u EXCEPT !.device[d] = "active"]
  <2>1. t \in Tables /\ Follows(u, t) /\ t.item = u.item
    BY <1>0, <1>1 DEF Tables, Follows, Pair
  <2>2. {e \in Filed : t.device[e] # "none"} = {e \in Filed : u.device[e] # "none"}
    BY <1>0, <1>1, MigrationAssumption DEF Tables, Pair
  <2>3. Whole(t)
    BY <1>0, <2>1, <2>2 DEF Whole
  <2> QED BY <1>1, <2>1, <2>3, RequestInv DEF Pair
<1>2. ASSUME NEW d \in Devices, Deactivate(d)
      PROVE  IInv' /\ \A g \in Gens : Follows(db[g], db'[g])
  <2> DEFINE t == [u EXCEPT !.device[d] = "inactive", !.changed = @ \cup {d}]
  <2>1. t \in Tables /\ Follows(u, t) /\ t.item = u.item
    BY <1>0 DEF Tables, Follows
  <2>2. {e \in Filed : t.device[e] # "none"} = {e \in Filed : u.device[e] # "none"}
    BY <1>0, <1>2, MigrationAssumption DEF Tables, Deactivate
  <2>3. Whole(t)
    BY <1>0, <2>1, <2>2 DEF Whole
  <2> QED BY <1>2, <2>1, <2>3, RequestInv DEF Deactivate
<1>3. ASSUME NEW d \in Devices, Touch(d)
      PROVE  IInv' /\ \A g \in Gens : Follows(db[g], db'[g])
  <2> DEFINE t == [u EXCEPT !.changed = @ \cup {d}]
  <2>1. t \in Tables /\ Follows(u, t) /\ t.item = u.item /\ t.device = u.device
    BY <1>0 DEF Tables, Follows
  <2>2. Whole(t)
    BY <1>0, <2>1 DEF Whole
  <2> QED BY <1>3, <2>1, <2>2, RequestInv DEF Touch
<1>4. ASSUME NEW i \in Items, Settle(i)
      PROVE  IInv' /\ \A g \in Gens : Follows(db[g], db'[g])
  <2> DEFINE t == [u EXCEPT !.changed = @ \cup {i}]
  <2>1. t \in Tables /\ Follows(u, t) /\ t.item = u.item /\ t.device = u.device
    BY <1>0 DEF Tables, Follows
  <2>2. Whole(t)
    BY <1>0, <2>1 DEF Whole
  <2> QED BY <1>4, <2>1, <2>2, RequestInv DEF Settle
<1> QED BY <1>1, <1>2, <1>3, <1>4

\* What the operator and the world do.
LEMMA OutsideInv ==
    ASSUME IInv,
           \/ \E f \in Files : Repair(f)
           \/ \E f \in Files, c \in Contents : LateFile(f, c)
           \/ Damage
    PROVE  IInv' /\ \A g \in Gens : Follows(db[g], db'[g])
<1> USE DEF IInv
<1>1. ASSUME NEW f \in Files, Repair(f)
      PROVE  IInv' /\ \A g \in Gens : Follows(db[g], db'[g])
  <2> DEFINE t == [db[path] EXCEPT !.marker = FALSE]
  <2>1. path \in Gens /\ db' = [db EXCEPT ![path] = t] /\ proc' = proc
    BY <1>1 DEF TypeOK, Repair
  <2>2. t \in Tables /\ Whole(t) /\ Follows(db[path], t)
    BY <2>1 DEF TypeOK, Tables, AllOrNothing, Whole, Follows
  <2>3. proc' \in [Processes -> Process]
    BY <2>1 DEF TypeOK
  <2>4. \A q \in Processes : Writing(q)' => proc'[q] = proc[q] /\ proc[q].gen # path
    BY <1>1, <2>1 DEF Repair, Locked, Writing
  <2>5. db' \in [Gens -> Tables] /\ OneWriter' /\ AllOrNothing' /\ Ahead'
    <3> HIDE DEF t, IInv
    <3> QED BY <2>1, <2>2, <2>3, <2>4, TableStep
  <2>6. \A g \in Gens : Follows(db[g], db'[g])
    BY <2>1, <2>2 DEF TypeOK, Follows
  <2>7. disk' \in [Files -> [json : Contents \cup {"absent", "good"},
                             rejected : Contents \cup {"absent", "good"}]]
    BY <1>1 DEF Repair, TypeOK
  <2> QED BY <1>1, <2>3, <2>5, <2>6, <2>7 DEF Repair, TypeOK
<1>2. CASE (\E f \in Files, c \in Contents : LateFile(f, c)) \/ Damage
  <2>1. UNCHANGED <<db, proc>>
    BY <1>2 DEF LateFile, Damage
  <2>2. OneWriter' /\ AllOrNothing' /\ Ahead'
    BY <2>1 DEF OneWriter, AllOrNothing, Ahead, Writing
  <2>3. TypeOK'
    BY <1>2, <2>1, MigrationAssumption DEF LateFile, Damage, TypeOK
  <2> QED BY <2>1, <2>2, <2>3 DEF Follows
<1> QED BY <1>1, <1>2

LEMMA NextInv == IInv /\ [Next]_vars => IInv' /\ \A g \in Gens : Follows(db[g], db'[g])
<1> SUFFICES ASSUME IInv, [Next]_vars
             PROVE  IInv' /\ \A g \in Gens : Follows(db[g], db'[g])
  OBVIOUS
<1>0. db' = db => \A g \in Gens : Follows(db[g], db'[g])
  BY DEF Follows
<1>1. CASE UNCHANGED vars
  BY <1>0, <1>1 DEF vars, IInv, TypeOK, OneWriter, AllOrNothing, Ahead, Writing
<1>2. ASSUME NEW p \in Processes, Start(p) \/ Stop(p)
      PROVE  IInv' /\ \A g \in Gens : Follows(db[g], db'[g])
  <2>1. db' = db /\ (proc' = [proc EXCEPT ![p] = Retry] \/ proc' = [proc EXCEPT ![p] = Stopped])
    BY <1>2 DEF Start, Stop
  <2>2. proc' \in [Processes -> Process] /\ OneWriter' /\ AllOrNothing' /\ Ahead'
    BY <2>1, IdleRecords, ProcStep
  <2>3. TypeOK'
    BY <1>2, <2>1, <2>2, MigrationAssumption DEF Start, Stop, TypeOK, IInv
  <2> QED BY <1>0, <2>1, <2>2, <2>3 DEF IInv
<1>3. ASSUME NEW p \in Processes, Initialize(p)
      PROVE  IInv' /\ \A g \in Gens : Follows(db[g], db'[g])
  BY <1>0, <1>3, InitializeInv, CommitInv
<1> QED BY <1>1, <1>2, <1>3, RequestsInv, OutsideInv DEF Next

-----------------------------------------------------------------------------

THEOREM Invariance == Spec => []IInv
<1>1. IInv /\ [Next]_vars => IInv'
  BY NextInv
<1> QED BY InitInv, <1>1, PTL DEF Spec

\* The tables, files and processes keep their types (database.py, initialize).
THEOREM TypeCorrect == Spec => []TypeOK
<1>1. IInv => TypeOK
  BY DEF IInv
<1> QED BY Invariance, <1>1, PTL

\* A legacy file is in a database whole or not at all, for any number of
\* processes and devices (database.py, _import_file).
THEOREM FilesWhole == Spec => []AllOrNothing
<1>1. IInv => AllOrNothing
  BY DEF IInv
<1> QED BY Invariance, <1>1, PTL

\* No import, late or repeated, undoes what happened to a row since the first
\* (database.py, _migrate_devices and _migrate_outbox).
THEOREM NothingReverted == Spec => NoReversal
<1>1. IInv /\ [Next]_vars => [\A g \in Gens : Follows(db[g], db'[g])]_vars
  BY NextInv
<1> QED BY Invariance, <1>1, PTL DEF Spec, NoReversal

-----------------------------------------------------------------------------
(* A quarantined file is not overwritten *)

\* No connection is on a generation that is still to come.
Behind == \A p \in Processes : proc[p].gen <= path

\* As long as there is one database, what a start has seen absent is absent.
Looked == \A p \in Processes, f \in Files :
    path = 0 /\ proc[p].pc = Rename[f] => disk[f].rejected = "absent"

LEMMA LookedInit == Init => Behind /\ Looked
BY DEF Init, Behind, Looked, Stopped, Rename, Files

\* Where a process can be after a step, other than at a rename.
Elsewhere == {"down", "open", "switch", "corrupt", "begin", "up"} \cup
             {"import:devices", "reject:devices", "import:outbox", "reject:outbox", "commit"}

\* A process keeps its file, gives it up or opens the one talaria.db names, and comes
\* to a rename only from the look.
Moves(p, r) ==
    /\ proc' = [proc EXCEPT ![p] = r]
    /\ r.gen \in {proc[p].gen, 0, path}
    /\ r.pc \in Elsewhere \/ \E f \in Files : LookRejected(p, f) /\ r.pc = Rename[f]

LEMMA ProcessMoves ==
    ASSUME IInv, NEW p \in Processes, Start(p) \/ Initialize(p) \/ Stop(p)
    PROVE  \E r : Moves(p, r)
<1>0. proc \in [Processes -> Process] /\ proc[p] \in Process
  BY DEF IInv, TypeOK
<1>i. /\ \A r \in {Stopped, Retry, Serving} : r.gen = 0 /\ r.pc \in Elsewhere
      /\ OpenFails(p).gen \in {proc[p].gen, 0} /\ OpenFails(p).pc \in Elsewhere
  BY <1>0 DEF Stopped, Retry, Serving, OpenFails, Elsewhere, Process
<1>f. \A f \in Files : After[f] \in Elsewhere /\ Reject[f] \in Elsewhere
  BY DEF After, Reject, Files, Elsewhere
<1>1. CASE Start(p) \/ Stop(p) \/ Fail(p) \/ Commit(p) \/ \E f \in Files : FileRaises(p, f)
  BY <1>1, <1>i DEF Start, Stop, Fail, Commit, FileRaises, Moves
\* The process goes on with what it has.
<1>2. ASSUME NEW pc, proc' = [proc EXCEPT ![p].pc = pc],
             pc \in Elsewhere \/ \E f \in Files : LookRejected(p, f) /\ pc = Rename[f]
      PROVE  \E r : Moves(p, r)
  <2> DEFINE r == [proc[p] EXCEPT !.pc = pc]
  <2>1. r.gen = proc[p].gen /\ r.pc = pc
    BY <1>0 DEF Process
  <2>2. proc' = [proc EXCEPT ![p] = r]
    BY <1>2
  <2> HIDE DEF r
  <2> QED BY <1>2, <2>1, <2>2 DEF Moves
<1>3. CASE SwitchToWal(p) \/ \E f \in Files : FileAbsent(p, f) \/ QuarantineFile(p, f)
  BY <1>2, <1>3, <1>f DEF SwitchToWal, FileAbsent, QuarantineFile, Elsewhere
<1>4. ASSUME NEW f \in Files, LookRejected(p, f) PROVE \E r : Moves(p, r)
  <2>1. PICK pc \in {Rename[f], After[f]} : proc' = [proc EXCEPT ![p].pc = pc]
    BY <1>4 DEF LookRejected
  <2> QED BY <1>2, <1>4, <1>f, <2>1
<1>5. CASE Open(p) /\ path \notin headless
  <2> DEFINE r == [proc[p] EXCEPT !.gen = path, !.pc = IF path \in wal THEN "begin" ELSE "switch"]
  <2>1. proc' = [proc EXCEPT ![p] = r]
    BY <1>5 DEF Open
  <2>2. r.gen = path /\ r.pc \in Elsewhere
    BY <1>0 DEF Process, Elsewhere
  <2> HIDE DEF r
  <2> QED BY <2>1, <2>2 DEF Moves
<1>6. CASE (Open(p) /\ path \in headless) \/ SwitchRefused(p)
  <2>1. proc' = [proc EXCEPT ![p] = OpenFails(p)]
    BY <1>6 DEF Open, SwitchRefused
  <2> QED BY <1>i, <2>1 DEF Moves
<1>7. CASE QuarantineDatabase(p)
  <2> DEFINE r == [Retry EXCEPT !.again = TRUE]
  <2>1. r.gen = 0 /\ r.pc \in Elsewhere
    BY DEF Retry, Stopped, Elsewhere
  <2>2. proc' = [proc EXCEPT ![p] = r]
    BY <1>7 DEF QuarantineDatabase
  <2> HIDE DEF r
  <2> QED BY <2>1, <2>2 DEF Moves
<1>8. CASE Begin(p)
  <2>1. PICK t : \/ proc' = [proc EXCEPT ![p] = Serving]
                 \/ proc' = [proc EXCEPT ![p].pc = "import:devices", ![p].t = t]
    BY <1>8 DEF Begin
  <2> DEFINE r == [proc[p] EXCEPT !.pc = "import:devices", !.t = t]
  <2>2. r.gen = proc[p].gen /\ r.pc \in Elsewhere
    BY <1>0 DEF Process, Elsewhere
  <2>3. \/ proc' = [proc EXCEPT ![p] = Serving]
        \/ proc' = [proc EXCEPT ![p] = r]
    BY <1>0, <2>1
  <2> HIDE DEF r
  <2> QED BY <1>i, <2>2, <2>3 DEF Moves
<1>9. ASSUME NEW f \in Files, ImportFile(p, f) PROVE \E r : Moves(p, r)
  <2>1. PICK t : \/ proc' = [proc EXCEPT ![p] = [proc[p] EXCEPT !.t = t, !.saw = TRUE, !.pc = After[f]]]
                 \/ proc' = [proc EXCEPT ![p] = [proc[p] EXCEPT !.saw = TRUE, !.pc = Reject[f]]]
    BY <1>9 DEF ImportFile
  <2> DEFINE r == [proc[p] EXCEPT !.t = t, !.saw = TRUE, !.pc = After[f]]
             s == [proc[p] EXCEPT !.saw = TRUE, !.pc = Reject[f]]
  <2>2. r.gen = proc[p].gen /\ s.gen = proc[p].gen /\ r.pc \in Elsewhere /\ s.pc \in Elsewhere
    BY <1>0, <1>f DEF Process
  <2>3. proc' = [proc EXCEPT ![p] = r] \/ proc' = [proc EXCEPT ![p] = s]
    BY <2>1
  <2> HIDE DEF r, s
  <2> QED BY <2>2, <2>3 DEF Moves
<1> QED BY <1>1, <1>3, <1>4, <1>5, <1>6, <1>7, <1>8, <1>9 DEF Initialize, ImportStep

\* Every step is one process's, or none's.
LEMMA StepMoves ==
    ASSUME IInv, [Next]_vars
    PROVE  /\ path' = path \/ path' = path + 1
           /\ proc' = proc \/ \E p \in Processes : \E r : Moves(p, r)
<1>1. path' = path \/ path' = path + 1
  BY DEF Next, vars, Start, Stop, Initialize, Open, SwitchToWal, SwitchRefused, QuarantineDatabase,
         Begin, Fail, Commit, ImportStep, ImportFile, FileAbsent, FileRaises, LookRejected,
         QuarantineFile, Pair, Deactivate, Touch, Settle, Request, LateFile, Repair, Damage
<1>2. CASE \E p \in Processes : Start(p) \/ Initialize(p) \/ Stop(p)
  BY <1>1, <1>2, ProcessMoves
<1>3. CASE ~\E p \in Processes : Start(p) \/ Initialize(p) \/ Stop(p)
  BY <1>1, <1>3 DEF Next, vars, Pair, Deactivate, Touch, Settle, Request, LateFile, Repair, Damage
<1> QED BY <1>1, <1>2, <1>3

LEMMA BehindNext == IInv /\ Behind /\ [Next]_vars => Behind'
<1> SUFFICES ASSUME IInv, Behind, [Next]_vars, NEW q \in Processes PROVE proc'[q].gen <= path'
  BY DEF Behind
<1>0. /\ proc \in [Processes -> Process] /\ path \in Nat
      /\ \A p \in Processes : proc[p].gen \in Nat /\ proc[p].gen <= path
  BY DEF IInv, TypeOK, Gens, Process, Behind
<1>1. path' \in Nat /\ path <= path'
  BY <1>0, StepMoves
<1>2. CASE proc' = proc
  BY <1>0, <1>1, <1>2
<1>3. ASSUME NEW p \in Processes, NEW r, Moves(p, r) PROVE proc'[q].gen <= path'
  <2>1. r.gen \in Nat /\ r.gen <= path
    BY <1>0, <1>3 DEF Moves
  <2>2. proc'[q] = IF q = p THEN r ELSE proc[q]
    BY <1>0, <1>3 DEF Moves
  <2> QED BY <1>0, <1>1, <2>1, <2>2
<1> QED BY <1>2, <1>3, StepMoves

\* While there is one database, a process in its transaction is alone in one.
LEMMA AloneWriting ==
    ASSUME IInv, Behind, path = 0, NEW p \in Processes, NEW q \in Processes,
           Writing(p), Writing(q)
    PROVE  p = q
<1>1. proc[p].gen \in Nat /\ proc[q].gen \in Nat
  BY DEF IInv, TypeOK, Process, Gens
<1>2. proc[p].gen = 0 /\ proc[q].gen = 0
  BY <1>1 DEF Behind
<1> QED BY <1>2 DEF IInv, OneWriter

\* What a step makes of the copies.
LEMMA CopyMoves ==
    ASSUME IInv, [Next]_vars, NEW f \in Files
    PROVE  \/ disk'[f].rejected \in {disk[f].rejected, "absent"}
           \/ \E p \in Processes : QuarantineFile(p, f)
<1>0. disk \in [Files -> [json : Contents \cup {"absent", "good"},
                          rejected : Contents \cup {"absent", "good"}]]
  BY DEF IInv, TypeOK
<1>1. ASSUME NEW p \in Processes, NEW g \in Files, QuarantineFile(p, g), g # f
      PROVE  disk'[f] = disk[f]
  BY <1>0, <1>1 DEF QuarantineFile
<1>2. ASSUME NEW g \in Files, Repair(g) \/ \E c \in Contents : LateFile(g, c)
      PROVE  disk'[f].rejected \in {disk[f].rejected, "absent"}
  BY <1>0, <1>2 DEF Repair, LateFile
<1>3. CASE \E p \in Processes, g \in Files : QuarantineFile(p, g)
  BY <1>1, <1>3
<1>4. CASE ~\E p \in Processes, g \in Files : QuarantineFile(p, g)
  <2>1. \/ disk' = disk
        \/ \E g \in Files : Repair(g) \/ \E c \in Contents : LateFile(g, c)
    BY <1>4 DEF Next, vars, Start, Stop, Initialize, Open, SwitchToWal, SwitchRefused,
         QuarantineDatabase, Begin, Fail, Commit, ImportStep, ImportFile, FileAbsent, FileRaises,
         LookRejected, Pair, Deactivate, Touch, Settle, Request, Damage
  <2> QED BY <1>2, <2>1
<1> QED BY <1>3, <1>4

\* A process at a rename is in its transaction.
LEMMA RenameWrites ==
    ASSUME NEW f \in Files PROVE Rename[f] \in InTransaction /\ Rename[f] \notin Elsewhere
BY DEF Rename, Files, InTransaction, Elsewhere

LEMMA LookedNext == IInv /\ Behind /\ Looked /\ [Next]_vars => Looked'
<1> SUFFICES ASSUME IInv, Behind, Looked, [Next]_vars, NEW p \in Processes, NEW f \in Files,
                    path' = 0, proc'[p].pc = Rename[f]
             PROVE  disk'[f].rejected = "absent"
  BY DEF Looked, Rename
<1>0. proc \in [Processes -> Process] /\ path \in Nat
  BY DEF IInv, TypeOK, Gens
<1>1. path = 0
  BY <1>0, StepMoves
<1>2. CASE proc[p].pc = Rename[f]
  <2>1. disk[f].rejected = "absent" /\ Writing(p)
    BY <1>1, <1>2, RenameWrites DEF Looked, Writing
  <2>2. ASSUME NEW q \in Processes, QuarantineFile(q, f) PROVE FALSE
    <3>1. Writing(q) /\ proc' = [proc EXCEPT ![q].pc = After[f]]
      BY <2>2, RenameWrites DEF QuarantineFile, Writing
    <3>2. q = p
      BY <1>1, <2>1, <3>1, AloneWriting
    <3>3. proc'[p].pc = After[f]
      BY <1>0, <3>1, <3>2 DEF Process
    <3>4. After[f] # Rename[f]
      BY DEF After, Rename, Files
    <3> QED BY <3>3, <3>4
  <2> QED BY <2>1, <2>2, CopyMoves
<1>3. CASE proc[p].pc # Rename[f]
  <2>q. PICK q \in Processes : \E r : Moves(q, r)
    BY <1>3, StepMoves
  <2>1. PICK r : Moves(q, r)
    BY <2>q
  <2>2. q = p /\ proc'[p] = r
    BY <1>0, <1>3, <2>1 DEF Moves
  <2>3. PICK g \in Files : LookRejected(p, g) /\ Rename[f] = Rename[g]
    BY <2>1, <2>2, RenameWrites DEF Moves
  <2>4. g = f
    BY <2>3 DEF Rename, Files
  <2>5. disk' = disk /\ (disk[f].rejected # "absent" => proc' = [proc EXCEPT ![p].pc = After[f]])
    BY <2>3, <2>4 DEF LookRejected
  <2>6. After[f] # Rename[f]
    BY DEF After, Rename, Files
  <2>7. disk[f].rejected # "absent" => proc'[p].pc = After[f]
    BY <1>0, <2>5 DEF Process
  <2> QED BY <2>5, <2>6, <2>7
<1> QED BY <1>2, <1>3

\* Two steps, a look and a rename that overwrites, and yet, as long as no database was
\* quarantined, nobody's copy of a bad file is lost: the database's lock spans them
\* (database.py, _quarantine_file inside the transaction of initialize).
THEOREM QuarantineKeeps == Spec => RejectedCopyKept
<1>1. Init => IInv /\ Behind /\ Looked
  BY InitInv, LookedInit
<1>2. IInv /\ Behind /\ Looked /\ [Next]_vars => IInv' /\ Behind' /\ Looked'
  BY NextInv, BehindNext, LookedNext
<1>3. ASSUME IInv, Behind, Looked, [Next]_vars, NEW f \in Files, path = 0, disk[f].rejected # "absent"
      PROVE  disk'[f].rejected \in {disk[f].rejected, "absent"}
  <2>1. ASSUME NEW p \in Processes, QuarantineFile(p, f) PROVE FALSE
    BY <1>3, <2>1 DEF Looked, QuarantineFile
  <2> QED BY <1>3, <2>1, CopyMoves
<1>4. IInv /\ Behind /\ Looked /\ [Next]_vars =>
        [\A f \in Files : path = 0 /\ disk[f].rejected # "absent" =>
            disk'[f].rejected \in {disk[f].rejected, "absent"}]_vars
  BY <1>3
<1> QED BY <1>1, <1>2, <1>4, PTL DEF Spec, RejectedCopyKept

-----------------------------------------------------------------------------
(* Migration implements Intake *)

Rows == Devices \cup Items

\* What t has beyond u, both tables of one database, is of the legacy files.
Adds(u, t) ==
    /\ t.changed = u.changed
    /\ \A x \in Rows : Present(u, x) => Present(t, x)
    /\ \A x \in Rows : Present(t, x) /\ ~Present(u, x) => x \in Filed \cup Items

\* A transaction is on a database that is open, and has only added files to it;
\* none, if it saw no file.
Fresh == \A p \in Processes : Writing(p) =>
    /\ ~db[proc[p].gen].marker
    /\ Adds(db[proc[p].gen], proc[p].t)
    /\ ~proc[p].saw => \A x \in Rows : Present(proc[p].t, x) => Present(db[proc[p].gen], x)

\* No transaction begins with a file it saw before.
Unseen == \A p \in Processes : ~Writing(p) => ~proc[p].saw

NoGhosts == \A g \in Gens : \A x \in db[g].changed : Present(db[g], x)

TInv == Fresh /\ Unseen /\ NoGhosts

\* A row a file inserts is the file's.
LEMMA InsertedAdds ==
    ASSUME NEW t \in Tables, NEW f \in Files
    PROVE  Adds(t, Inserted(t, f))
<1>1. CASE f = "devices"
  <2> DEFINE u == Inserted(t, f)
  <2>1. u.item = t.item /\ u.changed = t.changed
    BY <1>1 DEF Inserted, Tables
  <2>2. \A d \in Devices : u.device[d] = IF d \notin Filed \/ t.device[d] # "none" THEN t.device[d]
                                         ELSE IF d \in FiledActive THEN "active" ELSE "inactive"
    BY <1>1 DEF Inserted, Tables
  <2> HIDE DEF u
  <2>3. \A x \in Rows : Present(t, x) => Present(u, x)
    BY <2>1, <2>2 DEF Present, Rows
  <2>4. \A x \in Rows : Present(u, x) /\ ~Present(t, x) => x \in Filed
    BY <2>1, <2>2 DEF Present, Rows
  <2>5. Adds(t, u)
    BY <2>1, <2>3, <2>4 DEF Adds
  <2> QED BY <2>5 DEF u
<1>2. CASE f = "outbox"
  <2> DEFINE u == Inserted(t, f)
  <2>1. u.device = t.device /\ u.changed = t.changed
    BY <1>2 DEF Inserted, Tables
  <2>2. \A i \in Items : u.item[i] = IF t.item[i] # NoRow THEN t.item[i] ELSE Target(t, i)
    BY <1>2 DEF Inserted, Tables
  <2> HIDE DEF u
  <2>3. \A x \in Rows : Present(t, x) => Present(u, x)
    BY <2>1, <2>2 DEF Present, Rows
  <2>4. \A x \in Rows : Present(u, x) /\ ~Present(t, x) => x \in Items
    BY <2>1, <2>2 DEF Present, Rows
  <2>5. Adds(t, u)
    BY <2>1, <2>3, <2>4 DEF Adds
  <2> QED BY <2>5 DEF u
<1> QED BY <1>1, <1>2 DEF Files

\* A step of one process that commits nothing: its new record must fit.
LEMMA FreshStep ==
    ASSUME IInv, TInv, db' = db, NEW p \in Processes, NEW r \in Process,
           proc' = [proc EXCEPT ![p] = r],
           r.pc \notin InTransaction => ~r.saw,
           r.pc \in InTransaction =>
               /\ ~db[r.gen].marker /\ Adds(db[r.gen], r.t)
               /\ ~r.saw => \A x \in Rows : Present(r.t, x) => Present(db[r.gen], x)
    PROVE  TInv'
<1>1. proc'[p] = r /\ \A q \in Processes : q # p => proc'[q] = proc[q]
  BY DEF IInv, TypeOK
<1>2. NoGhosts'
  BY DEF TInv, NoGhosts, Present
<1>3. Unseen'
  BY <1>1 DEF TInv, Unseen, Writing
<1>4. ASSUME NEW q \in Processes, Writing(q)'
      PROVE  /\ ~db[proc'[q].gen].marker
             /\ Adds(db[proc'[q].gen], proc'[q].t)
             /\ ~proc'[q].saw =>
                  \A x \in Rows : Present(proc'[q].t, x) => Present(db[proc'[q].gen], x)
  <2>1. CASE q = p
    BY <1>1, <1>4, <2>1 DEF Writing
  <2>2. CASE q # p
    BY <1>1, <1>4, <2>2 DEF TInv, Fresh, Writing
  <2> QED BY <2>1, <2>2
<1>5. Fresh'
  BY <1>4 DEF Fresh, Adds, Present
<1> QED BY <1>2, <1>3, <1>5 DEF TInv

\* A file's tables are replaced by a step after which nobody writes to it.
LEMMA FreshTables ==
    ASSUME IInv, TInv, NEW g \in Gens, NEW t \in Tables,
           \A x \in t.changed : Present(t, x),
           db' = [db EXCEPT ![g] = t],
           \A q \in Processes : proc'[q] # proc[q] => ~Writing(q)' /\ ~proc'[q].saw,
           \A q \in Processes : Writing(q)' => proc[q].gen # g
    PROVE  TInv'
<1>1. db'[g] = t /\ \A h \in Gens : h # g => db'[h] = db[h]
  BY DEF IInv, TypeOK
<1>2. NoGhosts'
  BY <1>1 DEF TInv, NoGhosts, Present
<1>3. Unseen'
  BY DEF TInv, Unseen, Writing
<1>4. ASSUME NEW q \in Processes, Writing(q)'
      PROVE  /\ ~db'[proc'[q].gen].marker
             /\ Adds(db'[proc'[q].gen], proc'[q].t)
             /\ ~proc'[q].saw =>
                  \A x \in Rows : Present(proc'[q].t, x) => Present(db'[proc'[q].gen], x)
  <2>1. proc'[q] = proc[q] /\ proc[q].gen # g
    BY <1>4
  <2>2. proc[q].gen \in Gens /\ Writing(q)
    BY <1>4, <2>1 DEF IInv, TypeOK, Process, Writing
  <2> QED BY <1>1, <2>1, <2>2 DEF TInv, Fresh
<1>5. Fresh'
  BY <1>4 DEF Fresh, Adds, Present
<1> QED BY <1>2, <1>3, <1>5 DEF TInv

LEMMA FreshInit == Init => TInv
<1> SUFFICES ASSUME Init PROVE TInv
  OBVIOUS
<1>1. \A p \in Processes : ~Writing(p) /\ ~proc[p].saw
  BY IdleRecords DEF Init, Writing, Stopped
<1>2. \A g \in Gens : db[g].changed = {}
  BY DEF Init, EmptyFile
<1> QED BY <1>1, <1>2 DEF TInv, Fresh, Unseen, NoGhosts

LEMMA IdleUnseen == ~Stopped.saw /\ ~Retry.saw /\ ~Serving.saw
BY DEF Stopped, Retry, Serving

\* The steps of initialize() that commit nothing.
LEMMA FreshInitialize ==
    ASSUME IInv, TInv, NEW p \in Processes, Initialize(p), ~Commit(p)
    PROVE  TInv'
<1>0. proc[p] \in Process /\ path \in Gens /\ db' = db
  BY InitializeInv DEF IInv, TypeOK
<1>n. ~Writing(p) => ~proc[p].saw
  BY DEF TInv, Unseen
<1>1. ASSUME NEW r \in Process, proc' = [proc EXCEPT ![p] = r], r.pc \notin InTransaction, ~r.saw
      PROVE  TInv'
  BY <1>0, <1>1, FreshStep
<1>2. CASE Open(p) \/ SwitchToWal(p) \/ SwitchRefused(p)
  <2>1. ~Writing(p)
    BY <1>2 DEF Open, SwitchToWal, SwitchRefused, Writing, InTransaction
  <2>2. ~proc[p].saw
    BY <1>n, <2>1
  <2>3. CASE Open(p)
    <3> DEFINE r == IF path \in headless THEN OpenFails(p)
                    ELSE [proc[p] EXCEPT !.gen = path,
                                         !.pc = IF path \in wal THEN "begin" ELSE "switch"]
    <3>1. r \in Process /\ r.pc \notin InTransaction
      BY <1>0, <2>3, IdleRecords DEF Open, OpenFails, Process, InTransaction
    <3>2. ~r.saw
      BY <1>0, <2>2, IdleUnseen DEF OpenFails, Process
    <3>3. proc' = [proc EXCEPT ![p] = r]
      BY <2>3 DEF Open
    <3> HIDE DEF r
    <3> QED BY <1>1, <3>1, <3>2, <3>3
  <2>4. CASE SwitchToWal(p)
    <3> DEFINE r == [proc[p] EXCEPT !.pc = "begin"]
    <3>1. r \in Process /\ r.pc \notin InTransaction
      BY <1>0 DEF Process, InTransaction
    <3>2. ~r.saw
      BY <1>0, <2>2 DEF Process
    <3>3. proc' = [proc EXCEPT ![p] = r]
      BY <2>4 DEF SwitchToWal
    <3> HIDE DEF r
    <3> QED BY <1>1, <3>1, <3>2, <3>3
  <2>5. CASE SwitchRefused(p)
    <3> DEFINE r == OpenFails(p)
    <3>1. r \in Process /\ r.pc \notin InTransaction
      BY <1>0, IdleRecords DEF OpenFails, Process, InTransaction
    <3>2. ~r.saw
      BY <1>0, <2>2, IdleUnseen DEF OpenFails, Process
    <3>3. proc' = [proc EXCEPT ![p] = r]
      BY <2>5 DEF SwitchRefused
    <3> HIDE DEF r
    <3> QED BY <1>1, <3>1, <3>2, <3>3
  <2> QED BY <1>2, <2>3, <2>4, <2>5
<1>3. CASE QuarantineDatabase(p)
  <2> DEFINE r == [Retry EXCEPT !.again = TRUE]
  <2>1. r \in Process /\ r.pc \notin InTransaction /\ ~r.saw
    BY IdleRecords DEF Process, Retry, Stopped
  <2>2. proc' = [proc EXCEPT ![p] = r]
    BY <1>3 DEF QuarantineDatabase
  <2> HIDE DEF r
  <2> QED BY <1>1, <2>1, <2>2
<1>4. CASE Fail(p) \/ \E f \in Files : FileRaises(p, f)
  <2>1. proc' = [proc EXCEPT ![p] = Retry]
    BY <1>4 DEF Fail, FileRaises
  <2> QED BY <1>1, <2>1, IdleRecords, IdleUnseen
<1>5. CASE Begin(p)
  <2> DEFINE g == proc[p].gen
             t == [db[g] EXCEPT !.ready = TRUE]
  <2>1. g \in Gens /\ db[g] \in Tables
    BY <1>0 DEF IInv, TypeOK, Process
  <2>2. t \in Tables /\ t.marker = db[g].marker /\ t.changed = db[g].changed
        /\ t.device = db[g].device /\ t.item = db[g].item
    BY <2>1 DEF Tables
  <2>3. CASE t.marker
    <3>1. proc' = [proc EXCEPT ![p] = Serving]
      BY <1>5, <2>3 DEF Begin
    <3> QED BY <1>1, <3>1, IdleRecords, IdleUnseen
  <2>4. CASE ~t.marker
    <3> DEFINE r == [proc[p] EXCEPT !.pc = "import:devices", !.t = t]
    <3>1. r \in Process /\ r.pc \in InTransaction /\ r.t = t /\ r.gen = g
      BY <1>0, <2>2 DEF Process, InTransaction
    <3>2. proc' = [proc EXCEPT ![p] = r]
      BY <1>5, <2>4 DEF Begin, IInv, TypeOK
    <3>3. Adds(db[g], t) /\ \A x \in Rows : Present(t, x) => Present(db[g], x)
      BY <2>2 DEF Adds, Present
    <3>4. ~db[g].marker
      BY <2>2, <2>4
    <3> HIDE DEF r, t, g
    <3> QED BY <1>0, <3>1, <3>2, <3>3, <3>4, FreshStep
  <2> QED BY <2>3, <2>4
<1>6. ASSUME NEW f \in Files,
             ImportFile(p, f) \/ FileAbsent(p, f) \/ LookRejected(p, f) \/ QuarantineFile(p, f)
      PROVE  TInv'
  <2>0. /\ Writing(p) /\ proc[p].t \in Tables
        /\ {After[f], Reject[f], Rename[f]} \subseteq InTransaction
    BY <1>0, <1>6 DEF ImportFile, FileAbsent, LookRejected, QuarantineFile, Writing, Import, Reject,
                      Rename, After, InTransaction, Files, Process
  <2> DEFINE u == db[proc[p].gen]
  <2>1. /\ ~u.marker /\ Adds(u, proc[p].t)
        /\ ~proc[p].saw => \A x \in Rows : Present(proc[p].t, x) => Present(u, x)
    BY <2>0 DEF TInv, Fresh
  <2>2. CASE ImportFile(p, f) /\ disk[f].json = "good" /\ Verified(Inserted(proc[p].t, f), f)
    <3> DEFINE t == Inserted(proc[p].t, f)
               r == [proc[p] EXCEPT !.t = t, !.saw = TRUE, !.pc = After[f]]
    <3>1. t \in Tables
      BY <2>0, InsertedKeeps DEF IInv, Ahead
    <3>2. Adds(proc[p].t, t)
      BY <2>0, InsertedAdds
    <3>3. Adds(u, t)
      BY <2>1, <3>2 DEF Adds
    <3>4. r \in Process /\ r.gen = proc[p].gen /\ r.t = t /\ r.saw /\ r.pc \in InTransaction
      BY <1>0, <2>0, <3>1 DEF Process
    <3>5. proc' = [proc EXCEPT ![p] = r]
      BY <2>2 DEF ImportFile
    <3> HIDE DEF r, t
    <3> QED BY <1>0, <2>1, <3>3, <3>4, <3>5, FreshStep
  <2>3. CASE ~(ImportFile(p, f) /\ disk[f].json = "good" /\ Verified(Inserted(proc[p].t, f), f))
    <3>0. \/ proc' = [proc EXCEPT ![p] = [proc[p] EXCEPT !.saw = TRUE, !.pc = Reject[f]]]
          \/ \E pc \in InTransaction : proc' = [proc EXCEPT ![p] = [proc[p] EXCEPT !.pc = pc]]
      BY <1>6, <2>0, <2>3 DEF ImportFile, FileAbsent, LookRejected, QuarantineFile, IInv, TypeOK
    <3>p. PICK pc \in InTransaction :
            \/ proc' = [proc EXCEPT ![p] = [proc[p] EXCEPT !.saw = TRUE, !.pc = Reject[f]]]
            \/ proc' = [proc EXCEPT ![p] = [proc[p] EXCEPT !.pc = pc]]
      BY <2>0, <3>0
    <3> DEFINE a == [proc[p] EXCEPT !.saw = TRUE, !.pc = Reject[f]]
               b == [proc[p] EXCEPT !.pc = pc]
    <3>1. proc' = [proc EXCEPT ![p] = a] \/ proc' = [proc EXCEPT ![p] = b]
      BY <3>p
    <3>2. a \in Process /\ a.gen = proc[p].gen /\ a.t = proc[p].t /\ a.saw /\ a.pc \in InTransaction
      BY <1>0, <2>0 DEF Process
    <3>3. b \in Process /\ b.gen = proc[p].gen /\ b.t = proc[p].t /\ b.pc \in InTransaction
      BY <1>0, <2>0 DEF Process
    <3>4. b.saw = proc[p].saw
      BY <1>0 DEF Process
    <3> HIDE DEF a, b
    <3>5. ASSUME proc' = [proc EXCEPT ![p] = a] PROVE TInv'
      BY <1>0, <2>1, <3>2, <3>5, FreshStep
    <3>6. ASSUME proc' = [proc EXCEPT ![p] = b] PROVE TInv'
      BY <1>0, <2>1, <3>3, <3>4, <3>6, FreshStep
    <3> QED BY <3>1, <3>5, <3>6
  <2> QED BY <2>2, <2>3
<1> QED BY <1>2, <1>3, <1>4, <1>5, <1>6 DEF Initialize, ImportStep

LEMMA FreshCommit ==
    ASSUME IInv, TInv, NEW p \in Processes, Commit(p)
    PROVE  TInv'
<1> DEFINE g == proc[p].gen
           t == [proc[p].t EXCEPT !.marker = proc[p].saw]
<1>1. proc[p] \in Process /\ g \in Gens /\ proc[p].t \in Tables /\ Writing(p)
  BY DEF IInv, TypeOK, Process, Commit, Writing, InTransaction
<1>2. t \in Tables
  BY <1>1 DEF Tables, Process
<1>3. t.changed = proc[p].t.changed /\ t.device = proc[p].t.device /\ t.item = proc[p].t.item
  BY <1>1 DEF Tables
<1>4. \A x \in t.changed : Present(t, x)
  BY <1>1, <1>3 DEF TInv, Fresh, Adds, NoGhosts, Present, Rows, Tables, IInv, TypeOK
<1>5. db' = [db EXCEPT ![g] = t] /\ proc' = [proc EXCEPT ![p] = Serving]
  BY DEF Commit
<1>6. \A q \in Processes : proc'[q] # proc[q] => q = p /\ proc'[q] = Serving
  BY <1>5 DEF IInv, TypeOK
<1>7. \A q \in Processes : proc'[q] # proc[q] => ~Writing(q)' /\ ~proc'[q].saw
  BY <1>6, IdleRecords, IdleUnseen DEF Writing
<1>8. proc'[p] = Serving
  BY <1>5 DEF IInv, TypeOK
<1>9. \A q \in Processes : Writing(q)' => proc[q].gen # g
  BY <1>1, <1>6, <1>8, IdleRecords DEF IInv, OneWriter, Writing
<1> HIDE DEF g, t
<1> QED BY <1>1, <1>2, <1>4, <1>5, <1>7, <1>9, FreshTables

\* What requests, the operator and the world do.
LEMMA FreshOutside ==
    ASSUME IInv, TInv,
           \/ \E d \in Devices : Pair(d) \/ Deactivate(d) \/ Touch(d)
           \/ \E i \in Items : Settle(i)
           \/ \E f \in Files : Repair(f)
           \/ \E f \in Files, c \in Contents : LateFile(f, c)
           \/ Damage
    PROVE  TInv'
<1> DEFINE u == db[path]
<1>0. u \in Tables /\ path \in Gens /\ \A x \in u.changed : Present(u, x)
  BY DEF IInv, TypeOK, TInv, NoGhosts
<1>t. ASSUME NEW t \in Tables, \A x \in t.changed : Present(t, x),
             db' = [db EXCEPT ![path] = t], proc' = proc, ~Locked(path)
      PROVE  TInv'
  <2>1. \A q \in Processes : Writing(q)' => proc[q].gen # path
    BY <1>t DEF Locked, Writing
  <2> QED BY <1>0, <1>t, <2>1, FreshTables
<1>1. ASSUME NEW d \in Devices, Pair(d) PROVE TInv'
  <2> DEFINE t == [u EXCEPT !.device[d] = "active"]
  <2>1. t \in Tables /\ t.changed = u.changed /\ t.item = u.item
    BY <1>0 DEF Tables
  <2>2. \A e \in Devices : t.device[e] = IF e = d THEN "active" ELSE u.device[e]
    BY <1>0 DEF Tables
  <2>3. \A x \in t.changed : Present(t, x)
    BY <1>0, <2>1, <2>2 DEF Present
  <2>4. db' = [db EXCEPT ![path] = t] /\ proc' = proc /\ ~Locked(path)
    BY <1>1 DEF Pair, Request
  <2> HIDE DEF t
  <2> QED BY <1>t, <2>1, <2>3, <2>4
<1>2. ASSUME NEW d \in Devices, Deactivate(d) PROVE TInv'
  <2> DEFINE t == [u EXCEPT !.device[d] = "inactive", !.changed = @ \cup {d}]
  <2>1. t \in Tables /\ t.changed = u.changed \cup {d} /\ t.item = u.item
    BY <1>0 DEF Tables
  <2>2. \A e \in Devices : t.device[e] = IF e = d THEN "inactive" ELSE u.device[e]
    BY <1>0 DEF Tables
  <2>3. \A x \in t.changed : Present(t, x)
    BY <1>0, <2>1, <2>2 DEF Present
  <2>4. db' = [db EXCEPT ![path] = t] /\ proc' = proc /\ ~Locked(path)
    BY <1>2 DEF Deactivate, Request
  <2> HIDE DEF t
  <2> QED BY <1>t, <2>1, <2>3, <2>4
<1>3. ASSUME NEW x \in Devices \cup Items, Present(u, x),
             Request([u EXCEPT !.changed = @ \cup {x}])
      PROVE  TInv'
  <2> DEFINE t == [u EXCEPT !.changed = @ \cup {x}]
  <2>1. t \in Tables /\ t.changed = u.changed \cup {x} /\ t.item = u.item /\ t.device = u.device
    BY <1>0 DEF Tables
  <2>2. \A y \in t.changed : Present(t, y)
    BY <1>0, <1>3, <2>1 DEF Present
  <2>3. db' = [db EXCEPT ![path] = t] /\ proc' = proc /\ ~Locked(path)
    BY <1>3 DEF Request
  <2> HIDE DEF t
  <2> QED BY <1>t, <2>1, <2>2, <2>3
<1>4. ASSUME NEW d \in Devices, Touch(d) PROVE TInv'
  BY <1>3, <1>4 DEF Touch, Present
<1>5. ASSUME NEW i \in Items, Settle(i) PROVE TInv'
  BY <1>3, <1>5, MigrationAssumption DEF Settle, Present
<1>6. ASSUME NEW f \in Files, Repair(f) PROVE TInv'
  <2> DEFINE t == [u EXCEPT !.marker = FALSE]
  <2>1. t \in Tables /\ t.changed = u.changed /\ t.item = u.item /\ t.device = u.device
    BY <1>0 DEF Tables
  <2>2. \A x \in t.changed : Present(t, x)
    BY <1>0, <2>1 DEF Present
  <2>3. db' = [db EXCEPT ![path] = t] /\ proc' = proc /\ ~Locked(path)
    BY <1>6 DEF Repair
  <2> HIDE DEF t
  <2> QED BY <1>t, <2>1, <2>2, <2>3
<1>7. ASSUME (\E f \in Files, c \in Contents : LateFile(f, c)) \/ Damage PROVE TInv'
  BY <1>7 DEF LateFile, Damage, TInv, Fresh, Unseen, NoGhosts, Writing, Adds, Present
<1> QED BY <1>1, <1>2, <1>4, <1>5, <1>6, <1>7

LEMMA FreshNext == IInv /\ TInv /\ [Next]_vars => TInv'
<1> SUFFICES ASSUME IInv, TInv, [Next]_vars PROVE TInv'
  OBVIOUS
<1>1. CASE UNCHANGED vars
  BY <1>1 DEF vars, TInv, Fresh, Unseen, NoGhosts, Writing, Adds, Present
<1>2. ASSUME NEW p \in Processes, Start(p) \/ Stop(p) PROVE TInv'
  <2>1. db' = db /\ (proc' = [proc EXCEPT ![p] = Retry] \/ proc' = [proc EXCEPT ![p] = Stopped])
    BY <1>2 DEF Start, Stop
  <2> QED BY <2>1, IdleRecords, IdleUnseen, FreshStep
<1> QED BY <1>1, <1>2, FreshInitialize, FreshCommit, FreshOutside DEF Next

\* What Intake sees of one database.
View(t) == [open |-> ~t.marker, row |-> [x \in Rows |-> RowStatus(t, x)]]

LEMMA StoreIs ==
    /\ Store = [g \in Gens |-> View(db[g])]
    /\ Store' = [g \in Gens |-> View(db'[g])]
BY DEF Store, View, Rows, RowStatus, Present

LEMMA StoreKept == db' = db => Store' = Store
BY StoreIs

\* One database becomes t.
LEMMA StoreMoves ==
    ASSUME TypeOK, NEW g \in Gens, NEW t, db' = [db EXCEPT ![g] = t]
    PROVE  Store' = [Store EXCEPT ![g] = View(t)]
<1>1. db'[g] = t /\ \A h \in Gens : h # g => db'[h] = db[h]
  BY DEF TypeOK
<1> QED BY <1>1, StoreIs

RowSet(S, g, x, v) == [S EXCEPT ![g].row[x] = v]

\* One row of a database becomes x's new status, and the database stays as open.
LEMMA RowMoves ==
    ASSUME TypeOK, NEW g \in Gens, NEW t, NEW x \in Rows, db' = [db EXCEPT ![g] = t],
           t.marker <=> db[g].marker,
           \A y \in Rows : y # x => RowStatus(t, y) = RowStatus(db[g], y)
    PROVE  Store' = RowSet(Store, g, x, RowStatus(t, x))
<1> DEFINE old == View(db[g])
           row == [y \in Rows |-> RowStatus(db[g], y)]
<1>1. old.row = row /\ Store[g] = old
  BY StoreIs DEF View
<1>2. [y \in Rows |-> RowStatus(t, y)] = [row EXCEPT ![x] = RowStatus(t, x)]
  OBVIOUS
<1>3. View(t) = [old EXCEPT !.row = [row EXCEPT ![x] = RowStatus(t, x)]]
  <2>1. ASSUME NEW o, NEW r, NEW s
        PROVE  [[open |-> o, row |-> r] EXCEPT !.row = s] = [open |-> o, row |-> s]
    OBVIOUS
  <2>2. (~t.marker) = (~db[g].marker)
    OBVIOUS
  <2>3. View(t) = [open |-> ~db[g].marker, row |-> [row EXCEPT ![x] = RowStatus(t, x)]]
    BY <1>2, <2>2 DEF View
  <2>4. old = [open |-> ~db[g].marker, row |-> row]
    BY DEF View
  <2> HIDE DEF old, row
  <2> QED BY <2>1, <2>3, <2>4
<1>4. Store' = [Store EXCEPT ![g] = View(t)]
  BY StoreMoves
<1> HIDE DEF old, row
<1> QED BY <1>1, <1>3, <1>4 DEF RowSet

LEMMA TakingInit == Init => Taking!Init
<1> SUFFICES ASSUME Init PROVE Taking!Init
  OBVIOUS
<1>1. \A g \in Gens : db[g].marker = FALSE
  BY DEF Init, EmptyFile
<1>2. ASSUME NEW g \in Gens, NEW x \in Rows PROVE RowStatus(db[g], x) = "absent"
  BY <1>2 DEF Init, EmptyFile, RowStatus, Present, Rows
<1>3. Store = [g \in Gens |-> [open |-> TRUE, row |-> [x \in Rows |-> "absent"]]]
  BY <1>1, <1>2, StoreIs DEF View
<1> QED BY <1>3 DEF Taking!Init, Rows

\* A transaction that commits takes in the files that it adds rows of, all of them.
LEMMA CommitTakes ==
    ASSUME IInv, TInv, NEW p \in Processes, Commit(p)
    PROVE  Taking!Next \/ Store' = Store
<1> DEFINE g == proc[p].gen
           u == db[g]
           s == proc[p].t
           t == [s EXCEPT !.marker = proc[p].saw]
           F == {f \in Files : \E x \in RowsOf[f] : Present(s, x) /\ ~Present(u, x)}
           new == {x \in UNION {RowsOf[f] : f \in F} : Store[g].row[x] = "absent"}
<1>1. proc[p] \in Process /\ g \in Gens /\ s \in Tables /\ u \in Tables /\ Writing(p)
  BY DEF IInv, TypeOK, Process, Commit, Writing, InTransaction
<1>2. t.changed = s.changed /\ t.device = s.device /\ t.item = s.item /\ t.marker = proc[p].saw
  BY <1>1 DEF Tables
<1>3. \A x \in Rows : RowStatus(t, x) = RowStatus(s, x)
  BY <1>2 DEF RowStatus, Present
<1>4. /\ ~u.marker /\ Adds(u, s)
      /\ ~proc[p].saw => \A x \in Rows : Present(s, x) => Present(u, x)
  BY <1>1 DEF TInv, Fresh
<1>5. db' = [db EXCEPT ![g] = t]
  BY DEF Commit
<1>6. Whole(s) /\ \A x \in u.changed : Present(u, x)
  BY <1>1 DEF IInv, Ahead, TInv, NoGhosts
<1>r. RowsOf["devices"] = Filed /\ RowsOf["outbox"] = Items /\ \A f \in Files : RowsOf[f] \subseteq Rows
  BY MigrationAssumption DEF RowsOf, Files, Rows
<1>v. /\ Store[g].open = ~u.marker
      /\ \A x \in Rows : Store[g].row[x] = RowStatus(u, x)
  BY <1>1, StoreIs DEF View
<1>m. Store' = [Store EXCEPT ![g] = View(t)]
  BY <1>1, <1>5, StoreMoves DEF IInv
<1>7. CASE ~proc[p].saw
  <2>1. \A x \in Rows : Present(s, x) <=> Present(u, x)
    BY <1>4, <1>7 DEF Adds
  <2>2. \A x \in Rows : RowStatus(t, x) = RowStatus(u, x)
    BY <1>3, <1>4, <2>1 DEF RowStatus, Adds
  <2>3. View(t) = View(u)
    BY <1>2, <1>4, <1>7, <2>2 DEF View
  <2>4. Store[g] = View(u) /\ Store = [Store EXCEPT ![g] = Store[g]]
    BY <1>1, StoreIs
  <2> QED BY <1>m, <2>3, <2>4
<1>8. CASE proc[p].saw
  <2>1. ASSUME NEW f \in F, NEW x \in RowsOf[f] PROVE Present(s, x)
    <3>1. PICK y \in RowsOf[f] : Present(s, y) /\ ~Present(u, y)
      OBVIOUS
    <3>2. CASE f = "devices"
      <4>1. y \in {d \in Filed : s.device[d] # "none"}
        BY <1>r, <3>1, <3>2, MigrationAssumption DEF Present
      <4>2. {d \in Filed : s.device[d] # "none"} = Filed
        BY <1>6, <4>1 DEF Whole
      <4> QED BY <1>r, <2>1, <3>2, <4>2, MigrationAssumption DEF Present
    <3>3. CASE f = "outbox"
      <4>1. y \in {i \in Items : s.item[i] # NoRow}
        BY <1>r, <3>1, <3>3, MigrationAssumption DEF Present
      <4>2. {i \in Items : s.item[i] # NoRow} = Items
        BY <1>6, <4>1 DEF Whole
      <4> QED BY <1>r, <2>1, <3>3, <4>2, MigrationAssumption DEF Present
    <3> QED BY <3>2, <3>3 DEF Files
  <2>2. ASSUME NEW x \in Rows
        PROVE  RowStatus(s, x) = IF x \in new THEN "intact" ELSE RowStatus(u, x)
    <3>1. CASE Present(u, x)
      <4>1. RowStatus(u, x) # "absent" /\ RowStatus(s, x) = RowStatus(u, x)
        BY <1>4, <3>1 DEF RowStatus, Adds
      <4> QED BY <1>v, <4>1
    <3>2. CASE ~Present(u, x) /\ Present(s, x)
      <4>1. x \notin s.changed /\ RowStatus(u, x) = "absent" /\ x \in Filed \cup Items
        BY <1>4, <1>6, <3>2 DEF Adds, RowStatus
      <4>2. PICK f \in Files : x \in RowsOf[f]
        BY <1>r, <4>1 DEF Files
      <4>3. f \in F
        BY <3>2, <4>2
      <4>4. x \in new
        BY <1>v, <4>1, <4>2, <4>3
      <4> QED BY <3>2, <4>1, <4>4 DEF RowStatus
    <3>3. CASE ~Present(u, x) /\ ~Present(s, x)
      <4>1. RowStatus(u, x) = "absent" /\ RowStatus(s, x) = "absent"
        BY <3>3 DEF RowStatus
      <4>2. x \notin new
        BY <2>1, <3>3
      <4> QED BY <4>1, <4>2
    <3> QED BY <3>1, <3>2, <3>3
  <2>3. View(t) = [open |-> FALSE,
                   row  |-> [x \in Rows |-> IF x \in new THEN "intact" ELSE Store[g].row[x]]]
    BY <1>2, <1>3, <1>8, <1>v, <2>2 DEF View
  <2>4. F \in SUBSET Files /\ Store[g].open
    BY <1>4, <1>v
  <2>5. Taking!Import(g, F)
    BY <1>m, <2>3, <2>4 DEF Taking!Import, Rows
  <2> HIDE DEF F, g
  <2> QED BY <1>1, <2>4, <2>5 DEF Taking!Next
<1> QED BY <1>7, <1>8

\* A request makes a row that no file has, or changes one that is there.
LEMMA RequestTakes ==
    ASSUME IInv, TInv,
           \/ \E d \in Devices : Pair(d) \/ Deactivate(d) \/ Touch(d)
           \/ \E i \in Items : Settle(i)
    PROVE  Taking!Next
<1> DEFINE u == db[path]
<1>0. /\ TypeOK /\ u \in Tables /\ path \in Gens
      /\ \A x \in u.changed : Present(u, x)
      /\ \A x \in Rows : Store[path].row[x] = RowStatus(u, x)
  BY StoreIs DEF IInv, TypeOK, TInv, NoGhosts, View
<1>c. ASSUME NEW t, NEW x \in Rows, db' = [db EXCEPT ![path] = t], t.marker = u.marker,
             \A y \in Rows : y # x => RowStatus(t, y) = RowStatus(u, y),
             RowStatus(u, x) # "absent", RowStatus(t, x) = "changed"
      PROVE  Taking!Next
  <2>a. TypeOK /\ path \in Gens /\ (t.marker <=> db[path].marker)
        /\ \A y \in Rows : y # x => RowStatus(t, y) = RowStatus(db[path], y)
    BY <1>0, <1>c
  <2>b. Store' = RowSet(Store, path, x, RowStatus(t, x))
    BY <1>c, <2>a, RowMoves
  <2>1. Store' = [Store EXCEPT ![path].row[x] = "changed"]
    BY <1>c, <2>b DEF RowSet
  <2>2. Taking!Change(path, x)
    BY <1>0, <1>c, <2>1 DEF Taking!Change
  <2> HIDE DEF u
  <2> QED BY <1>0, <1>c, <2>2 DEF Taking!Next, Rows
<1>1. ASSUME NEW d \in Devices, Pair(d) PROVE Taking!Next
  <2> DEFINE t == [u EXCEPT !.device[d] = "active"]
  <2>1. t.marker = u.marker /\ t.changed = u.changed /\ t.item = u.item
    BY <1>0 DEF Tables
  <2>2. \A e \in Devices : t.device[e] = IF e = d THEN "active" ELSE u.device[e]
    BY <1>0 DEF Tables
  <2>3. ~Present(u, d) /\ d \notin u.changed /\ d \in Rows
    BY <1>0, <1>1 DEF Pair, Present, Rows
  <2>4. RowStatus(u, d) = "absent" /\ RowStatus(t, d) = "intact"
    BY <2>1, <2>2, <2>3 DEF RowStatus, Present
  <2>5. ASSUME NEW y \in Rows, y # d PROVE RowStatus(t, y) = RowStatus(u, y)
    BY <2>1, <2>2, <2>5 DEF RowStatus, Present
  <2>6. db' = [db EXCEPT ![path] = t]
    BY <1>1 DEF Pair, Request
  <2>7. \A f \in Files : d \notin RowsOf[f]
    BY <1>1, MigrationAssumption DEF RowsOf, Pair
  <2> HIDE DEF t, u
  <2>8. t.marker <=> db[path].marker
    BY <2>1 DEF u
  <2>9. \A y \in Rows : y # d => RowStatus(t, y) = RowStatus(db[path], y)
    BY <2>5 DEF u
  <2>a. Store' = RowSet(Store, path, d, RowStatus(t, d))
    BY <1>0, <2>3, <2>6, <2>8, <2>9, RowMoves
  <2>10. Store' = [Store EXCEPT ![path].row[d] = "intact"]
    BY <2>4, <2>a DEF RowSet
  <2>11. Taking!Make(path, d)
    BY <1>0, <2>3, <2>4, <2>7, <2>10 DEF Taking!Make
  <2> QED BY <1>0, <2>3, <2>11 DEF Taking!Next, Rows
<1>2. ASSUME NEW d \in Devices, Deactivate(d) PROVE Taking!Next
  <2> DEFINE t == [u EXCEPT !.device[d] = "inactive", !.changed = @ \cup {d}]
  <2>1. t.marker = u.marker /\ t.changed = u.changed \cup {d} /\ t.item = u.item
    BY <1>0 DEF Tables
  <2>2. \A e \in Devices : t.device[e] = IF e = d THEN "inactive" ELSE u.device[e]
    BY <1>0 DEF Tables
  <2>0. u.device[d] = "active" /\ t.device[d] = "inactive" /\ d \in t.changed
    BY <1>2, <2>1, <2>2 DEF Deactivate
  <2>a. Present(u, d) /\ Present(t, d) /\ d \in t.changed /\ d \in Rows
    BY <2>0 DEF Present, Rows
  <2>3. RowStatus(t, d) = "changed" /\ RowStatus(u, d) # "absent"
    BY <2>a DEF RowStatus
  <2>4. ASSUME NEW y \in Rows, y # d PROVE RowStatus(t, y) = RowStatus(u, y)
    BY <2>1, <2>2, <2>4 DEF RowStatus, Present
  <2>5. db' = [db EXCEPT ![path] = t]
    BY <1>2 DEF Deactivate, Request
  <2> HIDE DEF t, u
  <2>b. \A y \in Rows : y # d => RowStatus(t, y) = RowStatus(u, y)
    BY <2>4
  <2> QED BY <1>c, <2>a, <2>b, <2>1, <2>3, <2>5
<1>3. ASSUME NEW x \in Rows, Present(u, x), Request([u EXCEPT !.changed = @ \cup {x}])
      PROVE  Taking!Next
  <2> DEFINE t == [u EXCEPT !.changed = @ \cup {x}]
  <2>1. t.marker = u.marker /\ t.changed = u.changed \cup {x} /\ t.item = u.item
        /\ t.device = u.device
    BY <1>0 DEF Tables
  <2>2. RowStatus(t, x) = "changed" /\ RowStatus(u, x) # "absent"
    BY <1>3, <2>1 DEF RowStatus, Present
  <2>3. ASSUME NEW y \in Rows, y # x PROVE RowStatus(t, y) = RowStatus(u, y)
    BY <2>1, <2>3 DEF RowStatus, Present
  <2>4. db' = [db EXCEPT ![path] = t]
    BY <1>3 DEF Request
  <2> HIDE DEF t, u
  <2> QED BY <1>c, <2>1, <2>2, <2>3, <2>4
<1>4. ASSUME NEW d \in Devices, Touch(d) PROVE Taking!Next
  BY <1>3, <1>4 DEF Touch, Present, Rows
<1>5. ASSUME NEW i \in Items, Settle(i) PROVE Taking!Next
  BY <1>3, <1>5, MigrationAssumption DEF Settle, Present, Rows
<1> QED BY <1>1, <1>2, <1>4, <1>5

\* The operator's repair opens the database that talaria.db names again.
LEMMA RepairReopens ==
    ASSUME IInv, NEW f \in Files, Repair(f)
    PROVE  Taking!Next
<1> DEFINE u == db[path]
           t == [u EXCEPT !.marker = FALSE]
<1>0. TypeOK /\ u \in Tables /\ path \in Gens
  BY DEF IInv, TypeOK
<1>1. t.marker = FALSE /\ t.changed = u.changed /\ t.item = u.item /\ t.device = u.device
  BY <1>0 DEF Tables
<1>2. db' = [db EXCEPT ![path] = t]
  BY DEF Repair
<1>3. \A x \in Rows : RowStatus(t, x) = RowStatus(u, x)
  BY <1>1 DEF RowStatus, Present
<1>4. ASSUME NEW o, NEW r, NEW s
      PROVE  [[open |-> o, row |-> r] EXCEPT !.open = s] = [open |-> s, row |-> r]
  OBVIOUS
<1>5. View(t) = [open |-> TRUE, row |-> [x \in Rows |-> RowStatus(u, x)]]
  BY <1>1, <1>3 DEF View
<1>6. Store[path] = [open |-> ~u.marker, row |-> [x \in Rows |-> RowStatus(u, x)]]
  BY <1>0, StoreIs DEF View
<1> HIDE DEF t, u
<1>a. [[open |-> ~db[path].marker, row |-> [x \in Rows |-> RowStatus(db[path], x)]]
          EXCEPT !.open = TRUE]
      = [open |-> TRUE, row |-> [x \in Rows |-> RowStatus(db[path], x)]]
  BY <1>4
<1>7. View(t) = [Store[path] EXCEPT !.open = TRUE]
  BY <1>a, <1>5, <1>6 DEF u
<1>8. Store' = [Store EXCEPT ![path] = View(t)]
  BY <1>0, <1>2, StoreMoves
<1>9. Taking!Reopen(path)
  BY <1>7, <1>8 DEF Taking!Reopen
<1> QED BY <1>0, <1>9 DEF Taking!Next

LEMMA TakingNext == IInv /\ TInv /\ [Next]_vars => [Taking!Next]_Store
<1> SUFFICES ASSUME IInv, TInv, [Next]_vars PROVE Taking!Next \/ Store' = Store
  BY DEF Taking!Next
<1>1. CASE db' = db
  BY <1>1, StoreKept
<1>2. CASE \E p \in Processes : Commit(p)
  BY <1>2, CommitTakes
<1>3. CASE \/ \E d \in Devices : Pair(d) \/ Deactivate(d) \/ Touch(d)
           \/ \E i \in Items : Settle(i)
  BY <1>3, RequestTakes
<1>4. CASE \E f \in Files : Repair(f)
  BY <1>4, RepairReopens
<1>5. ASSUME NEW p \in Processes, Start(p) \/ Initialize(p) \/ Stop(p), ~Commit(p)
      PROVE  db' = db
  BY <1>5 DEF Start, Stop, Initialize, Open, SwitchToWal, SwitchRefused, QuarantineDatabase,
              Begin, Fail, ImportStep, ImportFile, FileAbsent, FileRaises, LookRejected,
              QuarantineFile
<1>6. ASSUME (\E f \in Files, c \in Contents : LateFile(f, c)) \/ Damage \/ UNCHANGED vars
      PROVE  db' = db
  BY <1>6 DEF LateFile, Damage, vars
<1> QED BY <1>1, <1>2, <1>3, <1>4, <1>5, <1>6 DEF Next

\* Whatever starts, stops, fails, is repaired or arrives late, and in whatever order:
\* to its rows, initialize() and the requests are an Intake.  A database takes the
\* legacy files in whole and at one moment, touches no row that was there, and takes
\* in nothing more until the operator opens it (database.py, _migrate_legacy_json;
\* README, "Migration recovery").
THEOREM KeepsIntake == Spec => IntakeSpec
<1>1. Init => IInv /\ TInv /\ Taking!Init
  BY InitInv, FreshInit, TakingInit
<1>2. IInv /\ TInv /\ [Next]_vars => IInv' /\ TInv' /\ [Taking!Next]_Store
  BY NextInv, FreshNext, TakingNext
<1> QED BY <1>1, <1>2, PTL DEF Spec, IntakeSpec, Taking!Spec
=============================================================================
