------------------------------- MODULE Intake -------------------------------
(***************************************************************************)
(* What database.py promises of the JSON files of older releases, said     *)
(* without processes, transactions, savepoints, locks or quarantines.  A   *)
(* database takes files in whole, all that it finds at one moment, and is  *)
(* closed by that: only the operator opens it again.  Taking a file in     *)
(* again adds what is missing and touches nothing that is there; what      *)
(* happened to a row since is never undone, and no row goes away.          *)
(* Migration implements this specification, with IntakeSpec.               *)
(***************************************************************************)
CONSTANTS Databases,
          Files,    \* the legacy files
          Rows,     \* ids of devices and outbox items
          RowsOf    \* [Files -> SUBSET Rows]

VARIABLE store      \* [Databases -> [open, row]]

Statuses == {"absent", "intact", "changed"}

Store == [open : BOOLEAN, row : [Rows -> Statuses]]

Init == store = [g \in Databases |-> [open |-> TRUE, row |-> [x \in Rows |-> "absent"]]]

\* The files in F are taken in, and the database is closed; nothing taken in, it
\* may be closed too: every file was set aside.
Import(g, F) ==
    LET new == {x \in UNION {RowsOf[f] : f \in F} : store[g].row[x] = "absent"}
    IN  /\ store[g].open
        /\ store' = [store EXCEPT ![g] =
               [open |-> FALSE,
                row  |-> [x \in Rows |-> IF x \in new THEN "intact" ELSE store[g].row[x]]]]

\* A row that no file has is made ...
Make(g, x) ==
    /\ \A f \in Files : x \notin RowsOf[f]
    /\ store[g].row[x] = "absent"
    /\ store' = [store EXCEPT ![g].row[x] = "intact"]

\* ... and any row that is there may be changed.
Change(g, x) ==
    /\ store[g].row[x] # "absent"
    /\ store' = [store EXCEPT ![g].row[x] = "changed"]

Reopen(g) == store' = [store EXCEPT ![g].open = TRUE]

Next == \E g \in Databases : \/ Reopen(g)
                             \/ \E x \in Rows : Make(g, x) \/ Change(g, x)
                             \/ \E F \in SUBSET Files : Import(g, F)

Spec == Init /\ [][Next]_store
=============================================================================
