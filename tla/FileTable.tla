------------------------------ MODULE FileTable -----------------------------
(***************************************************************************)
(* What fdb promises of its database: a table of files that only grows.    *)
(* While an fdb runs it may add rows, one at a time and each under a name  *)
(* that the table does not have; no row is ever changed or removed, and an *)
(* fdb that was started comes to an end, in whatever way.  Threads, paths  *)
(* and SQLite do not appear here.                                          *)
(***************************************************************************)
CONSTANTS Names,   \* what can be bound to the column fname
          Files,   \* whose sizes the walk has seen
          Paths    \* what can be opened and hashed

VARIABLES rows,    \* the rows of fdb_files
          running  \* an fdb process exists

fileTable == <<rows, running>>

TableInit == rows = {} /\ ~running

StartFdb == ~running /\ running' /\ UNCHANGED rows

AddRow(name) == /\ running
                /\ \A r \in rows : r.fname # name
                /\ \E f \in Files, p \in Paths :
                      rows' = rows \cup {[fname |-> name, fsize |-> f, md5_full |-> p]}
                /\ UNCHANGED running

EndFdb == running /\ ~running' /\ UNCHANGED rows

TableNext == StartFdb \/ EndFdb \/ \E name \in Names : AddRow(name)

TableSafety == TableInit /\ [][TableNext]_fileTable

\* Every fdb that is started ends.
TableSpec == TableSafety /\ (running ~> ~running)
=============================================================================
