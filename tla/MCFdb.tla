-------------------------------- MODULE MCFdb -------------------------------
(***************************************************************************)
(* TLC instances of Fdb, with two workers: parts of a tree whose start     *)
(* directory d0 has the file f1 and the directory d1, which holds f2 and   *)
(* f3.  The paths in d1 are longer than those in d0, and of one length.    *)
(* A configuration leaves out what it does not name in Files and Dirs.     *)
(***************************************************************************)
EXTENDS Fdb

CONSTANTS f1, f2, f3, d0, d1

MCEntries == [d \in Dirs |-> (IF d = d0 THEN {f1, d1} ELSE {f2, f3}) \cap Paths]
MCPathLen == [p \in Paths |-> IF p \in {f2, f3} THEN 3 ELSE 2]
=============================================================================
