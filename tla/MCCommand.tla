------------------------------ MODULE MCCommand -----------------------------
(***************************************************************************)
(* TLC instance of Command.  Ints have 4 bits and sizes 6; the defaults    *)
(* printed by --help are scaled down with them.                            *)
(***************************************************************************)
EXTENDS Command

MCNumbers == {-3, 0, 3, 6, 20}
MCHelp == [threads |-> 5, block_size |-> 7]
=============================================================================
