---------------------------- MODULE FileTransfer ----------------------------
(***************************************************************************)
(* What `dach encode f' followed by `dach decode f.dch' promises its user: *)
(* the decoded file grows only by the next bytes of the original one, the  *)
(* pair either completes with the whole of it or gives up, and it does one *)
(* of the two.  Only when the encoder dies or a disk is full all bets are  *)
(* off, but for one: what has been written stays.  Nothing about coding    *)
(* appears here.                                                           *)
(***************************************************************************)
EXTENDS Sequences, SequencesExt, Integers

VARIABLES input,      \* the bytes of f
          delivered,  \* the bytes written to the decoded file
          outcome     \* "running", "done", "failed" or "damaged"

transfer == <<input, delivered, outcome>>

TransferInit == delivered = <<>> /\ outcome = "running"

\* Any number of further bytes reach the decoded file.
Deliver == /\ outcome = "running"
           /\ \E n \in Len(delivered) + 1 .. Len(input) : delivered' = SubSeq(input, 1, n)
           /\ UNCHANGED <<input, outcome>>

\* The decoder reports success: with its last bytes the file is complete.
Complete == /\ outcome = "running"
            /\ delivered' = input
            /\ outcome' = "done"
            /\ UNCHANGED input

\* An error exit or a failed assertion, in either program.
GiveUp == /\ outcome = "running"
          /\ outcome' = "failed"
          /\ UNCHANGED <<input, delivered>>

\* Part of a file is lost.
Damage == /\ outcome = "running"
          /\ outcome' = "damaged"
          /\ IsPrefix(delivered, delivered')
          /\ UNCHANGED input

Salvage == /\ outcome = "damaged"
           /\ IsPrefix(delivered, delivered')
           /\ UNCHANGED <<input, outcome>>

TransferNext == Deliver \/ Complete \/ GiveUp \/ Damage \/ Salvage

TransferSafety == TransferInit /\ [][TransferNext]_transfer
TransferSpec == TransferSafety /\ (outcome = "running" ~> outcome # "running")
=============================================================================
