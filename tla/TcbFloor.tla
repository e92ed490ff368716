------------------------------ MODULE TcbFloor ------------------------------
(***************************************************************************)
(* The anti-rollback check of SnpVerifier.verify (snp_verify.py): the      *)
(* reported TCB, TcbBytes bytes with one security version each (the first  *)
(* is the boot loader's, the last the microcode's), is read as one         *)
(* little-endian integer and compared with the configured floor.           *)
(***************************************************************************)
EXTENDS Integers, Sequences

CONSTANTS
    TcbBytes,   \* 8 in the code ("<Q")
    TcbBase     \* 256 in the code

ASSUME TcbAssumption == TcbBytes \in Nat \ {0} /\ TcbBase \in Nat \ {0, 1}

Tcb == [1..TcbBytes -> 0..(TcbBase - 1)]

\* Mutant: one byte too few is read, as with "<Q" on a shorter slice.
ParseReportedTcbCut(bytes) ==
    LET from[i \in 1..TcbBytes] ==
          IF i = TcbBytes THEN 0 ELSE bytes[i] + TcbBase * from[i + 1]
    IN  from[1]

ParseReportedTcb(bytes) ==
    LET from[i \in 1..(TcbBytes + 1)] ==
          IF i > TcbBytes THEN 0 ELSE bytes[i] + TcbBase * from[i + 1]
    IN  from[1]

TcbAccepted(bytes, floor) ==
    ~(ParseReportedTcb(bytes) < ParseReportedTcb(floor))
=============================================================================
