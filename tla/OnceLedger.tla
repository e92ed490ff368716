----------------------------- MODULE OnceLedger -----------------------------
(***************************************************************************)
(* What both replay checks of the repository promise to the rest of it     *)
(* (_ReplayCache of krs_server.py, IntentVerifier._seen of                 *)
(* signed_order_intent.py): an item is spent at most once per epoch, where *)
(* an epoch ends when the memory of what was spent is lost.  An epoch that *)
(* has ended may still be spent in: a thread that passed the check before  *)
(* the loss finishes its work after it.                                    *)
(***************************************************************************)
EXTENDS Integers, Sequences

CONSTANT Items     \* what may be spent at all

VARIABLES
    epoch,   \* times the memory was lost
    log      \* what was spent, with its epoch, in order

vars == <<epoch, log>>

Init == epoch = 0 /\ log = << >>

SpentIn(i, e) == \E k \in 1..Len(log) : log[k] = <<i, e>>

Spend(i, e) ==
    /\ ~SpentIn(i, e)
    /\ log' = Append(log, <<i, e>>)
    /\ UNCHANGED epoch

NewEpoch ==
    /\ epoch' = epoch + 1
    /\ UNCHANGED log

Next == NewEpoch \/ \E i \in Items : \E e \in 0..epoch : Spend(i, e)

Spec == Init /\ [][Next]_vars
=============================================================================
