---------------------------- MODULE MCKeyRelease ----------------------------
(* Instances of KeyRelease for TLC: two calls of one guest, with the same   *)
(* keys and report and a nonce each, as when a caller tries again; the      *)
(* second call's pins are any of right, wrong certificate, wrong Ed25519    *)
(* key, wrong ML-DSA key (the four cases of the self test).                 *)
EXTENDS KeyRelease, TLC

CONSTANTS c1, c2, x, kem, bound, n1, n2, good

MCXKeyOf == [c \in Handlers |-> x]
MCKemKeyOf == [c \in Handlers |-> kem]
MCDrawnNonce == (c1 :> n1) @@ (c2 :> n2)
MCXKeys == {x}
MCKemKeys == {kem}
MCNonces == {bound, n1, n2}
MCMeasurements == {good}
GuestReport ==
    [genuine |-> TRUE, full |-> TRUE, report_data |-> <<x, kem, bound>>,
     measurement |-> good, debug |-> FALSE, smt |-> TRUE, reported_tcb |-> 1]
MCReports == {GuestReport}
MCReportOf == [c \in Handlers |-> GuestReport]

RightPins == [fpr |-> TRUE, ed |-> TRUE, mldsa |-> TRUE]
MCPinChoices ==
    { [c \in Handlers |-> IF c = c2 THEN p ELSE RightPins] :
        p \in { RightPins, [RightPins EXCEPT !.fpr = FALSE],
                [RightPins EXCEPT !.ed = FALSE],
                [RightPins EXCEPT !.mldsa = FALSE] } }
AllRight == { [c \in Handlers |-> RightPins] }
=============================================================================
