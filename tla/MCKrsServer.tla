---------------------------- MODULE MCKrsServer ----------------------------
(* Instances of KrsServer for TLC.  Guests A and B hold genuine reports for *)
(* their own keys and one nonce each; the other reports differ from A's in  *)
(* one field, so that each check of the verifier decides some request.      *)
EXTENDS KrsServer

CONSTANTS xA, xB, kA, kBad, n1, n2, good, other

MCMeasurements == {good, other}
MCAllowList == {good}
MCXKeys == {xA, xB}
MCKemKeys == {kA, kBad}
MCNonces == {n1, n2}
MCBadKemKeys == {kBad}

ReportA == [genuine |-> TRUE, full |-> TRUE, report_data |-> <<xA, kA, n1>>,
            measurement |-> good, debug |-> FALSE, smt |-> TRUE,
            reported_tcb |-> 1]

MCReports ==
    { ReportA,
      [ReportA EXCEPT !.report_data = <<xB, kBad, n2>>],
      [ReportA EXCEPT !.genuine = FALSE],
      [ReportA EXCEPT !.full = FALSE],
      [ReportA EXCEPT !.measurement = other],
      [ReportA EXCEPT !.debug = TRUE],
      [ReportA EXCEPT !.reported_tcb = 0] }

=============================================================================
