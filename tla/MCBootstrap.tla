---------------------------- MODULE MCBootstrap ----------------------------
(* Instances of Bootstrap for TLC: a healthy development and a healthy      *)
(* production machine, each also with one thing wrong at a time, with and   *)
(* without faults while it runs; packages that are whole, swapped, damaged  *)
(* in one file, short of one, and empty.                                    *)
EXTENDS Bootstrap

CONSTANTS f1, f2

MCFiles == {f1, f2}

Dev == [production |-> FALSE, hosted |-> TRUE, locked |-> FALSE,
        tee |-> "sev-snp", configured |-> FALSE, expected |-> Good,
        booted |-> Good, nitrokey |-> "enrolled", kem |-> TRUE,
        findmnt |-> TRUE, tmpfs |-> FALSE, rust |-> FALSE, faults |-> FALSE]

Prod == [Dev EXCEPT !.production = TRUE, !.locked = TRUE, !.configured = TRUE,
                    !.tmpfs = TRUE, !.rust = TRUE, !.nitrokey = "absent"]

DevEnvs ==
    { Dev,
      [Dev EXCEPT !.hosted = FALSE],
      [Dev EXCEPT !.tee = "tdx"],
      [Dev EXCEPT !.tee = "none"],
      [Dev EXCEPT !.expected = None],
      [Dev EXCEPT !.expected = Other],
      [Dev EXCEPT !.expected = Other, !.booted = Other],
      [Dev EXCEPT !.nitrokey = "absent"],
      [Dev EXCEPT !.nitrokey = "other"],
      [Dev EXCEPT !.kem = FALSE],
      [Dev EXCEPT !.findmnt = FALSE] }

ProdEnvs ==
    { Prod,
      [Prod EXCEPT !.locked = FALSE],
      [Prod EXCEPT !.configured = FALSE],
      [Prod EXCEPT !.configured = FALSE, !.hosted = FALSE],
      [Prod EXCEPT !.expected = Other],
      [Prod EXCEPT !.tmpfs = FALSE] }

Faulty(e) == [e EXCEPT !.faults = TRUE]

AllEnvs == DevEnvs \cup ProdEnvs \cup {Faulty(e) : e \in DevEnvs \cup ProdEnvs}
ProdOnly == { Prod }
HostedOnly == { Faulty(Dev) }

Whole   == [f \in {f1, f2} |-> f]
Swapped == [f \in {f1, f2} |-> IF f = f1 THEN f2 ELSE f1]
Broken  == [f \in {f1, f2} |-> IF f = f1 THEN f1 ELSE Damaged]
OneFile == [f \in {f1, f2} |-> IF f = f1 THEN f1 ELSE Absent]
Empty   == [f \in {f1, f2} |-> Absent]

AllPackages == {Whole, Swapped, Broken, OneFile, Empty}
WholeOnly == {Whole}
=============================================================================
