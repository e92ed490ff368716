----------------------------- MODULE KrsServer -----------------------------
(***************************************************************************)
(* The key release service of src/src/krs_server.py: a threading HTTPS     *)
(* server whose handlers share one replay cache and one CEK.               *)
(*                                                                         *)
(* Each connection has a handler thread; a thread runs do_POST in four     *)
(* steps with other threads in between: the request is read and parsed,    *)
(* the nonce is taken in the replay cache (under its lock), the report is  *)
(* verified (minutes of subprocesses), the CEK is wrapped, signed and      *)
(* sent.  The process may be restarted at any point; the cache lives in    *)
(* memory only.                                                            *)
(*                                                                         *)
(* gen, hgen and the gen field of a grant are history: they number the     *)
(* times the cache lost its content, by clear() at its cap or by a restart.*)
(***************************************************************************)
EXTENDS SnpVerify, Sequences, FiniteSets

CONSTANTS
    Handlers,       \* connection threads
    Reports,        \* the reports clients hold
    BadKemKeys,     \* KEM keys that kem_encap rejects
    DevMeasurement, \* the placeholder of the dev branch
    Production,     \* KrsConfig.production (a verifier is then configured)
    Cap,            \* _ReplayCache cap
    MaxRequests,    \* bound: requests received
    MaxRestarts     \* bound: restarts of the process

ASSUME KrsAssumption ==
    /\ Reports \subseteq Report /\ Reports # {}
    /\ XKeys # {} /\ KemKeys # {} /\ Nonces # {}
    /\ BadKemKeys \subseteq KemKeys
    /\ Production \in BOOLEAN
    /\ Cap \in Nat \ {0}
    /\ MaxRequests \in Nat
    /\ MaxRestarts \in Nat

Request == [path_ok : BOOLEAN,   \* the path is /verify
            parses  : BOOLEAN,   \* JSON, hex, base64 and the lengths are right
            x       : XKeys,
            kem     : KemKeys,
            nonce   : Nonces,
            report  : Reports]

Measured == Measurements \cup {DevMeasurement}

Grant == [x : XKeys, kem : KemKeys, nonce : Nonces, report : Reports,
          measurement : Measured, gen : Nat]

VARIABLES
    seen,      \* cfg.replay._seen
    pc,        \* where each handler thread is in do_POST
    req,       \* the request it works on
    meas,      \* its local measurement
    gen,       \* history: times the cache was emptied
    hgen,      \* history: gen at the handler's own cache check
    grants,    \* history: the 200 responses, in the order they were made
    received,  \* bound counter
    restarts   \* bound counter

vars == <<seen, pc, req, meas, gen, hgen, grants, received, restarts>>

NoRequest == CHOOSE r \in Request : TRUE

Init ==
    /\ seen = {}
    /\ pc = [h \in Handlers |-> "idle"]
    /\ req = [h \in Handlers |-> NoRequest]
    /\ meas = [h \in Handlers |-> DevMeasurement]
    /\ gen = 0
    /\ hgen = [h \in Handlers |-> 0]
    /\ grants = << >>
    /\ received = 0
    /\ restarts = 0

(* do_POST returns: the thread's locals are gone and it waits for the next *)
(* request of its connection.                                              *)
Done(h) ==
    /\ pc' = [pc EXCEPT ![h] = "idle"]
    /\ req' = [req EXCEPT ![h] = NoRequest]
    /\ meas' = [meas EXCEPT ![h] = DevMeasurement]
    /\ hgen' = [hgen EXCEPT ![h] = 0]

(* _deny: the same 403 whatever the reason.                                *)
Deny(h) == Done(h) /\ UNCHANGED grants

(* A request arrives and is read and parsed; a wrong path, a body that     *)
(* does not parse or a wrong length is denied before the cache is touched. *)
ReceiveRequest(h, r) ==
    /\ pc[h] = "idle"
    /\ received < MaxRequests
    /\ IF r.path_ok /\ r.parses
       THEN /\ pc' = [pc EXCEPT ![h] = "replay"]
            /\ req' = [req EXCEPT ![h] = r]
            /\ UNCHANGED <<meas, hgen, grants>>
       ELSE Deny(h)
    /\ received' = received + 1
    /\ UNCHANGED <<seen, gen, restarts>>

(* Clients may send anything.                                              *)
Receive(h) == \E r \in Request : ReceiveRequest(h, r)

(* Mutated: the cap is overrun by one before the cache is cleared.         *)
FullTooLate == Cardinality(seen) > Cap

(* The cache is at its cap.                                                *)
Full == Cardinality(seen) >= Cap

(* Mutated: the nonce that triggers the clear is not remembered.           *)
FreshForgetsOnClear(nonce) ==
    /\ nonce \notin seen
    /\ seen' = IF Full THEN {} ELSE seen \cup {nonce}
    /\ gen' = IF Full THEN gen + 1 ELSE gen

(* _ReplayCache.fresh, the whole of it under the lock.  The cache key is   *)
(* the nonce's SHA-256, taken as injective.                                *)
Fresh(nonce) ==
    /\ nonce \notin seen
    /\ seen' = (IF Full THEN {} ELSE seen) \cup {nonce}
    /\ gen' = IF Full THEN gen + 1 ELSE gen

(* Mutated: a replayed nonce is never answered.                            *)
CheckReplayNoAnswer(h) ==
    /\ pc[h] = "replay"
    /\ Fresh(req[h].nonce)
    /\ pc' = [pc EXCEPT ![h] = "verify"]
    /\ hgen' = [hgen EXCEPT ![h] = gen']
    /\ UNCHANGED <<req, meas, grants, received, restarts>>

(* Mutated: the nonce is looked up but not remembered.                     *)
CheckReplayForgets(h) ==
    /\ pc[h] = "replay"
    /\ \/ /\ req[h].nonce \notin seen
          /\ pc' = [pc EXCEPT ![h] = "verify"]
          /\ hgen' = [hgen EXCEPT ![h] = gen]
          /\ UNCHANGED <<req, meas, grants>>
       \/ req[h].nonce \in seen /\ Deny(h)
    /\ UNCHANGED <<seen, gen, received, restarts>>

(* The replay check of do_POST; it consumes the nonce whatever comes next. *)
CheckReplay(h) ==
    /\ pc[h] = "replay"
    /\ \/ /\ Fresh(req[h].nonce)
          /\ pc' = [pc EXCEPT ![h] = "verify"]
          /\ hgen' = [hgen EXCEPT ![h] = gen']
          /\ UNCHANGED <<req, meas, grants>>
       \/ /\ req[h].nonce \in seen
          /\ Deny(h)
          /\ UNCHANGED <<seen, gen>>
    /\ UNCHANGED <<received, restarts>>

(* A measurement was obtained; the thread goes on to wrap the CEK.         *)
Verified(h, m) ==
    /\ meas' = [meas EXCEPT ![h] = m]
    /\ pc' = [pc EXCEPT ![h] = "wrap"]
    /\ UNCHANGED <<req, hgen, grants>>

(* Mutated: the verifier's exception is taken for a measurement.           *)
VerifyReportUnchecked(h) ==
    /\ pc[h] = "verify"
    /\ \E chain \in ChainOutcomes(req[h].report) :
         Verified(h, Verify(req[h].report,
                            <<req[h].x, req[h].kem, req[h].nonce>>, chain))
    /\ UNCHANGED <<seen, gen, received, restarts>>

(* The verification branch: SnpVerifier.verify against the report_data     *)
(* recomputed from the request in production, the placeholder otherwise.   *)
VerifyReport(h) ==
    /\ pc[h] = "verify"
    /\ LET r == req[h]
           expected_rd == <<r.x, r.kem, r.nonce>>
       IN  \/ /\ Production
              /\ \E chain \in ChainOutcomes(r.report) :
                   LET m == Verify(r.report, expected_rd, chain) IN
                   IF m = AttestationError THEN Deny(h) ELSE Verified(h, m)
           \/ ~Production /\ Verified(h, DevMeasurement)
    /\ UNCHANGED <<seen, gen, received, restarts>>

(* What the response fixes: the recipient's keys, the nonce echoed, the    *)
(* measurement signed.                                                     *)
GrantFor(h) ==
    [x |-> req[h].x, kem |-> req[h].kem, nonce |-> req[h].nonce,
     report |-> req[h].report, measurement |-> meas[h], gen |-> hgen[h]]

(* wrap_cek to the request's keys, hybrid_sign, the 200 response.  An      *)
(* unusable KEM key raises in kem_encap and is denied.                     *)
Release(h) ==
    /\ pc[h] = "wrap"
    /\ \/ req[h].kem \in BadKemKeys /\ Deny(h)
       \/ /\ req[h].kem \notin BadKemKeys
          /\ grants' = Append(grants, GrantFor(h))
          /\ Done(h)
    /\ UNCHANGED <<seen, gen, received, restarts>>

(* The process ends (crash, redeployment) and is started again: every      *)
(* handler is gone and the cache is empty.                                 *)
Restart ==
    /\ restarts < MaxRestarts
    /\ restarts' = restarts + 1
    /\ pc' = [h \in Handlers |-> "idle"]
    /\ req' = [h \in Handlers |-> NoRequest]
    /\ meas' = [h \in Handlers |-> DevMeasurement]
    /\ hgen' = [h \in Handlers |-> 0]
    /\ seen' = {}
    /\ gen' = gen + 1
    /\ UNCHANGED <<grants, received>>

Step(h) == CheckReplay(h) \/ VerifyReport(h) \/ Release(h)

Next == Restart \/ \E h \in Handlers : Receive(h) \/ Step(h)

(* A running thread is scheduled; snpguest calls end by their 60 s timeout.*)
(* Whether a request arrives at all is the clients' choice.                *)
Safety == Init /\ [][Next]_vars
Spec == Safety /\ \A h \in Handlers : WF_vars(Step(h))

-----------------------------------------------------------------------------
PastCheck(h) == pc[h] \in {"verify", "wrap"}

(* Type invariant of the service's state (KrsConfig, handler locals).      *)
TypeOK ==
    /\ seen \subseteq Nonces
    /\ pc \in [Handlers -> {"idle", "replay", "verify", "wrap"}]
    /\ req \in [Handlers -> Request]
    /\ meas \in [Handlers -> Measured]
    /\ gen \in Nat
    /\ hgen \in [Handlers -> Nat]
    /\ grants \in Seq(Grant)
    /\ received \in Nat
    /\ restarts \in Nat

(* A nonce buys at most one release between two losses of the cache, with  *)
(* any interleaving of handler threads: two grants for one nonce were      *)
(* checked against different cache generations (_ReplayCache.fresh).  The  *)
(* policy promises more (KRS_POLICY.md 2.4: a nonce that was seen is       *)
(* rejected), but clear() at the cap starts a generation without a restart.*)
NonceOncePerGeneration ==
    \A i, j \in 1..Len(grants) :
        (i # j /\ grants[i].nonce = grants[j].nonce)
            => grants[i].gen # grants[j].gen

(* The cache never holds more than its cap, also right after the clear     *)
(* that makes room (the clear precedes the add).                           *)
CacheBounded == Cardinality(seen) <= Cap

(* In production every released key went out under a report that entitles  *)
(* exactly the keys it was wrapped to, and the signed measurement is that  *)
(* report's: no thread serves another thread's verdict (do_POST).          *)
GrantedOnlyIfEntitled ==
    Production =>
        \A i \in 1..Len(grants) :
            LET g == grants[i] IN
            /\ Entitles(g.report, g.x, g.kem, g.nonce)
            /\ g.measurement = g.report.measurement

(* A report can be spent on one recipient only, and once per generation:   *)
(* report_data ties it to the keys and to a nonce the cache consumes.      *)
ReportSpentOncePerGeneration ==
    Production =>
        \A i, j \in 1..Len(grants) :
            (i # j /\ grants[i].report = grants[j].report)
                => /\ <<grants[i].x, grants[i].kem>> = <<grants[j].x, grants[j].kem>>
                   /\ grants[i].gen # grants[j].gen

(* Every request that was read is answered, or its process is restarted:   *)
(* no handler stays in do_POST forever.                                    *)
EveryRequestAnswered ==
    \A h \in Handlers : (pc[h] # "idle") ~> (pc[h] = "idle")

(* The service as a ledger of reports: what may be spent is a report that  *)
(* entitles the keys it is bound to, an epoch is a cache generation.       *)
EntitledReports ==
    { r \in Reports :
        Entitles(r, r.report_data[1], r.report_data[2], r.report_data[3]) }

Ledger == INSTANCE OnceLedger WITH
    Items <- EntitledReports,
    epoch <- gen,
    log   <- [i \in 1..Len(grants) |-> <<grants[i].report, grants[i].gen>>]

(* In production the detailed service (threads, cache, verifier, restarts) *)
(* implements that ledger: every 200 response spends one entitled report,  *)
(* one not yet spent in the generation its thread was checked in.  (The    *)
(* development branch does not look at the report and implements no such   *)
(* ledger.)                                                                *)
ImplementsLedger == Ledger!Spec

-----------------------------------------------------------------------------
(* The inductive strengthening of NonceOncePerGeneration: a handler past   *)
(* the check holds its nonce for the generation it checked in, against     *)
(* other handlers and against what was granted before.                     *)
NonceHeld ==
    /\ \A h \in Handlers : PastCheck(h) =>
           /\ hgen[h] <= gen
           /\ hgen[h] = gen => req[h].nonce \in seen
    /\ \A h, k \in Handlers :
           (h # k /\ PastCheck(h) /\ PastCheck(k) /\ req[h].nonce = req[k].nonce)
               => hgen[h] # hgen[k]

NonceSpent ==
    /\ \A i \in 1..Len(grants) :
           /\ grants[i].gen <= gen
           /\ grants[i].gen = gen => grants[i].nonce \in seen
    /\ \A i \in 1..Len(grants) : \A h \in Handlers :
           (PastCheck(h) /\ grants[i].nonce = req[h].nonce)
               => grants[i].gen # hgen[h]

SingleUse == NonceHeld /\ NonceSpent /\ NonceOncePerGeneration

(* The inductive strengthening of GrantedOnlyIfEntitled: a handler about   *)
(* to wrap holds a report that entitles its own request.                   *)
WrapEntitled ==
    Production =>
        \A h \in Handlers : pc[h] = "wrap" =>
            /\ Entitles(req[h].report, req[h].x, req[h].kem, req[h].nonce)
            /\ meas[h] = req[h].report.measurement
=============================================================================
