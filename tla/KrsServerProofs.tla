-------------------------- MODULE KrsServerProofs --------------------------
(***************************************************************************)
(* Theorems about KrsServer for every number of handlers, every set of     *)
(* keys, nonces and reports, every cap and every bound on the history.     *)
(* They are about Safety, the specification without its fairness, so that  *)
(* they hold of every module that takes only the service's own steps.      *)
(***************************************************************************)
EXTENDS KrsServer, LedgerLemmas, SequenceTheorems, FiniteSetTheorems, TLAPS

(* A request exists, so a handler's cleared local is one (do_POST).        *)
LEMMA NoRequestType == NoRequest \in Request
  <1>1. PICK x \in XKeys, k \in KemKeys, n \in Nonces, r \in Reports : TRUE
    BY KrsAssumption
  <1>2. [path_ok |-> TRUE, parses |-> TRUE, x |-> x, kem |-> k, nonce |-> n,
         report |-> r] \in Request
    BY <1>1 DEF Request
  <1> QED
    BY <1>2 DEF NoRequest

(* What SnpVerifier.verify returns: a measurement it was given, or its     *)
(* exception, and a measurement only for a report that entitles.           *)
LEMMA VerifyResult ==
  ASSUME NEW r \in Report, NEW x \in XKeys, NEW k \in KemKeys, NEW n \in Nonces,
         NEW chain \in ChainOutcomes(r),
         Verify(r, <<x, k, n>>, chain) # AttestationError
  PROVE  /\ Verify(r, <<x, k, n>>, chain) = r.measurement
         /\ Verify(r, <<x, k, n>>, chain) \in Measurements
         /\ Entitles(r, x, k, n)
  <1>1. /\ r.full
        /\ chain = "verified"
        /\ FieldsAccepted(r, <<x, k, n>>)
        /\ Verify(r, <<x, k, n>>, chain) = r.measurement
    BY DEF Verify
  <1>2. r.genuine
    BY <1>1 DEF ChainOutcomes
  <1>3. r.measurement \in Measurements /\ r.reported_tcb \in Nat
    BY DEF Report
  <1> QED
    BY <1>1, <1>2, <1>3, SnpAssumption DEF FieldsAccepted, Entitles

(* The state of krs_server.py keeps its types.                             *)
THEOREM TypeCorrect == Safety => []TypeOK
  <1>1. Init => TypeOK
    BY NoRequestType DEF Init, TypeOK, Measured
  <1>2. TypeOK /\ [Next]_vars => TypeOK'
    <2> SUFFICES ASSUME TypeOK, [Next]_vars PROVE TypeOK'
      OBVIOUS
    <2> USE NoRequestType DEF TypeOK
    <2>1. ASSUME NEW h \in Handlers, Done(h), UNCHANGED <<seen, gen>>,
                 received' \in Nat, restarts' \in Nat, grants' \in Seq(Grant)
          PROVE  TypeOK'
      BY <2>1 DEF Done, Measured
    <2>2. ASSUME NEW h \in Handlers, Receive(h) PROVE TypeOK'
      <3>1. PICK r \in Request : ReceiveRequest(h, r)
        BY <2>2 DEF Receive
      <3>2. CASE r.path_ok /\ r.parses
        <4>1. /\ pc' = [pc EXCEPT ![h] = "replay"]
              /\ req' = [req EXCEPT ![h] = r]
              /\ UNCHANGED <<meas, hgen, grants>>
          BY <3>1, <3>2, Zenon DEF ReceiveRequest
        <4>2. received' = received + 1 /\ UNCHANGED <<seen, gen, restarts>>
          BY <3>1 DEF ReceiveRequest
        <4> QED BY <4>1, <4>2
      <3>3. CASE ~(r.path_ok /\ r.parses)
        BY <2>1, <3>1, <3>3 DEF ReceiveRequest, Deny
      <3> QED BY <3>2, <3>3
    <2>3. ASSUME NEW h \in Handlers, CheckReplay(h) PROVE TypeOK'
      <3>0. req[h].nonce \in Nonces
        BY DEF Request
      <3>1. CASE Fresh(req[h].nonce)
        <4>1. seen' \subseteq Nonces /\ gen' \in Nat
          BY <3>0, <3>1 DEF Fresh
        <4>2. /\ pc' = [pc EXCEPT ![h] = "verify"]
              /\ hgen' = [hgen EXCEPT ![h] = gen']
              /\ UNCHANGED <<req, meas, grants, received, restarts>>
          BY <2>3, <3>1 DEF CheckReplay, Fresh
        <4> QED BY <4>1, <4>2
      <3>2. CASE req[h].nonce \in seen
        BY <2>1, <2>3, <3>2 DEF CheckReplay, Fresh, Deny
      <3> QED BY <2>3, <3>1, <3>2 DEF CheckReplay
    <2>4. ASSUME NEW h \in Handlers, NEW m \in Measured, Verified(h, m),
                 UNCHANGED <<seen, gen, received, restarts>>
          PROVE  TypeOK'
      BY <2>4 DEF Verified
    <2>5. ASSUME NEW h \in Handlers, VerifyReport(h) PROVE TypeOK'
      <3>1. CASE Production
        <4> DEFINE r == req[h]
        <4>1. PICK chain \in ChainOutcomes(r.report) :
                LET m == Verify(r.report, <<r.x, r.kem, r.nonce>>, chain)
                IN  IF m = AttestationError THEN Deny(h) ELSE Verified(h, m)
          BY <2>5, <3>1 DEF VerifyReport
        <4>2. CASE Deny(h)
          BY <2>1, <2>5, <4>2 DEF VerifyReport, Deny
        <4>3. CASE ~Deny(h)
          <5>1. /\ r.report \in Report /\ r.x \in XKeys
                /\ r.kem \in KemKeys /\ r.nonce \in Nonces
            BY KrsAssumption DEF Request
          <5>2. Verify(r.report, <<r.x, r.kem, r.nonce>>, chain) \in Measured
            BY <4>1, <4>3, <5>1, VerifyResult DEF Measured
          <5> QED BY <2>4, <2>5, <4>1, <4>3, <5>2 DEF VerifyReport
        <4> QED BY <4>2, <4>3
      <3>2. CASE ~Production
        BY <2>4, <2>5, <3>2 DEF VerifyReport, Measured
      <3> QED BY <3>1, <3>2
    <2>6. ASSUME NEW h \in Handlers, Release(h) PROVE TypeOK'
      <3>1. CASE req[h].kem \in BadKemKeys
        BY <2>1, <2>6, <3>1 DEF Release, Deny
      <3>2. CASE req[h].kem \notin BadKemKeys
        <4>1. GrantFor(h) \in Grant
          BY DEF GrantFor, Grant, Request
        <4>2. grants' = Append(grants, GrantFor(h)) /\ Done(h)
          BY <2>6, <3>2 DEF Release
        <4>3. grants' \in Seq(Grant)
          BY <4>1, <4>2, AppendProperties
        <4> QED BY <2>1, <2>6, <4>2, <4>3 DEF Release
      <3> QED BY <3>1, <3>2
    <2>7. CASE Restart
      BY <2>7 DEF Restart, Measured
    <2>8. CASE UNCHANGED vars
      BY <2>8 DEF vars
    <2> QED
      BY <2>2, <2>3, <2>5, <2>6, <2>7, <2>8 DEF Next, Step
  <1> QED
    BY <1>1, <1>2, PTL DEF Safety

-----------------------------------------------------------------------------
(* The five things a step can do to a handler, the cache and the grants:   *)
(* every action of Next is one of these, seen without its early returns.   *)
Denied(h) == Done(h) /\ UNCHANGED <<seen, gen, grants>>

Started(h) ==
    /\ pc' = [pc EXCEPT ![h] = "replay"]
    /\ req' \in [Handlers -> Request]
    /\ \A k \in Handlers \ {h} : req'[k] = req[k]
    /\ UNCHANGED <<seen, gen, hgen, meas, grants>>

Checked(h) ==
    /\ pc[h] = "replay"
    /\ Fresh(req[h].nonce)
    /\ pc' = [pc EXCEPT ![h] = "verify"]
    /\ hgen' = [hgen EXCEPT ![h] = gen']
    /\ UNCHANGED <<req, meas, grants>>

Attested(h) ==
    /\ pc[h] = "verify"
    /\ pc' = [pc EXCEPT ![h] = "wrap"]
    /\ Production =>
          /\ Entitles(req[h].report, req[h].x, req[h].kem, req[h].nonce)
          /\ meas'[h] = req[h].report.measurement
    /\ \A k \in Handlers \ {h} : meas'[k] = meas[k]
    /\ UNCHANGED <<seen, gen, req, hgen, grants>>

Released(h) ==
    /\ pc[h] = "wrap"
    /\ grants' = Append(grants, GrantFor(h))
    /\ Done(h)
    /\ UNCHANGED <<seen, gen>>

(* Every step of the service has one of these effects.                     *)
LEMMA StepEffect ==
  ASSUME TypeOK, [Next]_vars
  PROVE  \/ \E h \in Handlers : \/ Denied(h) \/ Started(h) \/ Checked(h)
                                \/ Attested(h) \/ Released(h)
         \/ Restart
         \/ UNCHANGED vars
  <1>1. ASSUME NEW h \in Handlers, Receive(h) PROVE Denied(h) \/ Started(h)
    <2>1. PICK r \in Request : ReceiveRequest(h, r)
      BY <1>1 DEF Receive
    <2>2. UNCHANGED <<seen, gen>>
      BY <2>1 DEF ReceiveRequest
    <2>3. CASE r.path_ok /\ r.parses
      <3>1. /\ pc' = [pc EXCEPT ![h] = "replay"]
            /\ req' = [req EXCEPT ![h] = r]
            /\ UNCHANGED <<meas, hgen, grants>>
        BY <2>1, <2>3, Zenon DEF ReceiveRequest
      <3> QED BY <2>2, <3>1 DEF Started, TypeOK
    <2>4. CASE ~(r.path_ok /\ r.parses)
      BY <2>1, <2>2, <2>4 DEF ReceiveRequest, Denied, Deny
    <2> QED BY <2>3, <2>4
  <1>2. ASSUME NEW h \in Handlers, CheckReplay(h) PROVE Denied(h) \/ Checked(h)
    BY <1>2 DEF CheckReplay, Denied, Deny, Checked
  <1>3. ASSUME NEW h \in Handlers, VerifyReport(h) PROVE Denied(h) \/ Attested(h)
    <2> DEFINE r == req[h]
    <2>1. pc[h] = "verify" /\ UNCHANGED <<seen, gen>>
      BY <1>3 DEF VerifyReport
    <2>2. CASE Production
      <3>1. PICK chain \in ChainOutcomes(r.report) :
              LET m == Verify(r.report, <<r.x, r.kem, r.nonce>>, chain)
              IN  IF m = AttestationError THEN Deny(h) ELSE Verified(h, m)
        BY <1>3, <2>2 DEF VerifyReport
      <3> DEFINE m == Verify(r.report, <<r.x, r.kem, r.nonce>>, chain)
      <3>2. CASE m = AttestationError
        BY <2>1, <3>1, <3>2 DEF Denied, Deny
      <3>3. CASE m # AttestationError
        <4>1. /\ r.report \in Report /\ r.x \in XKeys
              /\ r.kem \in KemKeys /\ r.nonce \in Nonces
          BY KrsAssumption DEF Request, TypeOK
        <4>2. /\ m = r.report.measurement
              /\ Entitles(r.report, r.x, r.kem, r.nonce)
          BY <3>3, <4>1, VerifyResult
        <4>3. Verified(h, m)
          BY <3>1, <3>3
        <4> QED BY <2>1, <4>2, <4>3 DEF Attested, Verified, TypeOK
      <3> QED BY <3>2, <3>3
    <2>3. CASE ~Production
      BY <1>3, <2>1, <2>3 DEF VerifyReport, Verified, Attested, TypeOK
    <2> QED BY <2>2, <2>3
  <1>4. ASSUME NEW h \in Handlers, Release(h) PROVE Denied(h) \/ Released(h)
    BY <1>4 DEF Release, Denied, Deny, Released
  <1> QED
    BY <1>1, <1>2, <1>3, <1>4 DEF Next, Step

(* The entries of the grant history are grants.                            *)
LEMMA GrantEntries ==
  ASSUME TypeOK
  PROVE  \A i \in 1..Len(grants) : grants[i] \in Grant /\ grants[i].gen \in Nat
  <1>1. \A i \in 1..Len(grants) : grants[i] \in Grant
    BY ElementOfSeq DEF TypeOK
  <1> QED
    BY <1>1 DEF Grant

(* The inductive invariant: a handler past the replay check holds its      *)
(* nonce for the generation it checked in, against other handlers and      *)
(* earlier releases (_ReplayCache.fresh).                                  *)
THEOREM SingleUseKept == Safety => []SingleUse
  <1>1. Init => SingleUse
    BY DEF Init, SingleUse, NonceHeld, NonceSpent, NonceOncePerGeneration,
           PastCheck
  <1>2. TypeOK /\ TypeOK' /\ SingleUse /\ [Next]_vars => SingleUse'
    <2> SUFFICES ASSUME TypeOK, TypeOK', SingleUse, [Next]_vars
                 PROVE  SingleUse'
      OBVIOUS
    <2>1. ASSUME NEW h \in Handlers, Denied(h) PROVE SingleUse'
      <3>1. \A k \in Handlers : PastCheck(k)' =>
              k # h /\ PastCheck(k) /\ req'[k] = req[k] /\ hgen'[k] = hgen[k]
        BY <2>1 DEF Denied, Done, PastCheck, TypeOK
      <3> QED
        BY <2>1, <3>1 DEF Denied, SingleUse, NonceHeld, NonceSpent,
                          NonceOncePerGeneration
    <2>2. ASSUME NEW h \in Handlers, Started(h) PROVE SingleUse'
      <3>1. \A k \in Handlers : PastCheck(k)' =>
              k # h /\ PastCheck(k) /\ req'[k] = req[k] /\ hgen'[k] = hgen[k]
        BY <2>2 DEF Started, PastCheck, TypeOK
      <3> QED
        BY <2>2, <3>1 DEF Started, SingleUse, NonceHeld, NonceSpent,
                          NonceOncePerGeneration
    <2>3. ASSUME NEW h \in Handlers, Checked(h) PROVE SingleUse'
      <3> DEFINE n == req[h].nonce
      <3>1. /\ n \notin seen /\ n \in seen'
            /\ (gen' = gen /\ seen \subseteq seen') \/ gen' = gen + 1
            /\ gen \in Nat /\ gen' \in Nat /\ gen <= gen'
            /\ req' = req /\ grants' = grants
        BY <2>3 DEF Checked, Fresh, TypeOK
      <3>2. \A k \in Handlers \ {h} :
              (PastCheck(k)' <=> PastCheck(k)) /\ hgen'[k] = hgen[k]
        BY <2>3 DEF Checked, PastCheck, TypeOK
      <3>3. hgen'[h] = gen'
        BY <2>3 DEF Checked, TypeOK
      <3>4. \A k \in Handlers : hgen[k] \in Nat
        BY DEF TypeOK
      <3>5. \A i \in 1..Len(grants) : grants[i].gen \in Nat
        BY GrantEntries
      <3>6. NonceHeld'
        <4>1. \A k \in Handlers \ {h} : PastCheck(k) =>
                /\ hgen[k] <= gen'
                /\ hgen[k] = gen' => req[k].nonce \in seen'
                /\ req[k].nonce = n => hgen[k] # gen'
          BY <3>1, <3>4 DEF SingleUse, NonceHeld
        <4> QED
          BY <3>1, <3>2, <3>3, <4>1 DEF SingleUse, NonceHeld
      <3>7. NonceSpent'
        <4>1. \A i \in 1..Len(grants) :
                /\ grants[i].gen <= gen'
                /\ grants[i].gen = gen' => grants[i].nonce \in seen'
                /\ grants[i].nonce = n => grants[i].gen # gen'
          BY <3>1, <3>5 DEF SingleUse, NonceSpent
        <4> QED
          BY <3>1, <3>2, <3>3, <4>1 DEF SingleUse, NonceSpent
      <3>8. NonceOncePerGeneration'
        BY <3>1 DEF SingleUse, NonceOncePerGeneration
      <3> QED BY <3>6, <3>7, <3>8 DEF SingleUse
    <2>4. ASSUME NEW h \in Handlers, Attested(h) PROVE SingleUse'
      <3>1. \A k \in Handlers : PastCheck(k)' <=> PastCheck(k)
        BY <2>4 DEF Attested, PastCheck, TypeOK
      <3> QED
        BY <2>4, <3>1 DEF Attested, SingleUse, NonceHeld, NonceSpent,
                          NonceOncePerGeneration
    <2>5. ASSUME NEW h \in Handlers, Released(h) PROVE SingleUse'
      <3> DEFINE g == GrantFor(h)
                 n == Len(grants)
      <3>1. \A k \in Handlers : PastCheck(k)' =>
              k # h /\ PastCheck(k) /\ req'[k] = req[k] /\ hgen'[k] = hgen[k]
        BY <2>5 DEF Released, Done, PastCheck, TypeOK
      <3>2. PastCheck(h) /\ g.nonce = req[h].nonce /\ g.gen = hgen[h]
        BY <2>5 DEF Released, PastCheck, GrantFor
      <3>3. /\ Len(grants') = n + 1
            /\ grants'[n + 1] = g
            /\ \A i \in 1..n : grants'[i] = grants[i]
            /\ n \in Nat
        <4>1. grants \in Seq(Grant) /\ g \in Grant
          BY DEF TypeOK, GrantFor, Grant, Request
        <4> QED
          BY <2>5, <4>1, AppendProperties, LenProperties DEF Released
      <3>4. seen' = seen /\ gen' = gen
        BY <2>5 DEF Released
      <3>5. NonceHeld'
        BY <3>1, <3>4 DEF SingleUse, NonceHeld
      <3>6. NonceSpent'
        <4>1. \A i \in 1..(n + 1) :
                /\ grants'[i].gen <= gen
                /\ grants'[i].gen = gen => grants'[i].nonce \in seen
          <5>1. g.gen <= gen /\ (g.gen = gen => g.nonce \in seen)
            BY <3>2 DEF SingleUse, NonceHeld
          <5> QED BY <3>3, <5>1 DEF SingleUse, NonceSpent
        <4>2. \A i \in 1..(n + 1) : \A k \in Handlers \ {h} :
                (PastCheck(k) /\ grants'[i].nonce = req[k].nonce)
                    => grants'[i].gen # hgen[k]
          <5>1. \A k \in Handlers \ {h} :
                  (PastCheck(k) /\ g.nonce = req[k].nonce) => g.gen # hgen[k]
            BY <3>2 DEF SingleUse, NonceHeld
          <5> QED BY <3>3, <5>1 DEF SingleUse, NonceSpent
        <4> QED BY <3>1, <3>3, <3>4, <4>1, <4>2 DEF NonceSpent
      <3>7. NonceOncePerGeneration'
        <4>1. \A i \in 1..n : grants[i].nonce = g.nonce => grants[i].gen # g.gen
          BY <3>2 DEF SingleUse, NonceSpent
        <4> QED BY <3>3, <4>1 DEF SingleUse, NonceOncePerGeneration
      <3> QED BY <3>5, <3>6, <3>7 DEF SingleUse
    <2>6. CASE Restart
      <3>1. \A k \in Handlers : ~PastCheck(k)'
        BY <2>6 DEF Restart, PastCheck
      <3>2. gen \in Nat /\ gen' = gen + 1 /\ grants' = grants
        BY <2>6 DEF Restart, TypeOK
      <3>3. \A i \in 1..Len(grants) : grants[i].gen \in Nat /\ grants[i].gen <= gen
        BY GrantEntries DEF SingleUse, NonceSpent
      <3> QED
        BY <3>1, <3>2, <3>3 DEF SingleUse, NonceHeld, NonceSpent,
                                NonceOncePerGeneration
    <2>7. CASE UNCHANGED vars
      BY <2>7 DEF vars, SingleUse, NonceHeld, NonceSpent,
                  NonceOncePerGeneration, PastCheck
    <2> QED
      BY <2>1, <2>2, <2>3, <2>4, <2>5, <2>6, <2>7, StepEffect
  <1> QED
    BY <1>1, <1>2, TypeCorrect, PTL DEF Safety

(* Two 200 responses for one nonce come from different cache generations:  *)
(* the replay cache of krs_server.py loses no race between its handlers.   *)
THEOREM NonceUse == Safety => []NonceOncePerGeneration
  <1>1. SingleUse => NonceOncePerGeneration
    BY DEF SingleUse
  <1> QED
    BY <1>1, SingleUseKept, PTL

-----------------------------------------------------------------------------
(* In production every 200 response went to keys that its own report       *)
(* entitles, and signed that report's measurement (do_POST).               *)
THEOREM Entitlement == Safety => []GrantedOnlyIfEntitled
  <1> DEFINE IInv == WrapEntitled /\ GrantedOnlyIfEntitled
  <1>1. Init => IInv
    BY DEF Init, WrapEntitled, GrantedOnlyIfEntitled
  <1>2. TypeOK /\ IInv /\ [Next]_vars => IInv'
    <2> SUFFICES ASSUME TypeOK, IInv, [Next]_vars PROVE IInv'
      OBVIOUS
    <2> SUFFICES ASSUME Production PROVE IInv'
      BY DEF WrapEntitled, GrantedOnlyIfEntitled
    <2>0. ASSUME NEW h \in Handlers, Done(h) PROVE WrapEntitled'
      <3>1. \A k \in Handlers : pc'[k] = "wrap" =>
              pc[k] = "wrap" /\ req'[k] = req[k] /\ meas'[k] = meas[k]
        BY <2>0 DEF Done, TypeOK
      <3> QED BY <3>1 DEF WrapEntitled
    <2>1. ASSUME NEW h \in Handlers, Denied(h) PROVE IInv'
      BY <2>0, <2>1 DEF Denied, GrantedOnlyIfEntitled
    <2>2. ASSUME NEW h \in Handlers, Started(h) PROVE IInv'
      <3>1. \A k \in Handlers : pc'[k] = "wrap" =>
              pc[k] = "wrap" /\ req'[k] = req[k] /\ meas'[k] = meas[k]
        BY <2>2 DEF Started, TypeOK
      <3> QED BY <2>2, <3>1 DEF Started, WrapEntitled, GrantedOnlyIfEntitled
    <2>3. ASSUME NEW h \in Handlers, Checked(h) PROVE IInv'
      <3>1. \A k \in Handlers : pc'[k] = "wrap" => pc[k] = "wrap"
        BY <2>3 DEF Checked, TypeOK
      <3> QED BY <2>3, <3>1 DEF Checked, WrapEntitled, GrantedOnlyIfEntitled
    <2>4. ASSUME NEW h \in Handlers, Attested(h) PROVE IInv'
      <3>1. \A k \in Handlers \ {h} : pc'[k] = pc[k]
        BY <2>4 DEF Attested, TypeOK
      <3> QED BY <2>4, <3>1 DEF Attested, WrapEntitled, GrantedOnlyIfEntitled
    <2>5. ASSUME NEW h \in Handlers, Released(h) PROVE IInv'
      <3> DEFINE g == GrantFor(h)
                 n == Len(grants)
      <3>1. /\ Entitles(g.report, g.x, g.kem, g.nonce)
            /\ g.measurement = g.report.measurement
        BY <2>5 DEF Released, GrantFor, WrapEntitled
      <3>2. /\ Len(grants') = n + 1
            /\ grants'[n + 1] = g
            /\ \A i \in 1..n : grants'[i] = grants[i]
            /\ n \in Nat
        <4>1. grants \in Seq(Grant) /\ g \in Grant
          BY DEF TypeOK, GrantFor, Grant, Request
        <4> QED
          BY <2>5, <4>1, AppendProperties, LenProperties DEF Released
      <3>3. GrantedOnlyIfEntitled'
        BY <3>1, <3>2 DEF GrantedOnlyIfEntitled, Entitles
      <3> QED BY <2>0, <2>5, <3>3 DEF Released
    <2>6. CASE Restart
      BY <2>6 DEF Restart, WrapEntitled, GrantedOnlyIfEntitled
    <2>7. CASE UNCHANGED vars
      BY <2>7 DEF vars, WrapEntitled, GrantedOnlyIfEntitled
    <2> QED
      BY <2>1, <2>2, <2>3, <2>4, <2>5, <2>6, <2>7, StepEffect
  <1> QED
    BY <1>1, <1>2, TypeCorrect, PTL DEF Safety

(* A production report is spent on one recipient, once per generation:     *)
(* the binding of report_data and the replay cache together.               *)
THEOREM ReportUse == Safety => []ReportSpentOncePerGeneration
  <1>1. TypeOK /\ NonceOncePerGeneration /\ GrantedOnlyIfEntitled
            => ReportSpentOncePerGeneration
    <2> SUFFICES ASSUME TypeOK, NonceOncePerGeneration, GrantedOnlyIfEntitled,
                        Production,
                        NEW i \in 1..Len(grants), NEW j \in 1..Len(grants),
                        i # j, grants[i].report = grants[j].report
                 PROVE  /\ <<grants[i].x, grants[i].kem>>
                                = <<grants[j].x, grants[j].kem>>
                        /\ grants[i].gen # grants[j].gen
      BY DEF ReportSpentOncePerGeneration
    <2>1. <<grants[i].x, grants[i].kem, grants[i].nonce>>
            = <<grants[j].x, grants[j].kem, grants[j].nonce>>
      BY DEF GrantedOnlyIfEntitled, Entitles
    <2> QED
      BY <2>1 DEF NonceOncePerGeneration
  <1> QED
    BY <1>1, TypeCorrect, NonceUse, Entitlement, PTL

(* The replay cache stays within its cap and finite, whatever the cap.     *)
THEOREM CacheBound == Safety => []CacheBounded
  <1> DEFINE IInv == IsFiniteSet(seen) /\ CacheBounded
  <1>1. Init => IInv
    BY KrsAssumption, FS_EmptySet DEF Init, CacheBounded
  <1>2. TypeOK /\ IInv /\ [Next]_vars => IInv'
    <2> SUFFICES ASSUME TypeOK, IInv, [Next]_vars PROVE IInv'
      OBVIOUS
    <2>1. ASSUME NEW h \in Handlers, Checked(h) PROVE IInv'
      <3> DEFINE n == req[h].nonce
      <3>1. CASE Full
        <4>1. seen' = {n}
          BY <2>1, <3>1 DEF Checked, Fresh
        <4>2. IsFiniteSet({n}) /\ Cardinality({n}) = 1
          BY FS_Singleton
        <4>3. IsFiniteSet(seen') /\ Cardinality(seen') = 1
          BY <4>1, <4>2
        <4> QED BY <4>3, KrsAssumption DEF CacheBounded
      <3>2. CASE ~Full
        <4>1. n \notin seen /\ seen' = seen \cup {n}
          BY <2>1, <3>2 DEF Checked, Fresh
        <4>2. Cardinality(seen) < Cap /\ Cardinality(seen) \in Nat
          BY <3>2, FS_CardinalityType, KrsAssumption DEF Full
        <4>3. /\ IsFiniteSet(seen \cup {n})
              /\ Cardinality(seen \cup {n}) = Cardinality(seen) + 1
          BY <4>1, FS_AddElement
        <4>4. IsFiniteSet(seen') /\ Cardinality(seen') = Cardinality(seen) + 1
          BY <4>1, <4>3
        <4> QED
          BY <4>2, <4>4, KrsAssumption DEF CacheBounded
      <3> QED BY <3>1, <3>2
    <2>2. CASE Restart
      BY <2>2, <1>1, KrsAssumption, FS_EmptySet DEF Restart, CacheBounded
    <2>3. CASE seen' = seen
      BY <2>3 DEF CacheBounded
    <2> QED
      BY <2>1, <2>2, <2>3, StepEffect
         DEF Denied, Started, Attested, Released, vars
  <1> QED
    BY <1>1, <1>2, TypeCorrect, PTL DEF Safety

-----------------------------------------------------------------------------
(* In production the service implements the ledger of entitled reports,    *)
(* one spending per report and cache generation: what the owner of the CEK *)
(* may rely on of do_POST and _ReplayCache.                                *)
THEOREM Refinement ==
  ASSUME Production
  PROVE  Safety => ImplementsLedger
  <1> DEFINE Entry(i) == <<grants[i].report, grants[i].gen>>
             L == [i \in 1..Len(grants) |-> Entry(i)]
             IInv == /\ TypeOK /\ TypeOK' /\ SingleUse'
                     /\ GrantedOnlyIfEntitled'
                     /\ ReportSpentOncePerGeneration'
  <1>1. Init => Ledger!Init
    <2> SUFFICES ASSUME Init PROVE Ledger!Init
      OBVIOUS
    <2>1. grants = << >> /\ Len(grants) = 0 /\ gen = 0
      BY DEF Init
    <2>2. L = [i \in 1..0 |-> L[i]]
      BY <2>1
    <2>3. L = << >>
      BY <2>2, EmptyImage
    <2> QED BY <2>1, <2>3 DEF Ledger!Init
  <1>2. IInv /\ [Next]_vars => [Ledger!Next]_(Ledger!vars)
    <2> SUFFICES ASSUME IInv, [Next]_vars PROVE [Ledger!Next]_(Ledger!vars)
      OBVIOUS
    <2>1. CASE UNCHANGED <<grants, gen>>
      BY <2>1 DEF Ledger!vars
    <2>2. CASE gen' = gen + 1 /\ grants' = grants
      BY <2>2 DEF Ledger!Next, Ledger!NewEpoch
    <2>3. ASSUME NEW h \in Handlers, Released(h) PROVE Ledger!Next
      <3> DEFINE n == Len(grants)
                 g == GrantFor(h)
      <3>1. grants' = Append(grants, g) /\ gen' = gen
        BY <2>3 DEF Released
      <3>2. grants \in Seq(Grant) /\ g \in Grant
        BY DEF TypeOK, GrantFor, Grant, Request
      <3>3. /\ Len(grants') = n + 1 /\ n \in Nat
            /\ grants'[n + 1] = g
            /\ \A i \in 1..n : grants'[i] = grants[i]
        BY <3>1, <3>2, AppendProperties, LenProperties
      <3>4. g.report \in EntitledReports
        <4>1. Entitles(g.report, g.x, g.kem, g.nonce)
          BY <3>3 DEF GrantedOnlyIfEntitled
        <4>2. g.report \in Reports
          BY <3>2 DEF Grant
        <4>3. /\ g.report.report_data[1] = g.x
              /\ g.report.report_data[2] = g.kem
              /\ g.report.report_data[3] = g.nonce
          BY <4>1 DEF Entitles
        <4> QED BY <4>1, <4>2, <4>3 DEF EntitledReports
      <3>5. L' = Append(L, <<g.report, g.gen>>)
        <4> DEFINE S == {L'[i] : i \in 1..(n + 1)}
        <4>1. /\ L' \in [1..(n + 1) -> S] /\ L'[n + 1] = <<g.report, g.gen>>
              /\ \A i \in 1..n : L'[i] = L[i]
          BY <3>3
        <4>2. L \in [1..n -> S]
          <5>1. \A i \in 1..n : L[i] \in S
            BY <3>3, <4>1
          <5> QED BY <5>1
        <4> HIDE DEF L, S
        <4> QED BY <3>3, <4>1, <4>2, GrownImage
      <3>6. \A i \in 1..n : L[i] # <<g.report, g.gen>>
        BY <3>3 DEF ReportSpentOncePerGeneration
      <3>7. g.gen \in 0..gen
        <4>1. g.gen <= gen'
          BY <3>3 DEF SingleUse, NonceSpent
        <4> QED BY <3>1, <3>2, <4>1 DEF Grant, TypeOK
      <3>8. Len(L) = n
        <4> DEFINE S == {L[i] : i \in 1..n}
        <4>1. L \in [1..n -> S]
          OBVIOUS
        <4> HIDE DEF L, S
        <4> QED BY <3>3, <4>1, FunctionIsSequence
      <3> QED
        BY <3>1, <3>4, <3>5, <3>6, <3>7, <3>8
           DEF Ledger!Next, Ledger!Spend, Ledger!SpentIn
    <2> QED
      BY <2>1, <2>2, <2>3, StepEffect
         DEF Denied, Started, Checked, Fresh, Attested, Restart, vars
  <1> QED
    BY <1>1, <1>2, TypeCorrect, SingleUseKept, Entitlement, ReportUse, PTL
       DEF Safety, ImplementsLedger, Ledger!Spec
=============================================================================
