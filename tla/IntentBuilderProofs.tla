------------------------ MODULE IntentBuilderProofs ------------------------
(***************************************************************************)
(* Theorems about IntentBuilder for every set of threads, every window and *)
(* every history.                                                          *)
(***************************************************************************)
EXTENDS IntentBuilder, SequenceTheorems, TLAPS

(* The state of the builder and of its key keeps its types.                *)
THEOREM TypeCorrect == Spec => []TypeOK
  <1>1. Init => TypeOK
    <2> SUFFICES ASSUME Init PROVE TypeOK
      OBVIOUS
    <2>1. crowded \in BOOLEAN
      BY Zenon DEF Init
    <2> QED BY <2>1, BuilderAssumption DEF Init, TypeOK, Intent, NoIntent
  <1>2. TypeOK /\ [Next]_vars => TypeOK'
    <2> SUFFICES ASSUME TypeOK, [Next]_vars PROVE TypeOK'
      OBVIOUS
    <2> USE DEF TypeOK, clockVars, keyVars, prodVars, queueVars, emitVars
    <2>1. CASE Tick
      BY <2>1 DEF Tick
    <2>2. CASE StepBack
      <3>1. clock' \in Nat
        BY <2>2 DEF StepBack
      <3> QED BY <2>2, <3>1 DEF StepBack
    <2>3. CASE Zeroize
      BY <2>3 DEF Zeroize
    <2>4. ASSUME NEW p \in Producers, Build(p) PROVE TypeOK'
      <3>1. built' \in Nat /\ [intent_id |-> built', signed |-> FALSE] \in Intent
        BY <2>4 DEF Build, Intent
      <3> QED BY <2>4, <3>1 DEF Build
    <2>5. ASSUME NEW p \in Producers, SignCheck(p) PROVE TypeOK'
      <3>1. NoIntent \in Intent
        BY DEF NoIntent, Intent
      <3>2. CASE key = "live"
        BY <2>5, <3>2 DEF SignCheck
      <3>3. CASE key = "zeroized"
        BY <2>5, <3>1, <3>3 DEF SignCheck
      <3> QED BY <3>2, <3>3
    <2>6. ASSUME NEW p \in Producers, SignUse(p) PROVE TypeOK'
      <3>1. draft' \in [Producers -> Intent]
        BY <2>6 DEF SignUse, Intent
      <3> QED BY <2>6, <3>1 DEF SignUse
    <2>7. ASSUME NEW p \in Producers, Enqueue(p) PROVE TypeOK'
      <3>1. draft' \in [Producers -> Intent] /\ draft[p] \in Intent
        BY <2>7 DEF Enqueue, Intent, NoIntent
      <3>2. pending' \in Seq(Intent) /\ enqueued' \in Seq(Intent)
        BY <2>7, <3>1, AppendProperties DEF Enqueue
      <3> QED BY <2>7, <3>1, <3>2 DEF Enqueue
    <2>8. ASSUME NEW e \in Emitters, EmitReturn(e)
          PROVE  /\ epc' \in [Emitters -> {"idle", "window", "take"}]
                 /\ now' \in [Emitters -> Nat]
                 /\ force' \in [Emitters -> BOOLEAN]
                 /\ crowded' \in BOOLEAN
      BY <2>8 DEF EmitReturn
    <2>9. ASSUME NEW e \in Emitters, EmitCall(e) PROVE TypeOK'
      <3>1. crowded' \in BOOLEAN
        BY <2>9, Zenon DEF EmitCall
      <3>2. /\ epc' \in [Emitters -> {"idle", "window", "take"}]
            /\ now' \in [Emitters -> Nat]
            /\ force' \in [Emitters -> BOOLEAN]
        BY <2>9 DEF EmitCall
      <3> QED BY <2>9, <3>1, <3>2 DEF EmitCall
    <2>10. ASSUME NEW e \in Emitters, EmitCheck(e) PROVE TypeOK'
      BY <2>8, <2>10 DEF EmitCheck
    <2>11. ASSUME NEW e \in Emitters, EmitTake(e) PROVE TypeOK'
      <3>1. EmitReturn(e) /\ UNCHANGED <<clockVars, keyVars, prodVars>>
        BY <2>11 DEF EmitTake
      <3>2. CASE pending = << >>
        BY <2>8, <2>11, <3>1, <3>2 DEF EmitTake
      <3>3. CASE pending # << >>
        <4> DEFINE b == [at |-> now[e], forced |-> force[e],
                         size |-> Len(pending)]
        <4>1. /\ last_emit' = now[e] /\ pending' = << >>
              /\ emitted' = emitted \o pending
              /\ batches' = Append(batches, b)
              /\ enqueued' = enqueued
          BY <2>11, <3>3 DEF EmitTake
        <4>2. b \in Batch
          BY LenProperties DEF Batch
        <4>3. emitted' \in Seq(Intent) /\ batches' \in Seq(Batch)
          BY <4>1, <4>2, AppendProperties, ConcatProperties
        <4> QED BY <2>8, <3>1, <4>1, <4>3
      <3> QED BY <3>2, <3>3
    <2>12. CASE UNCHANGED vars
      BY <2>12 DEF vars
    <2> QED
      BY <2>1, <2>2, <2>3, <2>4, <2>5, <2>6, <2>7, <2>9, <2>10, <2>11, <2>12
         DEF Next, Produce, Emit
  <1> QED
    BY <1>1, <1>2, PTL DEF Spec

-----------------------------------------------------------------------------
(* What emit_batch returned, followed by what is pending, is exactly what  *)
(* was enqueued, for any number of producers and emitters.                 *)
THEOREM StreamIntact == Spec => []NothingLostOrDuplicated
  <1>1. Init => NothingLostOrDuplicated
    BY DEF Init, NothingLostOrDuplicated
  <1>2. TypeOK /\ NothingLostOrDuplicated /\ [Next]_vars
            => NothingLostOrDuplicated'
    <2> SUFFICES ASSUME TypeOK, NothingLostOrDuplicated, [Next]_vars
                 PROVE  NothingLostOrDuplicated'
      OBVIOUS
    <2>0. CASE UNCHANGED <<emitted, pending, enqueued>>
      BY <2>0 DEF NothingLostOrDuplicated
    <2>1. ASSUME NEW p \in Producers, Enqueue(p) PROVE NothingLostOrDuplicated'
      <3>1. emitted \o Append(pending, draft[p])
              = Append(emitted \o pending, draft[p])
        <4>1. /\ emitted \in Seq(Intent) /\ pending \in Seq(Intent)
              /\ draft[p] \in Intent
          BY DEF TypeOK
        <4>2. <<draft[p]>> \in Seq(Intent)
          BY <4>1
        <4>3. Append(pending, draft[p]) = pending \o <<draft[p]>>
          BY <4>1, AppendIsConcat
        <4>4. emitted \o pending \in Seq(Intent)
          BY <4>1, ConcatProperties
        <4>5. Append(emitted \o pending, draft[p])
                = (emitted \o pending) \o <<draft[p]>>
          BY <4>1, <4>4, AppendIsConcat
        <4> QED BY <4>1, <4>2, <4>3, <4>5, ConcatAssociative
      <3> QED BY <2>1, <3>1 DEF Enqueue, NothingLostOrDuplicated
    <2>2. ASSUME NEW e \in Emitters, EmitTake(e) PROVE NothingLostOrDuplicated'
      <3>1. CASE pending = << >>
        BY <2>0, <2>2, <3>1 DEF EmitTake, queueVars
      <3>2. CASE pending # << >>
        <4>1. emitted \o pending \in Seq(Intent)
          BY ConcatProperties DEF TypeOK
        <4>2. (emitted \o pending) \o << >> = emitted \o pending
          BY <4>1, ConcatEmptySeq
        <4> QED BY <2>2, <3>2, <4>2 DEF EmitTake, NothingLostOrDuplicated
      <3> QED BY <3>1, <3>2
    <2> QED
      BY <2>0, <2>1, <2>2
         DEF Next, Produce, Emit, Tick, StepBack, Zeroize, Build, SignCheck,
             SignUse, EmitCall, EmitCheck, vars, queueVars
  <1> QED
    BY <1>1, <1>2, TypeCorrect, PTL DEF Spec

(* A concurrent zeroize never takes the key from a signature in progress,  *)
(* and every enqueued intent carries a signature.                          *)
THEOREM SigningSafe == Spec => []KeyHeldWhileSigning
  <1>1. Init => KeyInv
    BY DEF Init, KeyInv, KeyHeldWhileSigning
  <1>2. TypeOK /\ KeyInv /\ [Next]_vars => KeyInv'
    <2> SUFFICES ASSUME TypeOK, KeyInv, [Next]_vars PROVE KeyInv'
      OBVIOUS
    <2> USE DEF KeyInv, KeyHeldWhileSigning
    <2>0. CASE UNCHANGED <<keyVars, prodVars, enqueued>>
      BY <2>0 DEF keyVars, prodVars
    <2>1. ASSUME NEW p \in Producers, Build(p) PROVE KeyInv'
      <3>1. /\ \A q \in Producers : ppc'[q] \in {"signing", "signed"} =>
                  ppc'[q] = ppc[q] /\ draft'[q] = draft[q]
            /\ UNCHANGED <<keyLock, key, enqueued>>
        BY <2>1 DEF Build, TypeOK, keyVars, queueVars
      <3> QED BY <3>1
    <2>2. ASSUME NEW p \in Producers, SignCheck(p) PROVE KeyInv'
      <3>1. \A q \in Producers : ppc'[q] = "signed" =>
              ppc[q] = "signed" /\ draft'[q] = draft[q]
        BY <2>2 DEF SignCheck, TypeOK
      <3>2. \A q \in Producers : ppc[q] # "signing"
        BY <2>2, BuilderAssumption DEF SignCheck
      <3>3. /\ \A q \in Producers : ppc'[q] = "signing" =>
                  q = p /\ keyLock' = p /\ key = "live"
            /\ UNCHANGED <<key, enqueued>>
        BY <2>2, <3>2 DEF SignCheck, TypeOK, queueVars
      <3> QED BY <3>1, <3>3
    <2>3. ASSUME NEW p \in Producers, SignUse(p) PROVE KeyInv'
      <3>1. key = "live" /\ keyLock = p /\ UNCHANGED <<key, enqueued>>
        BY <2>3 DEF SignUse, queueVars
      <3>2. \A q \in Producers : ppc'[q] # "signing"
        BY <2>3, <3>1 DEF SignUse, TypeOK
      <3>3. draft'[p].signed = TRUE
        BY <2>3, <3>1 DEF SignUse, TypeOK, Intent
      <3>4. \A q \in Producers \ {p} : ppc'[q] = ppc[q] /\ draft'[q] = draft[q]
        BY <2>3 DEF SignUse, TypeOK
      <3> QED BY <3>1, <3>2, <3>3, <3>4
    <2>4. CASE Zeroize
      <3>1. \A q \in Producers : ppc[q] # "signing"
        BY <2>4, BuilderAssumption DEF Zeroize
      <3> QED BY <2>4, <3>1 DEF Zeroize, prodVars, queueVars
    <2>5. ASSUME NEW p \in Producers, Enqueue(p) PROVE KeyInv'
      <3>1. /\ \A q \in Producers : ppc'[q] \in {"signing", "signed"} =>
                  ppc'[q] = ppc[q] /\ draft'[q] = draft[q]
            /\ UNCHANGED <<keyLock, key>>
        BY <2>5 DEF Enqueue, TypeOK, keyVars
      <3>2. \A i \in 1..Len(enqueued') : enqueued'[i].signed
        <4>1. draft[p].signed = TRUE /\ draft[p] \in Intent
          BY <2>5 DEF Enqueue, TypeOK
        <4>2. /\ enqueued \in Seq(Intent)
              /\ enqueued' = Append(enqueued, draft[p])
          BY <2>5 DEF Enqueue, TypeOK
        <4>3. /\ Len(enqueued') = Len(enqueued) + 1 /\ Len(enqueued) \in Nat
              /\ enqueued'[Len(enqueued) + 1] = draft[p]
              /\ \A i \in 1..Len(enqueued) : enqueued'[i] = enqueued[i]
          BY <4>1, <4>2, AppendProperties, LenProperties
        <4>4. \A i \in 1..Len(enqueued') :
                i \in 1..Len(enqueued) \/ i = Len(enqueued) + 1
          BY <4>3
        <4> QED BY <4>1, <4>3, <4>4
      <3> QED BY <3>1, <3>2
    <2> QED
      BY <2>0, <2>1, <2>2, <2>3, <2>4, <2>5
         DEF Next, Produce, Emit, Tick, StepBack, EmitCall, EmitCheck, EmitTake,
             vars, queueVars
  <1>3. KeyInv => KeyHeldWhileSigning
    BY DEF KeyInv
  <1> QED
    BY <1>1, <1>2, <1>3, TypeCorrect, PTL DEF Spec

-----------------------------------------------------------------------------
(* The last entry of a non-empty batch history after one more batch.       *)
LEMMA NewBatch ==
  ASSUME batches \in Seq(Batch), NEW b \in Batch, batches' = Append(batches, b)
  PROVE  /\ batches' # << >>
         /\ Len(batches') = Len(batches) + 1 /\ Len(batches) \in Nat
         /\ batches'[Len(batches')] = b
         /\ \A i \in 1..Len(batches) : batches'[i] = batches[i]
  BY AppendProperties, LenProperties

(* _last_emit is the time of the last batch, for any number of emitters.   *)
THEOREM LastEmit == Spec => []LastEmitIsLastBatch
  <1>1. Init => LastEmitIsLastBatch
    BY DEF Init, LastEmitIsLastBatch
  <1>2. TypeOK /\ LastEmitIsLastBatch /\ [Next]_vars => LastEmitIsLastBatch'
    <2> SUFFICES ASSUME TypeOK, LastEmitIsLastBatch, [Next]_vars
                 PROVE  LastEmitIsLastBatch'
      OBVIOUS
    <2>0. CASE UNCHANGED <<last_emit, batches>>
      BY <2>0 DEF LastEmitIsLastBatch
    <2>1. ASSUME NEW e \in Emitters, EmitTake(e), ~UNCHANGED queueVars
          PROVE  LastEmitIsLastBatch'
      <3> DEFINE b == [at |-> now[e], forced |-> force[e], size |-> Len(pending)]
      <3>1. last_emit' = now[e] /\ batches' = Append(batches, b)
        BY <2>1 DEF EmitTake
      <3>2. b \in Batch /\ batches \in Seq(Batch)
        BY LenProperties DEF Batch, TypeOK
      <3>3. batches' # << >> /\ batches'[Len(batches')] = b
        BY <3>1, <3>2, NewBatch
      <3> QED BY <3>1, <3>3 DEF LastEmitIsLastBatch
    <2> QED
      BY <2>0, <2>1
         DEF Next, Produce, Emit, Tick, StepBack, Zeroize, Build, SignCheck,
             SignUse, Enqueue, EmitCall, EmitCheck, vars, queueVars
  <1> QED
    BY <1>1, <1>2, TypeCorrect, PTL DEF Spec

(* Unforced batches are a window apart, whatever the clock does and        *)
(* however many threads there are, as long as calls of emit_batch do not   *)
(* overlap.                                                                *)
THEOREM WindowKept == Spec => []WindowUnlessConcurrent
  <1>1. Init => WindowInv
    BY DEF Init, WindowInv, WindowBetweenBatches
  <1>2. TypeOK /\ WindowInv /\ LastEmitIsLastBatch /\ [Next]_vars => WindowInv'
    <2> SUFFICES ASSUME TypeOK, WindowInv, LastEmitIsLastBatch, [Next]_vars,
                        ~crowded'
                 PROVE  /\ \A e, f \in Emitters :
                              e # f => epc'[e] = "idle" \/ epc'[f] = "idle"
                        /\ \A e \in Emitters : epc'[e] = "take" => WindowOpen(e)'
                        /\ WindowBetweenBatches'
      BY DEF WindowInv
    <2>0. CASE UNCHANGED <<last_emit, batches, emitVars>>
      BY <2>0 DEF WindowInv, WindowOpen, WindowBetweenBatches, emitVars
    <2>1. ASSUME NEW e \in Emitters, EmitCall(e) PROVE WindowInv'
      <3>1. ~crowded /\ \A f \in Emitters : epc[f] = "idle"
        BY <2>1 DEF EmitCall
      <3>2. \A f \in Emitters : epc'[f] # "take" /\ (f # e => epc'[f] = "idle")
        BY <2>1, <3>1 DEF EmitCall, TypeOK
      <3>3. WindowBetweenBatches'
        BY <2>1, <3>1 DEF EmitCall, queueVars, WindowInv, WindowBetweenBatches
      <3> QED BY <3>2, <3>3 DEF WindowInv
    <2>2. ASSUME NEW e \in Emitters, epc[e] # "idle", UNCHANGED crowded
          PROVE  /\ ~crowded /\ WindowBetweenBatches
                 /\ epc[e] = "take" => WindowOpen(e)
                 /\ \A f \in Emitters \ {e} : epc[f] = "idle"
      BY <2>2 DEF WindowInv
    <2>3. ASSUME NEW e \in Emitters, EmitCheck(e) PROVE WindowInv'
      <3>1. epc[e] # "idle" /\ UNCHANGED <<last_emit, batches, crowded>>
        BY <2>3 DEF EmitCheck, EmitReturn, queueVars
      <3>2. /\ \A f \in Emitters \ {e} : epc'[f] = "idle"
            /\ epc'[e] = "take" => WindowOpen(e)'
        BY <2>2, <2>3, <3>1
           DEF EmitCheck, EmitReturn, TypeOK, queueVars, WindowOpen
      <3>3. WindowBetweenBatches'
        BY <2>2, <3>1 DEF WindowBetweenBatches
      <3> QED BY <3>2, <3>3 DEF WindowInv
    <2>4. ASSUME NEW e \in Emitters, EmitTake(e) PROVE WindowInv'
      <3>1. epc[e] = "take" /\ EmitReturn(e) /\ UNCHANGED crowded
        BY <2>4 DEF EmitTake, EmitReturn
      <3>2. \A f \in Emitters : epc'[f] = "idle"
        BY <2>2, <3>1 DEF EmitReturn, TypeOK
      <3>3. CASE UNCHANGED queueVars
        BY <2>2, <3>1, <3>2, <3>3 DEF queueVars, WindowInv, WindowBetweenBatches
      <3>4. CASE ~UNCHANGED queueVars
        <4> DEFINE b == [at |-> now[e], forced |-> force[e],
                         size |-> Len(pending)]
                   n == Len(batches)
        <4>1. batches' = Append(batches, b)
          BY <2>4, <3>4 DEF EmitTake
        <4>2. b \in Batch /\ batches \in Seq(Batch)
          BY LenProperties DEF Batch, TypeOK
        <4>3. /\ Len(batches') = n + 1 /\ n \in Nat
              /\ batches'[n + 1] = b
              /\ \A i \in 1..n : batches'[i] = batches[i]
          BY <4>1, <4>2, NewBatch
        <4>4. b.forced \/ b.at - last_emit >= Window
          BY <2>2, <3>1 DEF WindowOpen
        <4>5. n >= 1 => batches[n].at = last_emit
          BY <4>2, <4>3 DEF LastEmitIsLastBatch
        <4>6. ASSUME NEW i \in 2..(n + 1), ~batches'[i].forced
              PROVE  batches'[i].at - batches'[i - 1].at >= Window
          <5>1. CASE i \in 2..n
            BY <2>2, <3>1, <4>3, <4>6, <5>1 DEF WindowBetweenBatches
          <5>2. CASE i = n + 1
            BY <4>3, <4>4, <4>5, <4>6, <5>2
          <5> QED BY <4>3, <5>1, <5>2
        <4>7. WindowBetweenBatches'
          BY <4>3, <4>6 DEF WindowBetweenBatches
        <4> QED BY <3>2, <4>7 DEF WindowInv
      <3> QED BY <3>3, <3>4
    <2> QED
      BY <2>0, <2>1, <2>3, <2>4
         DEF Next, Produce, Emit, Tick, StepBack, Zeroize, Build, SignCheck,
             SignUse, Enqueue, WindowInv, vars, queueVars
  <1>3. WindowInv => WindowUnlessConcurrent
    BY DEF WindowInv, WindowUnlessConcurrent
  <1> QED
    BY <1>1, <1>2, <1>3, TypeCorrect, LastEmit, PTL DEF Spec

(* With one emitting thread calls cannot overlap, so the window always     *)
(* holds (emit_batch).                                                     *)
THEOREM OneEmitterKeepsWindow ==
  ASSUME \A e, f \in Emitters : e = f
  PROVE  Spec => []WindowBetweenBatches
  <1>1. Init => ~crowded
    BY DEF Init
  <1>2. ~crowded /\ [Next]_vars => ~crowded'
    BY DEF Next, Produce, Emit, Tick, StepBack, Zeroize, Build, SignCheck,
           SignUse, Enqueue, EmitCall, EmitCheck, EmitTake, EmitReturn,
           emitVars, vars
  <1>3. ~crowded /\ WindowUnlessConcurrent => WindowBetweenBatches
    BY DEF WindowUnlessConcurrent
  <1> QED
    BY <1>1, <1>2, <1>3, WindowKept, PTL DEF Spec
=============================================================================
