-------------------------- MODULE BootstrapProofs --------------------------
(***************************************************************************)
(* Theorems about Bootstrap for every set of files, every set of sealed    *)
(* packages, machines and command lines, and any number of restarts.       *)
(***************************************************************************)
EXTENDS Bootstrap, TLAPS

(* The steps of bootstrap before decrypt_package.                          *)
EarlyStep ==
    \/ Main \/ Lockdown \/ Detect \/ FetchReport \/ CheckConfig \/ SnpVerify
    \/ KeyService \/ VerifyReport \/ Nitrokey \/ TmpfsGate

(* What happens around the main thread while the process lasts.            *)
AsideStep == Poll \/ Signal \/ Kill \/ Drift \/ DeviceChanges

EarlyPc == {"main", "lockdown", "detect", "report", "config", "snp_verify",
            "key_service", "verify_report", "nitrokey", "tmpfs"}

(* Next, with those two groups.                                            *)
LEMMA NextCases ==
  ASSUME Next
  PROVE  \/ EarlyStep \/ AsideStep \/ ChooseUnwrap
         \/ (\E f \in Files : DecryptOne(f)) \/ FinishWrite \/ DecryptDone
         \/ ArmAndStart \/ ExitProcess \/ Interrupt \/ Restart
  BY DEF Next, MainStep, EarlyStep, AsideStep

(* A failing step leaves no key: Fail is both except clauses of bootstrap. *)
LEMMA FailWipes ==
  ASSUME Fail
  PROVE  pc' = "returned" /\ returned' = 1 /\ ~KeyLive'
  BY DEF Fail, KeyLive

(* What a gate of bootstrap does: it raises, or goes on to the next step   *)
(* with the result and the key as they were.                               *)
LEMMA GateEffect ==
  ASSUME NEW s, NEW r, NEW n, Gate(s, r, n)
  PROVE  /\ proc = "running" /\ pc = s
         /\ \/ Fail
            \/ ~r /\ pc' = n /\ returned' = returned /\ key' = key
  BY DEF Gate, At

(* A step before decrypt_package leaves the package and the output alone;  *)
(* it fails without a key, stops with usage, or moves on before the loop.  *)
LEMMA EarlyEffect ==
  ASSUME EarlyStep
  PROVE  /\ proc = "running" /\ pc \in EarlyPc
         /\ UNCHANGED unmoved
         /\ \/ Fail
            \/ pc = "main" /\ pc' = "returned" /\ returned' = 2 /\ key' = key
            \/ /\ pc' \in EarlyPc \cup {"unwrap"} /\ returned' = returned
               /\ pc' \in {"tmpfs", "unwrap"} \/ (pc # "tmpfs" /\ key' = key)
  <1>1. CASE Main
    BY <1>1 DEF Main, At, unmoved, EarlyPc, machine
  <1>2. CASE Lockdown
    BY <1>2, GateEffect DEF Lockdown, EarlyPc
  <1>3. CASE Detect
    BY <1>3, GateEffect DEF Detect, EarlyPc
  <1>4. CASE FetchReport
    BY <1>4, GateEffect DEF FetchReport, EarlyPc
  <1>5. CASE CheckConfig
    <2>1. /\ proc = "running" /\ pc = "config" /\ UNCHANGED unmoved
          /\ \/ Fail
             \/ /\ pc' = IF env.production THEN "snp_verify" ELSE "verify_report"
                /\ returned' = returned /\ key' = key
      BY <1>5, Zenon DEF CheckConfig, Gate, At
    <2> QED BY <2>1 DEF EarlyPc
  <1>6. CASE SnpVerify
    BY <1>6, GateEffect DEF SnpVerify, EarlyPc
  <1>7. CASE KeyService
    BY <1>7 DEF KeyService, At, EarlyPc
  <1>8. CASE VerifyReport
    BY <1>8, GateEffect DEF VerifyReport, EarlyPc
  <1>9. CASE Nitrokey
    BY <1>9 DEF Nitrokey, At, EarlyPc
  <1>10. CASE TmpfsGate
    BY <1>10, GateEffect DEF TmpfsGate, EarlyPc
  <1> QED BY <1>1, <1>2, <1>3, <1>4, <1>5, <1>6, <1>7, <1>8, <1>9, <1>10
          DEF EarlyStep

(* The monitor, a signal, a kill and the machine leave bootstrap and the   *)
(* output where they are; if they end the process, its key goes with it.   *)
LEMMA AsideEffect ==
  ASSUME AsideStep
  PROVE  /\ proc = "running"
         /\ UNCHANGED <<env, pkg, version, pc, returned, tee_type, report,
                        todo, writing, count, out, restarts>>
         /\ \/ UNCHANGED <<key, proc, armed, monitor>>
            \/ proc' \in {"terminated", "killed"} /\ ~KeyLive' /\ key' \in {key, "wiped", None}
  <1> USE BootAssumption DEF Terminate, KeyLive
  <1>1. CASE Poll
    BY <1>1 DEF Poll
  <1>2. CASE Signal
    BY <1>2 DEF Signal
  <1>3. CASE Kill
    BY <1>3 DEF Kill
  <1>4. CASE Drift
    BY <1>4 DEF Drift, boot
  <1>5. CASE DeviceChanges
    BY <1>5 DEF DeviceChanges, boot
  <1> QED BY <1>1, <1>2, <1>3, <1>4, <1>5 DEF AsideStep

-----------------------------------------------------------------------------
(* A path that is being written is one whose blob was sealed for it.       *)
LEMMA WritingOwnInductive ==
  ASSUME WritingOwn, ResultAtReturn, [Next]_vars
  PROVE  WritingOwn'
  <1> USE DEF WritingOwn
  <1>1. CASE EarlyStep
    BY <1>1, EarlyEffect DEF unmoved, EarlyPc
  <1>2. CASE AsideStep
    BY <1>2, AsideEffect
  <1>3. CASE ChooseUnwrap
    BY <1>3, GateEffect DEF ChooseUnwrap
  <1>4. ASSUME NEW f \in Files, DecryptOne(f) PROVE WritingOwn'
    BY <1>4 DEF DecryptOne, At, Opens
  <1>5. CASE FinishWrite
    BY <1>5 DEF FinishWrite
  <1>6. CASE DecryptDone
    BY <1>6 DEF DecryptDone, unmoved
  <1>7. CASE ArmAndStart
    BY <1>7 DEF ArmAndStart, At
  <1>8. CASE ExitProcess
    BY <1>8 DEF ExitProcess, boot
  <1>9. CASE Restart
    BY <1>9 DEF Restart
  <1>10. CASE Interrupt
    BY <1>10 DEF Interrupt
  <1>11. CASE UNCHANGED vars
    BY <1>11 DEF vars, boot
  <1> QED BY <1>1, <1>2, <1>3, <1>4, <1>5, <1>6, <1>7, <1>8, <1>9, <1>10,
             <1>11, NextCases

(* Bootstrap's result and its key, step by step: a result is there only at *)
(* the end, and a failure or the zeroizer leaves no key.                   *)
LEMMA KeyInvInductive ==
  ASSUME KeyInv, [Next]_vars
  PROVE  KeyInv'
  <1> USE BootAssumption DEF KeyInv, ResultAtReturn, NoKeyOutlivesFailure
  <1>1. CASE EarlyStep
    <2>1. returned = None /\ (KeyLive => pc = "tmpfs")
      BY <1>1, EarlyEffect DEF EarlyPc
    <2>2. key' = key => KeyLive' = KeyLive
      BY DEF KeyLive
    <2> QED BY <1>1, <2>1, <2>2, EarlyEffect, FailWipes DEF unmoved, EarlyPc
  <1>2. CASE AsideStep
    BY <1>2, AsideEffect DEF KeyLive
  <1>3. CASE ChooseUnwrap
    BY <1>3, GateEffect, FailWipes DEF ChooseUnwrap
  <1>4. ASSUME NEW f \in Files, DecryptOne(f) PROVE KeyInv'
    BY <1>4, FailWipes DEF DecryptOne, At
  <1>5. CASE FinishWrite
    BY <1>5, FailWipes DEF FinishWrite, At, KeyLive
  <1>6. CASE DecryptDone
    BY <1>6, GateEffect, FailWipes DEF DecryptDone, unmoved
  <1>7. CASE ArmAndStart
    BY <1>7, FailWipes DEF ArmAndStart, At
  <1>8. CASE ExitProcess
    BY <1>8 DEF ExitProcess, boot, At, KeyLive
  <1>9. CASE Restart
    BY <1>9 DEF Restart, KeyLive
  <1>10. CASE Interrupt
    BY <1>10 DEF Interrupt, KeyLive
  <1>11. CASE UNCHANGED vars
    BY <1>11 DEF vars, boot, KeyLive
  <1> QED BY <1>1, <1>2, <1>3, <1>4, <1>5, <1>6, <1>7, <1>8, <1>9, <1>10,
             <1>11, NextCases

(* A key never outlives a failed boot or the zeroizer (both except clauses *)
(* of bootstrap, SecureZeroizer.terminate), whichever step failed, and a   *)
(* running process that has bootstrap behind it holds it only with the     *)
(* zeroizer armed and the monitor running, Ctrl-C apart.                   *)
THEOREM KeyWiped == Spec => []NoKeyOutlivesFailure
  <1>1. Init => KeyInv
    BY BootAssumption
       DEF Init, KeyInv, ResultAtReturn, NoKeyOutlivesFailure, KeyLive
  <1>2. KeyInv /\ [Next]_vars => KeyInv'
    BY KeyInvInductive
  <1>3. KeyInv => NoKeyOutlivesFailure
    BY DEF KeyInv
  <1> QED BY <1>1, <1>2, <1>3, PTL DEF Spec

(* WritingOwn and ResultAtReturn hold throughout.                          *)
LEMMA WritingOwnInvariant == Spec => [](WritingOwn /\ KeyInv)
  <1>1. Init => WritingOwn /\ KeyInv
    BY BootAssumption
       DEF Init, WritingOwn, KeyInv, ResultAtReturn, NoKeyOutlivesFailure,
           KeyLive
  <1>2. WritingOwn /\ KeyInv /\ [Next]_vars => WritingOwn' /\ KeyInv'
    BY KeyInvInductive, WritingOwnInductive DEF KeyInv
  <1> QED BY <1>1, <1>2, PTL DEF Spec

-----------------------------------------------------------------------------
(* The state of the boot keeps its types.                                  *)
THEOREM TypeCorrect == Spec => []TypeOK
  <1>1. Init => TypeOK
    <2> SUFFICES ASSUME Init PROVE TypeOK
      OBVIOUS
    <2>1. armed \in BOOLEAN /\ monitor \in BOOLEAN
      BY Zenon DEF Init
    <2>2. env.booted \in Measurements
      BY BootAssumption DEF Init, Env
    <2> QED BY <2>1, <2>2 DEF Init, TypeOK
  <1>2. TypeOK /\ WritingOwn /\ [Next]_vars => TypeOK'
    <2> SUFFICES ASSUME TypeOK, WritingOwn, [Next]_vars PROVE TypeOK'
      OBVIOUS
    <2> USE DEF TypeOK
    <2>1. ASSUME Fail
          PROVE  /\ pc' = "returned" /\ returned' = 1
                 /\ key' \in {None, "right", "wrong", "wiped"}
      BY <2>1 DEF Fail
    <2>2. CASE Main
      BY <2>2 DEF Main, machine
    <2>3. CASE Lockdown
      BY <2>1, <2>3, GateEffect DEF Lockdown, unmoved, machine
    <2>4. CASE Detect
      BY <2>1, <2>4, GateEffect DEF Detect, unmoved, machine
    <2>5. CASE FetchReport
      BY <2>1, <2>5, GateEffect DEF FetchReport, unmoved, machine
    <2>6. CASE CheckConfig
      <3>1. /\ UNCHANGED <<unmoved, tee_type, report>>
            /\ \/ Fail
               \/ /\ pc' = IF env.production THEN "snp_verify" ELSE "verify_report"
                  /\ returned' = returned /\ key' = key
        BY <2>6, Zenon DEF CheckConfig, Gate, At
      <3>2. CASE Fail
        BY <2>1, <3>1, <3>2 DEF unmoved, machine
      <3>3. CASE ~Fail
        BY <3>1, <3>3 DEF unmoved, machine
      <3> QED BY <3>2, <3>3
    <2>7. CASE SnpVerify
      BY <2>1, <2>7, GateEffect DEF SnpVerify, unmoved, machine
    <2>8. CASE KeyService
      BY <2>1, <2>8 DEF KeyService, unmoved, machine
    <2>9. CASE VerifyReport
      BY <2>1, <2>9, GateEffect DEF VerifyReport, unmoved, machine
    <2>10. CASE Nitrokey
      BY <2>1, <2>10 DEF Nitrokey, unmoved, machine
    <2>11. CASE TmpfsGate
      BY <2>1, <2>11, GateEffect DEF TmpfsGate, unmoved, machine
    <2>12. CASE ChooseUnwrap
      BY <2>1, <2>12, GateEffect DEF ChooseUnwrap, Blobs, machine
    <2>13. ASSUME NEW f \in Files, DecryptOne(f) PROVE TypeOK'
      BY <2>1, <2>13 DEF DecryptOne, machine
    <2>14. CASE FinishWrite
      <3>1. writing \in Files /\ pkg[writing] = writing
        BY <2>14 DEF FinishWrite, WritingOwn
      <3>2. <<pkg[writing], version>> \in Files \X Nat
        BY <3>1
      <3> QED BY <2>1, <2>14, <3>1, <3>2 DEF FinishWrite, machine
    <2>15. CASE DecryptDone
      BY <2>1, <2>15, GateEffect DEF DecryptDone, unmoved, machine
    <2>16. CASE ArmAndStart
      <3>1. armed' \in BOOLEAN /\ monitor' \in BOOLEAN
        BY <2>16, Zenon DEF ArmAndStart
      <3> QED BY <2>1, <2>16, <3>1 DEF ArmAndStart, machine
    <2>17. CASE ExitProcess
      <3>1. armed' \in BOOLEAN /\ monitor' \in BOOLEAN
        BY <2>17, Zenon DEF ExitProcess
      <3> QED BY <2>17, <3>1 DEF ExitProcess, boot, machine
    <2>18. CASE Poll \/ Signal \/ Kill
      <3>1. armed' \in BOOLEAN /\ monitor' \in BOOLEAN
        BY <2>18, Zenon DEF Poll, Signal, Kill, Terminate, machine
      <3>2. CASE Poll
        BY <3>1, <3>2 DEF Poll, Terminate, machine
      <3>3. CASE Signal
        BY <3>1, <3>3 DEF Signal, Terminate, machine
      <3>4. CASE Kill
        BY <3>1, <3>4 DEF Kill, machine
      <3> QED BY <2>18, <3>2, <3>3, <3>4
    <2>19. CASE Drift \/ DeviceChanges
      BY <2>19 DEF Drift, DeviceChanges, boot
    <2>20. CASE Restart
      <3>1. env'.booted \in Measurements
        BY <2>20, BootAssumption DEF Restart, Env
      <3>2. armed' \in BOOLEAN /\ monitor' \in BOOLEAN
        BY <2>20, Zenon DEF Restart
      <3> QED BY <2>20, <3>1, <3>2 DEF Restart
    <2>21. CASE UNCHANGED vars
      BY <2>21 DEF vars, boot, machine
    <2>22. CASE Interrupt
      BY <2>22 DEF Interrupt, machine
    <2> QED BY <2>2, <2>3, <2>4, <2>5, <2>6, <2>7, <2>8, <2>9, <2>10, <2>11,
               <2>12, <2>13, <2>14, <2>15, <2>16, <2>17, <2>18, <2>19, <2>20,
               <2>21, <2>22 DEF Next, MainStep
  <1> QED BY <1>1, <1>2, WritingOwnInvariant, PTL DEF Spec

(* Plaintext lies only at the path its blob was sealed for (the associated *)
(* data of decrypt_package), over all processes that wrote to the output.  *)
THEOREM PathBound == Spec => []PlaintextAtItsPath
  <1> DEFINE Inv == PlaintextAtItsPath
  <1>1. Init => Inv
    BY DEF Init, PlaintextAtItsPath
  <1>2. TypeOK /\ WritingOwn /\ Inv /\ [Next]_vars => Inv'
    <2> SUFFICES ASSUME TypeOK, WritingOwn, Inv, [Next]_vars PROVE Inv'
      OBVIOUS
    <2> USE DEF PlaintextAtItsPath, TypeOK
    <2>1. ASSUME NEW f \in Files, DecryptOne(f) PROVE Inv'
      BY <2>1 DEF DecryptOne
    <2>2. CASE FinishWrite
      BY <2>2 DEF FinishWrite, WritingOwn
    <2>3. ASSUME out' = out PROVE Inv'
      BY <2>3
    <2>4. CASE EarlyStep
      BY <2>3, <2>4, EarlyEffect DEF unmoved
    <2>5. CASE AsideStep
      BY <2>3, <2>5, AsideEffect
    <2>6. CASE \/ ChooseUnwrap \/ DecryptDone \/ ArmAndStart \/ ExitProcess
               \/ Interrupt \/ Restart \/ UNCHANGED vars
      BY <2>3, <2>6 DEF ChooseUnwrap, DecryptDone, unmoved, ArmAndStart,
                        ExitProcess, Interrupt, Restart, vars
    <2> QED BY <2>1, <2>2, <2>4, <2>5, <2>6, NextCases
  <1> QED BY <1>1, <1>2, TypeCorrect, WritingOwnInvariant, PTL DEF Spec

-----------------------------------------------------------------------------
(* A boot that returns 0 has written every file of its package, whole and  *)
(* in this version, whatever an earlier process left half done: an action  *)
(* of decrypt_package that skips a path, or a success with no file, would  *)
(* break the loop invariant.                                               *)
THEOREM SuccessComplete == Spec => []SuccessIsComplete
  <1>1. Init => CompleteInv
    BY BootAssumption
       DEF Init, CompleteInv, ResultAtReturn, WritingOwn, LoopInv,
           SuccessIsComplete
  <1>2. TypeOK /\ KeyInv /\ CompleteInv /\ [Next]_vars => CompleteInv'
    <2> SUFFICES ASSUME TypeOK, KeyInv, CompleteInv, [Next]_vars
                 PROVE  CompleteInv'
      OBVIOUS
    <2>1. ResultAtReturn' /\ WritingOwn'
      BY KeyInvInductive, WritingOwnInductive DEF KeyInv, CompleteInv
    <2>3. CASE EarlyStep
      BY <2>1, <2>3, EarlyEffect, FailWipes, BootAssumption
         DEF CompleteInv, LoopInv, SuccessIsComplete, unmoved, EarlyPc,
             ResultAtReturn
    <2>4. CASE AsideStep
      <3>1. Blobs' = Blobs
        BY <2>4, AsideEffect DEF Blobs
      <3> QED BY <2>1, <2>4, <3>1, AsideEffect
              DEF CompleteInv, LoopInv, SuccessIsComplete
    <2>5. CASE ChooseUnwrap
      <3>1. Blobs' = Blobs
        BY <2>5 DEF Blobs, ChooseUnwrap
      <3> QED BY <2>1, <2>5, <3>1, GateEffect, FailWipes, BootAssumption
              DEF CompleteInv, LoopInv, SuccessIsComplete, ChooseUnwrap,
                  ResultAtReturn
    <2>6. ASSUME NEW f \in Files, DecryptOne(f) PROVE CompleteInv'
      <3>1. Blobs' = Blobs /\ version' = version /\ count' = count
        BY <2>6 DEF Blobs, DecryptOne
      <3>2. CASE Fail
        BY <2>1, <2>6, <3>1, <3>2, FailWipes
           DEF CompleteInv, LoopInv, SuccessIsComplete
      <3>3. CASE ~Fail
        <4>1. /\ out' = [out EXCEPT ![f] = Partial] /\ writing' = f
              /\ pc = "decrypt" /\ pc' = pc /\ returned' = returned
              /\ todo' = todo \ {f} /\ writing = None
          BY <2>6, <3>3 DEF DecryptOne, At
        <4>2. returned = None
          BY <4>1 DEF CompleteInv, ResultAtReturn
        <4>3. ASSUME NEW g \in Blobs
              PROVE  g \in todo' \/ g = writing' \/ out'[g] = <<g, version>>
          <5>1. g \in Files
            BY DEF Blobs
          <5>2. g \in todo \/ out[g] = <<g, version>>
            BY <4>1, <5>1, BootAssumption DEF CompleteInv, LoopInv
          <5>3. g # f => out'[g] = out[g]
            BY <4>1, <5>1 DEF TypeOK
          <5> QED BY <4>1, <5>2, <5>3
        <4>4. LoopInv'
          BY <3>1, <4>1, <4>3 DEF CompleteInv, LoopInv
        <4> QED BY <2>1, <4>1, <4>2, <4>4, BootAssumption
                DEF CompleteInv, SuccessIsComplete
      <3> QED BY <3>2, <3>3
    <2>7. CASE FinishWrite
      <3>1. CASE Fail
        BY <2>1, <2>7, <3>1, FailWipes
           DEF CompleteInv, LoopInv, SuccessIsComplete
      <3>2. CASE ~Fail
        <4>1. /\ pc = "decrypt" /\ pc' = pc /\ returned' = returned
              /\ writing # None /\ writing' = None /\ todo' = todo
              /\ version' = version
              /\ out' = [out EXCEPT ![writing] = <<pkg[writing], version>>]
          BY <2>7, <3>2 DEF FinishWrite, At
        <4>2. Blobs' = Blobs
          BY <2>7 DEF FinishWrite, Blobs
        <4>3. returned = None
          BY <4>1 DEF CompleteInv, ResultAtReturn
        <4>4. writing \in Files /\ pkg[writing] = writing
          BY <4>1 DEF TypeOK, CompleteInv, WritingOwn
        <4>5. writing \in Blobs
          BY <4>4, BootAssumption DEF Blobs
        <4>6. ASSUME NEW g \in Blobs
              PROVE  g \in todo' \/ out'[g] = <<g, version>>
          <5>1. g \in Files
            BY DEF Blobs
          <5>2. g \in todo \/ g = writing \/ out[g] = <<g, version>>
            BY <4>1 DEF CompleteInv, LoopInv
          <5>3. g # writing => out'[g] = out[g]
            BY <4>1, <5>1 DEF TypeOK
          <5>4. out'[writing] = <<writing, version>>
            BY <4>1, <4>4 DEF TypeOK
          <5> QED BY <4>1, <5>2, <5>3, <5>4
        <4>7. LoopInv'
          BY <4>1, <4>2, <4>5, <4>6 DEF LoopInv
        <4> QED BY <2>1, <4>1, <4>3, <4>7, BootAssumption
                DEF CompleteInv, SuccessIsComplete
      <3> QED BY <3>1, <3>2
    <2>8. CASE DecryptDone
      <3>1. Blobs' = Blobs
        BY <2>8 DEF Blobs, DecryptDone, unmoved
      <3>2. ASSUME NEW g \in Blobs, pc = "decrypt"
            PROVE  out[g] = <<g, version>>
        BY <2>8, <3>2, BootAssumption DEF Blobs, DecryptDone, CompleteInv, LoopInv
      <3>3. UNCHANGED <<version, out>> /\ pc = "decrypt"
        BY <2>8, GateEffect DEF DecryptDone, unmoved
      <3>4. CASE Fail
        BY <2>1, <3>4, FailWipes DEF CompleteInv, LoopInv, SuccessIsComplete
      <3>5. CASE ~Fail
        <4>1. count # 0 /\ pc' = "arm" /\ returned' = returned
          BY <2>8, <3>5, GateEffect DEF DecryptDone
        <4>2. Blobs' # {} /\ \A g \in Blobs' : out'[g] = <<g, version'>>
          BY <3>1, <3>2, <3>3, <4>1 DEF CompleteInv, LoopInv
        <4> QED BY <2>1, <4>1, <4>2
                DEF CompleteInv, LoopInv, SuccessIsComplete
      <3> QED BY <3>4, <3>5
    <2>9. CASE ArmAndStart
      <3>1. Blobs' = Blobs
        BY <2>9 DEF Blobs, ArmAndStart
      <3>2. CASE Fail
        BY <2>1, <3>2, FailWipes DEF CompleteInv, LoopInv, SuccessIsComplete
      <3>3. CASE ~Fail
        BY <2>1, <2>9, <3>1, <3>3
           DEF CompleteInv, LoopInv, SuccessIsComplete, ArmAndStart, At
      <3> QED BY <3>2, <3>3
    <2>10. CASE ExitProcess
      <3>1. Blobs' = Blobs
        BY <2>10 DEF Blobs, ExitProcess
      <3> QED BY <2>1, <2>10, <3>1
              DEF CompleteInv, LoopInv, SuccessIsComplete, ExitProcess, boot
    <2>11. CASE Restart
      BY <2>1, <2>11, BootAssumption
         DEF CompleteInv, LoopInv, SuccessIsComplete, Restart
    <2>12. CASE UNCHANGED vars
      <3>1. Blobs' = Blobs
        BY <2>12 DEF Blobs, vars
      <3> QED BY <2>1, <2>12, <3>1
              DEF CompleteInv, LoopInv, SuccessIsComplete, vars, boot
    <2>13. CASE Interrupt
      BY <2>1, <2>13, BootAssumption
         DEF CompleteInv, LoopInv, SuccessIsComplete, ResultAtReturn, Interrupt
    <2> QED BY <2>3, <2>4, <2>5, <2>6, <2>7, <2>8, <2>9, <2>10, <2>11, <2>12,
               <2>13, NextCases
  <1>3. CompleteInv => SuccessIsComplete
    BY DEF CompleteInv
  <1> QED BY <1>1, <1>2, <1>3, TypeCorrect, WritingOwnInvariant, PTL DEF Spec

-----------------------------------------------------------------------------
(* A boot that returns 0 was attested: the report of this process carries  *)
(* the measurement the operator expects and the package is sealed to, and  *)
(* the enrolled Nitrokey was there.  It was not a production boot: that    *)
(* branch asks for tee_type, which only the development branch sets, so    *)
(* that bootstrap never returns 0 in production.                           *)
THEOREM SuccessAttested == Spec => []SuccessIsAttested
  <1> DEFINE Inv == PastGates /\ SuccessIsAttested
  <1>1. Init => Inv
    BY BootAssumption DEF Init, PastGates, SuccessIsAttested
  <1>2. KeyInv /\ WritingOwn /\ Inv /\ [Next]_vars => Inv'
    <2> SUFFICES ASSUME KeyInv, WritingOwn, Inv, [Next]_vars PROVE Inv'
      OBVIOUS
    <2> USE BootAssumption DEF Measurements
    <2> USE DEF PastGates
    <2>1. ASSUME UNCHANGED <<env, report>>, returned' = 0 => returned = 0
          PROVE  SuccessIsAttested'
      BY <2>1 DEF SuccessIsAttested
    <2>2. CASE Main
      <3>1. SuccessIsAttested'
        BY <2>1, <2>2 DEF Main
      <3> QED BY <2>2, <3>1 DEF Main, At
    <2>3. CASE Lockdown
      <3>1. SuccessIsAttested'
        BY <2>1, <2>3, GateEffect, FailWipes DEF Lockdown, unmoved
      <3> QED BY <2>3, <3>1, GateEffect, FailWipes DEF Lockdown, unmoved
    <2>4. CASE Detect
      <3>1. SuccessIsAttested'
        BY <2>1, <2>4, GateEffect, FailWipes DEF Detect, unmoved
      <3> QED BY <2>4, <3>1, GateEffect, FailWipes DEF Detect, unmoved
    <2>5. CASE FetchReport
      <3>1. SuccessIsAttested'
        BY <2>5, GateEffect, FailWipes
           DEF FetchReport, unmoved, SuccessIsAttested, KeyInv, ResultAtReturn
      <3> QED BY <2>5, <3>1, GateEffect, FailWipes DEF FetchReport, unmoved
    <2>6. CASE CheckConfig
      <3>1. SuccessIsAttested'
        BY <2>1, <2>6, FailWipes DEF CheckConfig, unmoved, Gate
      <3> QED BY <2>6, <3>1, FailWipes DEF CheckConfig, unmoved, Gate, At
    <2>7. CASE SnpVerify
      <3>1. SuccessIsAttested'
        BY <2>1, <2>7, GateEffect, FailWipes DEF SnpVerify, unmoved
      <3> QED BY <2>7, <3>1, GateEffect, FailWipes DEF SnpVerify, unmoved
    <2>8. CASE KeyService
      <3>1. Fail
        BY <2>8 DEF KeyService, KeyServiceOutcomes, At
      <3>2. SuccessIsAttested'
        BY <2>1, <2>8, <3>1, FailWipes DEF KeyService, unmoved
      <3> QED BY <2>8, <3>1, <3>2, FailWipes DEF KeyService, unmoved
    <2>9. CASE VerifyReport
      <3>1. SuccessIsAttested'
        BY <2>1, <2>9, GateEffect, FailWipes DEF VerifyReport, unmoved
      <3>2. CASE pc' = "returned"
        BY <2>9, <3>1, <3>2 DEF VerifyReport, unmoved, Gate, At
      <3>3. CASE pc' # "returned"
        <4>1. /\ pc = "verify_report" /\ pc' = "nitrokey"
              /\ report = env.expected /\ UNCHANGED key
          BY <2>9, <3>3 DEF VerifyReport, Gate, At, Fail
        <4>2. key = None /\ ~env.production
          BY <4>1
        <4> QED BY <2>9, <3>1, <4>1, <4>2 DEF VerifyReport, unmoved
      <3> QED BY <3>2, <3>3
    <2>10. CASE Nitrokey
      <3>1. SuccessIsAttested'
        BY <2>1, <2>10, FailWipes DEF Nitrokey, unmoved
      <3> QED BY <2>10, <3>1, FailWipes DEF Nitrokey, unmoved, At
    <2>11. CASE TmpfsGate
      <3>1. SuccessIsAttested'
        BY <2>1, <2>11, GateEffect, FailWipes DEF TmpfsGate, unmoved
      <3> QED BY <2>11, <3>1, GateEffect, FailWipes DEF TmpfsGate, unmoved
    <2>12. CASE ChooseUnwrap
      <3>1. SuccessIsAttested'
        BY <2>1, <2>12, GateEffect, FailWipes DEF ChooseUnwrap
      <3> QED BY <2>12, <3>1, GateEffect, FailWipes DEF ChooseUnwrap, WritingOwn
    <2>13. ASSUME NEW f \in Files, DecryptOne(f) PROVE Inv'
      <3>1. SuccessIsAttested'
        BY <2>1, <2>13, FailWipes DEF DecryptOne
      <3> QED BY <2>13, <3>1, FailWipes DEF DecryptOne, At, Opens
    <2>14. CASE FinishWrite
      <3>1. SuccessIsAttested'
        BY <2>1, <2>14, FailWipes DEF FinishWrite
      <3> QED BY <2>14, <3>1, FailWipes DEF FinishWrite, At
    <2>15. CASE DecryptDone
      <3>1. SuccessIsAttested'
        BY <2>1, <2>15, GateEffect, FailWipes DEF DecryptDone, unmoved
      <3>2. UNCHANGED <<env, proc, tee_type, report, writing, count>>
        BY <2>15 DEF DecryptDone, unmoved
      <3>3. CASE pc' = "returned"
        BY <3>1, <3>2, <3>3
      <3>4. CASE pc' # "returned"
        <4>1. pc = "decrypt" /\ pc' = "arm" /\ count # 0 /\ UNCHANGED key
          BY <2>15, <3>4 DEF DecryptDone, Gate, At, Fail
        <4> QED BY <3>1, <3>2, <4>1
      <3> QED BY <3>3, <3>4
    <2>16. CASE ArmAndStart
      <3>1. pc = "arm" /\ proc = "running" /\ UNCHANGED <<env, report>>
        BY <2>16 DEF ArmAndStart, At
      <3>2. ~env.production /\ report = env.expected /\ key = "right"
        BY <3>1
      <3>3. report = Good /\ env.nitrokey = "enrolled"
        BY <3>1, <3>2
      <3>4. UNCHANGED <<env, tee_type, report, proc>> /\ pc' = "returned"
        BY <2>16, FailWipes DEF ArmAndStart
      <3> QED BY <3>2, <3>3, <3>4 DEF SuccessIsAttested
    <2>17. CASE ExitProcess
      <3>1. SuccessIsAttested'
        BY <2>1, <2>17 DEF ExitProcess, boot
      <3> QED BY <2>17, <3>1 DEF ExitProcess, boot, At
    <2>18. CASE AsideStep
      <3>1. SuccessIsAttested'
        BY <2>1, <2>18, AsideEffect
      <3>2. UNCHANGED <<env, pc, tee_type, report, writing, count>>
        BY <2>18, AsideEffect
      <3>3. key' = key \/ key' \in {"wiped", None}
        BY <2>18, AsideEffect
      <3>4. key = None => key' = None
        BY <2>18 DEF AsideStep, Poll, Signal, Kill, Drift, DeviceChanges,
                     Terminate, KeyLive, boot
      <3>5. proc = "running" /\ (proc' = "running" => key' = key)
        BY <2>18, AsideEffect
      <3> QED BY <3>1, <3>2, <3>3, <3>4, <3>5
    <2>19. CASE Restart
      <3>1. SuccessIsAttested'
        BY <2>19 DEF Restart, SuccessIsAttested
      <3> QED BY <2>19, <3>1 DEF Restart
    <2>20. CASE UNCHANGED vars
      <3>1. SuccessIsAttested'
        BY <2>1, <2>20 DEF vars, boot
      <3> QED BY <2>20, <3>1 DEF vars, boot
    <2>21. CASE Interrupt
      <3>1. SuccessIsAttested'
        BY <2>1, <2>21 DEF Interrupt
      <3> QED BY <2>21, <3>1 DEF Interrupt
    <2> QED BY <2>2, <2>3, <2>4, <2>5, <2>6, <2>7, <2>8, <2>9, <2>10, <2>11,
               <2>12, <2>13, <2>14, <2>15, <2>16, <2>17, <2>18, <2>19, <2>20,
               <2>21 DEF Next, MainStep, AsideStep
  <1> QED BY <1>1, <1>2, WritingOwnInvariant, PTL DEF Spec
=============================================================================
