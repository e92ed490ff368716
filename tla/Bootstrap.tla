----------------------------- MODULE Bootstrap -----------------------------
(***************************************************************************)
(* The confidential VM's boot in src/src/cloud_protection.py: main and     *)
(* CloudProtection.bootstrap, decrypt_package, ProtectedMemory's key, the  *)
(* SecureZeroizer and the ContinuousAttestationMonitor thread.             *)
(*                                                                         *)
(* The main thread runs bootstrap step by step; every exception ends it by *)
(* Fail.  Around it the machine moves: the measurement drifts, the         *)
(* attestation device fails, signals arrive, the process is killed and     *)
(* started again with another command line and another sealed package,     *)
(* over the output directory the earlier process left.                     *)
(***************************************************************************)
EXTENDS Naturals

CONSTANTS
    Files,        \* logical paths in the sealed package
    None, Damaged, Absent, Partial,
    Good, Other,  \* measurements: the one the package is sealed to, another
    Envs,         \* command lines and machines a process may be started on
    Packages,     \* sealed directories, [Files -> Files \cup {Damaged, Absent}]
    MaxRestarts   \* bound: processes started after the first

Measurements == {Good, Other}

Env == [production   : BOOLEAN,
        hosted       : BOOLEAN,   \* the caller stays alive after bootstrap
        locked       : BOOLEAN,   \* EnforceLockdown finds nothing
        tee          : {"sev-snp", "tdx", "none"},
        configured   : BOOLEAN,   \* key service URL and mTLS pins given
        expected     : Measurements \cup {None},
        booted       : Measurements,
        nitrokey     : {"enrolled", "other", "absent"},
        kem          : BOOLEAN,   \* liboqs is there and has ML-KEM
        findmnt      : BOOLEAN,   \* the tool is installed
        tmpfs        : BOOLEAN,
        rust         : BOOLEAN,
        faults       : BOOLEAN]   \* drift, signals, kills, and any call of a
                                  \* step may raise: disk, memory, tools, ...

ASSUME BootAssumption ==
    /\ Envs \subseteq Env
    /\ Packages \subseteq [Files -> Files \cup {Damaged, Absent}]
    /\ Damaged \notin Files /\ Absent \notin Files
    /\ Good # Other
    /\ None \notin Files \cup Measurements
    /\ None \notin {"sev-snp", "right", "wrong", "wiped", 0, 1, 2}
    /\ MaxRestarts \in Nat

VARIABLES
    env,       \* this process's command line and machine
    pkg,       \* what lies at each path: the path its blob was sealed for
    version,   \* history: which sealed package this is
    proc,      \* "running", "exited", "terminated" or "killed"
    pc,        \* where the main thread is
    returned,  \* bootstrap's (or main's) result, None before it
    tee_type,  \* TEEAttestation._tee_type
    report,    \* measurement of the report fetched at boot
    key,       \* _master_key: None, "right", "wrong" or "wiped"
    todo,      \* blobs rglob has not yielded yet
    writing,   \* the path being written, or None
    count,     \* files decrypted by this process
    out,       \* output_dir: [Files -> None, Partial or <<path, version>>]
    armed,     \* SecureZeroizer._armed
    monitor,   \* the monitor thread runs
    measured,  \* the machine's measurement now
    device,    \* /dev/sev-guest: "ok", "ioctl_fails" or "gone"
    restarts   \* bound counter

machine == <<measured, device>>
boot    == <<pc, returned, tee_type, report, key, todo, writing, count>>
vars    == <<env, pkg, version, proc, boot, out, armed, monitor, machine,
             restarts>>

Blobs == {f \in Files : pkg[f] # Absent}

Init ==
    /\ env \in Envs
    /\ pkg \in Packages
    /\ version = 0
    /\ proc = "running"
    /\ pc = "main" /\ returned = None
    /\ tee_type = None /\ report = None /\ key = None
    /\ todo = {} /\ writing = None /\ count = 0
    /\ out = [f \in Files |-> None]
    /\ armed = FALSE /\ monitor = FALSE
    /\ measured = env.booted /\ device = "ok"
    /\ restarts = 0

-----------------------------------------------------------------------------
(* The main thread is at step s of a running process.                      *)
At(s) == proc = "running" /\ pc = s

KeyLive == key \in {"right", "wrong"}

(* Mutated: the handlers return without zeroising the key.                 *)
FailKeepsKey ==
    /\ pc' = "returned" /\ returned' = 1
    /\ UNCHANGED key

(* Both except clauses of bootstrap: zeroise the master key if there is    *)
(* one, return 1.                                                          *)
Fail ==
    /\ pc' = "returned" /\ returned' = 1
    /\ key' = IF KeyLive THEN "wiped" ELSE key

(* Step s raises if the condition holds and goes on to next otherwise;     *)
(* with faults any call it makes may raise.                                *)
Gate(s, raises, next) ==
    /\ At(s)
    /\ \/ (raises \/ env.faults) /\ Fail
       \/ ~raises /\ pc' = next /\ UNCHANGED <<returned, key>>

(* main: production with missing arguments stops with usage, exit code 2.  *)
Main ==
    /\ At("main")
    /\ LET usage == ~env.hosted /\ env.production /\ ~env.configured IN
       /\ pc' = IF usage THEN "returned" ELSE "lockdown"
       /\ returned' = IF usage THEN 2 ELSE returned
    /\ UNCHANGED <<env, pkg, version, proc, tee_type, report, key, todo,
                   writing, count, out, armed, monitor, machine, restarts>>

unmoved == <<env, pkg, version, proc, todo, writing, count, out, armed,
             monitor, machine, restarts>>

(* EnforceLockdown.check.                                                  *)
Lockdown ==
    /\ Gate("lockdown", env.production /\ ~env.locked, "detect")
    /\ UNCHANGED <<unmoved, tee_type, report>>

(* TEEAttestation.detect: the device file decides.                         *)
Detected == IF device = "gone" THEN "none" ELSE env.tee

Detect ==
    /\ Gate("detect", Detected = "none", "report")
    /\ UNCHANGED <<unmoved, tee_type, report>>

(* fetch_report_ioctl: the device file is not there, the ioctl fails, the  *)
(* firmware or the response reports an error.                              *)
ReportIoctlRaises == device # "ok"

(* Nonce, ephemeral keys (KemPrivate loads liboqs and raises without it)   *)
(* and report_data; fetch_attestation_report detects again, has no TDX     *)
(* path, and asks the device.                                              *)
FetchReport ==
    /\ Gate("report",
            ~env.kem \/ Detected # "sev-snp" \/ ReportIoctlRaises, "config")
    /\ report' = IF pc' = "config" THEN measured ELSE report
    /\ UNCHANGED <<unmoved, tee_type>>

(* The parameter checks at the head of the production and dev branches.    *)
CheckConfig ==
    /\ Gate("config",
            \/ env.production /\ ~env.configured
            \/ env.expected = None,
            IF env.production THEN "snp_verify" ELSE "verify_report")
    /\ UNCHANGED <<unmoved, tee_type, report>>

(* Production: SnpVerifier.verify of the machine's own report.  That       *)
(* snpguest fails is one of the faults.                                    *)
SnpVerify ==
    /\ Gate("snp_verify", report # env.expected, "key_service")
    /\ UNCHANGED <<unmoved, tee_type, report>>

(* verify_via_key_service reads self.tee_type first; the property raises   *)
(* while _tee_type is None.  Then the KRS decides.                         *)
KeyServiceOutcomes ==
    IF tee_type = None THEN {"raised"}
    ELSE {"released"} \cup (IF env.faults THEN {"raised"} ELSE {})

KeyService ==
    /\ At("key_service")
    /\ \E outcome \in KeyServiceOutcomes :
         IF outcome = "raised"
         THEN Fail
         ELSE pc' = "tmpfs" /\ key' = "right" /\ UNCHANGED returned
    /\ UNCHANGED <<unmoved, tee_type, report>>

(* Mutated: the measurement is recorded as the TEE type.                   *)
VerifyReportMixedUp ==
    /\ Gate("verify_report", report # env.expected, "nitrokey")
    /\ tee_type' = IF pc' = "nitrokey" THEN report ELSE tee_type
    /\ UNCHANGED <<unmoved, report>>

(* Mutated: any measurement is accepted.                                   *)
VerifyReportUnchecked ==
    /\ At("verify_report")
    /\ pc' = "nitrokey"
    /\ tee_type' = "sev-snp"
    /\ UNCHANGED <<unmoved, report, returned, key>>

(* Dev: verify_attestation_report compares the measurement and records the *)
(* TEE type.                                                               *)
VerifyReport ==
    /\ Gate("verify_report", report # env.expected, "nitrokey")
    /\ tee_type' = IF pc' = "nitrokey" THEN "sev-snp" ELSE tee_type
    /\ UNCHANGED <<unmoved, report>>

(* Dev: the Nitrokey is found, its credential loaded, the touch waited for *)
(* (30 s); derive_master_key mixes measurement and hmac-secret.            *)
Nitrokey ==
    /\ At("nitrokey")
    /\ \E touched \in {TRUE} \cup (IF env.faults THEN {FALSE} ELSE {}) :
         IF env.nitrokey = "absent" \/ ~touched
         THEN Fail
         ELSE /\ key' = IF report = Good /\ env.nitrokey = "enrolled"
                        THEN "right" ELSE "wrong"
              /\ pc' = "tmpfs"
              /\ UNCHANGED returned
    /\ UNCHANGED <<unmoved, tee_type, report>>

(* The tmpfs gate: findmnt is run in both modes, what it says counts in    *)
(* production.                                                             *)
TmpfsGate ==
    /\ Gate("tmpfs", ~env.findmnt \/ (env.production /\ ~env.tmpfs), "unwrap")
    /\ UNCHANGED <<unmoved, tee_type, report>>

(* decrypt_package up to its loop: production insists on the Rust library. *)
ChooseUnwrap ==
    /\ Gate("unwrap", env.production /\ ~env.rust, "decrypt")
    /\ todo' = IF pc' = "decrypt" THEN Blobs ELSE todo
    /\ count' = 0
    /\ UNCHANGED <<env, pkg, version, proc, writing, out, armed, monitor,
                   machine, restarts, tee_type, report>>

(* Mutated: the blob is opened without its path as associated data.        *)
OpensAnywhere(f) == pkg[f] # Damaged /\ key = "right"

(* AES-GCM with AAD = the relative path, under the key it was sealed with. *)
Opens(f) == pkg[f] = f /\ key = "right"

(* Mutated: a path that exists is taken as done.                           *)
DecryptOneSkips(f) ==
    /\ At("decrypt") /\ writing = None
    /\ f \in todo
    /\ todo' = todo \ {f}
    /\ \/ (~Opens(f) \/ env.faults) /\ Fail /\ UNCHANGED <<out, writing, count>>
       \/ /\ Opens(f) /\ out[f] = None
          /\ out' = [out EXCEPT ![f] = Partial] /\ writing' = f
          /\ UNCHANGED <<pc, returned, key, count>>
       \/ /\ Opens(f) /\ out[f] # None
          /\ count' = count + 1
          /\ UNCHANGED <<pc, returned, key, out, writing>>
    /\ UNCHANGED <<env, pkg, version, proc, armed, monitor, machine, restarts,
                   tee_type, report>>

(* One blob of decrypt_package, in whatever order rglob yields: a blob     *)
(* that does not open, or cannot be read, raises; otherwise write_bytes    *)
(* truncates the target.                                                   *)
DecryptOne(f) ==
    /\ At("decrypt") /\ writing = None
    /\ f \in todo
    /\ todo' = todo \ {f}
    /\ \/ (~Opens(f) \/ env.faults) /\ Fail /\ UNCHANGED <<out, writing>>
       \/ /\ Opens(f)
          /\ out' = [out EXCEPT ![f] = Partial] /\ writing' = f
          /\ UNCHANGED <<pc, returned, key>>
    /\ UNCHANGED <<env, pkg, version, proc, count, armed, monitor, machine,
                   restarts, tee_type, report>>

(* ... and writes the plaintext; a write that raises leaves part of it.    *)
FinishWrite ==
    /\ At("decrypt") /\ writing # None
    /\ writing' = None
    /\ \/ /\ out' = [out EXCEPT ![writing] = <<pkg[writing], version>>]
          /\ count' = count + 1
          /\ UNCHANGED <<pc, returned, key>>
       \/ env.faults /\ Fail /\ UNCHANGED <<out, count>>
    /\ UNCHANGED <<env, pkg, version, proc, tee_type, report, todo, armed,
                   monitor, machine, restarts>>

(* The loop is over; no file at all is an error.                           *)
DecryptDone ==
    /\ todo = {} /\ writing = None
    /\ Gate("decrypt", count = 0, "arm")
    /\ UNCHANGED <<unmoved, tee_type, report>>

(* The zeroizer's signal handlers are installed, the monitor thread starts *)
(* and bootstrap returns 0.  signal.signal and Thread.start may raise, with*)
(* _armed set before them.                                                 *)
ArmAndStart ==
    /\ At("arm")
    /\ armed' = TRUE
    /\ \/ /\ monitor' = TRUE
          /\ pc' = "returned" /\ returned' = 0
          /\ UNCHANGED key
       \/ env.faults /\ Fail /\ UNCHANGED monitor
    /\ UNCHANGED <<env, pkg, version, proc, tee_type, report, todo, writing,
                   count, out, machine, restarts>>

(* main returns the code and the interpreter exits, unless the caller      *)
(* hosts the strategy after a successful boot; so it does after Ctrl-C,    *)
(* unless the caller catches KeyboardInterrupt.                            *)
ExitProcess ==
    /\ \/ At("returned") /\ (returned # 0 \/ ~env.hosted)
       \/ At("interrupted") /\ ~env.hosted
    /\ proc' = "exited"
    /\ monitor' = FALSE
    /\ UNCHANGED <<env, pkg, version, boot, out, armed, machine, restarts>>

-----------------------------------------------------------------------------
(* SecureZeroizer.terminate: zeroise_all, then os._exit(1).                *)
Terminate ==
    /\ proc' = "terminated"
    /\ key' = IF KeyLive THEN "wiped" ELSE key
    /\ monitor' = FALSE

(* Mutated: the monitor looks for the device only.                         *)
PollDeviceOnly ==
    /\ proc = "running" /\ monitor
    /\ Detected = "none"
    /\ Terminate
    /\ UNCHANGED <<env, pkg, version, pc, returned, tee_type, report, todo,
                   writing, count, out, armed, machine, restarts>>

(* One round of the monitor's loop.  fetch_attestation_report raises this  *)
(* module's AttestationError only when detect does; a failing ioctl raises *)
(* the class of snp_verify, which the loop takes for a transient error and *)
(* only logs.                                                              *)
Poll ==
    /\ proc = "running" /\ monitor
    /\ Detected = "none" \/ (~ReportIoctlRaises /\ measured # report)
    /\ Terminate
    /\ UNCHANGED <<env, pkg, version, pc, returned, tee_type, report, todo,
                   writing, count, out, armed, machine, restarts>>

(* SIGINT, SIGTERM or SIGUSR1 once the zeroizer is armed.  When arm itself *)
(* raised, a signal may find its handler in place or not (Kill).           *)
Signal ==
    /\ env.faults
    /\ proc = "running" /\ armed
    /\ Terminate
    /\ UNCHANGED <<env, pkg, version, pc, returned, tee_type, report, todo,
                   writing, count, out, armed, machine, restarts>>

(* SIGINT before arm is Python's KeyboardInterrupt: it ends whatever step  *)
(* the main thread is in and passes both except clauses of bootstrap, which*)
(* catch Exception; nothing is zeroised.                                   *)
Interrupt ==
    /\ env.faults
    /\ proc = "running" /\ ~armed
    /\ pc \notin {"returned", "interrupted"}
    /\ pc' = "interrupted"
    /\ writing' = None
    /\ UNCHANGED <<env, pkg, version, proc, returned, tee_type, report, key, todo,
                   count, out, armed, monitor, machine, restarts>>

(* The process dies with no handler run: SIGKILL, out of memory, or SIGTERM*)
(* or SIGUSR1 before arm.  Its memory is gone.                             *)
Kill ==
    /\ env.faults
    /\ proc = "running"
    /\ proc' = "killed"
    /\ key' = None
    /\ monitor' = FALSE
    /\ UNCHANGED <<env, pkg, version, pc, returned, tee_type, report, todo,
                   writing, count, out, armed, machine, restarts>>

-----------------------------------------------------------------------------
(* The machine: the measurement changes; the device fails, recovers or     *)
(* goes away.                                                              *)
Drift ==
    /\ env.faults
    /\ proc = "running"
    /\ measured' \in Measurements \ {measured}
    /\ measured = env.booted
    /\ UNCHANGED <<env, pkg, version, proc, boot, out, armed, monitor, device,
                   restarts>>

DeviceChanges ==
    /\ env.faults
    /\ proc = "running"
    /\ device' \in {"ok", "ioctl_fails", "gone"} \ {device}
    /\ device # "gone"
    /\ UNCHANGED <<env, pkg, version, proc, boot, out, armed, monitor, measured,
                   restarts>>

(* The service is started again: a new process, perhaps another command    *)
(* line and a newly sealed package, over the old output directory.         *)
Restart ==
    /\ proc # "running"
    /\ restarts < MaxRestarts
    /\ restarts' = restarts + 1
    /\ version' = version + 1
    /\ proc' = "running"
    /\ env' \in Envs /\ pkg' \in Packages
    /\ pc' = "main" /\ returned' = None
    /\ tee_type' = None /\ report' = None /\ key' = None
    /\ todo' = {} /\ writing' = None /\ count' = 0
    /\ armed' = FALSE /\ monitor' = FALSE
    /\ measured' = env'.booted /\ device' = "ok"
    /\ UNCHANGED out

MainStep ==
    \/ Main \/ Lockdown \/ Detect \/ FetchReport \/ CheckConfig \/ SnpVerify
    \/ KeyService \/ VerifyReport \/ Nitrokey \/ TmpfsGate \/ ChooseUnwrap
    \/ (\E f \in Files : DecryptOne(f)) \/ FinishWrite \/ DecryptDone
    \/ ArmAndStart \/ ExitProcess

Next ==
    \/ MainStep \/ Poll \/ Signal \/ Interrupt \/ Kill
    \/ Drift \/ DeviceChanges \/ Restart

(* The main thread runs on (every call it waits for has a timeout or ends  *)
(* by itself) and the monitor wakes from each sleep.                       *)
Spec == Init /\ [][Next]_vars /\ WF_vars(MainStep) /\ WF_vars(Poll)

-----------------------------------------------------------------------------
(* Type invariant of the boot.                                             *)
TypeOK ==
    /\ env \in Envs /\ pkg \in Packages
    /\ version \in Nat
    /\ proc \in {"running", "exited", "terminated", "killed"}
    /\ pc \in {"main", "lockdown", "detect", "report", "config", "snp_verify",
               "key_service", "verify_report", "nitrokey", "tmpfs", "unwrap",
               "decrypt", "arm", "returned", "interrupted"}
    /\ returned \in {None, 0, 1, 2}
    /\ tee_type \in {None, "sev-snp"}
    /\ report \in Measurements \cup {None}
    /\ key \in {None, "right", "wrong", "wiped"}
    /\ todo \subseteq Files
    /\ writing \in Files \cup {None}
    /\ count \in Nat
    /\ out \in [Files -> {None, Partial} \cup (Files \X Nat)]
    /\ armed \in BOOLEAN /\ monitor \in BOOLEAN
    /\ measured \in Measurements
    /\ device \in {"ok", "ioctl_fails", "gone"}
    /\ restarts \in Nat

(* The master key is readable only while bootstrap still works with it, or *)
(* after a success, with the zeroizer armed and the monitor running: when  *)
(* bootstrap has returned 1, whichever step raised, or the zeroizer has    *)
(* terminated the process, it is wiped or was never there.  The exception  *)
(* is Ctrl-C before arm, which passes the except clauses.                  *)
NoKeyOutlivesFailure ==
    /\ (returned = 1 \/ proc = "terminated") => ~KeyLive
    /\ (proc = "running" /\ KeyLive) =>
           \/ pc \in {"tmpfs", "unwrap", "decrypt", "arm"}
           \/ returned = 0 /\ armed /\ monitor
           \/ pc = "interrupted"

(* Whatever the package, the key and the interruptions, plaintext at a     *)
(* path is that of a blob sealed for that path (AAD in decrypt_package).   *)
PlaintextAtItsPath ==
    \A f \in Files : out[f] \notin {None, Partial} => out[f][1] = f

(* A boot that returned 0 has written every file of the package it was     *)
(* given, whole and in this version, whatever killed or failed processes   *)
(* left in the output directory before it.                                 *)
SuccessIsComplete ==
    returned = 0 =>
        /\ Blobs # {}
        /\ \A f \in Blobs : out[f] = <<f, version>>

(* Inductive strengthening: bootstrap has a result only once it returned,  *)
(* and no key is left in memory by a failure or by the zeroizer.           *)
ResultAtReturn == returned # None => pc = "returned"

KeyInv == ResultAtReturn /\ NoKeyOutlivesFailure

(* A boot that returned 0 ran in development, on the measurement the       *)
(* operator gave, which is the one the package is sealed to, with the      *)
(* enrolled Nitrokey; a production boot never got there.                   *)
SuccessIsAttested ==
    returned = 0 =>
        /\ ~env.production
        /\ report = env.expected /\ report = Good
        /\ env.nitrokey = "enrolled"

(* What the gates have established when the main thread is past them.      *)
(* tee_type is set by the dev branch only, and production asks for it.     *)
PastGates ==
    /\ pc \in {"nitrokey", "tmpfs", "unwrap", "decrypt", "arm"} =>
           ~env.production /\ report = env.expected
    /\ pc \notin {"nitrokey", "tmpfs", "unwrap", "decrypt", "arm", "returned",
                  "interrupted"} => key = None
    /\ env.production => tee_type = None
    /\ (pc # "returned" /\ key = "right" /\ ~env.production) =>
           report = Good /\ env.nitrokey = "enrolled"
    /\ pc = "snp_verify" \/ pc = "key_service" => env.production
    /\ pc = "verify_report" => ~env.production
    /\ count # 0 \/ writing # None =>
           pc \in {"decrypt", "arm", "returned", "interrupted"}
    /\ (count # 0 \/ writing # None) /\ pc # "returned" =>
           key = "right" \/ proc # "running"
    /\ pc = "arm" => count # 0

(* The path being written is one whose blob opened under its own path.     *)
WritingOwn ==
    writing # None => pc = "decrypt" /\ pkg[writing] = writing

(* The loop of decrypt_package: a blob that rglob has yielded already is   *)
(* written, whole and in this version, or being written.                   *)
LoopInv ==
    pc = "decrypt" =>
        /\ count # 0 => Blobs # {}
        /\ \A f \in Blobs :
              f \in todo \/ f = writing \/ out[f] = <<f, version>>

CompleteInv ==
    /\ ResultAtReturn /\ WritingOwn /\ LoopInv /\ SuccessIsComplete
    /\ pc = "arm" => Blobs # {} /\ \A f \in Blobs : out[f] = <<f, version>>

(* What a machine and a command line must be for a boot to succeed: the    *)
(* documented requirements, liboqs for the ephemeral keys, and findmnt.    *)
Healthy ==
    /\ env.tee = "sev-snp" /\ env.kem /\ env.findmnt
    /\ env.expected = env.booted
    /\ env.production => env.locked /\ env.configured /\ env.tmpfs /\ env.rust
    /\ ~env.production => env.nitrokey = "enrolled"
    /\ env.booted = Good
    /\ Blobs # {} /\ \A f \in Blobs : pkg[f] = f

(* Without faults, a development boot succeeds on a healthy machine and    *)
(* fails on any other: of the conditions Env and the package stand for,    *)
(* bootstrap's gates miss none, and those production alone asks for do not *)
(* count.  (Any other error of the operating system is a fault.)           *)
BootMatchesHealth ==
    LET quiet == ~env.faults /\ ~env.production /\ pc = "main" IN
    /\ (quiet /\ Healthy) ~> (returned = 0)
    /\ (quiet /\ ~Healthy) ~> (returned = 1)

(* Once the monitor runs, a changed measurement ends the process, unless   *)
(* the device fails (ContinuousAttestationMonitor._loop).                  *)
DriftTerminates ==
    (monitor /\ measured # report)
        ~> (proc # "running" \/ device = "ioctl_fails")

(* verify_via_key_service, "Release the CEK via the mTLS+pinned KRS        *)
(* client": a healthy production boot succeeds.                            *)
ProductionBootSucceeds ==
    (~env.faults /\ env.production /\ pc = "main" /\ Healthy) ~> (returned = 0)

(* ContinuousAttestationMonitor, "If any check fails -> zeroise all memory *)
(* + exit immediately": a process does not run on for ever without being   *)
(* able to attest.                                                         *)
FailedChecksTerminate == ~<>[](monitor /\ device # "ok")
=============================================================================
