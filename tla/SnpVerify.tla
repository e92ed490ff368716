----------------------------- MODULE SnpVerify -----------------------------
(***************************************************************************)
(* The SEV-SNP report verifier of src/src/snp_verify.py (SnpVerifier).     *)
(*                                                                         *)
(* A report is a record of the fields the verifier reads.  Two of them     *)
(* stand for facts about the bytes: "full" (at least REPORT_LEN bytes) and *)
(* "genuine" (the AMD secure processor signed it).  report_data is the     *)
(* tuple that was hashed: with x_pub and nonce of fixed length (the caller *)
(* checks both) the hashed concatenation determines the tuple, and SHA-256 *)
(* is taken as injective.                                                  *)
(***************************************************************************)
EXTENDS Integers

CONSTANTS
    XKeys,               \* X25519 public keys
    KemKeys,             \* ML-KEM public keys, malformed ones included
    Nonces,              \* 32-byte nonces
    Measurements,        \* launch measurements
    AllowList,           \* SnpVerifier.allow
    MinTcb,              \* SnpVerifier.min_reported_tcb
    RequireNoDebug,      \* SnpVerifier.require_no_debug
    RequireSmtDisabled,  \* SnpVerifier.require_smt_disabled
    AttestationError     \* the exception snp_verify raises

ASSUME SnpAssumption ==
    /\ AllowList \subseteq Measurements
    /\ AttestationError \notin Measurements
    /\ MinTcb \in Nat
    /\ RequireNoDebug \in BOOLEAN
    /\ RequireSmtDisabled \in BOOLEAN

ReportData == XKeys \X KemKeys \X Nonces

Report == [genuine      : BOOLEAN,
           full         : BOOLEAN,
           report_data  : ReportData,
           measurement  : Measurements,
           debug        : BOOLEAN,
           smt          : BOOLEAN,
           reported_tcb : Nat]

(***************************************************************************)
(* verify_signature_chain: four snpguest calls in order, the first failure *)
(* raises.  The two fetches talk to AMD's key server and may fail for any  *)
(* report (unreachable, 60 s timeout, snpguest missing); all four succeed  *)
(* only for a genuine report.                                              *)
(***************************************************************************)
ChainOutcomes(r) ==
    {"failed"} \cup (IF r.genuine THEN {"verified"} ELSE {})

(* Mutated: the report is not compared with the request's keys and nonce.  *)
FieldsAcceptedUnbound(r, expected) ==
    /\ r.measurement \in AllowList
    /\ RequireNoDebug => ~r.debug
    /\ RequireSmtDisabled => ~r.smt
    /\ r.reported_tcb >= MinTcb

(* Mutated: the debug bit is tested with the wrong sense.                  *)
FieldsAcceptedDebugFlipped(r, expected) ==
    /\ r.report_data = expected
    /\ r.measurement \in AllowList
    /\ RequireNoDebug => r.debug
    /\ RequireSmtDisabled => ~r.smt
    /\ r.reported_tcb >= MinTcb

(* The checks of verify after the chain: binding, allowlist, policy, TCB. *)
FieldsAccepted(r, expected) ==
    /\ r.report_data = expected
    /\ r.measurement \in AllowList
    /\ RequireNoDebug => ~r.debug
    /\ RequireSmtDisabled => ~r.smt
    /\ r.reported_tcb >= MinTcb

(* SnpVerifier.verify: the measurement, or an exception at the first check *)
(* that fails.  chain is what snpguest answered.                           *)
Verify(r, expected, chain) ==
    IF r.full /\ chain = "verified" /\ FieldsAccepted(r, expected)
    THEN r.measurement
    ELSE AttestationError

(* What a report must be for the key to leave the KRS.  Stated apart from  *)
(* Verify, field by field, as the policy documents list it.                *)
Entitles(r, x, kem, nonce) ==
    /\ r.full
    /\ r.genuine
    /\ r.report_data = <<x, kem, nonce>>
    /\ r.measurement \in AllowList
    /\ ~(RequireNoDebug /\ r.debug)
    /\ ~(RequireSmtDisabled /\ r.smt)
    /\ ~(r.reported_tcb < MinTcb)
=============================================================================
