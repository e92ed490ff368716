----------------------------- MODULE SealedBlob -----------------------------
(***************************************************************************)
(* The sealed file salt || nonce || ciphertext and its two readers:        *)
(* aes_gcm_open of cloud_protection.py, and hkdf_aesgcm_open of            *)
(* rust_unwrap.py with the C function of key_unwrap/src/lib.rs behind it.  *)
(* The cipher is ideal: a blob opens iff it is a whole sealed one, under   *)
(* the key bytes and the path (AAD) it was sealed with.  So a blob is its  *)
(* length and whether it is intact; a call adds the length of the master   *)
(* key given and whether the key bytes and the path are the right ones.    *)
(***************************************************************************)
EXTENDS Integers

CONSTANTS
    SaltLen, NonceLen, TagLen,   \* 16, 12 and 16 in the code
    MasterLen,                   \* the bytes both sides derive from: 32
    SizeMax                      \* 2^64: c_size_t counts modulo this

ASSUME BlobAssumption ==
    /\ SaltLen \in Nat /\ NonceLen \in Nat /\ TagLen \in Nat
    /\ MasterLen \in Nat /\ SizeMax \in Nat \ {0}

\* A file is shorter than the address space.
Calls == [len : 0..(SizeMax - 1), intact : BOOLEAN, rightKey : BOOLEAN,
          rightPath : BOOLEAN, masterLen : Nat]

Raises(code) == [ok |-> FALSE, code |-> code, len |-> 0]
Returns(n) == [ok |-> TRUE, code |-> 0, len |-> n]

SealedLen(ptLen) == SaltLen + NonceLen + ptLen + TagLen

\* The ideal cipher on ctLen bytes of ciphertext.
Decrypts(call) == call.intact /\ call.rightKey /\ call.rightPath

TooShort == 1       \* ValueError or RustUnwrapError("blob too short")
InvalidTag == 2

E_MASTER_SHORT == -2
E_NONCE_LEN == -3
E_CT_SHORT == -4
E_DECRYPT == -6
E_OUT_CAP == -7

AesGcmOpen(call) ==
    IF call.len < SaltLen + NonceLen + TagLen THEN Raises(TooShort)
    ELSE IF ~Decrypts(call) THEN Raises(InvalidTag)
    ELSE Returns(call.len - SaltLen - NonceLen - TagLen)

\* Mutant: a ciphertext that is all tag (an empty file) is too short.
BmsrOpenNoEmpty(call, nonceLen, ctLen, outCap) ==
    IF call.masterLen < MasterLen THEN E_MASTER_SHORT
    ELSE IF nonceLen # NonceLen THEN E_NONCE_LEN
    ELSE IF ctLen <= TagLen THEN E_CT_SHORT
    ELSE IF outCap < ctLen - TagLen THEN E_OUT_CAP
    ELSE IF ~Decrypts(call) THEN E_DECRYPT
    ELSE 0

\* bmsr_hkdf_aesgcm_open's return code.  Python passes no null pointer, and
\* HKDF expands to 32 bytes without failing.
BmsrOpen(call, nonceLen, ctLen, outCap) ==
    IF call.masterLen < MasterLen THEN E_MASTER_SHORT
    ELSE IF nonceLen # NonceLen THEN E_NONCE_LEN
    ELSE IF ctLen < TagLen THEN E_CT_SHORT
    ELSE IF outCap < ctLen - TagLen THEN E_OUT_CAP
    ELSE IF ~Decrypts(call) THEN E_DECRYPT
    ELSE 0

\* Mutant: the guard forgets the tag.
WrapperRaisesNoTag(call) == call.len < SaltLen + NonceLen

WrapperRaises(call) == call.len < SaltLen + NonceLen + TagLen

Minimum(a, b) == IF a < b THEN a ELSE b
Maximum(a, b) == IF a < b THEN b ELSE a

\* The lengths the wrapper computes: slices stop at the end of the blob,
\* out_cap goes through c_size_t, the buffer has at least one byte.
Abi(call) ==
    LET nonceLen == Maximum(0, Minimum(call.len, SaltLen + NonceLen) - SaltLen)
        ctLen == Maximum(0, call.len - SaltLen - NonceLen)
        outCap == ctLen - TagLen
    IN  [nonceLen |-> nonceLen, ctLen |-> ctLen, outCap |-> outCap % SizeMax,
         buffer |-> Maximum(outCap, 1)]

HkdfAesgcmOpen(call) ==
    IF WrapperRaises(call) THEN Raises(TooShort)
    ELSE LET abi == Abi(call)
             rc == BmsrOpen(call, abi.nonceLen, abi.ctLen, abi.outCap)
         IN  IF rc # 0 THEN Raises(rc) ELSE Returns(abi.ctLen - TagLen)
=============================================================================
