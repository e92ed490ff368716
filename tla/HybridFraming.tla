--------------------------- MODULE HybridFraming ---------------------------
(***************************************************************************)
(* frame, unframe and hybrid_verify of hybrid.py on blobs of bytes.  Both  *)
(* signature schemes are ideal: over the message at hand the only part     *)
(* that verifies is the one its key made.                                  *)
(***************************************************************************)
EXTENDS Integers, Sequences, SequencesExt

CONSTANTS
    HeaderLen,    \* 4 in the code (">I")
    ByteBase,     \* 256 in the code
    EdSig,        \* the Ed25519 signature of the message
    MldsaSig      \* its ML-DSA signature

Bytes == 0..(ByteBase - 1)

ASSUME FramingAssumption ==
    /\ HeaderLen \in Nat \ {0}
    /\ ByteBase \in Nat \ {0, 1}
    /\ EdSig \in Seq(Bytes) /\ MldsaSig \in Seq(Bytes)

\* The first length that does not fit a header, 2^32 in the code.
Limit ==
    LET power[i \in 0..HeaderLen] ==
          IF i = 0 THEN 1 ELSE ByteBase * power[i - 1]
    IN  power[HeaderLen]

\* struct.pack(">I", n) for an n that fits: the last byte is what the
\* division leaves over, the leading ones pack the quotient.
Pack(n) ==
    LET leading[i \in 0..HeaderLen] ==
          IF i = HeaderLen THEN n ELSE leading[i + 1] \div ByteBase
    IN  [i \in 1..HeaderLen |-> leading[i] % ByteBase]

\* struct.unpack(">I", header) for a header of HeaderLen bytes.
Unpack(header) ==
    LET upTo[i \in 0..Len(header)] ==
          IF i = 0 THEN 0 ELSE ByteBase * upTo[i - 1] + header[i]
    IN  upTo[Len(header)]

\* blob[from:to] counts from 0 and stops silently at the end of the blob.
Slice(blob, from, to) ==
    SubSeq(blob, from + 1, IF to < Len(blob) THEN to ELSE Len(blob))

Frame(parts) == FlattenSeq([k \in DOMAIN parts |->
                              Pack(Len(parts[k])) \o parts[k]])

Raised == [raised |-> TRUE, parts |-> << >>]

\* Mutant: a length of zero takes the rest of the blob.
UnframeZeroIsRest(blob) ==
    LET from[i \in 0..Len(blob)] ==
          IF i = Len(blob) THEN [raised |-> FALSE, parts |-> << >>]
          ELSE IF i + HeaderLen > Len(blob) THEN Raised
          ELSE LET n == Unpack(Slice(blob, i, i + HeaderLen))
                   end == IF n = 0 \/ i + HeaderLen + n > Len(blob)
                          THEN Len(blob) ELSE i + HeaderLen + n
                   rest == from[end]
               IN  IF rest.raised THEN Raised
                   ELSE [raised |-> FALSE,
                         parts |-> <<Slice(blob, i + HeaderLen, end)>>
                                     \o rest.parts]
    IN  from[0]

\* The loop from position i on; a position past the end ends it as the end
\* does, a header that is cut short raises struct.error.
Unframe(blob) ==
    LET from[i \in 0..Len(blob)] ==
          IF i = Len(blob) THEN [raised |-> FALSE, parts |-> << >>]
          ELSE IF i + HeaderLen > Len(blob) THEN Raised
          ELSE LET n == Unpack(Slice(blob, i, i + HeaderLen))
                   end == IF i + HeaderLen + n > Len(blob)
                          THEN Len(blob) ELSE i + HeaderLen + n
                   rest == from[end]
               IN  IF rest.raised THEN Raised
                   ELSE [raised |-> FALSE,
                         parts |-> <<Slice(blob, i + HeaderLen, end)>>
                                     \o rest.parts]
    IN  from[0]

HybridSign == Frame(<<EdSig, MldsaSig>>)

\* Mutant: more than two parts are tolerated.
HybridVerifyAtLeastTwo(blob) ==
    LET u == Unframe(blob)
    IN  /\ ~u.raised
        /\ Len(u.parts) >= 2
        /\ u.parts[1] = EdSig
        /\ u.parts[2] = MldsaSig

\* TRUE is the only answer the client goes on with: FALSE and a raised
\* struct.error both end release.
HybridVerify(blob) ==
    LET u == Unframe(blob)
    IN  /\ ~u.raised
        /\ Len(u.parts) = 2
        /\ u.parts[1] = EdSig
        /\ u.parts[2] = MldsaSig
============================================================================
