----------------------------- MODULE Algorithms -----------------------------
(***************************************************************************)
(* The repository's pure functions, one input at a time: a probe puts one  *)
(* input before one of them and the invariants say what the function must  *)
(* make of it.  The functions are in the six modules extended here.        *)
(***************************************************************************)
EXTENDS SizeBanding, IntentCodec, HybridFraming, SealedBlob, LockedMemory,
        TcbFloor

CONSTANTS
    Sizes,        \* sizes asked for, in quarters of a lot
    BandLists,    \* lists of bands a builder is given
    BuiltIntents, \* intents as build makes them, before they are signed
    WireIntents,  \* JSON documents a verifier may receive
    KeyHash,      \* the signing key's hash
    PartLists,    \* lists of byte strings to frame
    SigBlobs,     \* byte strings presented as a hybrid signature
    OpenCalls,    \* calls of the two blob readers
    Accesses,     \* [addr, size, offset, len] of a locked buffer
    TcbPairs      \* reported and minimum TCB

ASSUME InputAssumption ==
    /\ Sizes \subseteq Int
    /\ \A l \in BandLists :
         /\ l \in Seq(Nat)
         /\ \A i, j \in DOMAIN l : i < j => l[i] < l[j]
    /\ PartLists \subseteq Seq(Seq(Bytes))
    /\ \A p \in PartLists : \A k \in DOMAIN p : Len(p[k]) < Limit
    /\ SigBlobs \subseteq Seq(Bytes)
    /\ TcbPairs \subseteq Tcb \X Tcb
    /\ BuiltIntents \subseteq OrderIntents
    /\ WireIntents \subseteq Documents
    /\ KeyHash \in Texts
    /\ OpenCalls \subseteq Calls
    /\ \A a \in Accesses :
         /\ a \in [addr : Nat, size : Nat \ {0}, offset : Nat, len : Int]
         /\ a.offset <= a.size /\ a.len >= NoLength

VARIABLE probe      \* <<function, input>>

Resting == <<"none", 0>>

Init == probe = Resting

Probe(function, inputs) ==
    /\ probe = Resting
    /\ \E x \in inputs : probe' = <<function, x>>

ProbeBand == Probe("band", Sizes \X BandLists)
ProbeBuilt == Probe("built", BuiltIntents)
ProbeWire == Probe("wire", WireIntents)
ProbeFrame == Probe("frame", PartLists)
ProbeSignature == Probe("signature", SigBlobs)
ProbeOpen == Probe("open", OpenCalls)
ProbeMemory == Probe("memory", Accesses)
ProbeTcb == Probe("tcb", TcbPairs)

Rest == probe # Resting /\ probe' = Resting

Next ==
    \/ ProbeBand \/ ProbeBuilt \/ ProbeWire \/ ProbeFrame \/ ProbeSignature
    \/ ProbeOpen \/ ProbeMemory \/ ProbeTcb
    \/ Rest

Spec == Init /\ [][Next]_probe

-----------------------------------------------------------------------------
(* coarse_band                                                             *)

\* A larger order never goes out in a smaller band, whatever ascending list
\* of bands is used, from sizes below zero to sizes beyond the last band:
\* the zero guard, the ties and the two ends fit together.
BandOrderKept ==
    probe[1] = "band" =>
        LET size == probe[2][1]
            bands == probe[2][2]
        IN  \A t \in Sizes :
              size <= t => CoarseBand(size, bands) <= CoarseBand(t, bands)

\* Between the first and the last default band the size on the wire is off
\* by at most a third of the size asked for ("nearest", not "next below").
BandWithinThird ==
    probe[1] = "band" =>
        LET size == probe[2][1]
        IN  size \in 2..4096 =>
              3 * Distance(CoarseBand(size, << >>), size) <= size

-----------------------------------------------------------------------------
(* OrderIntent's encodings                                                 *)

\* The types OrderIntent declares for its numbers.
AsDeclared(i) ==
    /\ ~i.side.float /\ ~i.timestamp.float
    /\ i.size.float /\ i.stop_price.float /\ i.target_price.float

\* What the executor has after the batch was sent as JSON and parsed again.
Received(i) == FromJson(ToJson(SignIntent(i, KeyHash)))

\* An intent whose numbers have the types OrderIntent declares arrives
\* exactly as it was signed, number by number, and verifies: whatever
\* to_dict, json and from_dict's coercions do, they undo each other on it.
RoundTripVerifies ==
    probe[1] = "built" /\ AsDeclared(probe[2]) =>
        /\ Received(probe[2]) = SignIntent(probe[2], KeyHash)
        /\ VerifyIntent(Received(probe[2]))

\* The numbers of an intent that was built the way IntentBuilder's usage
\* shows it: coarse_band's size from the default bands is a float and
\* build's timestamp an int, but the prices are written as the caller likes
\* ("stop_price=59000, target_price=62000").
AsInUsage(i) ==
    /\ ~i.side.float /\ ~i.timestamp.float
    /\ i.size.float

\* What emit_batch returns is there to be serialized and delivered to the
\* executor: an intent built as in the usage verifies there.
UsageIntentsVerify ==
    probe[1] = "built" /\ AsInUsage(probe[2]) => VerifyIntent(Received(probe[2]))

NoPipe(i) ==
    /\ Len(i.intent_id) = 1
    /\ Len(i.symbol) = 1
    /\ Len(i.public_key_hash) = 1

\* A signature made for an intent whose texts hold no pipe verifies for that
\* order and for no other, even if the other one's texts hold pipes that
\* shift fields against each other: the delimiters pin every field.
SignatureFixesOrder ==
    probe[1] = "wire" =>
        \A built \in BuiltIntents :
            LET signed == SignIntent(built, KeyHash)
                received ==
                  FromJson([probe[2] EXCEPT !.signature = signed.signature])
            IN  NoPipe(signed) /\ VerifyIntent(received) => received = signed

-----------------------------------------------------------------------------
(* Hybrid signatures                                                       *)

\* unframe undoes frame, for any number of parts and with empty parts
\* among them.
FrameRoundTrip ==
    probe[1] = "frame" =>
        Unframe(Frame(probe[2])) = [raised |-> FALSE, parts |-> probe[2]]

\* A blob hybrid_verify accepts is the genuine one byte for byte, except
\* that the last length may claim more than the bytes that follow it (a
\* slice stops silently at the end): nothing can be put before, between or
\* after the two signatures.
AcceptedIsGenuine ==
    probe[1] = "signature" /\ HybridVerify(probe[2]) =>
        LET before == HeaderLen + Len(EdSig)
            header == (before + 1)..(before + HeaderLen)
        IN  /\ Len(probe[2]) = Len(HybridSign)
            /\ \A k \in DOMAIN HybridSign \ header :
                 probe[2][k] = HybridSign[k]

-----------------------------------------------------------------------------
(* Sealed blobs                                                            *)

\* With a full-length master key the Rust path and the Python path open the
\* same blobs with the same length of plaintext, empty files included:
\* which of the two decrypt_package takes makes no difference to a boot.
ReadersAgree ==
    probe[1] = "open" /\ probe[2].masterLen >= MasterLen =>
        LET rust == HkdfAesgcmOpen(probe[2])
            python == AesGcmOpen(probe[2])
        IN  rust.ok = python.ok /\ rust.len = python.len

\* Every call that crosses the C boundary describes its buffers truly: the
\* nonce is whole, the capacity has not wrapped around and the buffer holds
\* that many bytes, so the only failures Rust reports are a short master
\* key and a failed decryption.
BufferAsDeclared ==
    probe[1] = "open" /\ ~WrapperRaises(probe[2]) =>
        LET abi == Abi(probe[2])
        IN  /\ abi.nonceLen = NonceLen
            /\ abi.outCap <= abi.buffer
            /\ BmsrOpen(probe[2], abi.nonceLen, abi.ctLen, abi.outCap)
                 \in {0, E_MASTER_SHORT, E_DECRYPT}

-----------------------------------------------------------------------------
(* Locked memory                                                           *)

\* mlock and MADV_DONTDUMP get the pages that hold a byte of the buffer,
\* all of them and no other, wherever the buffer lies across its pages.
LockCoversBuffer ==
    probe[1] = "memory" =>
        LET addr == probe[2].addr
            size == probe[2].size
        IN  Locked(addr, size) =
              { PageDown(b) + k : b \in Buffer(addr, size),
                                  k \in 0..(PageSize - 1) }

\* What write puts and what read shows lies in the buffer, so in the pages
\* that are locked and in the bytes zeroise clears, for every offset inside
\* it; write guards its length itself, read leaves that to its caller.
AccessesInBuffer ==
    probe[1] = "memory" =>
        LET a == probe[2]
        IN  /\ a.len # NoLength =>
                 Written(a.addr, a.size, a.offset, a.len)
                   \subseteq Zeroised(a.addr, a.size)
            /\ a.offset + a.len <= a.size =>
                 Viewed(a.addr, a.size, a.offset, a.len)
                   \subseteq Zeroised(a.addr, a.size)

-----------------------------------------------------------------------------
(* The TCB floor                                                           *)

\* No component of the one is older than that of the other.
NotOlder(a, b) == \A i \in 1..TcbBytes : a[i] >= b[i]

\* Where no component is weighed against another the packed comparison is
\* right: updating firmware never locks a platform out, a platform at the
\* floor or above it in every component is let in, and one that has gone
\* back in some component without a gain in another is kept out.
FloorMonotone ==
    probe[1] = "tcb" =>
        LET reported == probe[2][1]
            floor == probe[2][2]
        IN  /\ NotOlder(reported, floor) => TcbAccepted(reported, floor)
            /\ TcbAccepted(reported, floor) =>
                 \A updated \in Tcb :
                   NotOlder(updated, reported) => TcbAccepted(updated, floor)
            /\ TcbAccepted(reported, floor) /\ NotOlder(floor, reported) =>
                 reported = floor

\* "TCB floor (anti-rollback to vulnerable firmware)": nothing that runs a
\* component older than the floor's is accepted.
FloorIsComponentwise ==
    probe[1] = "tcb" =>
        LET reported == probe[2][1]
            floor == probe[2][2]
        IN  TcbAccepted(reported, floor) => NotOlder(reported, floor)
=============================================================================
