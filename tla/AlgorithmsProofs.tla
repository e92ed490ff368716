-------------------------- MODULE AlgorithmsProofs --------------------------
(***************************************************************************)
(* Theorems about the repository's pure functions, for every input of the  *)
(* types their callers pass: any page size, any length of salt, nonce and  *)
(* tag, any ascending list of bands, any texts and numbers of an intent.   *)
(***************************************************************************)
EXTENDS Algorithms, SequenceTheorems, WellFoundedInduction, TLAPS

(* A probe holds an input of the function it names.                        *)
ProbeOf(function, inputs) == probe[1] = function => probe[2] \in inputs

ProbesTyped ==
    /\ ProbeOf("band", Sizes \X BandLists)
    /\ ProbeOf("built", BuiltIntents)
    /\ ProbeOf("wire", WireIntents)
    /\ ProbeOf("frame", PartLists)
    /\ ProbeOf("signature", SigBlobs)
    /\ ProbeOf("open", OpenCalls)
    /\ ProbeOf("memory", Accesses)
    /\ ProbeOf("tcb", TcbPairs)

(* Probes are typed throughout.                                            *)
LEMMA ProbesAreTyped == Spec => []ProbesTyped
  <1> USE DEF ProbesTyped, ProbeOf
  <1>1. Init => ProbesTyped
    BY DEF Init, Resting
  <1>2. ProbesTyped /\ [Next]_probe => ProbesTyped'
    BY DEF Next, ProbeBand, ProbeBuilt, ProbeWire, ProbeFrame, ProbeSignature,
           ProbeOpen, ProbeMemory, ProbeTcb, Probe, Rest, Resting
  <1> QED BY <1>1, <1>2, PTL DEF Spec

-----------------------------------------------------------------------------
(* ProtectedMemory                                                         *)

(* Of two multiples of a page size the larger is a page further at least.  *)
LEMMA MultiplesApart ==
  ASSUME NEW p \in Nat \ {0}, NEW i \in Int, NEW j \in Int, p * i < p * j
  PROVE  p * i + p <= p * j
  <1>1. i < j
    OBVIOUS
  <1>2. p * (j - i) >= p
    BY <1>1
  <1> QED BY <1>2

(* What rounding down to a page gives: a multiple of the page size, at     *)
(* most a page below.                                                      *)
LEMMA PageDownIs ==
  ASSUME NEW a \in Nat
  PROVE  /\ PageDown(a) \in Nat
         /\ PageDown(a) <= a /\ a < PageDown(a) + PageSize
         /\ \E q \in Int : PageDown(a) = PageSize * q
  <1> DEFINE q == a \div PageSize
             r == a % PageSize
  <1>1. q \in Int /\ r \in 0..(PageSize - 1) /\ a = PageSize * q + r
    BY PageAssumption
  <1>2. PageDown(a) = PageSize * q
    BY <1>1, PageAssumption DEF PageDown
  <1>3. q >= 0
    BY <1>1, PageAssumption
  <1>4. PageSize * q \in Nat
    BY <1>1, <1>3, PageAssumption
  <1> HIDE DEF q, r
  <1> QED BY <1>1, <1>2, <1>4, PageAssumption

(* ... and the only such multiple.                                         *)
LEMMA PageDownUnique ==
  ASSUME NEW a \in Nat, NEW x \in Int, NEW q \in Int,
         x = PageSize * q, x <= a, a < x + PageSize
  PROVE  PageDown(a) = x
  <1>1. PICK r \in Int : PageDown(a) = PageSize * r
    BY PageDownIs
  <1>2. PageDown(a) \in Nat /\ PageDown(a) <= a /\ a < PageDown(a) + PageSize
    BY PageDownIs
  <1>3. ~(PageDown(a) < x)
    BY <1>1, <1>2, MultiplesApart, PageAssumption
  <1>4. ~(x < PageDown(a))
    BY <1>1, <1>2, MultiplesApart, PageAssumption
  <1> QED BY <1>2, <1>3, <1>4

(* Rounded-down addresses that differ are a page apart.                    *)
LEMMA PagesApart ==
  ASSUME NEW a \in Nat, NEW b \in Nat, PageDown(a) < PageDown(b)
  PROVE  PageDown(a) + PageSize <= PageDown(b)
  <1>1. PICK q \in Int : PageDown(a) = PageSize * q
    BY PageDownIs
  <1>2. PICK r \in Int : PageDown(b) = PageSize * r
    BY PageDownIs
  <1> QED BY <1>1, <1>2, MultiplesApart, PageAssumption

(* mlock and MADV_DONTDUMP get exactly the pages that hold a byte of the   *)
(* buffer, for every page size and wherever it lies across its pages.      *)
THEOREM LockExact == Spec => []LockCoversBuffer
  <1>1. ASSUME NEW addr \in Nat, NEW size \in Nat \ {0}
        PROVE  Locked(addr, size) =
                 { PageDown(b) + k : b \in Buffer(addr, size),
                                     k \in 0..(PageSize - 1) }
    <2> DEFINE lo == PageDown(addr)
               last == addr + size + PageSize - 1
               hi == PageDown(last)
    <2>1. PageSize \in Nat /\ PageSize > 0 /\ last \in Nat
      BY PageAssumption
    <2>2. lo \in Nat /\ lo <= addr /\ addr < lo + PageSize
      BY PageDownIs
    <2>3. hi \in Nat /\ hi <= last /\ last < hi + PageSize
      BY <2>1, PageDownIs
    <2>4. Locked(addr, size) = lo..(hi - 1)
      <3>1. PageUp(addr + size) = hi
        BY DEF PageUp
      <3>2. lo + (hi - lo) - 1 = hi - 1
        BY <2>2, <2>3
      <3> HIDE DEF lo, hi
      <3> QED BY <3>1, <3>2 DEF Locked, lo
    <2>5. ASSUME NEW b \in Buffer(addr, size), NEW k \in 0..(PageSize - 1)
          PROVE  PageDown(b) + k \in lo..(hi - 1)
      <3>1. b \in Nat /\ addr <= b /\ b < addr + size
        BY DEF Buffer
      <3>2. PageDown(b) \in Nat /\ PageDown(b) <= b /\ b < PageDown(b) + PageSize
        BY <3>1, PageDownIs
      <3>3. ~(PageDown(b) < lo)
        <4>1. PageDown(b) < lo => PageDown(b) + PageSize <= lo
          BY <3>1, PagesApart
        <4> HIDE DEF lo
        <4> QED BY <2>1, <2>2, <3>1, <3>2, <4>1
      <3>4. PageDown(b) < hi => PageDown(b) + PageSize <= hi
        BY <2>1, <3>1, PagesApart
      <3> HIDE DEF lo, hi
      <3> QED BY <2>1, <2>2, <2>3, <3>1, <3>2, <3>3, <3>4
    <2>6. ASSUME NEW y \in lo..(hi - 1)
          PROVE  \E b \in Buffer(addr, size), k \in 0..(PageSize - 1) :
                    y = PageDown(b) + k
      <3> DEFINE x == PageDown(y)
                 b == IF x >= addr THEN x ELSE addr
      <3>1. y \in Nat
        BY <2>2, <2>3
      <3>2. x \in Nat /\ x <= y /\ y < x + PageSize
        BY <3>1, PageDownIs
      <3>3. PICK q \in Int : x = PageSize * q
        BY <3>1, PageDownIs
      <3>4. x < hi => x + PageSize <= hi
        BY <2>1, <3>1, PagesApart
      <3>5. x < lo => x + PageSize <= lo
        BY <3>1, PagesApart
      <3> HIDE DEF x, lo, hi
      <3>6. b \in Nat /\ addr <= b /\ b < addr + size
        BY <2>1, <2>2, <2>3, <3>1, <3>2, <3>4
      <3>7. x <= b /\ b < x + PageSize
        BY <2>1, <2>2, <2>3, <3>1, <3>2, <3>5
      <3>8. PageDown(b) = x
        BY <3>2, <3>3, <3>6, <3>7, PageDownUnique
      <3>9. y = x + (y - x) /\ y - x \in 0..(PageSize - 1)
        BY <2>1, <3>1, <3>2
      <3>10. b \in Buffer(addr, size)
        BY <3>6 DEF Buffer
      <3> HIDE DEF b
      <3> QED BY <3>8, <3>9, <3>10
    <2> HIDE DEF lo, hi
    <2> QED BY <2>4, <2>5, <2>6
  <1>2. ProbesTyped => LockCoversBuffer
    <2> SUFFICES ASSUME ProbesTyped, probe[1] = "memory"
                 PROVE  Locked(probe[2].addr, probe[2].size) =
                          { PageDown(b) + k :
                              b \in Buffer(probe[2].addr, probe[2].size),
                              k \in 0..(PageSize - 1) }
      BY DEF LockCoversBuffer
    <2>1. probe[2] \in Accesses
      BY DEF ProbesTyped, ProbeOf
    <2>2. probe[2].addr \in Nat /\ probe[2].size \in Nat \ {0}
      BY <2>1, InputAssumption
    <2> QED BY <1>1, <2>2
  <1> QED BY <1>2, ProbesAreTyped, PTL

(* write and read stay in the buffer that zeroise clears, for every offset *)
(* inside it (ProtectedMemory.write guards the length, read's caller does).*)
THEOREM AccessesStay == Spec => []AccessesInBuffer
  <1>1. ProbesTyped => AccessesInBuffer
    <2> SUFFICES ASSUME NEW a \in Accesses
                 PROVE  /\ a.len # NoLength =>
                             Written(a.addr, a.size, a.offset, a.len)
                               \subseteq Zeroised(a.addr, a.size)
                        /\ a.offset + a.len <= a.size =>
                             Viewed(a.addr, a.size, a.offset, a.len)
                               \subseteq Zeroised(a.addr, a.size)
      BY DEF ProbesTyped, ProbeOf, AccessesInBuffer
    <2>1. /\ a.addr \in Nat /\ a.size \in Nat /\ a.offset \in Nat
          /\ a.len \in Int /\ a.offset <= a.size /\ a.len >= -1
      BY InputAssumption DEF NoLength
    <2>2. ASSUME a.len # NoLength
          PROVE  Written(a.addr, a.size, a.offset, a.len)
                   \subseteq Zeroised(a.addr, a.size)
      BY <2>1, <2>2 DEF Written, WriteRaises, Zeroised
    <2>3. ASSUME a.offset + a.len <= a.size
          PROVE  Viewed(a.addr, a.size, a.offset, a.len)
                   \subseteq Zeroised(a.addr, a.size)
      <3>1. /\ ReadLength(a.size, a.offset, a.len) \in Int
            /\ a.offset + ReadLength(a.size, a.offset, a.len) <= a.size
        BY <2>1, <2>3 DEF ReadLength
      <3> QED BY <2>1, <3>1 DEF Viewed, Zeroised
    <2> QED BY <2>2, <2>3
  <1> QED BY <1>1, ProbesAreTyped, PTL

-----------------------------------------------------------------------------
(* The two readers of a sealed blob                                        *)

(* What the wrapper passes for a blob that is long enough.                 *)
AbiOf(c) ==
    /\ Abi(c).nonceLen = NonceLen
    /\ Abi(c).ctLen = c.len - SaltLen - NonceLen
    /\ Abi(c).outCap = c.len - SaltLen - NonceLen - TagLen
    /\ Abi(c).outCap <= Abi(c).buffer
    /\ Abi(c).ctLen \in Nat /\ Abi(c).outCap \in Nat /\ TagLen \in Nat
    /\ Abi(c).ctLen >= TagLen

(* A number below the modulus of c_size_t passes unchanged.                *)
LEMMA ModSmall ==
  ASSUME NEW m \in Nat \ {0}, NEW a \in 0..(m - 1)
  PROVE  a % m = a
  OBVIOUS

(* hkdf_aesgcm_open computes them from the blob's length alone.            *)
LEMMA AbiValues ==
  ASSUME NEW c \in OpenCalls, ~WrapperRaises(c)
  PROVE  AbiOf(c)
  <1>1. /\ c.len \in 0..(SizeMax - 1) /\ SaltLen \in Nat /\ NonceLen \in Nat
        /\ TagLen \in Nat /\ SizeMax \in Nat \ {0}
    BY InputAssumption, BlobAssumption DEF Calls
  <1>2. c.len >= SaltLen + NonceLen + TagLen
    BY <1>1 DEF WrapperRaises
  <1> DEFINE cap == c.len - SaltLen - NonceLen - TagLen
  <1>3. cap \in 0..(SizeMax - 1)
    BY <1>1, <1>2
  <1>4. cap % SizeMax = cap
    BY <1>1, <1>3, ModSmall
  <1>5. Minimum(c.len, SaltLen + NonceLen) = SaltLen + NonceLen
    BY <1>1, <1>2 DEF Minimum
  <1>6. Maximum(0, Minimum(c.len, SaltLen + NonceLen) - SaltLen) = NonceLen
    <2>1. SaltLen + NonceLen - SaltLen = NonceLen
      BY <1>1
    <2>2. Maximum(0, NonceLen) = NonceLen
      BY <1>1 DEF Maximum
    <2>3. PICK m : m = Minimum(c.len, SaltLen + NonceLen)
      OBVIOUS
    <2>4. m - SaltLen = NonceLen
      BY <1>1, <1>5, <2>1, <2>3
    <2> QED BY <2>2, <2>3, <2>4
  <1>7. Maximum(0, c.len - SaltLen - NonceLen) = c.len - SaltLen - NonceLen
    <2>1. PICK n : n = c.len - SaltLen - NonceLen
      OBVIOUS
    <2>2. n \in Nat
      BY <1>1, <1>2, <2>1
    <2>3. Maximum(0, n) = n
      BY <2>2 DEF Maximum
    <2> QED BY <2>1, <2>3
  <1>8. Maximum(cap, 1) \in Nat /\ cap <= Maximum(cap, 1)
    BY <1>1, <1>2 DEF Maximum
  <1>9. /\ Abi(c).nonceLen = NonceLen
        /\ Abi(c).ctLen = c.len - SaltLen - NonceLen
        /\ Abi(c).outCap = cap
        /\ Abi(c).buffer = Maximum(cap, 1)
    BY <1>4, <1>6, <1>7 DEF Abi
  <1> QED BY <1>1, <1>2, <1>3, <1>8, <1>9 DEF AbiOf

(* Every length that crosses the C boundary is the buffer's own, so that   *)
(* bmsr_hkdf_aesgcm_open fails for a short key or a failed decryption only.*)
THEOREM AbiTrue == Spec => []BufferAsDeclared
  <1>1. ProbesTyped => BufferAsDeclared
    <2> SUFFICES ASSUME NEW c \in OpenCalls, ~WrapperRaises(c)
                 PROVE  /\ Abi(c).nonceLen = NonceLen
                        /\ Abi(c).outCap <= Abi(c).buffer
                        /\ BmsrOpen(c, Abi(c).nonceLen, Abi(c).ctLen,
                                    Abi(c).outCap)
                             \in {0, E_MASTER_SHORT, E_DECRYPT}
      BY DEF ProbesTyped, ProbeOf, BufferAsDeclared
    <2>1. AbiOf(c)
      BY AbiValues
    <2> QED BY <2>1 DEF AbiOf, BmsrOpen
  <1> QED BY <1>1, ProbesAreTyped, PTL

(* With a full-length master key the Rust and the Python reader open the   *)
(* same blobs, with the same length of plaintext.                          *)
THEOREM SameReaders == Spec => []ReadersAgree
  <1>1. ProbesTyped => ReadersAgree
    <2> SUFFICES ASSUME NEW c \in OpenCalls, c.masterLen >= MasterLen
                 PROVE  /\ HkdfAesgcmOpen(c).ok = AesGcmOpen(c).ok
                        /\ HkdfAesgcmOpen(c).len = AesGcmOpen(c).len
      BY DEF ProbesTyped, ProbeOf, ReadersAgree
    <2>1. CASE WrapperRaises(c)
      BY <2>1 DEF WrapperRaises, HkdfAesgcmOpen, AesGcmOpen, Raises
    <2>2. CASE ~WrapperRaises(c)
      <3>1. AbiOf(c)
        BY <2>2, AbiValues
      <3>2. c.len \in Nat /\ c.masterLen \in Nat
        BY InputAssumption, BlobAssumption DEF Calls
      <3>3. BmsrOpen(c, Abi(c).nonceLen, Abi(c).ctLen, Abi(c).outCap)
              = IF Decrypts(c) THEN 0 ELSE E_DECRYPT
        BY <3>1, <3>2, BlobAssumption DEF AbiOf, BmsrOpen
      <3>4. CASE Decrypts(c)
        <4>1. HkdfAesgcmOpen(c) = Returns(Abi(c).ctLen - TagLen)
          BY <2>2, <3>3, <3>4 DEF HkdfAesgcmOpen
        <4>2. AesGcmOpen(c) = Returns(c.len - SaltLen - NonceLen - TagLen)
          BY <2>2, <3>4 DEF AesGcmOpen, WrapperRaises
        <4>3. Abi(c).ctLen - TagLen = c.len - SaltLen - NonceLen - TagLen
          BY <3>1 DEF AbiOf
        <4> QED BY <4>1, <4>2, <4>3
      <3>5. CASE ~Decrypts(c)
        <4>1. HkdfAesgcmOpen(c) = Raises(E_DECRYPT)
          BY <2>2, <3>3, <3>5 DEF HkdfAesgcmOpen, E_DECRYPT
        <4>2. AesGcmOpen(c) = Raises(InvalidTag)
          BY <2>2, <3>5 DEF AesGcmOpen, WrapperRaises
        <4> QED BY <4>1, <4>2 DEF Raises
      <3> QED BY <3>4, <3>5
    <2> QED BY <2>1, <2>2
  <1> QED BY <1>1, ProbesAreTyped, PTL

-----------------------------------------------------------------------------
(* coarse_band                                                             *)

(* The least-number principle, for a set.                                  *)
LEMMA LeastNatural ==
  ASSUME NEW T, T \subseteq Nat, T # {}
  PROVE  \E x \in T : \A y \in T : x <= y
  <1> DEFINE R == OpToRel(<, Nat)
  <1>1. \E x \in T : \A y \in T : ~(<<y, x>> \in R)
    BY NatLessThanWellFounded, WFMin
  <1>2. \A x, y \in Nat : y < x => <<y, x>> \in R
    BY DEF OpToRel
  <1>3. PICK x \in T : \A y \in T : ~(<<y, x>> \in R)
    BY <1>1
  <1> HIDE DEF R
  <1>4. ASSUME NEW y \in T PROVE x <= y
    <2>1. x \in Nat /\ y \in Nat /\ ~(y < x)
      BY <1>2, <1>3
    <2> QED BY <2>1
  <1> QED BY <1>4

(* The first band at the least distance exists in every list that is not   *)
(* empty, so that Python's min returns it.                                 *)
LEMMA NearestIs ==
  ASSUME NEW bands \in Seq(Nat), bands # << >>, NEW size \in Nat
  PROVE  /\ Nearest(size, bands) \in DOMAIN bands
         /\ \A j \in DOMAIN bands :
              Distance(bands[Nearest(size, bands)], size)
                <= Distance(bands[j], size)
  <1> DEFINE I == 1..Len(bands)
             d(j) == Distance(bands[j], size)
             D == {d(j) : j \in I}
  <1>1. DOMAIN bands = I /\ Len(bands) \in Nat /\ 1 \in I
    BY LenProperties, EmptySeq
  <1>2. \A j \in I : bands[j] \in Nat /\ d(j) \in Nat
    BY ElementOfSeq DEF Distance
  <1>3. PICK m \in D : \A y \in D : m <= y
    <2>1. D \subseteq Nat /\ D # {}
      BY <1>1, <1>2
    <2> HIDE DEF D
    <2> QED BY <2>1, LeastNatural
  <1> DEFINE F == {j \in I : d(j) = m}
  <1>4. PICK i \in F : \A y \in F : i <= y
    <2>1. F \subseteq Nat /\ F # {}
      BY <1>1, <1>3
    <2> HIDE DEF F
    <2> QED BY <2>1, LeastNatural
  <1>5. /\ i \in DOMAIN bands
        /\ \A j \in DOMAIN bands : d(i) <= d(j)
        /\ \A j \in 1..(i - 1) : d(i) # d(j)
    <2>1. i \in I /\ d(i) = m
      BY <1>4
    <2>2. \A j \in I : m <= d(j)
      BY <1>3
    <2>3. ASSUME NEW j \in 1..(i - 1) PROVE d(i) # d(j)
      <3>1. j \in I /\ ~(i <= j)
        BY <1>1, <2>1
      <3> QED BY <1>4, <2>1, <3>1
    <2> HIDE DEF d
    <2> QED BY <1>1, <2>1, <2>2, <2>3
  <1> QED BY <1>5 DEF Nearest

(* The default list is one of ascending bands as well.                     *)
LEMMA DefaultBands ==
  /\ POWER_OF_TWO_BANDS \in Seq(Nat) /\ POWER_OF_TWO_BANDS # << >>
  /\ \A i, j \in DOMAIN POWER_OF_TWO_BANDS :
       i < j => POWER_OF_TWO_BANDS[i] < POWER_OF_TWO_BANDS[j]
  BY DEF POWER_OF_TWO_BANDS

(* Rounding keeps the order of sizes: a larger order never goes out in a   *)
(* smaller band (coarse_band with its zero guard, ties and both ends).     *)
THEOREM BandsMonotone == Spec => []BandOrderKept
  <1>1. ASSUME NEW l \in Seq(Nat), l # << >>,
               \A i, j \in DOMAIN l : i < j => l[i] < l[j],
               NEW s \in Int, NEW t \in Int, s <= t
        PROVE  CoarseBandIn(s, l) <= CoarseBandIn(t, l)
    <2>1. DOMAIN l = 1..Len(l) /\ 1 \in DOMAIN l /\ Len(l) \in Nat
      BY <1>1, LenProperties, EmptySeq
    <2>2. \A i \in DOMAIN l : l[i] \in Nat
      BY <2>1, ElementOfSeq
    <2>3. \A i \in DOMAIN l : l[1] <= l[i]
      BY <1>1, <2>1, <2>2
    <2>4. CASE s <= 0
      <3>1. CASE t <= 0
        BY <2>1, <2>2, <2>4, <3>1 DEF CoarseBandIn
      <3>2. CASE t > 0
        <4>1. Nearest(t, l) \in DOMAIN l
          BY <1>1, <3>2, NearestIs
        <4> QED BY <2>3, <2>4, <3>2, <4>1 DEF CoarseBandIn
      <3> QED BY <3>1, <3>2
    <2>5. CASE s > 0
      <3> DEFINE i == Nearest(s, l)
                 j == Nearest(t, l)
      <3>0. s \in Nat /\ t \in Nat
        BY <1>1, <2>5
      <3>1. /\ i \in DOMAIN l
            /\ \A k \in DOMAIN l : Distance(l[i], s) <= Distance(l[k], s)
        BY <1>1, <3>0, NearestIs
      <3>2. /\ j \in DOMAIN l
            /\ \A k \in DOMAIN l : Distance(l[j], t) <= Distance(l[k], t)
        BY <1>1, <3>0, NearestIs
      <3>3. s = t => i = j
        OBVIOUS
      <3>4. CoarseBandIn(s, l) = l[i] /\ CoarseBandIn(t, l) = l[j]
        BY <1>1, <2>5 DEF CoarseBandIn
      <3>5. ASSUME NEW a \in Nat, NEW b \in Nat, b < a,
                   Distance(a, s) <= Distance(b, s),
                   Distance(b, t) <= Distance(a, t)
            PROVE  s = t
        BY <1>1, <3>5 DEF Distance
      <3> HIDE DEF i, j
      <3>6. /\ l[i] \in Nat /\ l[j] \in Nat
            /\ Distance(l[i], s) <= Distance(l[j], s)
            /\ Distance(l[j], t) <= Distance(l[i], t)
        BY <2>2, <3>1, <3>2
      <3>7. ~(l[j] < l[i])
        BY <3>3, <3>5, <3>6
      <3> QED BY <3>4, <3>6, <3>7
    <2> QED BY <2>4, <2>5
  <1>2. ASSUME NEW bands \in BandLists
        PROVE  /\ BandsUsed(bands) \in Seq(Nat) /\ BandsUsed(bands) # << >>
               /\ \A i, j \in DOMAIN BandsUsed(bands) :
                    i < j => BandsUsed(bands)[i] < BandsUsed(bands)[j]
    BY <1>2, DefaultBands, InputAssumption DEF BandsUsed
  <1>3. ProbesTyped => BandOrderKept
    <2> SUFFICES ASSUME NEW s \in Sizes, NEW bands \in BandLists,
                        NEW t \in Sizes, s <= t
                 PROVE  CoarseBand(s, bands) <= CoarseBand(t, bands)
      BY DEF ProbesTyped, ProbeOf, BandOrderKept
    <2> QED BY <1>1, <1>2, InputAssumption DEF CoarseBand
  <1> QED BY <1>3, ProbesAreTyped, PTL

(* Between the first and the last default band the size on the wire is off *)
(* by at most a third of the size asked for.                               *)
THEOREM BandsClose == Spec => []BandWithinThird
  <1> DEFINE InBands == 2..4096
             Close(s) == 3 * Distance(CoarseBand(s, << >>), s) <= s
  <1>1. ASSUME NEW s \in InBands PROVE Close(s)
    <2> DEFINE l == POWER_OF_TWO_BANDS
               b == l[Nearest(s, l)]
    <2>0. s \in Nat
      OBVIOUS
    <2>1. CoarseBand(s, << >>) = b
      BY DEF CoarseBand, CoarseBandIn, BandsUsed
    <2>2. \A j \in DOMAIN l : Distance(b, s) <= Distance(l[j], s)
      BY <2>0, DefaultBands, NearestIs
    <2>3. b \in Nat
      <3>1. Nearest(s, l) \in DOMAIN l
        BY <2>0, DefaultBands, NearestIs
      <3> QED BY <3>1, DefaultBands, ElementOfSeq
    <2>4. \A j \in 1..12 : Distance(b, s) <= Distance(l[j], s)
      BY <2>2 DEF POWER_OF_TWO_BANDS
    <2>5. /\ l[1] = 2 /\ l[2] = 4 /\ l[3] = 8 /\ l[4] = 16 /\ l[5] = 32
          /\ l[6] = 64 /\ l[7] = 128 /\ l[8] = 256 /\ l[9] = 512
          /\ l[10] = 1024 /\ l[11] = 2048 /\ l[12] = 4096
      BY DEF POWER_OF_TWO_BANDS
    <2>6. /\ \A k \in {2, 4, 8, 16, 32, 64, 128, 256, 512, 1024, 2048, 4096} :
               Distance(b, s) <= Distance(k, s)
      BY <2>4, <2>5
    <2>7. Distance(b, s) \in Nat
      BY <2>3 DEF Distance
    <2> DEFINE d == Distance(b, s)
    <2> HIDE DEF l, b, d
    <2>8. 3 * d <= s
      <3>0. d \in Nat
        BY <2>7 DEF d
      <3>1. /\ d <= Distance(2, s) /\ d <= Distance(4, s) /\ d <= Distance(8, s)
            /\ d <= Distance(16, s) /\ d <= Distance(32, s)
            /\ d <= Distance(64, s) /\ d <= Distance(128, s)
            /\ d <= Distance(256, s) /\ d <= Distance(512, s)
            /\ d <= Distance(1024, s) /\ d <= Distance(2048, s)
            /\ d <= Distance(4096, s)
        BY <2>6 DEF d
      <3>2. s \in 2..4 => 3 * d <= s
        <4>1. d <= Distance(2, s) /\ d <= Distance(4, s)
          BY <3>1
        <4> QED BY <3>0, <4>1 DEF Distance
      <3>3. s \in 4..8 => 3 * d <= s
        <4>1. d <= Distance(4, s) /\ d <= Distance(8, s)
          BY <3>1
        <4> QED BY <3>0, <4>1 DEF Distance
      <3>4. s \in 8..16 => 3 * d <= s
        <4>1. d <= Distance(8, s) /\ d <= Distance(16, s)
          BY <3>1
        <4> QED BY <3>0, <4>1 DEF Distance
      <3>5. s \in 16..32 => 3 * d <= s
        <4>1. d <= Distance(16, s) /\ d <= Distance(32, s)
          BY <3>1
        <4> QED BY <3>0, <4>1 DEF Distance
      <3>6. s \in 32..64 => 3 * d <= s
        <4>1. d <= Distance(32, s) /\ d <= Distance(64, s)
          BY <3>1
        <4> QED BY <3>0, <4>1 DEF Distance
      <3>7. s \in 64..128 => 3 * d <= s
        <4>1. d <= Distance(64, s) /\ d <= Distance(128, s)
          BY <3>1
        <4> QED BY <3>0, <4>1 DEF Distance
      <3>8. s \in 128..256 => 3 * d <= s
        <4>1. d <= Distance(128, s) /\ d <= Distance(256, s)
          BY <3>1
        <4> QED BY <3>0, <4>1 DEF Distance
      <3>9. s \in 256..512 => 3 * d <= s
        <4>1. d <= Distance(256, s) /\ d <= Distance(512, s)
          BY <3>1
        <4> QED BY <3>0, <4>1 DEF Distance
      <3>10. s \in 512..1024 => 3 * d <= s
        <4>1. d <= Distance(512, s) /\ d <= Distance(1024, s)
          BY <3>1
        <4> QED BY <3>0, <4>1 DEF Distance
      <3>11. s \in 1024..2048 => 3 * d <= s
        <4>1. d <= Distance(1024, s) /\ d <= Distance(2048, s)
          BY <3>1
        <4> QED BY <3>0, <4>1 DEF Distance
      <3>12. s \in 2048..4096 => 3 * d <= s
        <4>1. d <= Distance(2048, s) /\ d <= Distance(4096, s)
          BY <3>1
        <4> QED BY <3>0, <4>1 DEF Distance
      <3>13. s \in 2..64 => 3 * d <= s
        BY <3>2, <3>3, <3>4, <3>5, <3>6
      <3>14. s \in 64..4096 => 3 * d <= s
        BY <3>7, <3>8, <3>9, <3>10, <3>11, <3>12
      <3> QED BY <3>13, <3>14
    <2> QED BY <2>1, <2>8 DEF d
  <1> HIDE DEF InBands, Close
  <1>2. BandWithinThird
    <2>1. BandWithinThird <=> (probe[1] = "band" =>
                               (probe[2][1] \in InBands => Close(probe[2][1])))
      BY DEF BandWithinThird, InBands, Close
    <2>2. \A s \in InBands : Close(s)
      BY <1>1
    <2> QED BY <2>1, <2>2
  <1> QED BY <1>2, PTL

-----------------------------------------------------------------------------
(* OrderIntent's encodings                                                 *)

(* The text of an intent before it is taken apart.                         *)
Joined(id, symbol, p1, p2, p3, p4, p5, hash) ==
    id \o symbol \o <<p1>> \o <<p2>> \o <<p3>> \o <<p4>> \o <<p5>> \o hash

(* One more piece at the end of a text.                                    *)
LEMMA PieceAdded ==
  ASSUME NEW s \in Seq(Pieces), NEW p \in Pieces
  PROVE  /\ s \o <<p>> \in Seq(Pieces)
         /\ Len(s \o <<p>>) = Len(s) + 1
         /\ (s \o <<p>>)[Len(s) + 1] = p
         /\ \A k \in 1..Len(s) : (s \o <<p>>)[k] = s[k]
  <1>1. <<p>> \in Seq(Pieces) /\ Len(<<p>>) = 1 /\ <<p>>[1] = p
    OBVIOUS
  <1>2. Len(s) \in Nat
    BY LenProperties
  <1> QED BY <1>1, <1>2, ConcatProperties

(* Where serialize_for_signing puts each piece.                            *)
Layout(t, n, id, symbol, p1, p2, p3, p4, p5, hash) ==
    /\ Len(t) = n + 5 + Len(hash)
    /\ \A k \in 1..Len(id) : t[k] = id[k]
    /\ \A k \in 1..Len(symbol) : t[Len(id) + k] = symbol[k]
    /\ t[n + 1] = p1 /\ t[n + 2] = p2 /\ t[n + 3] = p3
    /\ t[n + 4] = p4 /\ t[n + 5] = p5
    /\ \A k \in 1..Len(hash) : t[n + 5 + k] = hash[k]

(* The text serialize_for_signing returns has that layout.                 *)
LEMMA JoinedPieces ==
  ASSUME NEW id \in Seq(Pieces), NEW symbol \in Seq(Pieces),
         NEW hash \in Seq(Pieces),
         NEW p1 \in Pieces, NEW p2 \in Pieces, NEW p3 \in Pieces,
         NEW p4 \in Pieces, NEW p5 \in Pieces,
         NEW n, n = Len(id) + Len(symbol),
         NEW t, t = Joined(id, symbol, p1, p2, p3, p4, p5, hash)
  PROVE  Layout(t, n, id, symbol, p1, p2, p3, p4, p5, hash)
  <1> DEFINE s0 == id \o symbol
             s1 == s0 \o <<p1>>
             s2 == s1 \o <<p2>>
             s3 == s2 \o <<p3>>
             s4 == s3 \o <<p4>>
             s5 == s4 \o <<p5>>
  <1>0. Len(id) \in Nat /\ Len(symbol) \in Nat /\ Len(hash) \in Nat /\ n \in Nat
    BY LenProperties
  <1>1. /\ s0 \in Seq(Pieces) /\ Len(s0) = n
        /\ \A k \in 1..Len(id) : s0[k] = id[k]
        /\ \A k \in 1..Len(symbol) : s0[Len(id) + k] = symbol[k]
    BY <1>0, ConcatProperties
  <1> HIDE DEF s0
  <1>2. /\ s1 \in Seq(Pieces) /\ Len(s1) = n + 1 /\ s1[n + 1] = p1
        /\ \A k \in 1..n : s1[k] = s0[k]
    BY <1>1, PieceAdded
  <1> HIDE DEF s1
  <1>3. /\ s2 \in Seq(Pieces) /\ Len(s2) = n + 2 /\ s2[n + 2] = p2
        /\ \A k \in 1..(n + 1) : s2[k] = s1[k]
    BY <1>0, <1>2, PieceAdded
  <1> HIDE DEF s2
  <1>4. /\ s3 \in Seq(Pieces) /\ Len(s3) = n + 3 /\ s3[n + 3] = p3
        /\ \A k \in 1..(n + 2) : s3[k] = s2[k]
    BY <1>0, <1>3, PieceAdded
  <1> HIDE DEF s3
  <1>5. /\ s4 \in Seq(Pieces) /\ Len(s4) = n + 4 /\ s4[n + 4] = p4
        /\ \A k \in 1..(n + 3) : s4[k] = s3[k]
    BY <1>0, <1>4, PieceAdded
  <1> HIDE DEF s4
  <1>6. /\ s5 \in Seq(Pieces) /\ Len(s5) = n + 5 /\ s5[n + 5] = p5
        /\ \A k \in 1..(n + 4) : s5[k] = s4[k]
    BY <1>0, <1>5, PieceAdded
  <1> HIDE DEF s5
  <1>7. t = s5 \o hash
    BY DEF Joined, s0, s1, s2, s3, s4, s5
  <1>8. /\ Len(t) = n + 5 + Len(hash)
        /\ \A k \in 1..(n + 5) : t[k] = s5[k]
        /\ \A k \in 1..Len(hash) : t[n + 5 + k] = hash[k]
    <2>1. /\ Len(s5 \o hash) = n + 5 + Len(hash)
          /\ \A k \in 1..(n + 5 + Len(hash)) :
               (s5 \o hash)[k] = IF k <= n + 5 THEN s5[k] ELSE hash[k - (n + 5)]
      <3>1. s5 \in Seq(Pieces) /\ Len(s5) = n + 5
        BY <1>6
      <3>2. /\ Len(s5 \o hash) = Len(s5) + Len(hash)
            /\ \A k \in 1..(Len(s5) + Len(hash)) :
                 (s5 \o hash)[k] =
                   IF k <= Len(s5) THEN s5[k] ELSE hash[k - Len(s5)]
        BY <3>1, ConcatProperties
      <3> QED BY <3>1, <3>2, Zenon
    <2>2. \A k \in 1..(n + 5) : (s5 \o hash)[k] = s5[k]
      BY <1>0, <2>1
    <2>3. ASSUME NEW k \in 1..Len(hash) PROVE (s5 \o hash)[n + 5 + k] = hash[k]
      <3>1. /\ n + 5 + k \in 1..(n + 5 + Len(hash)) /\ ~(n + 5 + k <= n + 5)
            /\ n + 5 + k - (n + 5) = k
        BY <1>0
      <3> QED BY <2>1, <3>1
    <2> QED BY <1>7, <2>1, <2>2, <2>3
  <1>9. /\ \A k \in 1..n : t[k] = s0[k]
        /\ t[n + 1] = p1 /\ t[n + 2] = p2 /\ t[n + 3] = p3
        /\ t[n + 4] = p4 /\ t[n + 5] = p5
    <2>1. \A k \in 1..(n + 4) : t[k] = s4[k]
      BY <1>0, <1>6, <1>8
    <2>2. \A k \in 1..(n + 3) : t[k] = s3[k]
      BY <1>0, <1>5, <2>1
    <2>3. \A k \in 1..(n + 2) : t[k] = s2[k]
      BY <1>0, <1>4, <2>2
    <2>4. \A k \in 1..(n + 1) : t[k] = s1[k]
      BY <1>0, <1>3, <2>3
    <2>5. \A k \in 1..n : t[k] = s0[k]
      BY <1>0, <1>2, <2>4
    <2>6. t[n + 1] = p1
      BY <1>0, <1>2, <2>4
    <2>7. t[n + 2] = p2
      BY <1>0, <1>3, <2>3
    <2>8. t[n + 3] = p3
      BY <1>0, <1>4, <2>2
    <2>9. t[n + 4] = p4
      BY <1>0, <1>5, <2>1
    <2>10. t[n + 5] = p5
      BY <1>0, <1>6, <1>8
    <2> QED BY <2>5, <2>6, <2>7, <2>8, <2>9, <2>10
  <1>10. /\ \A k \in 1..Len(id) : k \in 1..n
         /\ \A k \in 1..Len(symbol) : Len(id) + k \in 1..n
    BY <1>0
  <1> QED BY <1>1, <1>8, <1>9, <1>10 DEF Layout

(* What a number is printed as after json.loads and int: the fraction is   *)
(* lost and with it the point.                                             *)
LEMMA PrintedInt ==
  ASSUME NEW p \in PrintedNumbers
  PROVE  /\ Printed(ToInt(Loads(p))) \in Pieces
         /\ ToInt(Loads(p)).float = FALSE
         /\ ToInt(Loads(p)).value \in Int
         /\ Printed(ToInt(Loads(p))).kind = "integer"
         /\ Printed(ToInt(Loads(p))).value = ToInt(Loads(p)).value
         /\ p.value % 2 = 0 => ToInt(Loads(p)).value = p.value
  <1>1. p.value \in Int /\ Loads(p).value = p.value
    BY DEF Loads, PrintedNumbers
  <1>2. /\ ToInt(Loads(p)).float = FALSE
        /\ ToInt(Loads(p)).value \in Int
        /\ p.value % 2 = 0 => ToInt(Loads(p)).value = p.value
    BY <1>1 DEF ToInt
  <1> QED BY <1>2 DEF Printed, Piece, Pieces

(* ... and after json.loads and float: the value is kept, with a point.    *)
LEMMA PrintedFloat ==
  ASSUME NEW p \in PrintedNumbers
  PROVE  /\ Printed(ToFloat(Loads(p))) \in Pieces
         /\ ToFloat(Loads(p)) = [float |-> TRUE, value |-> p.value]
         /\ Printed(ToFloat(Loads(p))).kind = "decimal"
         /\ Printed(ToFloat(Loads(p))).value = p.value
  <1>1. p.value \in Int
    BY DEF PrintedNumbers
  <1>2. ToFloat(Loads(p)) = [float |-> TRUE, value |-> p.value]
    BY DEF ToFloat, Loads
  <1> QED BY <1>1, <1>2 DEF Printed, Piece, Pieces

(* What a number is printed as before it is sent.                          *)
LEMMA PrintedNumber ==
  ASSUME NEW n \in Numbers
  PROVE  /\ Printed(n) \in PrintedNumbers /\ Printed(n) \in Pieces
         /\ Printed(n).value = n.value
         /\ Printed(n).kind = "decimal" <=> n.float
         /\ Printed(n).kind = "integer" <=> ~n.float
         /\ ~n.float => n.value % 2 = 0
  BY DEF Printed, Piece, PrintedNumbers, Pieces, Numbers

(* An intent, field by field.                                              *)
IntentOf(id, symbol, side, size, stop, target, time, hash, signature) ==
    [intent_id |-> id, symbol |-> symbol, side |-> side, size |-> size,
     stop_price |-> stop, target_price |-> target, timestamp |-> time,
     public_key_hash |-> hash, signature |-> signature]

(* The text that is signed, of an intent given by its fields.              *)
LEMMA SerializeFields ==
  ASSUME NEW id, NEW symbol, NEW side, NEW size, NEW stop, NEW target,
         NEW time, NEW hash, NEW signature
  PROVE  SerializeForSigning(IntentOf(id, symbol, side, size, stop, target,
                                      time, hash, signature))
           = Joined(id, symbol, Printed(side), Printed(size), Printed(stop),
                    Printed(target), Printed(time), hash)
  BY Zenon DEF SerializeForSigning, IntentOf, Joined, Str

(* sign_intent, field by field.                                            *)
LEMMA SignFields ==
  ASSUME NEW b \in OrderIntents
  PROVE  SignIntent(b, KeyHash) =
           IntentOf(b.intent_id, b.symbol, b.side, b.size, b.stop_price,
                    b.target_price, b.timestamp, KeyHash,
                    Joined(b.intent_id, b.symbol, Printed(b.side),
                           Printed(b.size), Printed(b.stop_price),
                           Printed(b.target_price), Printed(b.timestamp),
                           KeyHash))
  <1> DEFINE hashed == [b EXCEPT !.public_key_hash = KeyHash]
             text == Joined(b.intent_id, b.symbol, Printed(b.side),
                            Printed(b.size), Printed(b.stop_price),
                            Printed(b.target_price), Printed(b.timestamp),
                            KeyHash)
  <1>1. hashed = IntentOf(b.intent_id, b.symbol, b.side, b.size, b.stop_price,
                          b.target_price, b.timestamp, KeyHash, b.signature)
    BY DEF OrderIntents, IntentOf
  <1>2. SerializeForSigning(hashed) = text
    BY <1>1, SerializeFields
  <1>3. SignIntent(b, KeyHash) = [hashed EXCEPT !.signature = text]
    BY <1>2 DEF SignIntent
  <1> HIDE DEF text, hashed
  <1>4. [hashed EXCEPT !.signature = text] =
          IntentOf(b.intent_id, b.symbol, b.side, b.size, b.stop_price,
                   b.target_price, b.timestamp, KeyHash, text)
    BY <1>1 DEF IntentOf
  <1> QED BY <1>3, <1>4 DEF text

(* from_dict, field by field.                                              *)
LEMMA FromJsonFields ==
  ASSUME NEW id, NEW symbol, NEW side, NEW size, NEW stop, NEW target,
         NEW time, NEW hash, NEW signature
  PROVE  FromJson(IntentOf(id, symbol, side, size, stop, target, time, hash,
                           signature)) =
           IntentOf(id, symbol, ToInt(Loads(side)), ToFloat(Loads(size)),
                    ToFloat(Loads(stop)), ToFloat(Loads(target)),
                    ToInt(Loads(time)), hash, signature)
  BY Zenon DEF FromJson, IntentOf

(* to_dict and json.dumps, field by field.                                 *)
LEMMA ToJsonFields ==
  ASSUME NEW id, NEW symbol, NEW side, NEW size, NEW stop, NEW target,
         NEW time, NEW hash, NEW signature
  PROVE  ToJson(IntentOf(id, symbol, side, size, stop, target, time, hash,
                         signature)) =
           IntentOf(id, symbol, Printed(side), Printed(size), Printed(stop),
                    Printed(target), Printed(time), hash, signature)
  BY Zenon DEF ToJson, IntentOf

(* A printed number that is read back with int prints the same exactly if  *)
(* it was an int, one that is read back with float exactly if it was one.  *)
LEMMA ReadBack ==
  ASSUME NEW n \in Numbers
  PROVE  /\ Printed(ToInt(Loads(Printed(n)))) = Printed(n) <=> ~n.float
         /\ Printed(ToFloat(Loads(Printed(n)))) = Printed(n) <=> n.float
  <1> DEFINE p == Printed(n)
  <1>1. /\ p \in PrintedNumbers /\ p \in Pieces /\ p.value = n.value
        /\ p.kind = "decimal" <=> n.float
        /\ p.kind = "integer" <=> ~n.float
        /\ ~n.float => p.value % 2 = 0
    BY PrintedNumber
  <1> HIDE DEF p
  <1> DEFINE i == Printed(ToInt(Loads(p)))
             f == Printed(ToFloat(Loads(p)))
  <1>2. i \in Pieces /\ i.kind = "integer" /\ (~n.float => i.value = p.value)
    BY <1>1, PrintedInt
  <1>3. f \in Pieces /\ f.kind = "decimal" /\ f.value = p.value
    BY <1>1, PrintedFloat
  <1> HIDE DEF i, f
  <1>4. i = p <=> ~n.float
    BY <1>1, <1>2 DEF Pieces
  <1>5. f = p <=> n.float
    BY <1>1, <1>3 DEF Pieces
  <1> QED BY <1>4, <1>5 DEF i, f, p

(* Signed, sent as JSON and parsed again, an intent verifies exactly if    *)
(* its numbers have the types OrderIntent declares.                        *)
LEMMA RoundTrip ==
  ASSUME NEW b \in OrderIntents
  PROVE  VerifyIntent(FromJson(ToJson(SignIntent(b, KeyHash)))) <=> AsDeclared(b)
  <1> DEFINE Back(n) == ToInt(Loads(Printed(n)))
             BackF(n) == ToFloat(Loads(Printed(n)))
             Text(p1, p2, p3, p4, p5) ==
               Joined(b.intent_id, b.symbol, p1, p2, p3, p4, p5, KeyHash)
             sent == Text(Printed(b.side), Printed(b.size),
                          Printed(b.stop_price), Printed(b.target_price),
                          Printed(b.timestamp))
             parsed == Text(Printed(Back(b.side)), Printed(BackF(b.size)),
                            Printed(BackF(b.stop_price)),
                            Printed(BackF(b.target_price)),
                            Printed(Back(b.timestamp)))
             received ==
               IntentOf(b.intent_id, b.symbol, Back(b.side), BackF(b.size),
                        BackF(b.stop_price), BackF(b.target_price),
                        Back(b.timestamp), KeyHash, sent)
  <1>1. /\ b.intent_id \in Seq(Pieces) /\ b.symbol \in Seq(Pieces)
        /\ b.side \in Numbers /\ b.size \in Numbers /\ b.stop_price \in Numbers
        /\ b.target_price \in Numbers /\ b.timestamp \in Numbers
        /\ KeyHash \in Seq(Pieces)
    BY InputAssumption DEF OrderIntents, Texts
  <1>2. FromJson(ToJson(SignIntent(b, KeyHash))) = received
    <2>1. SignIntent(b, KeyHash) =
            IntentOf(b.intent_id, b.symbol, b.side, b.size, b.stop_price,
                     b.target_price, b.timestamp, KeyHash, sent)
      BY SignFields
    <2> HIDE DEF sent
    <2>2. ToJson(SignIntent(b, KeyHash)) =
            IntentOf(b.intent_id, b.symbol, Printed(b.side), Printed(b.size),
                     Printed(b.stop_price), Printed(b.target_price),
                     Printed(b.timestamp), KeyHash, sent)
      BY <2>1, ToJsonFields
    <2> QED BY <2>2, FromJsonFields
  <1>3. SerializeForSigning(received) = parsed
    BY SerializeFields
  <1>4. received.signature = sent
    <2> HIDE DEF sent
    <2> QED BY Zenon DEF IntentOf
  <1>5. VerifyIntent(received) <=> sent = parsed
    <2> HIDE DEF sent, parsed, received
    <2> QED BY <1>3, <1>4, Zenon DEF VerifyIntent
  <1>6. sent = parsed <=>
          /\ Printed(Back(b.side)) = Printed(b.side)
          /\ Printed(BackF(b.size)) = Printed(b.size)
          /\ Printed(BackF(b.stop_price)) = Printed(b.stop_price)
          /\ Printed(BackF(b.target_price)) = Printed(b.target_price)
          /\ Printed(Back(b.timestamp)) = Printed(b.timestamp)
    <2>1. ASSUME NEW n \in Numbers
          PROVE  /\ Printed(n) \in Pieces
                 /\ Printed(Back(n)) \in Pieces /\ Printed(BackF(n)) \in Pieces
      BY PrintedNumber, PrintedInt, PrintedFloat
    <2> HIDE DEF Back, BackF
    <2>2. /\ Printed(b.side) \in Pieces /\ Printed(b.size) \in Pieces
          /\ Printed(b.stop_price) \in Pieces
          /\ Printed(b.target_price) \in Pieces
          /\ Printed(b.timestamp) \in Pieces
          /\ Printed(Back(b.side)) \in Pieces /\ Printed(BackF(b.size)) \in Pieces
          /\ Printed(BackF(b.stop_price)) \in Pieces
          /\ Printed(BackF(b.target_price)) \in Pieces
          /\ Printed(Back(b.timestamp)) \in Pieces
      BY <1>1, <2>1
    <2>3. PICK n : n = Len(b.intent_id) + Len(b.symbol)
      OBVIOUS
    <2>4. Layout(sent, n, b.intent_id, b.symbol, Printed(b.side),
                 Printed(b.size), Printed(b.stop_price),
                 Printed(b.target_price), Printed(b.timestamp), KeyHash)
      BY <1>1, <2>2, <2>3, JoinedPieces
    <2>5. Layout(parsed, n, b.intent_id, b.symbol, Printed(Back(b.side)),
                 Printed(BackF(b.size)), Printed(BackF(b.stop_price)),
                 Printed(BackF(b.target_price)), Printed(Back(b.timestamp)),
                 KeyHash)
      BY <1>1, <2>2, <2>3, JoinedPieces
    <2>6. ASSUME sent = parsed
          PROVE  /\ Printed(Back(b.side)) = Printed(b.side)
                 /\ Printed(BackF(b.size)) = Printed(b.size)
                 /\ Printed(BackF(b.stop_price)) = Printed(b.stop_price)
                 /\ Printed(BackF(b.target_price)) = Printed(b.target_price)
                 /\ Printed(Back(b.timestamp)) = Printed(b.timestamp)
      <3> HIDE DEF sent, parsed
      <3> QED BY <2>4, <2>5, <2>6 DEF Layout
    <2> QED BY <2>6
  <1> QED BY <1>1, <1>2, <1>5, <1>6, ReadBack DEF AsDeclared

(* An intent with numbers of the declared types arrives as it was signed:  *)
(* print and parse undo each other on each of its fields.                  *)
LEMMA ReceivedAsSigned ==
  ASSUME NEW b \in OrderIntents, AsDeclared(b)
  PROVE  Received(b) = SignIntent(b, KeyHash)
  <1> DEFINE s == SignIntent(b, KeyHash)
  <1>1. /\ ToInt(Loads(Printed(b.side))) = b.side
        /\ ToFloat(Loads(Printed(b.size))) = b.size
        /\ ToFloat(Loads(Printed(b.stop_price))) = b.stop_price
        /\ ToFloat(Loads(Printed(b.target_price))) = b.target_price
        /\ ToInt(Loads(Printed(b.timestamp))) = b.timestamp
    <2>1. ASSUME NEW n \in Numbers, ~n.float
          PROVE  ToInt(Loads(Printed(n))) = n
      BY <2>1 DEF Numbers, ToInt, Loads, Printed, Piece
    <2>2. ASSUME NEW n \in Numbers, n.float
          PROVE  ToFloat(Loads(Printed(n))) = n
      BY <2>2 DEF Numbers, ToFloat, Loads, Printed, Piece
    <2>3. /\ b.side \in Numbers /\ b.size \in Numbers /\ b.stop_price \in Numbers
          /\ b.target_price \in Numbers /\ b.timestamp \in Numbers
      BY DEF OrderIntents
    <2> QED BY <2>1, <2>2, <2>3 DEF AsDeclared
  <1>2. PICK t : s = IntentOf(b.intent_id, b.symbol, b.side, b.size,
                              b.stop_price, b.target_price, b.timestamp,
                              KeyHash, t)
    BY SignFields
  <1>3. ToJson(s) =
          IntentOf(b.intent_id, b.symbol, Printed(b.side), Printed(b.size),
                   Printed(b.stop_price), Printed(b.target_price),
                   Printed(b.timestamp), KeyHash, t)
    BY <1>2, ToJsonFields
  <1>4. FromJson(ToJson(s)) =
          IntentOf(b.intent_id, b.symbol, ToInt(Loads(Printed(b.side))),
                   ToFloat(Loads(Printed(b.size))),
                   ToFloat(Loads(Printed(b.stop_price))),
                   ToFloat(Loads(Printed(b.target_price))),
                   ToInt(Loads(Printed(b.timestamp))), KeyHash, t)
    BY <1>3, FromJsonFields
  <1> QED BY <1>1, <1>2, <1>4, Zenon DEF Received

(* An intent with numbers of the declared types, sent as JSON and parsed   *)
(* again, is what was signed and verifies: from_dict's coercions change    *)
(* none of its numbers.                                                    *)
THEOREM RoundTripHolds == Spec => []RoundTripVerifies
  <1>1. ProbesTyped => RoundTripVerifies
    <2> SUFFICES ASSUME ProbesTyped, probe[1] = "built", AsDeclared(probe[2])
                 PROVE  /\ Received(probe[2]) = SignIntent(probe[2], KeyHash)
                        /\ VerifyIntent(Received(probe[2]))
      BY DEF RoundTripVerifies
    <2>1. probe[2] \in OrderIntents
      BY InputAssumption DEF ProbesTyped, ProbeOf
    <2>2. Received(probe[2]) = SignIntent(probe[2], KeyHash)
      BY <2>1, ReceivedAsSigned
    <2>3. VerifyIntent(Received(probe[2]))
      BY <2>1, RoundTrip DEF Received
    <2> QED BY <2>2, <2>3
  <1> QED BY <1>1, ProbesAreTyped, PTL

(* What int and float may return, halves included.                         *)
AnyNumbers == [float : BOOLEAN, value : Int]

(* Two numbers that print the same are the same.                           *)
LEMMA PrintedOnce ==
  ASSUME NEW m \in AnyNumbers,
         NEW n \in AnyNumbers, Printed(m) = Printed(n)
  PROVE  m = n
  <1>1. m.value = n.value
    BY DEF Printed, Piece, AnyNumbers
  <1>2. (IF m.float THEN "decimal" ELSE "integer")
          = (IF n.float THEN "decimal" ELSE "integer")
    BY DEF Printed, Piece, AnyNumbers
  <1>3. m.float = n.float
    BY <1>2 DEF AnyNumbers
  <1> QED BY <1>1, <1>3 DEF AnyNumbers

(* Two texts of one piece are the same if the piece is.                    *)
LEMMA OnePieceTexts ==
  ASSUME NEW s \in Seq(Pieces), NEW t \in Seq(Pieces),
         Len(s) = 1, Len(t) = 1, s[1] = t[1]
  PROVE  s = t
  <1>1. \A k \in 1..Len(s) : s[k] = t[k]
    OBVIOUS
  <1> QED BY <1>1, SeqEqual

(* A received intent that verifies under the signature of one whose texts  *)
(* hold no pipe is that intent: the text has eight pieces, each of the     *)
(* eight fields has one at least, so each has one and is the signed one.   *)
LEMMA OrderFixed ==
  ASSUME NEW b \in OrderIntents, NEW d \in Documents,
         NEW signed, signed = SignIntent(b, KeyHash),
         NEW received,
         received = FromJson([d EXCEPT !.signature = signed.signature]),
         NoPipe(signed), VerifyIntent(received)
  PROVE  received = signed
  <1> DEFINE side == ToInt(Loads(d.side))
             size == ToFloat(Loads(d.size))
             stop == ToFloat(Loads(d.stop_price))
             target == ToFloat(Loads(d.target_price))
             time == ToInt(Loads(d.timestamp))
  <1>1. PICK t : t = Joined(b.intent_id, b.symbol, Printed(b.side),
                            Printed(b.size), Printed(b.stop_price),
                            Printed(b.target_price), Printed(b.timestamp),
                            KeyHash)
    OBVIOUS
  <1>2. signed = IntentOf(b.intent_id, b.symbol, b.side, b.size, b.stop_price,
                          b.target_price, b.timestamp, KeyHash, t)
    BY <1>1, SignFields
  <1>3. /\ signed.signature = t /\ signed.intent_id = b.intent_id
        /\ signed.symbol = b.symbol /\ signed.public_key_hash = KeyHash
    BY <1>2 DEF IntentOf
  <1>4. received = IntentOf(d.intent_id, d.symbol, side, size, stop, target,
                            time, d.public_key_hash, t)
    <2>1. [d EXCEPT !.signature = t] =
            IntentOf(d.intent_id, d.symbol, d.side, d.size, d.stop_price,
                     d.target_price, d.timestamp, d.public_key_hash, t)
      BY DEF Documents, IntentOf
    <2> QED BY <1>3, <2>1, FromJsonFields
  <1>5. t = Joined(d.intent_id, d.symbol, Printed(side), Printed(size),
                   Printed(stop), Printed(target), Printed(time),
                   d.public_key_hash)
    <2> HIDE DEF side, size, stop, target, time
    <2>1. received.signature = t
      BY <1>4 DEF IntentOf
    <2> QED BY <1>4, <2>1, SerializeFields DEF VerifyIntent
  <1>6. /\ b.intent_id \in Seq(Pieces) /\ b.symbol \in Seq(Pieces)
        /\ KeyHash \in Seq(Pieces)
        /\ b.side \in Numbers /\ b.size \in Numbers /\ b.stop_price \in Numbers
        /\ b.target_price \in Numbers /\ b.timestamp \in Numbers
    BY InputAssumption DEF OrderIntents, Texts
  <1>7. /\ d.intent_id \in Texts /\ d.symbol \in Texts
        /\ d.public_key_hash \in Texts
        /\ d.side \in PrintedNumbers /\ d.size \in PrintedNumbers
        /\ d.stop_price \in PrintedNumbers /\ d.target_price \in PrintedNumbers
        /\ d.timestamp \in PrintedNumbers
    BY DEF Documents
  <1>8. /\ Len(b.intent_id) = 1 /\ Len(b.symbol) = 1 /\ Len(KeyHash) = 1
    BY <1>3 DEF NoPipe
  <1>9. /\ Printed(b.side) \in Pieces /\ Printed(b.size) \in Pieces
        /\ Printed(b.stop_price) \in Pieces /\ Printed(b.target_price) \in Pieces
        /\ Printed(b.timestamp) \in Pieces
    BY <1>6, PrintedNumber
  <1>10. /\ Printed(side) \in Pieces /\ Printed(size) \in Pieces
         /\ Printed(stop) \in Pieces /\ Printed(target) \in Pieces
         /\ Printed(time) \in Pieces
    BY <1>7, PrintedInt, PrintedFloat
  <1>11. ASSUME NEW n \in Numbers PROVE n \in AnyNumbers
    BY DEF Numbers, AnyNumbers
  <1>12. ASSUME NEW p \in PrintedNumbers
         PROVE  /\ ToInt(Loads(p)) \in AnyNumbers
                /\ ToFloat(Loads(p)) \in AnyNumbers
    <2>1. p.value \in Int /\ Loads(p).value = p.value
      BY DEF Loads, PrintedNumbers
    <2> QED BY <2>1 DEF ToInt, ToFloat, AnyNumbers
  <1>13. /\ side \in AnyNumbers
         /\ size \in AnyNumbers
         /\ stop \in AnyNumbers
         /\ target \in AnyNumbers
         /\ time \in AnyNumbers
    BY <1>7, <1>12
  <1> HIDE DEF side, size, stop, target, time
  <1>14. /\ d.intent_id \in Seq(Pieces) /\ d.symbol \in Seq(Pieces)
         /\ d.public_key_hash \in Seq(Pieces)
         /\ Len(d.intent_id) \in Nat \ {0} /\ Len(d.symbol) \in Nat \ {0}
         /\ Len(d.public_key_hash) \in Nat \ {0}
    <2>1. ASSUME NEW s \in Texts PROVE s \in Seq(Pieces) /\ Len(s) \in Nat \ {0}
      BY EmptySeq, LenProperties DEF Texts
    <2> QED BY <1>7, <2>1
  <1>15. PICK n : n = Len(b.intent_id) + Len(b.symbol)
    OBVIOUS
  <1>16. Layout(t, n, b.intent_id, b.symbol, Printed(b.side), Printed(b.size),
                Printed(b.stop_price), Printed(b.target_price),
                Printed(b.timestamp), KeyHash)
    BY <1>1, <1>6, <1>9, <1>15, JoinedPieces
  <1>17. PICK m : m = Len(d.intent_id) + Len(d.symbol)
    OBVIOUS
  <1>18. Layout(t, m, d.intent_id, d.symbol, Printed(side), Printed(size),
                Printed(stop), Printed(target), Printed(time),
                d.public_key_hash)
    BY <1>5, <1>10, <1>14, <1>17, JoinedPieces
  <1>19. /\ Len(d.intent_id) = 1 /\ Len(d.symbol) = 1
         /\ Len(d.public_key_hash) = 1 /\ m = 2 /\ n = 2
    <2>1. Len(t) = n + 5 + 1 /\ n = 2
      BY <1>8, <1>15, <1>16 DEF Layout
    <2>2. Len(t) = m + 5 + Len(d.public_key_hash)
      BY <1>18 DEF Layout
    <2>3. m + 5 + Len(d.public_key_hash) = 8
      <3>1. n + 5 + 1 = 8
        BY <2>1
      <3> QED BY <2>1, <2>2, <3>1, Zenon
    <2>4. ASSUME NEW i \in Nat \ {0}, NEW j \in Nat \ {0}, NEW k \in Nat \ {0},
                 (i + j) + 5 + k = 8
          PROVE  i = 1 /\ j = 1 /\ k = 1
      BY <2>4
    <2>5. Len(d.intent_id) = 1 /\ Len(d.symbol) = 1 /\ Len(d.public_key_hash) = 1
      BY <1>14, <1>17, <2>3, <2>4
    <2> QED BY <1>17, <2>1, <2>5
  <1>20. /\ t[1] = b.intent_id[1] /\ t[2] = b.symbol[1] /\ t[8] = KeyHash[1]
         /\ t[3] = Printed(b.side) /\ t[4] = Printed(b.size)
         /\ t[5] = Printed(b.stop_price) /\ t[6] = Printed(b.target_price)
         /\ t[7] = Printed(b.timestamp)
    BY <1>8, <1>16, <1>19 DEF Layout
  <1>21. /\ t[1] = d.intent_id[1] /\ t[2] = d.symbol[1]
         /\ t[8] = d.public_key_hash[1]
         /\ t[3] = Printed(side) /\ t[4] = Printed(size) /\ t[5] = Printed(stop)
         /\ t[6] = Printed(target) /\ t[7] = Printed(time)
    BY <1>18, <1>19 DEF Layout
  <1>22. /\ d.intent_id = b.intent_id /\ d.symbol = b.symbol
         /\ d.public_key_hash = KeyHash
    <2>1. /\ d.intent_id[1] = b.intent_id[1] /\ d.symbol[1] = b.symbol[1]
          /\ d.public_key_hash[1] = KeyHash[1]
      BY <1>20, <1>21, Zenon
    <2>2. d.intent_id = b.intent_id
      BY <1>6, <1>8, <1>14, <1>19, <2>1, OnePieceTexts
    <2>3. d.symbol = b.symbol
      BY <1>6, <1>8, <1>14, <1>19, <2>1, OnePieceTexts
    <2>4. d.public_key_hash = KeyHash
      BY <1>6, <1>8, <1>14, <1>19, <2>1, OnePieceTexts
    <2> QED BY <2>2, <2>3, <2>4
  <1>23. /\ side = b.side /\ size = b.size /\ stop = b.stop_price
         /\ target = b.target_price /\ time = b.timestamp
    <2>1. /\ b.side \in AnyNumbers
          /\ b.size \in AnyNumbers
          /\ b.stop_price \in AnyNumbers
          /\ b.target_price \in AnyNumbers
          /\ b.timestamp \in AnyNumbers
      BY <1>6, <1>11
    <2>2. /\ Printed(side) = Printed(b.side) /\ Printed(size) = Printed(b.size)
          /\ Printed(stop) = Printed(b.stop_price)
          /\ Printed(target) = Printed(b.target_price)
          /\ Printed(time) = Printed(b.timestamp)
      BY <1>20, <1>21
    <2>3. side = b.side
      BY <1>13, <2>1, <2>2, PrintedOnce
    <2>4. size = b.size
      BY <1>13, <2>1, <2>2, PrintedOnce
    <2>5. stop = b.stop_price
      BY <1>13, <2>1, <2>2, PrintedOnce
    <2>6. target = b.target_price
      BY <1>13, <2>1, <2>2, PrintedOnce
    <2>7. time = b.timestamp
      BY <1>13, <2>1, <2>2, PrintedOnce
    <2> QED BY <2>3, <2>4, <2>5, <2>6, <2>7
  <1> QED BY <1>2, <1>4, <1>22, <1>23

(* No document with other fields verifies under the signature of an intent *)
(* whose texts hold no pipe, wherever its own texts hold pipes: what       *)
(* verify_intent accepts under that signature is the order that was signed.*)
THEOREM SignatureFixes == Spec => []SignatureFixesOrder
  <1>1. ProbesTyped => SignatureFixesOrder
    <2> SUFFICES ASSUME ProbesTyped, probe[1] = "wire", NEW b \in BuiltIntents,
                        NEW signed, signed = SignIntent(b, KeyHash),
                        NEW received,
                        received = FromJson([probe[2] EXCEPT
                                               !.signature = signed.signature]),
                        NoPipe(signed), VerifyIntent(received)
                 PROVE  received = signed
      BY Zenon DEF SignatureFixesOrder
    <2>1. probe[2] \in Documents /\ b \in OrderIntents
      BY InputAssumption DEF ProbesTyped, ProbeOf
    <2> QED BY <2>1, OrderFixed
  <1> QED BY <1>1, ProbesAreTyped, PTL

-----------------------------------------------------------------------------
(* SnpVerifier's TCB floor                                                 *)

(* Induction from N + 1 down to 1.                                         *)
LEMMA Downward ==
  ASSUME NEW N \in Nat, NEW T, T \subseteq 1..(N + 1), N + 1 \in T,
         \A i \in 1..N : i + 1 \in T => i \in T
  PROVE  \A i \in 1..(N + 1) : i \in T
  <1> SUFFICES ASSUME NEW z \in 1..(N + 1), z \notin T
               PROVE  FALSE
    OBVIOUS
  <1> DEFINE U == {n \in Nat : n <= N + 1 /\ N + 1 - n >= 1 /\ N + 1 - n \notin T}
  <1>1. U \subseteq Nat /\ N + 1 - z \in U
    <2>1. N + 1 - z \in Nat /\ N + 1 - (N + 1 - z) = z /\ N + 1 - z <= N + 1
      OBVIOUS
    <2> QED BY <2>1
  <1>2. PICK m \in U : \A y \in U : m <= y
    <2> HIDE DEF U
    <2> QED BY <1>1, LeastNatural
  <1>3. m \in Nat /\ N + 1 - m \in 1..(N + 1) /\ N + 1 - m \notin T
    OBVIOUS
  <1>4. m # 0
    BY <1>3
  <1>5. N + 1 - m \in 1..N /\ m - 1 \in Nat /\ (N + 1 - m) + 1 = N + 1 - (m - 1)
    BY <1>3, <1>4
  <1>6. (N + 1 - m) + 1 \notin T
    BY <1>3, <1>5
  <1>7. m - 1 \in U
    BY <1>5, <1>6
  <1> QED BY <1>2, <1>3, <1>7

(* The integer the bytes from the i-th on are read as.                     *)
Reads(f, bytes) ==
    f = [i \in 1..(TcbBytes + 1) |->
           IF i > TcbBytes THEN 0 ELSE bytes[i] + TcbBase * f[i + 1]]

(* The function that unpack computes from the last byte to the first       *)
(* exists, so ParseReportedTcb is its value at the first.                  *)
LEMMA ParseIs ==
  ASSUME NEW bytes
  PROVE  \E f : Reads(f, bytes) /\ ParseReportedTcb(bytes) = f[1]
  <1> DEFINE Body(f, i) ==
               IF i > TcbBytes THEN 0 ELSE bytes[i] + TcbBase * f[i + 1]
             T == {i \in 1..(TcbBytes + 1) :
                     \E f : \A j \in i..(TcbBytes + 1) : f[j] = Body(f, j)}
  <1>0. TcbBytes \in Nat
    BY TcbAssumption
  <1>1. TcbBytes + 1 \in T
    <2> DEFINE g == [j \in {TcbBytes + 1} |-> 0]
    <2>1. \A j \in (TcbBytes + 1)..(TcbBytes + 1) : g[j] = Body(g, j)
      BY <1>0
    <2>2. TcbBytes + 1 \in 1..(TcbBytes + 1)
      BY <1>0
    <2> HIDE DEF g, Body
    <2> QED BY <2>1, <2>2
  <1>2. ASSUME NEW i \in 1..TcbBytes, i + 1 \in T PROVE i \in T
    <2>1. PICK f : \A j \in (i + 1)..(TcbBytes + 1) : f[j] = Body(f, j)
      BY <1>2
    <2> DEFINE g == [j \in 1..(TcbBytes + 1) |-> IF j = i THEN Body(f, i) ELSE f[j]]
    <2>2. ASSUME NEW j \in i..(TcbBytes + 1) PROVE g[j] = Body(g, j)
      <3>1. CASE j = i
        BY <1>0, <3>1
      <3>2. CASE j > i /\ j <= TcbBytes
        BY <1>0, <2>1, <3>2
      <3>3. CASE j = TcbBytes + 1
        BY <1>0, <2>1, <3>3
      <3> QED BY <1>0, <3>1, <3>2, <3>3
    <2> HIDE DEF g, Body
    <2>3. i \in 1..(TcbBytes + 1)
      BY <1>0
    <2> QED BY <2>2, <2>3
  <1>3. 1 \in T
    <2>1. T \subseteq 1..(TcbBytes + 1) /\ 1 \in 1..(TcbBytes + 1)
      BY <1>0
    <2> HIDE DEF T
    <2> QED BY <1>0, <1>1, <1>2, <2>1, Downward
  <1>4. PICK f : \A j \in 1..(TcbBytes + 1) : f[j] = Body(f, j)
    BY <1>3
  <1> DEFINE g == [j \in 1..(TcbBytes + 1) |-> f[j]]
  <1>5. Reads(g, bytes)
    <2>1. ASSUME NEW j \in 1..(TcbBytes + 1) PROVE f[j] = Body(g, j)
      BY <1>0, <1>4
    <2> QED BY <2>1 DEF Reads
  <1> DEFINE from[i \in 1..(TcbBytes + 1)] ==
               IF i > TcbBytes THEN 0 ELSE bytes[i] + TcbBase * from[i + 1]
  <1>6. Reads(from, bytes)
    <2> HIDE DEF g
    <2> QED BY <1>5, Zenon DEF Reads
  <1>7. ParseReportedTcb(bytes) = from[1]
    BY Zenon DEF ParseReportedTcb
  <1> QED BY <1>6, <1>7

(* Two TCBs read from the i-th byte on are equal exactly if those bytes    *)
(* are, and the first is lower exactly if it is at the last byte where     *)
(* they differ.                                                            *)
Ordered(f, g, a, b, i) ==
    /\ f[i] \in Nat /\ g[i] \in Nat
    /\ f[i] = g[i] <=> \A j \in i..TcbBytes : a[j] = b[j]
    /\ f[i] < g[i] <=> \E k \in i..TcbBytes :
                         /\ a[k] < b[k]
                         /\ \A j \in (k + 1)..TcbBytes : a[j] = b[j]

(* How one byte more decides: the bytes above it first.                    *)
LEMMA OneByteMore ==
  ASSUME NEW x \in 0..(TcbBase - 1), NEW y \in 0..(TcbBase - 1),
         NEW m \in Nat, NEW n \in Nat
  PROVE  /\ x + TcbBase * m \in Nat
         /\ x + TcbBase * m = y + TcbBase * n <=> x = y /\ m = n
         /\ x + TcbBase * m < y + TcbBase * n <=> m < n \/ (m = n /\ x < y)
  <1>1. TcbBase \in Nat \ {0}
    BY TcbAssumption
  <1>2. TcbBase * m \in Nat /\ TcbBase * n \in Nat
    BY <1>1
  <1>3. CASE m = n
    BY <1>1, <1>2, <1>3
  <1>4. ASSUME NEW p \in Nat, NEW q \in Nat, p < q
        PROVE  TcbBase * p + TcbBase <= TcbBase * q
    <2>1. q - p >= 1 /\ q - p \in Nat
      BY <1>4
    <2>2. TcbBase * (q - p) >= TcbBase
      BY <1>1, <2>1
    <2>3. TcbBase * (q - p) = TcbBase * q - TcbBase * p
      BY <1>1
    <2>4. TcbBase * p \in Nat /\ TcbBase * q \in Nat
      BY <1>1
    <2> QED BY <1>1, <2>2, <2>3, <2>4
  <1>5. CASE m < n
    <2>1. TcbBase * m + TcbBase <= TcbBase * n
      BY <1>4, <1>5
    <2> QED BY <1>1, <1>2, <1>5, <2>1
  <1>6. CASE n < m
    <2>1. TcbBase * n + TcbBase <= TcbBase * m
      BY <1>4, <1>6
    <2> QED BY <1>1, <1>2, <1>6, <2>1
  <1> QED BY <1>3, <1>5, <1>6

(* Little-endian integers are ordered by their last differing byte.        *)
LEMMA OrderedFrom ==
  ASSUME NEW a \in Tcb, NEW b \in Tcb, NEW f, NEW g, Reads(f, a), Reads(g, b)
  PROVE  Ordered(f, g, a, b, 1)
  <1> DEFINE T == {i \in 1..(TcbBytes + 1) : Ordered(f, g, a, b, i)}
  <1>0. TcbBytes \in Nat
    BY TcbAssumption
  <1>1. TcbBytes + 1 \in T
    <2>1. f[TcbBytes + 1] = 0 /\ g[TcbBytes + 1] = 0
      BY <1>0 DEF Reads
    <2>2. (TcbBytes + 1)..TcbBytes = {}
      BY <1>0
    <2>3. Ordered(f, g, a, b, TcbBytes + 1)
      BY <2>1, <2>2 DEF Ordered
    <2> QED BY <1>0, <2>3
  <1>2. ASSUME NEW i \in 1..TcbBytes, i + 1 \in T PROVE i \in T
    <2>1. /\ f[i] = a[i] + TcbBase * f[i + 1]
          /\ g[i] = b[i] + TcbBase * g[i + 1]
      BY <1>0 DEF Reads
    <2>2. Ordered(f, g, a, b, i + 1)
      BY <1>2
    <2>3. f[i + 1] \in Nat /\ g[i + 1] \in Nat
      BY <2>2 DEF Ordered
    <2>4. a[i] \in 0..(TcbBase - 1) /\ b[i] \in 0..(TcbBase - 1)
      BY DEF Tcb
    <2>5. /\ f[i] \in Nat /\ g[i] \in Nat
          /\ f[i] = g[i] <=> a[i] = b[i] /\ f[i + 1] = g[i + 1]
          /\ f[i] < g[i] <=>
               f[i + 1] < g[i + 1] \/ (f[i + 1] = g[i + 1] /\ a[i] < b[i])
      <3> HIDE DEF T
      <3> QED BY <2>1, <2>3, <2>4, OneByteMore
    <2>6. i..TcbBytes = {i} \cup ((i + 1)..TcbBytes)
      BY <1>0
    <2>7. f[i] = g[i] <=> \A j \in i..TcbBytes : a[j] = b[j]
      BY <2>2, <2>5, <2>6, Zenon DEF Ordered
    <2>8. f[i] < g[i] <=> \E k \in i..TcbBytes :
                            /\ a[k] < b[k]
                            /\ \A j \in (k + 1)..TcbBytes : a[j] = b[j]
      BY <2>2, <2>5, <2>6, Zenon DEF Ordered
    <2>9. Ordered(f, g, a, b, i)
      BY <2>5, <2>7, <2>8 DEF Ordered
    <2>10. i \in 1..(TcbBytes + 1)
      BY <1>0
    <2> QED BY <2>9, <2>10
  <1>3. 1 \in T
    <2>1. T \subseteq 1..(TcbBytes + 1) /\ 1 \in 1..(TcbBytes + 1)
      BY <1>0
    <2> HIDE DEF T
    <2> QED BY <1>0, <1>1, <1>2, <2>1, Downward
  <1> QED BY <1>3

(* What the packed comparison decides: the last byte where two TCBs        *)
(* differ.  (So a later component outweighs every earlier one.)            *)
LEMMA PackedOrder ==
  ASSUME NEW a \in Tcb, NEW b \in Tcb
  PROVE  /\ ParseReportedTcb(a) \in Nat /\ ParseReportedTcb(b) \in Nat
         /\ ParseReportedTcb(a) = ParseReportedTcb(b) <=>
              \A j \in 1..TcbBytes : a[j] = b[j]
         /\ ParseReportedTcb(a) < ParseReportedTcb(b) <=>
              \E i \in 1..TcbBytes :
                /\ a[i] < b[i]
                /\ \A j \in (i + 1)..TcbBytes : a[j] = b[j]
  <1>1. PICK f : Reads(f, a) /\ ParseReportedTcb(a) = f[1]
    BY ParseIs
  <1>2. PICK g : Reads(g, b) /\ ParseReportedTcb(b) = g[1]
    BY ParseIs
  <1>3. Ordered(f, g, a, b, 1)
    BY <1>1, <1>2, OrderedFrom
  <1> QED BY <1>1, <1>2, <1>3, Zenon DEF Ordered

(* No byte lower, no lower integer.                                        *)
LEMMA NotOlderNotLower ==
  ASSUME NEW a \in Tcb, NEW b \in Tcb, NotOlder(a, b)
  PROVE  ParseReportedTcb(a) >= ParseReportedTcb(b)
  <1>1. \A i \in 1..TcbBytes : a[i] \in Int /\ b[i] \in Int
    BY DEF Tcb
  <1>2. ~ \E i \in 1..TcbBytes : a[i] < b[i]
    BY <1>1 DEF NotOlder
  <1>3. ~(ParseReportedTcb(a) < ParseReportedTcb(b))
    BY <1>2, PackedOrder
  <1> QED BY <1>3, PackedOrder

(* For any number of bytes of any size the TCB check lets in whatever is   *)
(* at the floor in every component, keeps letting in what is updated, and  *)
(* keeps out what has only gone back.                                      *)
THEOREM FloorHolds == Spec => []FloorMonotone
  <1>1. ASSUME NEW a \in Tcb, NEW b \in Tcb
        PROVE  /\ NotOlder(a, b) => TcbAccepted(a, b)
               /\ TcbAccepted(a, b) =>
                    \A u \in Tcb : NotOlder(u, a) => TcbAccepted(u, b)
               /\ TcbAccepted(a, b) /\ NotOlder(b, a) => a = b
    <2>1. \A u \in Tcb : ParseReportedTcb(u) \in Nat
      BY PackedOrder
    <2>2. NotOlder(a, b) => TcbAccepted(a, b)
      BY <2>1, NotOlderNotLower DEF TcbAccepted
    <2>3. ASSUME TcbAccepted(a, b), NEW u \in Tcb, NotOlder(u, a)
          PROVE  TcbAccepted(u, b)
      <3>1. ParseReportedTcb(u) >= ParseReportedTcb(a)
        BY <2>3, NotOlderNotLower
      <3> QED BY <2>1, <2>3, <3>1 DEF TcbAccepted
    <2>4. ASSUME TcbAccepted(a, b), NotOlder(b, a)
          PROVE  a = b
      <3>1. ParseReportedTcb(b) >= ParseReportedTcb(a)
        BY <2>4, NotOlderNotLower
      <3>2. ParseReportedTcb(a) = ParseReportedTcb(b)
        BY <2>1, <2>4, <3>1 DEF TcbAccepted
      <3>3. \A j \in 1..TcbBytes : a[j] = b[j]
        BY <3>2, PackedOrder
      <3>4. /\ a = [j \in 1..TcbBytes |-> a[j]]
            /\ b = [j \in 1..TcbBytes |-> b[j]]
        BY DEF Tcb
      <3>5. [j \in 1..TcbBytes |-> a[j]] = [j \in 1..TcbBytes |-> b[j]]
        BY <3>3, Zenon
      <3> QED BY <3>4, <3>5, Zenon
    <2> QED BY <2>2, <2>3, <2>4
  <1>2. ProbesTyped => FloorMonotone
    <2>1. ProbesTyped /\ probe[1] = "tcb"
            => probe[2][1] \in Tcb /\ probe[2][2] \in Tcb
      BY InputAssumption DEF ProbesTyped, ProbeOf
    <2> QED BY <1>1, <2>1, Zenon DEF FloorMonotone
  <1> QED BY <1>2, ProbesAreTyped, PTL
=============================================================================
