--------------------------- MODULE FramingProofs ---------------------------
(***************************************************************************)
(* Theorems about frame, unframe and hybrid_verify of hybrid.py, for any   *)
(* length of header, any base and any byte strings.  Induction is by least *)
(* counterexample: of the set of indices a fact holds for.                 *)
(***************************************************************************)
EXTENDS AlgorithmsProofs

(* Induction from 0 up to N.                                               *)
LEMMA UpTo ==
  ASSUME NEW N \in Nat, NEW T, T \subseteq 0..N, 0 \in T,
         \A i \in 1..N : i - 1 \in T => i \in T
  PROVE  \A i \in 0..N : i \in T
  <1> SUFFICES ASSUME NEW z \in 0..N, z \notin T
               PROVE  FALSE
    OBVIOUS
  <1> DEFINE U == {n \in 0..N : n \notin T}
  <1>1. U \subseteq Nat /\ z \in U
    OBVIOUS
  <1>2. PICK m \in U : \A y \in U : m <= y
    <2> HIDE DEF U
    <2> QED BY <1>1, LeastNatural
  <1>3. m \in 1..N /\ m - 1 \in 0..N
    OBVIOUS
  <1>4. m - 1 \notin T
    BY <1>3
  <1>5. m - 1 \in U
    BY <1>3, <1>4
  <1> QED BY <1>2, <1>3, <1>5

(* Induction from N down to 0.                                             *)
LEMMA DownTo ==
  ASSUME NEW N \in Nat, NEW T, T \subseteq 0..N, N \in T,
         \A i \in 0..(N - 1) : i + 1 \in T => i \in T
  PROVE  \A i \in 0..N : i \in T
  <1> DEFINE S == {i \in 0..N : N - i \in T}
  <1>1. S \subseteq 0..N /\ 0 \in S
    OBVIOUS
  <1>2. ASSUME NEW i \in 1..N, i - 1 \in S PROVE i \in S
    <2>1. N - i \in 0..(N - 1) /\ (N - i) + 1 = N - (i - 1)
      OBVIOUS
    <2>2. (N - i) + 1 \in T
      BY <1>2, <2>1
    <2> QED BY <2>1, <2>2
  <1>3. \A i \in 0..N : i \in S
    <2> HIDE DEF S
    <2> QED BY <1>1, <1>2, UpTo
  <1>4. ASSUME NEW i \in 0..N PROVE i \in T
    <2>1. N - i \in 0..N /\ N - (N - i) = i
      OBVIOUS
    <2> QED BY <1>3, <2>1
  <1> QED BY <1>4

-----------------------------------------------------------------------------
(* struct.pack and struct.unpack                                           *)

Powers(f) ==
    f = [i \in 0..HeaderLen |-> IF i = 0 THEN 1 ELSE ByteBase * f[i - 1]]

Leads(f, n) ==
    f = [i \in 0..HeaderLen |->
           IF i = HeaderLen THEN n ELSE f[i + 1] \div ByteBase]

Counts(f, header) ==
    f = [i \in 0..Len(header) |->
           IF i = 0 THEN 0 ELSE ByteBase * f[i - 1] + header[i]]

(* The product that bounds a header exists.                                *)
LEMMA LimitIs == \E f : Powers(f) /\ Limit = f[HeaderLen]
  <1> DEFINE Body(f, i) == IF i = 0 THEN 1 ELSE ByteBase * f[i - 1]
             T == {i \in 0..HeaderLen :
                     \E f : \A j \in 0..i : f[j] = Body(f, j)}
  <1>0. HeaderLen \in Nat
    BY FramingAssumption
  <1>1. 0 \in T
    <2> DEFINE g == [j \in {0} |-> 1]
    <2>1. \A j \in 0..0 : g[j] = Body(g, j)
      OBVIOUS
    <2>2. 0 \in 0..HeaderLen
      BY <1>0
    <2> HIDE DEF g, Body
    <2> QED BY <2>1, <2>2
  <1>2. ASSUME NEW i \in 1..HeaderLen, i - 1 \in T PROVE i \in T
    <2>1. PICK f : \A j \in 0..(i - 1) : f[j] = Body(f, j)
      BY <1>2
    <2> DEFINE g == [j \in 0..HeaderLen |-> IF j = i THEN Body(f, i) ELSE f[j]]
    <2>2. ASSUME NEW j \in 0..i PROVE g[j] = Body(g, j)
      <3>1. CASE j = i
        BY <1>0, <3>1
      <3>2. CASE j # i
        BY <1>0, <2>1, <3>2
      <3> QED BY <3>1, <3>2
    <2> HIDE DEF g, Body
    <2>3. i \in 0..HeaderLen
      BY <1>0
    <2> QED BY <2>2, <2>3
  <1>3. HeaderLen \in T
    <2>1. T \subseteq 0..HeaderLen /\ HeaderLen \in 0..HeaderLen
      BY <1>0
    <2> HIDE DEF T
    <2> QED BY <1>0, <1>1, <1>2, <2>1, UpTo
  <1>4. PICK f : \A j \in 0..HeaderLen : f[j] = Body(f, j)
    BY <1>3
  <1> DEFINE g == [j \in 0..HeaderLen |-> f[j]]
  <1>5. Powers(g)
    <2>1. ASSUME NEW j \in 0..HeaderLen PROVE f[j] = Body(g, j)
      BY <1>0, <1>4
    <2> QED BY <2>1 DEF Powers
  <1> DEFINE power[i \in 0..HeaderLen] ==
               IF i = 0 THEN 1 ELSE ByteBase * power[i - 1]
  <1>6. Powers(power)
    <2> HIDE DEF g
    <2> QED BY <1>5, Zenon DEF Powers
  <1>7. Limit = power[HeaderLen]
    BY Zenon DEF Limit
  <1> QED BY <1>6, <1>7

(* The quotients that pack a number exist.                                 *)
LEMMA PackIs ==
  ASSUME NEW n
  PROVE  \E f : /\ Leads(f, n)
                /\ Pack(n) = [i \in 1..HeaderLen |-> f[i] % ByteBase]
  <1> DEFINE Body(f, i) == IF i = HeaderLen THEN n ELSE f[i + 1] \div ByteBase
             T == {i \in 0..HeaderLen :
                     \E f : \A j \in i..HeaderLen : f[j] = Body(f, j)}
  <1>0. HeaderLen \in Nat
    BY FramingAssumption
  <1>1. HeaderLen \in T
    <2> DEFINE g == [j \in {HeaderLen} |-> n]
    <2>1. \A j \in HeaderLen..HeaderLen : g[j] = Body(g, j)
      BY <1>0
    <2>2. HeaderLen \in 0..HeaderLen
      BY <1>0
    <2> HIDE DEF g, Body
    <2> QED BY <2>1, <2>2
  <1>2. ASSUME NEW i \in 0..(HeaderLen - 1), i + 1 \in T PROVE i \in T
    <2>1. PICK f : \A j \in (i + 1)..HeaderLen : f[j] = Body(f, j)
      BY <1>2
    <2> DEFINE g == [j \in 0..HeaderLen |-> IF j = i THEN Body(f, i) ELSE f[j]]
    <2>2. ASSUME NEW j \in i..HeaderLen PROVE g[j] = Body(g, j)
      <3>1. CASE j = i
        BY <1>0, <3>1
      <3>2. CASE j # i
        BY <1>0, <2>1, <3>2
      <3> QED BY <3>1, <3>2
    <2> HIDE DEF g, Body
    <2>3. i \in 0..HeaderLen
      BY <1>0
    <2> QED BY <2>2, <2>3
  <1>3. 0 \in T
    <2>1. T \subseteq 0..HeaderLen /\ 0 \in 0..HeaderLen
      BY <1>0
    <2> HIDE DEF T
    <2> QED BY <1>0, <1>1, <1>2, <2>1, DownTo
  <1>4. PICK f : \A j \in 0..HeaderLen : f[j] = Body(f, j)
    BY <1>3
  <1> DEFINE g == [j \in 0..HeaderLen |-> f[j]]
  <1>5. Leads(g, n)
    <2>1. ASSUME NEW j \in 0..HeaderLen PROVE f[j] = Body(g, j)
      BY <1>0, <1>4
    <2> QED BY <2>1 DEF Leads
  <1> DEFINE leading[i \in 0..HeaderLen] ==
               IF i = HeaderLen THEN n ELSE leading[i + 1] \div ByteBase
  <1>6. Leads(leading, n)
    <2> HIDE DEF g
    <2> QED BY <1>5, Zenon DEF Leads
  <1>7. Pack(n) = [i \in 1..HeaderLen |-> leading[i] % ByteBase]
    BY Zenon DEF Pack
  <1> QED BY <1>6, <1>7

(* The partial numbers that unpack a header exist.                         *)
LEMMA UnpackIs ==
  ASSUME NEW header, Len(header) \in Nat
  PROVE  \E f : Counts(f, header) /\ Unpack(header) = f[Len(header)]
  <1> DEFINE Body(f, i) == IF i = 0 THEN 0 ELSE ByteBase * f[i - 1] + header[i]
             T == {i \in 0..Len(header) :
                     \E f : \A j \in 0..i : f[j] = Body(f, j)}
  <1>1. 0 \in T
    <2> DEFINE g == [j \in {0} |-> 0]
    <2>1. \A j \in 0..0 : g[j] = Body(g, j)
      OBVIOUS
    <2>2. 0 \in 0..Len(header)
      OBVIOUS
    <2> HIDE DEF g, Body
    <2> QED BY <2>1, <2>2
  <1>2. ASSUME NEW i \in 1..Len(header), i - 1 \in T PROVE i \in T
    <2>1. PICK f : \A j \in 0..(i - 1) : f[j] = Body(f, j)
      BY <1>2
    <2> DEFINE g == [j \in 0..Len(header) |-> IF j = i THEN Body(f, i) ELSE f[j]]
    <2>2. ASSUME NEW j \in 0..i PROVE g[j] = Body(g, j)
      <3>1. CASE j = i
        BY <3>1
      <3>2. CASE j # i
        BY <2>1, <3>2
      <3> QED BY <3>1, <3>2
    <2> HIDE DEF g, Body
    <2>3. i \in 0..Len(header)
      OBVIOUS
    <2> QED BY <2>2, <2>3
  <1>3. Len(header) \in T
    <2>1. T \subseteq 0..Len(header) /\ Len(header) \in 0..Len(header)
      OBVIOUS
    <2> HIDE DEF T
    <2> QED BY <1>1, <1>2, <2>1, UpTo
  <1>4. PICK f : \A j \in 0..Len(header) : f[j] = Body(f, j)
    BY <1>3
  <1> DEFINE g == [j \in 0..Len(header) |-> f[j]]
  <1>5. Counts(g, header)
    <2>1. ASSUME NEW j \in 0..Len(header) PROVE f[j] = Body(g, j)
      BY <1>4
    <2> QED BY <2>1 DEF Counts
  <1> DEFINE upTo[i \in 0..Len(header)] ==
               IF i = 0 THEN 0 ELSE ByteBase * upTo[i - 1] + header[i]
  <1>6. Counts(upTo, header)
    <2> HIDE DEF g
    <2> QED BY <1>5, Zenon DEF Counts
  <1>7. Unpack(header) = upTo[Len(header)]
    BY Zenon DEF Unpack
  <1> QED BY <1>6, <1>7

(* Quotient and remainder undo multiplication and addition.                *)
LEMMA DivMod ==
  ASSUME NEW q \in Nat, NEW r \in Bytes
  PROVE  /\ ByteBase * q + r \in Nat
         /\ (ByteBase * q + r) \div ByteBase = q
         /\ (ByteBase * q + r) % ByteBase = r
  <1>1. ByteBase \in Nat \ {0} /\ r \in Nat /\ r < ByteBase
    BY FramingAssumption DEF Bytes
  <1>2. ByteBase * q \in Nat
    BY <1>1
  <1>3. PICK m : m = ByteBase * q + r
    OBVIOUS
  <1>4. m \in Nat
    BY <1>1, <1>2, <1>3
  <1>5. PICK d, e : d = m \div ByteBase /\ e = m % ByteBase
    OBVIOUS
  <1>6. d \in Int /\ e \in 0..(ByteBase - 1) /\ m = ByteBase * d + e
    BY <1>1, <1>4, <1>5
  <1>7. ~(d < q)
    <2> SUFFICES ASSUME d < q PROVE FALSE
      OBVIOUS
    <2>1. ByteBase * d < ByteBase * q
      BY <1>1, <1>6
    <2>2. ByteBase * d + ByteBase <= ByteBase * q
      BY <1>1, <1>6, <2>1, MultiplesApart
    <2>3. ByteBase * d \in Int
      BY <1>1, <1>6
    <2> QED BY <1>1, <1>2, <1>3, <1>6, <2>2, <2>3
  <1>8. ~(q < d)
    <2> SUFFICES ASSUME q < d PROVE FALSE
      OBVIOUS
    <2>1. ByteBase * q < ByteBase * d
      BY <1>1, <1>6
    <2>2. ByteBase * q + ByteBase <= ByteBase * d
      BY <1>1, <1>6, <2>1, MultiplesApart
    <2>3. ByteBase * d \in Int
      BY <1>1, <1>6
    <2> QED BY <1>1, <1>2, <1>3, <1>6, <2>2, <2>3
  <1>9. d = q
    BY <1>6, <1>7, <1>8
  <1>10. e = r
    BY <1>1, <1>2, <1>3, <1>6, <1>9
  <1> QED BY <1>3, <1>4, <1>5, <1>9, <1>10

(* Every number is its quotient and its remainder.                         *)
LEMMA DivRest ==
  ASSUME NEW n \in Nat
  PROVE  /\ n \div ByteBase \in Nat /\ n % ByteBase \in Bytes
         /\ ByteBase * (n \div ByteBase) + (n % ByteBase) = n
  <1>1. ByteBase \in Nat \ {0}
    BY FramingAssumption
  <1> DEFINE q == n \div ByteBase
             r == n % ByteBase
  <1>2. q \in Int /\ r \in 0..(ByteBase - 1) /\ n = ByteBase * q + r
    BY <1>1
  <1>3. q >= 0
    BY <1>1, <1>2
  <1> QED BY <1>2, <1>3 DEF Bytes

(* pack undoes unpack on any whole header: a header is the only one for    *)
(* its number.                                                             *)
LEMMA PackUnpack ==
  ASSUME NEW h \in Seq(Bytes), Len(h) = HeaderLen
  PROVE  Unpack(h) \in Nat /\ Pack(Unpack(h)) = h
  <1>0. HeaderLen \in Nat /\ DOMAIN h = 1..HeaderLen
    BY FramingAssumption, LenProperties
  <1>1. PICK u : Counts(u, h) /\ Unpack(h) = u[HeaderLen]
    BY <1>0, UnpackIs
  <1>2. /\ u[0] = 0
        /\ \A i \in 1..HeaderLen : u[i] = ByteBase * u[i - 1] + h[i]
    BY <1>0, <1>1 DEF Counts
  <1>3. \A i \in 1..HeaderLen : h[i] \in Bytes
    BY <1>0, ElementOfSeq
  <1>4. \A i \in 0..HeaderLen : u[i] \in Nat
    <2> DEFINE T == {i \in 0..HeaderLen : u[i] \in Nat}
    <2>1. T \subseteq 0..HeaderLen /\ 0 \in T
      BY <1>0, <1>2
    <2>2. ASSUME NEW i \in 1..HeaderLen, i - 1 \in T PROVE i \in T
      <3>1. u[i - 1] \in Nat /\ i \in 0..HeaderLen
        BY <1>0, <2>2
      <3>2. u[i] \in Nat
        BY <1>2, <1>3, <3>1, DivMod
      <3> QED BY <3>1, <3>2
    <2>3. \A i \in 0..HeaderLen : i \in T
      <3> HIDE DEF T
      <3> QED BY <1>0, <2>1, <2>2, UpTo
    <2> QED BY <2>3
  <1>5. PICK l : /\ Leads(l, u[HeaderLen])
                 /\ Pack(u[HeaderLen]) = [i \in 1..HeaderLen |-> l[i] % ByteBase]
    BY PackIs
  <1>6. /\ l[HeaderLen] = u[HeaderLen]
        /\ \A i \in 0..(HeaderLen - 1) : l[i] = l[i + 1] \div ByteBase
    BY <1>0, <1>5 DEF Leads
  <1>7. \A i \in 0..HeaderLen : l[i] = u[i]
    <2> DEFINE T == {i \in 0..HeaderLen : l[i] = u[i]}
    <2>1. T \subseteq 0..HeaderLen /\ HeaderLen \in T
      BY <1>0, <1>6
    <2>2. ASSUME NEW i \in 0..(HeaderLen - 1), i + 1 \in T PROVE i \in T
      <3>1. /\ l[i + 1] = u[i + 1] /\ i \in 0..HeaderLen
            /\ i + 1 \in 1..HeaderLen /\ (i + 1) - 1 = i
        BY <1>0, <2>2
      <3>2. u[i + 1] = ByteBase * u[i] + h[i + 1]
        BY <1>2, <3>1
      <3>3. u[i + 1] \div ByteBase = u[i]
        BY <1>3, <1>4, <3>1, <3>2, DivMod
      <3> QED BY <1>6, <3>1, <3>3
    <2>3. \A i \in 0..HeaderLen : i \in T
      <3> HIDE DEF T
      <3> QED BY <1>0, <2>1, <2>2, DownTo
    <2> QED BY <2>3
  <1>8. ASSUME NEW i \in 1..HeaderLen PROVE l[i] % ByteBase = h[i]
    <2>1. i \in 0..HeaderLen /\ i - 1 \in 0..HeaderLen
      BY <1>0
    <2>2. u[i - 1] \in Nat /\ h[i] \in Bytes
      BY <1>3, <1>4, <2>1
    <2>3. (ByteBase * u[i - 1] + h[i]) % ByteBase = h[i]
      BY <2>2, DivMod
    <2> QED BY <1>2, <1>7, <2>1, <2>3
  <1>9. h = [i \in 1..HeaderLen |-> h[i]]
    BY <1>0
  <1>10. Pack(u[HeaderLen]) = h
    BY <1>5, <1>8, <1>9
  <1> QED BY <1>0, <1>1, <1>4, <1>10

(* What pack makes of any number is a header.                              *)
LEMMA PackType ==
  ASSUME NEW n \in Nat
  PROVE  Pack(n) \in Seq(Bytes) /\ Len(Pack(n)) = HeaderLen
  <1>0. HeaderLen \in Nat
    BY FramingAssumption
  <1>1. PICK l : /\ Leads(l, n)
                 /\ Pack(n) = [i \in 1..HeaderLen |-> l[i] % ByteBase]
    BY PackIs
  <1>2. /\ l[HeaderLen] = n
        /\ \A i \in 0..(HeaderLen - 1) : l[i] = l[i + 1] \div ByteBase
    BY <1>0, <1>1 DEF Leads
  <1>3. \A i \in 0..HeaderLen : l[i] \in Nat
    <2> DEFINE T == {i \in 0..HeaderLen : l[i] \in Nat}
    <2>1. T \subseteq 0..HeaderLen /\ HeaderLen \in T
      BY <1>0, <1>2
    <2>2. ASSUME NEW i \in 0..(HeaderLen - 1), i + 1 \in T PROVE i \in T
      BY <1>0, <1>2, <2>2, DivRest
    <2>3. \A i \in 0..HeaderLen : i \in T
      <3> HIDE DEF T
      <3> QED BY <1>0, <2>1, <2>2, DownTo
    <2> QED BY <2>3
  <1>4. \A i \in 1..HeaderLen : l[i] % ByteBase \in Bytes
    BY <1>0, <1>3, DivRest
  <1>5. Pack(n) \in [1..HeaderLen -> Bytes]
    BY <1>1, <1>4
  <1> QED BY <1>0, <1>5, LenProperties, SeqDef

(* unpack undoes pack on any number that fits.                             *)
LEMMA UnpackPack ==
  ASSUME NEW n \in Nat, n < Limit
  PROVE  Unpack(Pack(n)) = n
  <1>0. HeaderLen \in Nat /\ ByteBase \in Nat \ {0}
    BY FramingAssumption
  <1>1. PICK l : /\ Leads(l, n)
                 /\ Pack(n) = [i \in 1..HeaderLen |-> l[i] % ByteBase]
    BY PackIs
  <1>2. /\ l[HeaderLen] = n
        /\ \A i \in 0..(HeaderLen - 1) : l[i] = l[i + 1] \div ByteBase
    BY <1>0, <1>1 DEF Leads
  <1>3. PICK p : Powers(p) /\ Limit = p[HeaderLen]
    BY LimitIs
  <1>4. p[0] = 1 /\ \A i \in 1..HeaderLen : p[i] = ByteBase * p[i - 1]
    BY <1>0, <1>3 DEF Powers
  <1>5. \A i \in 0..HeaderLen : p[i] \in Nat
    <2> DEFINE T == {i \in 0..HeaderLen : p[i] \in Nat}
    <2>1. T \subseteq 0..HeaderLen /\ 0 \in T
      BY <1>0, <1>4
    <2>2. ASSUME NEW i \in 1..HeaderLen, i - 1 \in T PROVE i \in T
      BY <1>0, <1>4, <2>2
    <2>3. \A i \in 0..HeaderLen : i \in T
      <3> HIDE DEF T
      <3> QED BY <1>0, <2>1, <2>2, UpTo
    <2> QED BY <2>3
  <1>6. \A i \in 0..HeaderLen : l[i] \in Nat /\ l[i] < p[i]
    <2> DEFINE T == {i \in 0..HeaderLen : l[i] \in Nat /\ l[i] < p[i]}
    <2>1. T \subseteq 0..HeaderLen /\ HeaderLen \in T
      BY <1>0, <1>2, <1>3
    <2>2. ASSUME NEW i \in 0..(HeaderLen - 1), i + 1 \in T PROVE i \in T
      <3>1. /\ l[i + 1] \in Nat /\ l[i + 1] < p[i + 1] /\ i \in 0..HeaderLen
            /\ i + 1 \in 1..HeaderLen /\ (i + 1) - 1 = i
        BY <1>0, <2>2
      <3>2. p[i + 1] = ByteBase * p[i] /\ p[i] \in Nat
        BY <1>4, <1>5, <3>1
      <3>3. /\ l[i] \in Nat /\ l[i + 1] % ByteBase \in Nat
            /\ ByteBase * l[i] + (l[i + 1] % ByteBase) = l[i + 1]
        BY <1>2, <3>1, DivRest DEF Bytes
      <3>4. ~(l[i] >= p[i])
        <4> SUFFICES ASSUME l[i] >= p[i] PROVE FALSE
          OBVIOUS
        <4>1. ByteBase * l[i] >= ByteBase * p[i]
          BY <1>0, <3>2, <3>3
        <4>2. ByteBase * l[i] \in Nat /\ ByteBase * p[i] \in Nat
          BY <1>0, <3>2, <3>3
        <4> QED BY <3>1, <3>2, <3>3, <4>1, <4>2
      <3> QED BY <3>1, <3>2, <3>3, <3>4
    <2>3. \A i \in 0..HeaderLen : i \in T
      <3> HIDE DEF T
      <3> QED BY <1>0, <2>1, <2>2, DownTo
    <2> QED BY <2>3
  <1>7. l[0] = 0
    <2>1. l[0] \in Nat /\ l[0] < 1
      BY <1>0, <1>4, <1>6
    <2> QED BY <2>1
  <1>8. Len(Pack(n)) = HeaderLen
    BY PackType
  <1>9. PICK u : Counts(u, Pack(n)) /\ Unpack(Pack(n)) = u[HeaderLen]
    BY <1>0, <1>8, UnpackIs
  <1>10. /\ u[0] = 0
         /\ \A i \in 1..HeaderLen : u[i] = ByteBase * u[i - 1] + Pack(n)[i]
    BY <1>0, <1>8, <1>9 DEF Counts
  <1>11. \A i \in 0..HeaderLen : u[i] = l[i]
    <2> DEFINE T == {i \in 0..HeaderLen : u[i] = l[i]}
    <2>1. T \subseteq 0..HeaderLen /\ 0 \in T
      BY <1>0, <1>7, <1>10
    <2>2. ASSUME NEW i \in 1..HeaderLen, i - 1 \in T PROVE i \in T
      <3>1. /\ u[i - 1] = l[i - 1] /\ i \in 0..HeaderLen
            /\ i - 1 \in 0..(HeaderLen - 1) /\ (i - 1) + 1 = i
        BY <1>0, <2>2
      <3>2. l[i - 1] = l[i] \div ByteBase
        BY <1>2, <3>1
      <3>3. u[i] = ByteBase * (l[i] \div ByteBase) + (l[i] % ByteBase)
        BY <1>1, <1>10, <3>1, <3>2
      <3>4. u[i] = l[i]
        BY <1>6, <3>1, <3>3, DivRest
      <3> QED BY <3>1, <3>4
    <2>3. \A i \in 0..HeaderLen : i \in T
      <3> HIDE DEF T
      <3> QED BY <1>0, <2>1, <2>2, UpTo
    <2> QED BY <2>3
  <1> QED BY <1>0, <1>2, <1>9, <1>11

-----------------------------------------------------------------------------
(* The loop of unframe                                                     *)

(* A slice that ends in the blob.                                          *)
LEMMA SliceIs ==
  ASSUME NEW blob \in Seq(Bytes), NEW to \in 0..Len(blob), NEW i \in 0..to
  PROVE  /\ Slice(blob, i, to) \in Seq(Bytes)
         /\ Len(Slice(blob, i, to)) = to - i
         /\ \A k \in 1..(to - i) : Slice(blob, i, to)[k] = blob[i + k]
  <1>1. Len(blob) \in Nat /\ to \in Nat /\ i \in Nat
    BY LenProperties
  <1>2. Slice(blob, i, to) = SubSeq(blob, i + 1, to)
    <2>1. (IF to < Len(blob) THEN to ELSE Len(blob)) = to
      BY <1>1
    <2> QED BY <2>1 DEF Slice
  <1>3. CASE i = to
    <2>1. SubSeq(blob, i + 1, to) = << >>
      BY <1>1, <1>3, SubSeqProperties
    <2> QED BY <1>1, <1>2, <1>3, <2>1
  <1>4. CASE i < to
    <2>1. /\ SubSeq(blob, i + 1, to) \in Seq(Bytes)
          /\ Len(SubSeq(blob, i + 1, to)) = to - (i + 1) + 1
          /\ \A k \in 1..(to - (i + 1) + 1) :
               SubSeq(blob, i + 1, to)[k] = blob[i + 1 + k - 1]
      BY <1>1, <1>4, SubSeqProperties
    <2>2. to - (i + 1) + 1 = to - i
      BY <1>1
    <2>3. \A k \in 1..(to - i) : i + 1 + k - 1 = i + k
      BY <1>1
    <2> QED BY <1>2, <2>1, <2>2, <2>3
  <1> QED BY <1>1, <1>3, <1>4

(* Where the part that starts at position i ends, and what the loop makes  *)
(* of it and of what follows.                                              *)
EndAt(blob, i) ==
    IF i + HeaderLen + Unpack(Slice(blob, i, i + HeaderLen)) > Len(blob)
    THEN Len(blob) ELSE i + HeaderLen + Unpack(Slice(blob, i, i + HeaderLen))

Nothing == [raised |-> FALSE, parts |-> << >>]

After(blob, i, rest) ==
    IF rest.raised THEN Raised
    ELSE [raised |-> FALSE,
          parts |-> <<Slice(blob, i + HeaderLen, EndAt(blob, i))>> \o rest.parts]

Unframes(f, blob) ==
    f = [i \in 0..Len(blob) |->
           IF i = Len(blob) THEN Nothing
           ELSE IF i + HeaderLen > Len(blob) THEN Raised
           ELSE After(blob, i, f[EndAt(blob, i)])]

(* Each turn of the loop gets further and stays in the blob.               *)
LEMMA EndIs ==
  ASSUME NEW blob \in Seq(Bytes), NEW i \in 0..Len(blob),
         i + HeaderLen <= Len(blob)
  PROVE  EndAt(blob, i) \in (i + HeaderLen)..Len(blob)
  <1>1. Len(blob) \in Nat /\ HeaderLen \in Nat
    BY LenProperties, FramingAssumption
  <1>2. PICK to : to = i + HeaderLen
    OBVIOUS
  <1>3. to \in 0..Len(blob) /\ i \in 0..to /\ to - i = HeaderLen
    BY <1>1, <1>2
  <1>4. /\ Slice(blob, i, to) \in Seq(Bytes)
        /\ Len(Slice(blob, i, to)) = HeaderLen
    BY <1>3, SliceIs
  <1>5. Unpack(Slice(blob, i, i + HeaderLen)) \in Nat
    BY <1>2, <1>4, PackUnpack
  <1> QED BY <1>1, <1>5 DEF EndAt

(* The loop ends: the function unframe computes exists.                    *)
LEMMA UnframeIs ==
  ASSUME NEW blob \in Seq(Bytes)
  PROVE  \E f : Unframes(f, blob) /\ Unframe(blob) = f[0]
  <1> DEFINE Body(f, i) ==
               IF i = Len(blob) THEN Nothing
               ELSE IF i + HeaderLen > Len(blob) THEN Raised
               ELSE After(blob, i, f[EndAt(blob, i)])
             T == {i \in 0..Len(blob) :
                     \E f : \A j \in i..Len(blob) : f[j] = Body(f, j)}
  <1>0. Len(blob) \in Nat /\ HeaderLen \in Nat \ {0}
    BY LenProperties, FramingAssumption
  <1>1. Len(blob) \in T
    <2> DEFINE g == [j \in {Len(blob)} |-> Nothing]
    <2>1. \A j \in Len(blob)..Len(blob) : g[j] = Body(g, j)
      BY <1>0
    <2>2. Len(blob) \in 0..Len(blob)
      BY <1>0
    <2> HIDE DEF g, Body
    <2> QED BY <2>1, <2>2
  <1>2. ASSUME NEW i \in 0..(Len(blob) - 1), i + 1 \in T PROVE i \in T
    <2>1. PICK f : \A j \in (i + 1)..Len(blob) : f[j] = Body(f, j)
      BY <1>2
    <2> DEFINE g == [j \in 0..Len(blob) |-> IF j = i THEN Body(f, i) ELSE f[j]]
    <2>2. ASSUME NEW j \in i..Len(blob) PROVE Body(g, j) = Body(f, j)
      <3>1. CASE j = Len(blob) \/ j + HeaderLen > Len(blob)
        BY <3>1
      <3>2. CASE ~(j = Len(blob) \/ j + HeaderLen > Len(blob))
        <4>1. EndAt(blob, j) \in (j + HeaderLen)..Len(blob)
          BY <1>0, <3>2, EndIs
        <4>2. EndAt(blob, j) \in 0..Len(blob) /\ EndAt(blob, j) # i
          BY <1>0, <4>1
        <4>3. g[EndAt(blob, j)] = f[EndAt(blob, j)]
          BY <4>2
        <4> HIDE DEF g
        <4> QED BY <4>3
      <3> QED BY <3>1, <3>2
    <2>3. ASSUME NEW j \in i..Len(blob) PROVE g[j] = Body(f, j)
      <3> HIDE DEF Body
      <3> QED BY <1>0, <2>1
    <2> HIDE DEF g, Body
    <2>4. i \in 0..Len(blob) /\ \A j \in i..Len(blob) : g[j] = Body(g, j)
      BY <1>0, <2>2, <2>3
    <2> QED BY <2>4
  <1>3. 0 \in T
    <2>1. T \subseteq 0..Len(blob) /\ 0 \in 0..Len(blob)
      BY <1>0
    <2> HIDE DEF T
    <2> QED BY <1>0, <1>1, <1>2, <2>1, DownTo
  <1>4. PICK f : \A j \in 0..Len(blob) : f[j] = Body(f, j)
    BY <1>3
  <1> DEFINE g == [j \in 0..Len(blob) |-> f[j]]
  <1>5. Unframes(g, blob)
    <2>1. ASSUME NEW j \in 0..Len(blob) PROVE f[j] = Body(g, j)
      <3>1. CASE j = Len(blob) \/ j + HeaderLen > Len(blob)
        BY <1>4, <3>1
      <3>2. CASE ~(j = Len(blob) \/ j + HeaderLen > Len(blob))
        <4>1. EndAt(blob, j) \in (j + HeaderLen)..Len(blob)
          BY <1>0, <3>2, EndIs
        <4>2. EndAt(blob, j) \in 0..Len(blob)
          BY <1>0, <4>1
        <4>3. g[EndAt(blob, j)] = f[EndAt(blob, j)]
          BY <4>2
        <4>4. f[j] = Body(f, j)
          BY <1>4
        <4> HIDE DEF g
        <4> QED BY <4>3, <4>4
      <3> QED BY <3>1, <3>2
    <2> QED BY <2>1 DEF Unframes
  <1> DEFINE from[i \in 0..Len(blob)] ==
               IF i = Len(blob) THEN [raised |-> FALSE, parts |-> << >>]
               ELSE IF i + HeaderLen > Len(blob) THEN Raised
               ELSE LET n == Unpack(Slice(blob, i, i + HeaderLen))
                        end == IF i + HeaderLen + n > Len(blob)
                               THEN Len(blob) ELSE i + HeaderLen + n
                        rest == from[end]
                    IN  IF rest.raised THEN Raised
                        ELSE [raised |-> FALSE,
                              parts |-> <<Slice(blob, i + HeaderLen, end)>>
                                          \o rest.parts]
  <1>6. Unframes(from, blob)
    <2> HIDE DEF g
    <2> QED BY <1>5, Zenon DEF Unframes, After, EndAt, Nothing
  <1>7. Unframe(blob) = from[0]
    BY Zenon DEF Unframe
  <1> QED BY <1>6, <1>7

(* What unframe has when it stops is a list of byte strings.               *)
Results == [raised : BOOLEAN, parts : Seq(Seq(Bytes))]

LoopTyped(f, blob) == \A i \in 0..Len(blob) : f[i] \in Results

(* ... at every position of the loop.                                      *)
LEMMA LoopType ==
  ASSUME NEW blob \in Seq(Bytes), NEW f, Unframes(f, blob)
  PROVE  LoopTyped(f, blob)
  <1> DEFINE T == {i \in 0..Len(blob) : \A j \in i..Len(blob) : f[j] \in Results}
  <1>0. Len(blob) \in Nat /\ HeaderLen \in Nat \ {0}
    BY LenProperties, FramingAssumption
  <1>1. \A i \in 0..Len(blob) :
          f[i] = IF i = Len(blob) THEN Nothing
                 ELSE IF i + HeaderLen > Len(blob) THEN Raised
                 ELSE After(blob, i, f[EndAt(blob, i)])
    BY DEF Unframes
  <1>2. Nothing \in Results /\ Raised \in Results
    BY DEF Nothing, Raised, Results
  <1>3. Len(blob) \in T
    BY <1>0, <1>1, <1>2
  <1>4. ASSUME NEW i \in 0..(Len(blob) - 1), i + 1 \in T PROVE i \in T
    <2>1. i \in 0..Len(blob)
      BY <1>0
    <2>2. f[i] \in Results
      <3>1. CASE i + HeaderLen > Len(blob)
        BY <1>0, <1>1, <1>2, <2>1, <3>1
      <3>2. CASE ~(i + HeaderLen > Len(blob))
        <4>1. PICK e : e = EndAt(blob, i)
          OBVIOUS
        <4>2. e \in (i + HeaderLen)..Len(blob)
          BY <1>0, <2>1, <3>2, <4>1, EndIs
        <4>3. f[e] \in Results
          BY <1>0, <1>4, <4>2
        <4>4. f[i] = After(blob, i, f[e])
          BY <1>0, <1>1, <2>1, <3>2, <4>1
        <4>5. i + HeaderLen \in 0..e /\ e \in 0..Len(blob)
          BY <1>0, <4>2
        <4>6. Slice(blob, i + HeaderLen, e) \in Seq(Bytes)
          BY <4>5, SliceIs
        <4>7. <<Slice(blob, i + HeaderLen, e)>> \o f[e].parts \in Seq(Seq(Bytes))
          <5>1. <<Slice(blob, i + HeaderLen, e)>> \in Seq(Seq(Bytes))
            BY <4>6
          <5>2. f[e].parts \in Seq(Seq(Bytes))
            BY <4>3 DEF Results
          <5> QED BY <5>1, <5>2, ConcatProperties
        <4>8. [raised |-> FALSE,
               parts |-> <<Slice(blob, i + HeaderLen, e)>> \o f[e].parts] \in Results
          BY <4>7 DEF Results
        <4> QED BY <1>2, <4>1, <4>4, <4>8 DEF After
      <3> QED BY <3>1, <3>2
    <2>3. \A j \in i..Len(blob) : j = i \/ j \in (i + 1)..Len(blob)
      BY <1>0
    <2> QED BY <1>4, <2>1, <2>2, <2>3
  <1>5. \A i \in 0..Len(blob) : i \in T
    <2>1. T \subseteq 0..Len(blob)
      OBVIOUS
    <2> HIDE DEF T
    <2> QED BY <1>0, <1>3, <1>4, <2>1, DownTo
  <1>6. ASSUME NEW i \in 0..Len(blob) PROVE f[i] \in Results
    BY <1>0, <1>5
  <1> QED BY <1>6 DEF LoopTyped

(* One turn of the loop that ends well: either nothing is left or a part   *)
(* is put before what follows it.                                          *)
Turn(f, blob, i, e) ==
    /\ i + HeaderLen <= Len(blob) /\ e = EndAt(blob, i)
    /\ e \in (i + HeaderLen)..Len(blob)
    /\ ~f[e].raised
    /\ Len(f[e].parts) \in Nat
    /\ Len(f[i].parts) = 1 + Len(f[e].parts)
    /\ f[i].parts[1] = Slice(blob, i + HeaderLen, e)
    /\ \A k \in 1..Len(f[e].parts) : f[i].parts[1 + k] = f[e].parts[k]

(* Every turn is one of the two.                                           *)
LEMMA TurnIs ==
  ASSUME NEW blob \in Seq(Bytes), NEW f, Unframes(f, blob),
         NEW i \in 0..Len(blob), ~f[i].raised
  PROVE  \/ i = Len(blob) /\ Len(f[i].parts) = 0
         \/ \E e : Turn(f, blob, i, e)
  <1>0. Len(blob) \in Nat /\ HeaderLen \in Nat \ {0}
    BY LenProperties, FramingAssumption
  <1>1. f[i] = IF i = Len(blob) THEN Nothing
               ELSE IF i + HeaderLen > Len(blob) THEN Raised
               ELSE After(blob, i, f[EndAt(blob, i)])
    BY DEF Unframes
  <1>2. CASE i = Len(blob)
    <2>1. f[i].parts = << >>
      BY <1>1, <1>2 DEF Nothing
    <2> QED BY <1>2, <2>1
  <1>3. CASE i # Len(blob)
    <2>1. ~(i + HeaderLen > Len(blob))
      BY <1>1, <1>3 DEF Raised
    <2>2. PICK e : e = EndAt(blob, i)
      OBVIOUS
    <2>3. e \in (i + HeaderLen)..Len(blob) /\ i + HeaderLen <= Len(blob)
      BY <1>0, <2>1, <2>2, EndIs
    <2>4. f[e] \in Results
      <3>1. e \in 0..Len(blob)
        BY <1>0, <2>3
      <3> QED BY <3>1, LoopType DEF LoopTyped
    <2>5. f[i] = After(blob, i, f[e])
      BY <1>1, <1>3, <2>1, <2>2
    <2>6. /\ ~f[e].raised
          /\ f[i].parts = <<Slice(blob, i + HeaderLen, e)>> \o f[e].parts
      BY <2>2, <2>5 DEF After, Raised
    <2>7. i + HeaderLen \in 0..e /\ e \in 0..Len(blob)
      BY <1>0, <2>3
    <2>8. PICK p : p = Slice(blob, i + HeaderLen, e)
      OBVIOUS
    <2>9. p \in Seq(Bytes)
      BY <2>7, <2>8, SliceIs
    <2>10. PICK q : q = f[e].parts
      OBVIOUS
    <2>11. q \in Seq(Seq(Bytes))
      BY <2>4, <2>10 DEF Results
    <2>12. /\ Len(q) \in Nat /\ Len(<<p>> \o q) = 1 + Len(q)
           /\ (<<p>> \o q)[1] = p
           /\ \A k \in 1..Len(q) : (<<p>> \o q)[1 + k] = q[k]
      <3>1. <<p>> \in Seq(Seq(Bytes)) /\ Len(<<p>>) = 1 /\ <<p>>[1] = p
        BY <2>9
      <3>2. Len(q) \in Nat
        BY <2>11, LenProperties
      <3> QED BY <2>11, <3>1, <3>2, ConcatProperties
    <2>13. Turn(f, blob, i, e)
      BY <2>2, <2>3, <2>6, <2>8, <2>10, <2>12 DEF Turn
    <2> QED BY <2>13
  <1> QED BY <1>2, <1>3

-----------------------------------------------------------------------------
(* frame                                                                   *)

(* The blobs of the first k parts.                                         *)
SoFar(F, seqs) ==
    /\ F[0] = << >>
    /\ \A k \in 1..Len(seqs) : F[k] = F[k - 1] \o seqs[k]

(* Joining byte strings one after the other.                               *)
LEMMA FlattenIs ==
  ASSUME NEW seqs \in Seq(Seq(Bytes))
  PROVE  \E F : SoFar(F, seqs) /\ FlattenSeq(seqs) = F[Len(seqs)]
  <1> DEFINE Body(f, i) == IF i = 1 THEN seqs[i] ELSE f[i - 1] \o seqs[i]
             T == {i \in 0..Len(seqs) :
                     \E f : \A j \in 1..i : f[j] = Body(f, j)}
  <1>0. Len(seqs) \in Nat /\ \A i \in 1..Len(seqs) : seqs[i] \in Seq(Bytes)
    BY LenProperties, ElementOfSeq
  <1>1. 0 \in T
    BY <1>0
  <1>2. ASSUME NEW i \in 1..Len(seqs), i - 1 \in T PROVE i \in T
    <2>1. PICK f : \A j \in 1..(i - 1) : f[j] = Body(f, j)
      BY <1>2
    <2> DEFINE g == [j \in 1..Len(seqs) |-> IF j = i THEN Body(f, i) ELSE f[j]]
    <2>2. ASSUME NEW j \in 1..i PROVE g[j] = Body(g, j)
      <3>1. CASE j = i
        BY <1>0, <3>1
      <3>2. CASE j # i
        BY <1>0, <2>1, <3>2
      <3> QED BY <3>1, <3>2
    <2> HIDE DEF g, Body
    <2>3. i \in 0..Len(seqs)
      BY <1>0
    <2> QED BY <2>2, <2>3
  <1>3. Len(seqs) \in T
    <2>1. T \subseteq 0..Len(seqs) /\ Len(seqs) \in 0..Len(seqs)
      BY <1>0
    <2> HIDE DEF T
    <2> QED BY <1>0, <1>1, <1>2, <2>1, UpTo
  <1>4. PICK f : \A j \in 1..Len(seqs) : f[j] = Body(f, j)
    BY <1>3
  <1> DEFINE Recursive(h) ==
               h = [i \in 1..Len(seqs) |->
                      IF i = 1 THEN seqs[i] ELSE h[i - 1] \o seqs[i]]
             g == [j \in 1..Len(seqs) |-> f[j]]
  <1>5. Recursive(g)
    <2>1. ASSUME NEW j \in 1..Len(seqs) PROVE f[j] = Body(g, j)
      BY <1>0, <1>4
    <2> QED BY <2>1
  <1> DEFINE flatten[i \in 1..Len(seqs)] ==
               IF i = 1 THEN seqs[i] ELSE flatten[i - 1] \o seqs[i]
  <1>6. Recursive(flatten)
    <2> HIDE DEF g
    <2> QED BY <1>5, Zenon
  <1>7. FlattenSeq(seqs) = IF Len(seqs) = 0 THEN seqs ELSE flatten[Len(seqs)]
    BY Zenon DEF FlattenSeq
  <1> DEFINE F == [k \in 0..Len(seqs) |-> IF k = 0 THEN << >> ELSE flatten[k]]
  <1>8. \A k \in 1..Len(seqs) :
          flatten[k] = IF k = 1 THEN seqs[k] ELSE flatten[k - 1] \o seqs[k]
    <2> HIDE DEF flatten
    <2> QED BY <1>6
  <1> HIDE DEF flatten
  <1>9. SoFar(F, seqs)
    <2>1. F[0] = << >>
      BY <1>0
    <2>2. ASSUME NEW k \in 1..Len(seqs) PROVE F[k] = F[k - 1] \o seqs[k]
      <3>1. CASE k = 1
        <4>1. F[k] = seqs[k] /\ F[k - 1] = << >>
          BY <1>0, <1>8, <3>1
        <4>2. seqs[k] \in Seq(Bytes)
          BY <1>0
        <4> HIDE DEF F
        <4> QED BY <4>1, <4>2, ConcatEmptySeq
      <3>2. CASE k # 1
        <4>1. k \in 0..Len(seqs) /\ k - 1 \in 0..Len(seqs) /\ k # 0 /\ k - 1 # 0
          BY <1>0, <3>2
        <4>2. F[k] = flatten[k] /\ F[k - 1] = flatten[k - 1]
          BY <4>1
        <4> HIDE DEF F
        <4> QED BY <1>8, <3>2, <4>2
      <3> QED BY <3>1, <3>2
    <2> HIDE DEF F
    <2> QED BY <2>1, <2>2 DEF SoFar
  <1>10. FlattenSeq(seqs) = F[Len(seqs)]
    <2>1. CASE Len(seqs) = 0
      BY <1>0, <1>7, <2>1, EmptySeq
    <2>2. CASE Len(seqs) # 0
      BY <1>0, <1>7, <2>2
    <2> QED BY <2>1, <2>2
  <1> QED BY <1>9, <1>10

(* The bytes of two byte strings put one after the other.                  *)
LEMMA ConcatBytes ==
  ASSUME NEW p \in Seq(Bytes), NEW q \in Seq(Bytes)
  PROVE  /\ p \o q \in Seq(Bytes) /\ Len(p \o q) = Len(p) + Len(q)
         /\ \A j \in 1..Len(p) : (p \o q)[j] = p[j]
         /\ \A j \in 1..Len(q) : (p \o q)[Len(p) + j] = q[j]
  <1>1. Len(p) \in Nat /\ Len(q) \in Nat
    BY LenProperties
  <1>2. /\ p \o q \in Seq(Bytes) /\ Len(p \o q) = Len(p) + Len(q)
        /\ \A i \in 1..(Len(p) + Len(q)) :
             (p \o q)[i] = IF i <= Len(p) THEN p[i] ELSE q[i - Len(p)]
    BY ConcatProperties
  <1>3. ASSUME NEW j \in 1..Len(p) PROVE (p \o q)[j] = p[j]
    BY <1>1, <1>2
  <1>4. ASSUME NEW j \in 1..Len(q) PROVE (p \o q)[Len(p) + j] = q[j]
    <2>1. /\ Len(p) + j \in 1..(Len(p) + Len(q)) /\ ~(Len(p) + j <= Len(p))
          /\ Len(p) + j - Len(p) = j
      BY <1>1
    <2> QED BY <1>2, <2>1
  <1> QED BY <1>2, <1>3, <1>4

(* What frame makes of byte strings: the k-th is in the blob behind its    *)
(* header, at the place where the ones before it end.                      *)
Framed(F, blob, parts) ==
    /\ F[0] = << >> /\ F[Len(parts)] = blob
    /\ \A k \in 0..Len(parts) : F[k] \in Seq(Bytes) /\ Len(F[k]) <= Len(blob)
    /\ \A k \in 1..Len(parts) :
         /\ Len(F[k]) = Len(F[k - 1]) + HeaderLen + Len(parts[k])
         /\ \A j \in 1..HeaderLen :
              blob[Len(F[k - 1]) + j] = Pack(Len(parts[k]))[j]
         /\ \A j \in 1..Len(parts[k]) :
              blob[Len(F[k - 1]) + HeaderLen + j] = parts[k][j]

(* frame's blob has that layout.                                           *)
LEMMA FrameIs ==
  ASSUME NEW parts \in Seq(Seq(Bytes))
  PROVE  \E F : Framed(F, Frame(parts), parts)
  <1> DEFINE item(k) == Pack(Len(parts[k])) \o parts[k]
             N == Len(parts)
             seqs == [k \in DOMAIN parts |-> item(k)]
             blob == Frame(parts)
  <1>0. /\ N \in Nat /\ DOMAIN parts = 1..N /\ HeaderLen \in Nat
        /\ \A k \in 1..N : parts[k] \in Seq(Bytes) /\ Len(parts[k]) \in Nat
    BY LenProperties, ElementOfSeq, FramingAssumption
  <1>1. ASSUME NEW k \in 1..N
        PROVE  /\ item(k) \in Seq(Bytes) /\ Len(item(k)) = HeaderLen + Len(parts[k])
               /\ \A j \in 1..HeaderLen : item(k)[j] = Pack(Len(parts[k]))[j]
               /\ \A j \in 1..Len(parts[k]) : item(k)[HeaderLen + j] = parts[k][j]
    <2>1. PICK h, p : h = Pack(Len(parts[k])) /\ p = parts[k]
      OBVIOUS
    <2>2. /\ h \in Seq(Bytes) /\ Len(h) = HeaderLen /\ p \in Seq(Bytes)
          /\ Len(p) \in Nat
      BY <1>0, <2>1, PackType
    <2>3. /\ h \o p \in Seq(Bytes) /\ Len(h \o p) = HeaderLen + Len(p)
          /\ \A j \in 1..HeaderLen : (h \o p)[j] = h[j]
          /\ \A j \in 1..Len(p) : (h \o p)[HeaderLen + j] = p[j]
      BY <2>2, ConcatBytes
    <2> QED BY <2>1, <2>3
  <1> HIDE DEF item
  <1>2. seqs \in Seq(Seq(Bytes)) /\ Len(seqs) = N
    <2>1. seqs \in [1..N -> Seq(Bytes)]
      BY <1>0, <1>1
    <2> HIDE DEF seqs
    <2>2. seqs \in Seq(Seq(Bytes)) /\ DOMAIN seqs = 1..N
      <3>1. N \in Nat
        BY <1>0
      <3> HIDE DEF N
      <3> QED BY <2>1, <3>1, SeqDef
    <2>3. Len(seqs) \in Nat /\ DOMAIN seqs = 1..Len(seqs)
      BY <2>2, LenProperties
    <2> QED BY <1>0, <2>2, <2>3
  <1>3. PICK F : SoFar(F, seqs) /\ FlattenSeq(seqs) = F[N]
    <2> HIDE DEF seqs
    <2> QED BY <1>2, FlattenIs
  <1>4. blob = F[N]
    BY <1>3 DEF Frame, item
  <1>5. F[0] = << >> /\ \A k \in 1..N : F[k] = F[k - 1] \o item(k)
    BY <1>0, <1>2, <1>3 DEF SoFar
  <1> HIDE DEF blob
  <1>6. \A k \in 0..N : F[k] \in Seq(Bytes)
    <2> DEFINE T == {k \in 0..N : F[k] \in Seq(Bytes)}
    <2>1. T \subseteq 0..N /\ 0 \in T
      <3>1. F[0] \in Seq(Bytes)
        BY <1>5, EmptySeq
      <3> QED BY <1>0, <3>1
    <2>2. ASSUME NEW k \in 1..N, k - 1 \in T PROVE k \in T
      <3>1. F[k] = F[k - 1] \o item(k) /\ F[k - 1] \in Seq(Bytes)
        BY <1>5, <2>2
      <3>2. item(k) \in Seq(Bytes) /\ k \in 0..N
        BY <1>0, <1>1
      <3>3. F[k] \in Seq(Bytes)
        BY <3>1, <3>2, ConcatBytes
      <3> QED BY <3>2, <3>3
    <2>3. \A k \in 0..N : k \in T
      <3> HIDE DEF T
      <3> QED BY <1>0, <2>1, <2>2, UpTo
    <2> QED BY <2>3
  <1>7. ASSUME NEW k \in 1..N
        PROVE  /\ Len(F[k - 1]) \in Nat
               /\ Len(F[k]) = Len(F[k - 1]) + HeaderLen + Len(parts[k])
               /\ \A j \in 1..Len(F[k - 1]) : F[k][j] = F[k - 1][j]
               /\ \A j \in 1..(HeaderLen + Len(parts[k])) :
                    F[k][Len(F[k - 1]) + j] = item(k)[j]
    <2>1. PICK p, q : p = F[k - 1] /\ q = item(k)
      OBVIOUS
    <2>2. /\ p \in Seq(Bytes) /\ q \in Seq(Bytes) /\ F[k] = p \o q
          /\ Len(q) = HeaderLen + Len(parts[k]) /\ Len(q) \in Nat /\ Len(p) \in Nat
      <3>1. k - 1 \in 0..N
        BY <1>0
      <3>2. p \in Seq(Bytes) /\ q \in Seq(Bytes)
        BY <1>1, <1>6, <2>1, <3>1
      <3> QED BY <1>1, <1>5, <2>1, <3>2, LenProperties
    <2>3. /\ Len(p \o q) = Len(p) + Len(q)
          /\ \A j \in 1..Len(p) : (p \o q)[j] = p[j]
          /\ \A j \in 1..Len(q) : (p \o q)[Len(p) + j] = q[j]
      BY <2>2, ConcatBytes
    <2>4. Len(p) + Len(q) = Len(p) + HeaderLen + Len(parts[k])
      BY <1>0, <2>2
    <2> QED BY <2>1, <2>2, <2>3, <2>4
  <1>8. \A k \in 0..N : /\ Len(F[k]) \in Nat /\ Len(F[k]) <= Len(blob)
                        /\ \A j \in 1..Len(F[k]) : blob[j] = F[k][j]
    <2> DEFINE T == {k \in 0..N : /\ Len(F[k]) \in Nat /\ Len(F[k]) <= Len(blob)
                                  /\ \A j \in 1..Len(F[k]) : blob[j] = F[k][j]}
    <2>1. T \subseteq 0..N /\ N \in T
      <3>1. Len(F[N]) \in Nat /\ N \in 0..N
        BY <1>0, <1>6, LenProperties
      <3> QED BY <1>4, <3>1
    <2>2. ASSUME NEW k \in 0..(N - 1), k + 1 \in T PROVE k \in T
      <3>1. k \in 0..N /\ k + 1 \in 1..N /\ (k + 1) - 1 = k
        BY <1>0
      <3>2. PICK n : n = k + 1
        OBVIOUS
      <3>3. /\ Len(F[k]) \in Nat
            /\ Len(F[n]) = Len(F[k]) + HeaderLen + Len(parts[n])
            /\ \A j \in 1..Len(F[k]) : F[n][j] = F[k][j]
        BY <1>7, <3>1, <3>2
      <3>4. /\ Len(F[n]) \in Nat /\ Len(F[n]) <= Len(blob)
            /\ \A j \in 1..Len(F[n]) : blob[j] = F[n][j]
        BY <2>2, <3>2
      <3>5. Len(parts[n]) \in Nat /\ HeaderLen \in Nat
        BY <1>0, <3>1, <3>2
      <3>6. Len(F[k]) <= Len(F[n])
        <4>1. \A x, y, z \in Nat : x <= x + y + z
          OBVIOUS
        <4> QED BY <3>3, <3>5, <4>1
      <3>7. Len(blob) \in Nat
        <4>1. N \in 0..N
          BY <1>0
        <4> QED BY <1>4, <1>6, <4>1, LenProperties
      <3>8. Len(F[k]) <= Len(blob)
        BY <3>3, <3>4, <3>6, <3>7
      <3>9. \A j \in 1..Len(F[k]) : blob[j] = F[k][j]
        BY <3>3, <3>4, <3>6
      <3> QED BY <3>1, <3>3, <3>8, <3>9
    <2>3. \A k \in 0..N : k \in T
      <3> HIDE DEF T
      <3> QED BY <1>0, <2>1, <2>2, DownTo
    <2> QED BY <2>3
  <1>9. ASSUME NEW k \in 1..N
        PROVE  /\ Len(F[k]) = Len(F[k - 1]) + HeaderLen + Len(parts[k])
               /\ \A j \in 1..HeaderLen :
                    blob[Len(F[k - 1]) + j] = Pack(Len(parts[k]))[j]
               /\ \A j \in 1..Len(parts[k]) :
                    blob[Len(F[k - 1]) + HeaderLen + j] = parts[k][j]
    <2>1. PICK m, n : m = Len(F[k - 1]) /\ n = Len(parts[k])
      OBVIOUS
    <2>2. /\ m \in Nat /\ n \in Nat /\ HeaderLen \in Nat
          /\ Len(F[k]) = m + HeaderLen + n
          /\ \A j \in 1..(HeaderLen + n) : F[k][m + j] = item(k)[j]
      BY <1>0, <1>7, <2>1
    <2>3. \A j \in 1..(m + HeaderLen + n) : blob[j] = F[k][j]
      <3>1. k \in 0..N
        BY <1>0
      <3> QED BY <1>8, <2>2, <3>1
    <2>4. \A j \in 1..(HeaderLen + n) : blob[m + j] = item(k)[j]
      BY <2>2, <2>3
    <2>5. ASSUME NEW j \in 1..HeaderLen PROVE blob[m + j] = Pack(n)[j]
      <3>1. j \in 1..(HeaderLen + n)
        BY <2>2
      <3> QED BY <1>1, <2>1, <2>4, <3>1
    <2>6. ASSUME NEW j \in 1..n PROVE blob[m + HeaderLen + j] = parts[k][j]
      <3>1. HeaderLen + j \in 1..(HeaderLen + n) /\ m + (HeaderLen + j) = m + HeaderLen + j
        BY <2>2
      <3> QED BY <1>1, <2>1, <2>4, <3>1
    <2> QED BY <2>1, <2>2, <2>5, <2>6
  <1>10. Framed(F, blob, parts)
    BY <1>4, <1>5, <1>6, <1>8, <1>9 DEF Framed
  <1> QED BY <1>10 DEF blob

(* unframe of frame, part by part from the last: at the place where the    *)
(* first k parts end the loop finds the others.                            *)
LEMMA Unframed ==
  ASSUME NEW parts \in Seq(Seq(Bytes)),
         \A k \in DOMAIN parts : Len(parts[k]) < Limit
  PROVE  Unframe(Frame(parts)) = [raised |-> FALSE, parts |-> parts]
  <1>1. PICK blob : blob = Frame(parts)
    OBVIOUS
  <1>2. PICK F : Framed(F, blob, parts)
    BY <1>1, FrameIs
  <1>3. PICK N : N = Len(parts)
    OBVIOUS
  <1>4. /\ N \in Nat /\ DOMAIN parts = 1..N /\ HeaderLen \in Nat \ {0}
        /\ \A k \in 1..N : parts[k] \in Seq(Bytes) /\ Len(parts[k]) \in Nat
    BY <1>3, LenProperties, ElementOfSeq, FramingAssumption
  <1>5. blob \in Seq(Bytes) /\ Len(blob) \in Nat
    <2>1. N \in 0..N /\ F[N] = blob
      BY <1>2, <1>3, <1>4 DEF Framed
    <2>2. F[N] \in Seq(Bytes)
      BY <1>2, <1>3, <2>1 DEF Framed
    <2> QED BY <2>1, <2>2, LenProperties
  <1>6. PICK f : Unframes(f, blob) /\ Unframe(blob) = f[0]
    BY <1>5, UnframeIs
  <1> DEFINE Left(k) == [raised |-> FALSE, parts |-> SubSeq(parts, k + 1, N)]
             T == {k \in 0..N : f[Len(F[k])] = Left(k)}
  <1>7. N \in T
    <2>1. F[N] = blob
      BY <1>2, <1>3 DEF Framed
    <2>2. f[Len(blob)] = Nothing
      BY <1>5, <1>6 DEF Unframes
    <2>3. SubSeq(parts, N + 1, N) = << >>
      BY <1>4, SubSeqEmpty
    <2>4. f[Len(F[N])] = Left(N)
      BY <2>1, <2>2, <2>3 DEF Nothing
    <2> QED BY <1>4, <2>4
  <1>8. ASSUME NEW k \in 0..(N - 1), k + 1 \in T PROVE k \in T
    <2>1. PICK n : n = k + 1
      OBVIOUS
    <2>2. n \in 1..N /\ k \in 0..N /\ n - 1 = k /\ n \in 0..N
      BY <1>4, <2>1
    <2>3. PICK i, p : i = Len(F[k]) /\ p = parts[n]
      OBVIOUS
    <2>4. /\ p \in Seq(Bytes) /\ Len(p) \in Nat /\ Len(p) < Limit
      BY <1>4, <2>2, <2>3
    <2>5. /\ Len(F[n]) = i + HeaderLen + Len(p)
          /\ \A j \in 1..HeaderLen : blob[i + j] = Pack(Len(p))[j]
          /\ \A j \in 1..Len(p) : blob[i + HeaderLen + j] = p[j]
      BY <1>2, <1>3, <2>2, <2>3 DEF Framed
    <2>6. i \in Nat
      <3>1. F[k] \in Seq(Bytes)
        BY <1>2, <1>3, <2>2 DEF Framed
      <3> QED BY <2>3, <3>1, LenProperties
    <2>7. i + HeaderLen + Len(p) <= Len(blob)
      BY <1>2, <1>3, <2>2, <2>5 DEF Framed
    <2>8. PICK m, e : m = i + HeaderLen /\ e = i + HeaderLen + Len(p)
      OBVIOUS
    <2>9. /\ i \in 0..m /\ m \in 0..Len(blob) /\ m \in 0..e /\ e \in 0..Len(blob)
          /\ m - i = HeaderLen /\ e - m = Len(p) /\ i \in 0..Len(blob)
          /\ i # Len(blob) /\ ~(m > Len(blob)) /\ ~(e > Len(blob))
      BY <1>4, <1>5, <2>4, <2>6, <2>7, <2>8
    <2>10. Slice(blob, i, m) = Pack(Len(p))
      <3>1. /\ Slice(blob, i, m) \in Seq(Bytes)
            /\ Len(Slice(blob, i, m)) = HeaderLen
            /\ \A j \in 1..HeaderLen : Slice(blob, i, m)[j] = blob[i + j]
        BY <1>5, <2>9, SliceIs
      <3>2. Pack(Len(p)) \in Seq(Bytes) /\ Len(Pack(Len(p))) = HeaderLen
        BY <2>4, PackType
      <3>3. \A j \in 1..HeaderLen : Slice(blob, i, m)[j] = Pack(Len(p))[j]
        BY <2>5, <3>1
      <3> QED BY <3>1, <3>2, <3>3, SeqEqual
    <2>11. Slice(blob, m, e) = p
      <3>1. /\ Slice(blob, m, e) \in Seq(Bytes)
            /\ Len(Slice(blob, m, e)) = Len(p)
            /\ \A j \in 1..Len(p) : Slice(blob, m, e)[j] = blob[m + j]
        BY <1>5, <2>9, SliceIs
      <3>2. \A j \in 1..Len(p) : Slice(blob, m, e)[j] = p[j]
        BY <2>5, <2>8, <3>1
      <3> QED BY <2>4, <3>1, <3>2, SeqEqual
    <2>12. EndAt(blob, i) = e
      <3>1. Unpack(Slice(blob, i, i + HeaderLen)) = Len(p)
        BY <2>4, <2>8, <2>10, UnpackPack
      <3> QED BY <2>8, <2>9, <3>1 DEF EndAt
    <2>13. f[i] = After(blob, i, f[e])
      BY <1>6, <2>8, <2>9, <2>12 DEF Unframes
    <2>14. f[e] = Left(n)
      BY <1>8, <2>1, <2>5, <2>8
    <2>15. f[i] = [raised |-> FALSE, parts |-> <<p>> \o SubSeq(parts, n + 1, N)]
      <3>1. f[e].raised = FALSE /\ f[e].parts = SubSeq(parts, n + 1, N)
        <4> DEFINE others == SubSeq(parts, n + 1, N)
        <4>1. f[e] = [raised |-> FALSE, parts |-> others]
          BY <2>14
        <4> HIDE DEF others
        <4>2. /\ [raised |-> FALSE, parts |-> others].raised = FALSE
              /\ [raised |-> FALSE, parts |-> others].parts = others
          BY Zenon
        <4>3. f[e].raised = FALSE
          BY <4>1, <4>2, Zenon
        <4>4. f[e].parts = others
          BY <4>1, <4>2, Zenon
        <4> QED BY <4>3, <4>4 DEF others
      <3>2. Slice(blob, i + HeaderLen, EndAt(blob, i)) = p
        BY <2>8, <2>11, <2>12
      <3> QED BY <2>13, <3>1, <3>2 DEF After
    <2>16. SubSeq(parts, n, N) = <<p>> \o SubSeq(parts, n + 1, N)
      <3>1. n \in 1..Len(parts) /\ N \in n..Len(parts)
        BY <1>3, <1>4, <2>2
      <3> QED BY <2>3, <3>1, SubSeqRecursiveFirst
    <2>17. f[Len(F[k])] = Left(k)
      BY <2>1, <2>3, <2>15, <2>16
    <2> QED BY <2>2, <2>17
  <1>9. 0 \in T
    <2>1. T \subseteq 0..N /\ 0 \in 0..N
      BY <1>4
    <2> HIDE DEF T
    <2> QED BY <1>4, <1>7, <1>8, <2>1, DownTo
  <1>10. Len(F[0]) = 0
    BY <1>2 DEF Framed
  <1>11. SubSeq(parts, 0 + 1, N) = parts
    BY <1>3, SubSeqFull
  <1> QED BY <1>1, <1>6, <1>9, <1>10, <1>11

(* unframe undoes frame, for any number of byte strings whose lengths fit  *)
(* a header, empty ones among them.                                        *)
THEOREM FrameUndone == Spec => []FrameRoundTrip
  <1>1. ProbesTyped => FrameRoundTrip
    <2> SUFFICES ASSUME ProbesTyped, probe[1] = "frame"
                 PROVE  Unframe(Frame(probe[2]))
                          = [raised |-> FALSE, parts |-> probe[2]]
      BY DEF FrameRoundTrip
    <2>1. /\ probe[2] \in Seq(Seq(Bytes))
          /\ \A k \in DOMAIN probe[2] : Len(probe[2][k]) < Limit
      BY InputAssumption DEF ProbesTyped, ProbeOf
    <2> QED BY <2>1, Unframed
  <1> QED BY <1>1, ProbesAreTyped, PTL

-----------------------------------------------------------------------------
(* hybrid_verify                                                           *)

(* Where hybrid_sign puts its two signatures.                              *)
LEMMA SignIs ==
  ASSUME NEW before, before = HeaderLen + Len(EdSig)
  PROVE  /\ Len(HybridSign) = before + HeaderLen + Len(MldsaSig)
         /\ \A j \in 1..HeaderLen : HybridSign[j] = Pack(Len(EdSig))[j]
         /\ \A j \in 1..Len(EdSig) : HybridSign[HeaderLen + j] = EdSig[j]
         /\ \A j \in 1..Len(MldsaSig) :
              HybridSign[before + HeaderLen + j] = MldsaSig[j]
  <1>1. PICK parts : parts = <<EdSig, MldsaSig>>
    OBVIOUS
  <1>2. /\ parts \in Seq(Seq(Bytes)) /\ Len(parts) = 2
        /\ parts[1] = EdSig /\ parts[2] = MldsaSig
    BY <1>1, FramingAssumption
  <1>3. PICK F : Framed(F, HybridSign, parts)
    BY <1>1, <1>2, FrameIs DEF HybridSign
  <1>4. /\ EdSig \in Seq(Bytes) /\ Len(EdSig) \in Nat /\ HeaderLen \in Nat
    BY FramingAssumption, LenProperties
  <1>5. Len(F[0]) = 0 /\ F[2] = HybridSign
    BY <1>2, <1>3 DEF Framed
  <1>6. /\ Len(F[1]) = Len(F[0]) + HeaderLen + Len(EdSig)
        /\ \A j \in 1..HeaderLen : HybridSign[Len(F[0]) + j] = Pack(Len(EdSig))[j]
        /\ \A j \in 1..Len(EdSig) :
             HybridSign[Len(F[0]) + HeaderLen + j] = EdSig[j]
    <2>1. 1 \in 1..Len(parts) /\ 1 - 1 = 0
      BY <1>2
    <2>2. /\ Len(F[1]) = Len(F[1 - 1]) + HeaderLen + Len(parts[1])
          /\ \A j \in 1..HeaderLen :
               HybridSign[Len(F[1 - 1]) + j] = Pack(Len(parts[1]))[j]
          /\ \A j \in 1..Len(parts[1]) :
               HybridSign[Len(F[1 - 1]) + HeaderLen + j] = parts[1][j]
      BY <1>3, <2>1, Zenon DEF Framed
    <2> QED BY <1>2, <2>1, <2>2, Zenon
  <1>7. /\ Len(F[2]) = Len(F[1]) + HeaderLen + Len(MldsaSig)
        /\ \A j \in 1..Len(MldsaSig) :
             HybridSign[Len(F[1]) + HeaderLen + j] = MldsaSig[j]
    <2>1. 2 \in 1..Len(parts) /\ 2 - 1 = 1
      BY <1>2
    <2>2. /\ Len(F[2]) = Len(F[2 - 1]) + HeaderLen + Len(parts[2])
          /\ \A j \in 1..Len(parts[2]) :
               HybridSign[Len(F[2 - 1]) + HeaderLen + j] = parts[2][j]
      BY <1>3, <2>1, Zenon DEF Framed
    <2> QED BY <1>2, <2>1, <2>2, Zenon
  <1>8. Len(F[1]) = before
    BY <1>4, <1>5, <1>6
  <1>9. ASSUME NEW j \in 1..HeaderLen PROVE HybridSign[j] = Pack(Len(EdSig))[j]
    <2>1. 0 + j = j
      BY <1>4
    <2> QED BY <1>5, <1>6, <2>1
  <1>10. ASSUME NEW j \in 1..Len(EdSig) PROVE HybridSign[HeaderLen + j] = EdSig[j]
    <2>1. 0 + HeaderLen + j = HeaderLen + j
      BY <1>4
    <2> QED BY <1>5, <1>6, <2>1
  <1> QED BY <1>5, <1>7, <1>8, <1>9, <1>10

(* An accepted blob: the first header is the genuine one, the second part  *)
(* goes to the end, both parts are the genuine signatures.                 *)
LEMMA Accepted ==
  ASSUME NEW blob \in Seq(Bytes), HybridVerify(blob),
         NEW before, before = HeaderLen + Len(EdSig)
  PROVE  /\ Len(blob) = before + HeaderLen + Len(MldsaSig)
         /\ \A j \in 1..HeaderLen : blob[j] = Pack(Len(EdSig))[j]
         /\ \A j \in 1..Len(EdSig) : blob[HeaderLen + j] = EdSig[j]
         /\ \A j \in 1..Len(MldsaSig) :
              blob[before + HeaderLen + j] = MldsaSig[j]
  <1>0. Len(blob) \in Nat /\ HeaderLen \in Nat \ {0}
    BY LenProperties, FramingAssumption
  <1>1. PICK f : Unframes(f, blob) /\ Unframe(blob) = f[0]
    BY UnframeIs
  <1>2. /\ ~f[0].raised /\ Len(f[0].parts) = 2
        /\ f[0].parts[1] = EdSig /\ f[0].parts[2] = MldsaSig
    BY <1>1 DEF HybridVerify
  <1>3. PICK a : Turn(f, blob, 0, a)
    <2>1. 0 \in 0..Len(blob)
      BY <1>0
    <2> QED BY <1>1, <1>2, <2>1, TurnIs
  <1>4. /\ HeaderLen <= Len(blob) /\ a = EndAt(blob, 0) /\ a \in HeaderLen..Len(blob)
        /\ ~f[a].raised /\ Len(f[a].parts) = 1
        /\ EdSig = Slice(blob, HeaderLen, a)
        /\ f[a].parts[1] = MldsaSig
    <2>1. 0 + HeaderLen = HeaderLen
      BY <1>0
    <2>2. Len(f[a].parts) = 1
      <3>1. Len(f[a].parts) \in Nat /\ 2 = 1 + Len(f[a].parts)
        BY <1>2, <1>3 DEF Turn
      <3>2. \A x \in Nat : 2 = 1 + x => x = 1
        OBVIOUS
      <3> QED BY <3>1, <3>2, Zenon
    <2>3. f[0].parts[1 + 1] = f[a].parts[1]
      BY <1>3, <2>2 DEF Turn
    <2> QED BY <1>2, <1>3, <2>1, <2>2, <2>3 DEF Turn
  <1>5. PICK e : Turn(f, blob, a, e)
    <2>1. a \in 0..Len(blob)
      BY <1>0, <1>4
    <2> QED BY <1>1, <1>4, <2>1, TurnIs
  <1>6. /\ a + HeaderLen <= Len(blob) /\ e \in (a + HeaderLen)..Len(blob)
        /\ ~f[e].raised /\ Len(f[e].parts) = 0
        /\ MldsaSig = Slice(blob, a + HeaderLen, e)
    <2>1. Len(f[e].parts) \in Nat /\ 1 = 1 + Len(f[e].parts)
      BY <1>4, <1>5 DEF Turn
    <2>2. Len(f[e].parts) = 0
      BY <2>1
    <2> QED BY <1>4, <1>5, <2>2 DEF Turn
  <1>7. e = Len(blob)
    <2>1. e \in 0..Len(blob)
      BY <1>0, <1>4, <1>6
    <2>2. ~(\E x : Turn(f, blob, e, x))
      BY <1>6 DEF Turn
    <2> QED BY <1>1, <1>6, <2>1, <2>2, TurnIs
  <1>8. /\ Len(EdSig) = a - HeaderLen
        /\ \A j \in 1..(a - HeaderLen) : EdSig[j] = blob[HeaderLen + j]
    <2>1. a \in 0..Len(blob) /\ HeaderLen \in 0..a
      BY <1>0, <1>4
    <2> QED BY <1>4, <2>1, SliceIs
  <1>9. a = before
    BY <1>0, <1>4, <1>8
  <1>10. PICK m : m = a + HeaderLen
    OBVIOUS
  <1>11. /\ Len(MldsaSig) = e - m
         /\ \A j \in 1..(e - m) : MldsaSig[j] = blob[m + j]
    <2>1. e \in 0..Len(blob) /\ m \in 0..e
      BY <1>0, <1>4, <1>6, <1>10
    <2> QED BY <1>6, <1>10, <2>1, SliceIs
  <1>12. PICK h : h = Slice(blob, 0, HeaderLen)
    OBVIOUS
  <1>13. /\ h \in Seq(Bytes) /\ Len(h) = HeaderLen
         /\ \A j \in 1..HeaderLen : h[j] = blob[j]
    <2>1. /\ HeaderLen \in 0..Len(blob) /\ 0 \in 0..HeaderLen
          /\ HeaderLen - 0 = HeaderLen /\ \A j \in 1..HeaderLen : 0 + j = j
      BY <1>0, <1>4
    <2>2. /\ h \in Seq(Bytes) /\ Len(h) = HeaderLen - 0
          /\ \A j \in 1..(HeaderLen - 0) : h[j] = blob[0 + j]
      BY <1>12, <2>1, SliceIs
    <2> QED BY <2>1, <2>2
  <1>14. Unpack(h) \in Nat /\ Pack(Unpack(h)) = h
    BY <1>13, PackUnpack
  <1>15. Unpack(h) = Len(EdSig)
    <2>1. 0 + HeaderLen = HeaderLen
      BY <1>0
    <2>2. a = IF HeaderLen + Unpack(h) > Len(blob)
              THEN Len(blob) ELSE HeaderLen + Unpack(h)
      BY <1>4, <1>12, <2>1 DEF EndAt
    <2>3. a < Len(blob)
      BY <1>0, <1>4, <1>6
    <2>4. a = HeaderLen + Unpack(h)
      BY <2>2, <2>3, <1>0
    <2> QED BY <1>0, <1>8, <1>14, <2>4
  <1>16. Len(blob) = before + HeaderLen + Len(MldsaSig)
    <2>1. a \in Nat /\ m \in Nat /\ m = before + HeaderLen
      BY <1>0, <1>4, <1>9, <1>10
    <2>2. Len(MldsaSig) = Len(blob) - m
      BY <1>7, <1>11
    <2>3. m + Len(MldsaSig) = Len(blob)
      BY <1>0, <2>1, <2>2
    <2> QED BY <2>1, <2>3
  <1>17. \A j \in 1..HeaderLen : blob[j] = Pack(Len(EdSig))[j]
    BY <1>13, <1>14, <1>15
  <1>18. \A j \in 1..Len(EdSig) : blob[HeaderLen + j] = EdSig[j]
    BY <1>8
  <1>19. \A j \in 1..Len(MldsaSig) : blob[before + HeaderLen + j] = MldsaSig[j]
    BY <1>9, <1>10, <1>11
  <1> QED BY <1>16, <1>17, <1>18, <1>19

(* A blob hybrid_verify accepts is hybrid_sign's byte for byte, except for *)
(* the last length: nothing can be put before, between or after the two    *)
(* signatures, whatever the signatures' lengths.                           *)
THEOREM AcceptedGenuine == Spec => []AcceptedIsGenuine
  <1>1. ASSUME NEW blob \in Seq(Bytes), HybridVerify(blob),
               NEW before, before = HeaderLen + Len(EdSig)
        PROVE  /\ Len(blob) = Len(HybridSign)
               /\ \A k \in DOMAIN HybridSign
                           \ ((before + 1)..(before + HeaderLen)) :
                    blob[k] = HybridSign[k]
    <2>1. PICK e, m : e = Len(EdSig) /\ m = Len(MldsaSig)
      OBVIOUS
    <2>2. e \in Nat /\ m \in Nat /\ HeaderLen \in Nat
      BY <2>1, FramingAssumption, LenProperties
    <2>3. /\ Len(blob) = before + HeaderLen + m
          /\ \A j \in 1..HeaderLen : blob[j] = Pack(e)[j]
          /\ \A j \in 1..e : blob[HeaderLen + j] = EdSig[j]
          /\ \A j \in 1..m : blob[before + HeaderLen + j] = MldsaSig[j]
      BY <1>1, <2>1, Accepted
    <2>4. /\ Len(HybridSign) = before + HeaderLen + m
          /\ \A j \in 1..HeaderLen : HybridSign[j] = Pack(e)[j]
          /\ \A j \in 1..e : HybridSign[HeaderLen + j] = EdSig[j]
          /\ \A j \in 1..m : HybridSign[before + HeaderLen + j] = MldsaSig[j]
      BY <1>1, <2>1, SignIs
    <2>5. HybridSign \in Seq(Bytes)
      <3>1. <<EdSig, MldsaSig>> \in Seq(Seq(Bytes)) /\ Len(<<EdSig, MldsaSig>>) = 2
        BY FramingAssumption
      <3>2. PICK F : Framed(F, HybridSign, <<EdSig, MldsaSig>>)
        BY <3>1, FrameIs DEF HybridSign
      <3> QED BY <3>1, <3>2 DEF Framed
    <2>6. DOMAIN HybridSign = 1..(before + HeaderLen + m)
      BY <2>4, <2>5, LenProperties
    <2>7. ASSUME NEW k \in 1..(before + HeaderLen + m),
                 k \notin (before + 1)..(before + HeaderLen)
          PROVE  blob[k] = HybridSign[k]
      <3>1. CASE k <= HeaderLen
        BY <2>2, <2>3, <2>4, <3>1
      <3>2. CASE k > HeaderLen /\ k <= before
        <4>1. k - HeaderLen \in 1..e /\ HeaderLen + (k - HeaderLen) = k
          BY <1>1, <2>1, <2>2, <3>2
        <4>2. /\ blob[HeaderLen + (k - HeaderLen)] = EdSig[k - HeaderLen]
              /\ HybridSign[HeaderLen + (k - HeaderLen)] = EdSig[k - HeaderLen]
          BY <2>3, <2>4, <4>1
        <4> QED BY <4>1, <4>2
      <3>3. CASE k > before + HeaderLen
        <4>1. PICK j : j = k - (before + HeaderLen)
          OBVIOUS
        <4>2. j \in 1..m /\ before + HeaderLen + j = k
          BY <1>1, <2>1, <2>2, <3>3, <4>1
        <4> QED BY <2>3, <2>4, <4>2
      <3> QED BY <1>1, <2>1, <2>2, <2>7, <3>1, <3>2, <3>3
    <2> QED BY <2>3, <2>4, <2>6, <2>7
  <1>2. ProbesTyped => AcceptedIsGenuine
    <2> SUFFICES ASSUME ProbesTyped, probe[1] = "signature",
                        HybridVerify(probe[2]),
                        NEW before, before = HeaderLen + Len(EdSig)
                 PROVE  /\ Len(probe[2]) = Len(HybridSign)
                        /\ \A k \in DOMAIN HybridSign
                                    \ ((before + 1)..(before + HeaderLen)) :
                             probe[2][k] = HybridSign[k]
      BY Zenon DEF AcceptedIsGenuine
    <2>1. probe[2] \in Seq(Bytes)
      BY InputAssumption DEF ProbesTyped, ProbeOf
    <2> QED BY <1>1, <2>1
  <1> QED BY <1>2, ProbesAreTyped, PTL
=============================================================================
