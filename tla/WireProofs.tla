----------------------------- MODULE WireProofs -----------------------------
(***************************************************************************)
(* A connection of v2 as a stream of bytes, for bytes and masks of any     *)
(* width, heads of any length and any messages: what the conversions       *)
(* compute, and that the reader cuts the stream into the messages that     *)
(* were sent.                                                              *)
(***************************************************************************)
EXTENDS Wire, FiniteSetTheorems, TLAPS

-----------------------------------------------------------------------------
(***************************************************************************)
(* Induction over the naturals, stated for sets: the finite subsets of Nat *)
(* are well-founded, hence so are its initial segments.                    *)
(***************************************************************************)
LEMMA LeastNat ==
  ASSUME NEW T \in SUBSET Nat, T # {}
  PROVE  \E m \in T : \A k \in T : m <= k
<1> DEFINE U == {0..(m - 1) : m \in T}
<1>1. U \subseteq FiniteSubsetsOf(Nat) /\ U # {}
  <2>1. ASSUME NEW m \in T PROVE 0..(m - 1) \in FiniteSubsetsOf(Nat)
    <3>1. IsFiniteSet(0..(m - 1))
      BY FS_Interval
    <3>2. 0..(m - 1) \subseteq Nat
      OBVIOUS
    <3> QED
      BY <3>1, <3>2, Zenon DEF FiniteSubsetsOf
  <2> QED
    BY <2>1
<1>2. IsWellFoundedOn(StrictSubsetOrdering(Nat), FiniteSubsetsOf(Nat))
  BY FS_StrictSubsetOrderingWellFounded
<1>3. PICK x \in U : \A y \in U : ~ (<<y, x>> \in StrictSubsetOrdering(Nat))
  <2> HIDE DEF U
  <2> QED
    BY <1>1, <1>2, WFMin
<1>4. PICK m \in T : x = 0..(m - 1)
  OBVIOUS
<1>5. ASSUME NEW k \in T, k < m PROVE FALSE
  <2>1. 0..(k - 1) \in U
    OBVIOUS
  <2>2. 0..(k - 1) \subseteq 0..(m - 1) /\ 0..(k - 1) # 0..(m - 1)
    <3>1. k \in 0..(m - 1) /\ k \notin 0..(k - 1)
      BY <1>5
    <3> QED
      BY <3>1, <1>5
  <2>3. <<0..(k - 1), x>> \in StrictSubsetOrdering(Nat)
    BY <2>2, <1>4 DEF StrictSubsetOrdering
  <2> QED
    BY <2>3, <2>1, <1>3
<1> QED
  BY <1>5

LEMMA SetInduction ==
  ASSUME NEW S, 0 \in S, \A n \in Nat : n \in S => n + 1 \in S
  PROVE  Nat \subseteq S
<1> SUFFICES ASSUME Nat \ S # {} PROVE FALSE
  OBVIOUS
<1>1. PICK m \in Nat \ S : \A k \in Nat \ S : m <= k
  BY LeastNat
<1>2. m # 0 /\ m - 1 \in Nat /\ m - 1 \in S
  BY <1>1
<1> QED
  BY <1>2

-----------------------------------------------------------------------------
(***************************************************************************)
(* The conversions.                                                        *)
(***************************************************************************)
LEMMA ByteIsNat == Byte \in Nat /\ Byte > 1
  BY WireAssumption

LEMMA ToByteType == ASSUME NEW n \in Nat PROVE ToByte(n) \in Bytes
  BY ByteIsNat DEF ToByte, Bytes

LEMMA ToByteSmall == ASSUME NEW n \in Nat, n < Byte PROVE ToByte(n) = n
  BY ByteIsNat DEF ToByte

LEMMA OneMore == ASSUME NEW n \in Nat PROVE ToByte((ToByte(n) % Byte) + 1) = ToByte(n + 1)
<1> DEFINE q == n \div Byte
           r == n % Byte
<1>1. q \in Nat /\ r \in 0..(Byte - 1) /\ n = Byte * q + r /\ r % Byte = r
  BY ByteIsNat
<1> HIDE DEF q, r
<1>2. CASE r + 1 < Byte
  <2>1. n + 1 = Byte * q + (r + 1) /\ r + 1 \in 0..(Byte - 1)
    BY <1>1, <1>2, ByteIsNat
  <2>2. (n + 1) % Byte = r + 1 /\ (r + 1) % Byte = r + 1
    BY <1>1, <2>1, ByteIsNat
  <2> QED
    BY <1>1, <2>2 DEF ToByte, r
<1>3. CASE r + 1 = Byte
  <2>1. n + 1 = Byte * (q + 1) + 0 /\ q + 1 \in Nat /\ 0 \in 0..(Byte - 1)
    BY <1>1, <1>3, ByteIsNat
  <2>2. (n + 1) % Byte = 0 /\ (r + 1) % Byte = 0
    BY <1>1, <1>3, <2>1, ByteIsNat
  <2> QED
    BY <1>1, <2>2 DEF ToByte, r
<1> QED
  BY <1>1, <1>2, <1>3, ByteIsNat

\* codeGenera computes the number of one bits modulo Byte.
LEMMA CodeGenera == ASSUME NEW n \in Nat PROVE codeGenera(n) = ToByte(n)
<1> DEFINE Def(g) == [k \in 0..n |-> IF k = 0 THEN 0 ELSE ToByte((g[k - 1] % Byte) + 1)]
           f == [k \in 0..n |-> ToByte(k)]
           res == CHOOSE g : g = Def(g)
<1>1. ToByte(0) = 0
  BY ToByteSmall, ByteIsNat
<1>2. f = Def(f)
  <2>1. ASSUME NEW k \in 0..n, k # 0 PROVE f[k] = ToByte((f[k - 1] % Byte) + 1)
    <3>1. k - 1 \in Nat /\ k - 1 \in 0..n /\ (k - 1) + 1 = k
      BY <2>1
    <3>2. ToByte((ToByte(k - 1) % Byte) + 1) = ToByte(k)
      BY <3>1, OneMore
    <3> QED
      BY <3>1, <3>2
  <2> QED
    BY <1>1, <2>1
<1>3. res = Def(res)
  <2> HIDE DEF f, Def
  <2> QED
    BY <1>2
<1>4. codeGenera(n) = res[n]
  BY DEF codeGenera
<1> HIDE DEF res
<1>5. \A k \in 0..n : res[k] = IF k = 0 THEN 0 ELSE ToByte((res[k - 1] % Byte) + 1)
  BY <1>3
<1> HIDE DEF Def
<1> DEFINE S == {k \in Nat : k <= n => res[k] = ToByte(k)}
<1>6. 0 \in S
  BY <1>1, <1>5
<1>7. ASSUME NEW k \in Nat, k \in S PROVE k + 1 \in S
  <2> SUFFICES ASSUME k + 1 <= n PROVE res[k + 1] = ToByte(k + 1)
    OBVIOUS
  <2>1. res[k] = ToByte(k)
    BY <1>7
  <2>2. res[k + 1] = ToByte((res[k] % Byte) + 1)
    BY <1>5
  <2> QED
    BY <2>1, <2>2, OneMore
<1> HIDE DEF S
<1>8. Nat \subseteq S
  BY <1>6, <1>7, SetInduction
<1> QED
  BY <1>4, <1>8 DEF S

Masks == SUBSET (0..(Bits - 1))

\* The number of shifts that empty a mask: one more than its highest bit.
LEMMA Highest ==
  ASSUME NEW R \in Masks
  PROVE  \E n \in Nat : (\A x \in R : x < n) /\ (n = 0 \/ n - 1 \in R)
<1> DEFINE T == {n \in Nat : \A x \in R : x < n}
<1>1. Bits \in T
  BY WireAssumption DEF Masks
<1>2. PICK n \in T : \A k \in T : n <= k
  BY <1>1, LeastNat
<1>3. n = 0 \/ n - 1 \in R
  <2> SUFFICES ASSUME n # 0 PROVE n - 1 \in R
    OBVIOUS
  <2>1. n - 1 \notin T /\ n - 1 \in Nat
    BY <1>2
  <2>2. PICK x \in R : ~(x < n - 1)
    BY <2>1
  <2>3. x < n /\ x \in Nat
    BY WireAssumption DEF Masks
  <2> QED
    BY <2>2, <2>3
<1> QED
  BY <1>3

LEMMA ShiftRightMask == ASSUME NEW R \in Masks PROVE ShiftRight(R) \in Masks
  BY WireAssumption DEF Masks, ShiftRight

\* node_index2int8 counts b + 1 shifts for the mask with bit b.
LEMMA IndexToByte ==
  ASSUME NEW b \in 0..(Bits - 1)
  PROVE  node_index2int8({b}) = b + 1
<1> DEFINE Def(g) == [R \in SUBSET (0..(Bits - 1)) |-> IF R = {} THEN 0 ELSE 1 + g[ShiftRight(R)]]
           Top(R, n) == (\A x \in R : x < n) /\ (n = 0 \/ n - 1 \in R)
           f == [R \in SUBSET (0..(Bits - 1)) |-> CHOOSE n \in Nat : Top(R, n)]
           count == CHOOSE g : g = Def(g)
<1>1. ASSUME NEW R \in Masks PROVE f[R] \in Nat /\ Top(R, f[R])
  <2>1. \E n \in Nat : Top(R, n)
    BY Highest
  <2>2. f[R] = CHOOSE n \in Nat : Top(R, n)
    BY DEF Masks
  <2> HIDE DEF f, Top
  <2> QED
    BY <2>1, <2>2
<1>2. f = Def(f)
  <2>1. ASSUME NEW R \in Masks, R # {} PROVE f[R] = 1 + f[ShiftRight(R)]
    <3> DEFINE n == f[R]
               m == f[ShiftRight(R)]
    <3>1. n \in Nat /\ Top(R, n) /\ m \in Nat /\ Top(ShiftRight(R), m)
      BY <1>1, ShiftRightMask
    <3> HIDE DEF f, n, m
    <3>2. R \subseteq Nat
      BY WireAssumption DEF Masks
    <3>3. n # 0 /\ n - 1 \in R
      <4>1. PICK x \in R : TRUE
        BY <2>1
      <4>2. x < n /\ x \in Nat
        BY <3>1, <3>2
      <4> QED
        BY <3>1, <4>2
    <3>4. \A x \in ShiftRight(R) : x + 1 \in R /\ x \in Nat
      BY <3>2 DEF ShiftRight
    <3>5. m <= n - 1
      BY <3>1, <3>3, <3>4
    <3>6. CASE n = 1
      BY <3>1, <3>5, <3>6 DEF n, m
    <3>7. CASE n # 1
      <4>1. n - 2 \in ShiftRight(R)
        BY <3>1, <3>3, <3>7 DEF ShiftRight
      <4> QED
        BY <3>1, <3>5, <4>1 DEF n, m
    <3> QED
      BY <3>6, <3>7
  <2>2. f[{}] = 0
    <3>1. {} \in Masks
      BY DEF Masks
    <3> QED
      BY <1>1, <3>1
  <2>3. f = [R \in Masks |-> f[R]] /\ Def(f) = [R \in Masks |-> IF R = {} THEN 0 ELSE 1 + f[ShiftRight(R)]]
    BY DEF Masks
  <2> HIDE DEF f, Def
  <2> QED
    BY <2>1, <2>2, <2>3
<1>3. count = Def(count)
  <2> HIDE DEF f, Def
  <2> QED
    BY <1>2
<1>4. node_index2int8({b}) = ToByte(count[{b}])
  BY DEF node_index2int8
<1> HIDE DEF count, f
<1>5. \A R \in Masks : count[R] = IF R = {} THEN 0 ELSE 1 + count[ShiftRight(R)]
  BY <1>3 DEF Masks
<1> HIDE DEF Def, Top
<1> DEFINE S == {k \in Nat : k <= Bits - 1 => count[{k}] = k + 1}
<1>6. 0 \in S
  <2>1. {0} \in Masks /\ {} \in Masks /\ ShiftRight({0}) = {}
    BY WireAssumption DEF Masks, ShiftRight
  <2>2. count[{}] = 0
    BY <2>1, <1>5
  <2>3. count[{0}] = 1 + count[{}]
    <3>1. {0} # {}
      OBVIOUS
    <3> QED
      BY <3>1, <2>1, <1>5
  <2> QED
    BY <2>2, <2>3
<1>7. ASSUME NEW k \in Nat, k \in S PROVE k + 1 \in S
  <2> SUFFICES ASSUME k + 1 <= Bits - 1 PROVE count[{k + 1}] = k + 2
    OBVIOUS
  <2>1. {k + 1} \in Masks
    BY WireAssumption DEF Masks
  <2>2. ShiftRight({k + 1}) = {k}
    BY DEF ShiftRight
  <2>3. count[{k}] = k + 1
    BY <1>7, WireAssumption
  <2>4. count[{k + 1}] = 1 + count[{k}]
    <3>1. {k + 1} # {}
      OBVIOUS
    <3> QED
      BY <3>1, <2>1, <2>2, <1>5
  <2> QED
    BY <2>3, <2>4
<1> HIDE DEF S
<1>8. Nat \subseteq S
  BY <1>6, <1>7, SetInduction
<1>9. count[{b}] = b + 1 /\ b + 1 \in Nat /\ b + 1 < Byte
  BY <1>8, WireAssumption DEF S
<1> QED
  BY <1>4, <1>9, ToByteSmall

\* int82node_index shifts bit 0 to bit n - 1, and out of the mask behind its end.
LEMMA ByteToMask ==
  ASSUME NEW n \in Bytes
  PROVE  int82node_index(n) = IF ToByte(n - 1) <= Bits - 1 THEN {ToByte(n - 1)} ELSE {}
<1> DEFINE Def(g) == [k \in Bytes |-> IF k = 0 THEN {0} ELSE ShiftLeft(g[k - 1])]
           f == [k \in Bytes |-> IF k <= Bits - 1 THEN {k} ELSE {}]
           shifted == CHOOSE g : g = Def(g)
<1>1. f[0] = {0}
  <2>1. 0 \in Bytes /\ 0 <= Bits - 1
    BY WireAssumption DEF Bytes
  <2> QED
    BY <2>1
<1>2. ASSUME NEW k \in Bytes, k # 0 PROVE f[k] = ShiftLeft(f[k - 1])
  <2>1. k - 1 \in Bytes /\ k \in Nat /\ k - 1 \in Nat
    BY <1>2, ByteIsNat DEF Bytes
  <2>2. f[k - 1] = IF k - 1 <= Bits - 1 THEN {k - 1} ELSE {}
    BY <2>1
  <2>3. CASE k <= Bits - 1
    BY <2>1, <2>2, <2>3, WireAssumption DEF ShiftLeft
  <2>4. CASE k = Bits
    BY <2>1, <2>2, <2>4, WireAssumption DEF ShiftLeft
  <2>5. CASE k > Bits
    BY <2>1, <2>2, <2>5, WireAssumption DEF ShiftLeft
  <2> QED
    BY <2>1, <2>3, <2>4, <2>5, WireAssumption
<1>3. f = Def(f)
  BY <1>1, <1>2
<1>4. shifted = Def(shifted)
  <2> HIDE DEF f, Def
  <2> QED
    BY <1>3
<1>5. int82node_index(n) = shifted[ToByte(n - 1)]
  BY DEF int82node_index
<1> HIDE DEF shifted
<1>6. \A k \in Bytes : shifted[k] = IF k = 0 THEN {0} ELSE ShiftLeft(shifted[k - 1])
  BY <1>4
<1>7. \A k \in Bytes : f[k] = IF k <= Bits - 1 THEN {k} ELSE {}
  OBVIOUS
<1> HIDE DEF Def, f
<1> DEFINE S == {k \in Nat : k \in Bytes => shifted[k] = f[k]}
<1>8. 0 \in S
  BY <1>1, <1>6
<1>9. ASSUME NEW k \in Nat, k \in S PROVE k + 1 \in S
  <2> SUFFICES ASSUME k + 1 \in Bytes PROVE shifted[k + 1] = f[k + 1]
    OBVIOUS
  <2>1. k \in Bytes /\ (k + 1) - 1 = k /\ k + 1 # 0
    BY ByteIsNat DEF Bytes
  <2> QED
    BY <2>1, <1>9, <1>2, <1>6
<1> HIDE DEF S
<1>10. Nat \subseteq S
  BY <1>8, <1>9, SetInduction
<1>11. ToByte(n - 1) \in Bytes /\ ToByte(n - 1) \in Nat
  BY ByteIsNat DEF ToByte, Bytes
<1>12. shifted[ToByte(n - 1)] = f[ToByte(n - 1)]
  BY <1>10, <1>11 DEF S
<1> QED
  BY <1>5, <1>7, <1>11, <1>12

LEMMA MaskType == ASSUME NEW n \in Bytes PROVE int82node_index(n) \in Masks
<1>1. ToByte(n - 1) \in Nat
  BY ByteIsNat DEF ToByte, Bytes
<1> QED
  BY <1>1, ByteToMask, WireAssumption DEF Masks

LEMMA Codec ==
  ASSUME NEW S \in Index
  PROVE  node_index2int8(S) \in Bytes /\ int82node_index(node_index2int8(S)) = S
<1>1. PICK b \in 0..(Bits - 1) : S = {b}
  BY DEF Index
<1>2. b + 1 \in Bytes /\ b \in Nat /\ (b + 1) - 1 = b /\ b < Byte
  BY WireAssumption DEF Bytes
<1>3. int82node_index(b + 1) = {b}
  BY <1>2, ByteToMask, ToByteSmall
<1> QED
  BY <1>1, <1>2, <1>3, IndexToByte

LEMMA OnesType ==
  ASSUME NEW m \in Inputs, NEW n \in 0..(m.topic + m.data)
  PROVE  OnesIn(m, n) \in Nat
<1>1. /\ m.topic \in Nat /\ m.data \in Nat /\ m.topicOnes \in Nat /\ m.dataOnes \in Nat
      /\ m.index \in Index
  BY WireAssumption
<1>2. CASE n <= m.topic
  BY <1>1, <1>2 DEF OnesIn
<1>3. CASE n > m.topic
  <2>1. n - m.topic \in Nat
    BY <1>1, <1>3
  <2>2. (n - m.topic) * m.dataOnes \in Nat /\ m.topic * m.topicOnes \in Nat
    BY <1>1, <2>1
  <2> QED
    BY <1>1, <1>3, <2>2 DEF OnesIn
<1> QED
  BY <1>1, <1>2, <1>3

LEMMA ComposeType == ASSUME NEW m \in Inputs PROVE Compose(m) \in Heads
<1>1. m.topic \in Nat /\ m.data \in Nat /\ m.index \in Index
  BY WireAssumption
<1>2. OnesIn(m, m.topic + m.data) \in Nat
  BY <1>1, OnesType
<1> QED
  BY <1>1, <1>2, Codec, ToByteType, CodeGenera DEF Compose, Heads

-----------------------------------------------------------------------------
(***************************************************************************)
(* The positions of the messages in the stream.                            *)
(***************************************************************************)
Message == [input : Inputs, head : Heads]
Size(m) == HeadLength + BodyLength(m.head)
Ends(s) == CHOOSE e : e = [i \in 0..Len(s) |-> IF i = 0 THEN 0 ELSE e[i - 1] + HeadLength + BodyLength(s[i].head)]

LEMMA BodyType == ASSUME NEW hd \in Heads PROVE BodyLength(hd) \in 0..(2 * Byte - 2)
  BY ByteIsNat DEF BodyLength, Heads, Bytes

\* The positions are the sums of the sizes before them.
LEMMA EndsEquations ==
  ASSUME NEW s \in Seq(Message)
  PROVE  /\ Ends(s) \in [0..Len(s) -> Nat] /\ Ends(s)[0] = 0
         /\ \A i \in 1..Len(s) : Ends(s)[i] = Ends(s)[i - 1] + HeadLength + BodyLength(s[i].head)
<1> DEFINE N == Len(s)
           a(i) == BodyLength(s[i].head)
           Upto(k, e) == /\ e \in [0..k -> Nat] /\ e[0] = 0
                         /\ \A i \in 1..k : e[i] = e[i - 1] + HeadLength + a(i)
           S == {k \in Nat : k <= N => \E e : Upto(k, e)}
<1>1. N \in Nat /\ \A i \in 1..N : a(i) \in Nat
  <2>1. ASSUME NEW i \in 1..N PROVE a(i) \in Nat
    <3>1. s[i] \in Message
      OBVIOUS
    <3>2. s[i].head \in Heads
      BY <3>1 DEF Message
    <3> QED
      BY <3>2, BodyType, ByteIsNat
  <2> QED
    BY <2>1
<1>2. HeadLength \in Nat
  BY WireAssumption
<1> HIDE DEF a, N
<1>3. 0 \in S
  <2>1. Upto(0, [i \in 0..0 |-> 0])
    OBVIOUS
  <2> QED
    BY <2>1
<1>4. ASSUME NEW k \in Nat, k \in S PROVE k + 1 \in S
  <2> SUFFICES ASSUME k + 1 <= N PROVE \E e : Upto(k + 1, e)
    <3>1. k + 1 \in Nat
      OBVIOUS
    <3> HIDE DEF Upto
    <3> QED
      BY <3>1, Zenon
  <2>1. PICK e : Upto(k, e)
    <3>1. k <= N
      BY <1>1
    <3> HIDE DEF Upto
    <3> QED
      BY <3>1, <1>4, Zenon
  <2> DEFINE g == [i \in 0..(k + 1) |-> IF i <= k THEN e[i] ELSE e[k] + HeadLength + a(k + 1)]
  <2>2. g \in [0..(k + 1) -> Nat] /\ g[0] = 0
    BY <2>1, <1>1, <1>2
  <2>3. ASSUME NEW i \in 1..(k + 1) PROVE g[i] = g[i - 1] + HeadLength + a(i)
    BY <2>1
  <2>4. Upto(k + 1, g)
    BY <2>2, <2>3
  <2> QED
    BY <2>4
<1>5. N \in S
  <2> HIDE DEF S
  <2> QED
    BY <1>1, <1>3, <1>4, SetInduction
<1>6. PICK f : Upto(N, f)
  <2>1. N <= N
    BY <1>1
  <2> HIDE DEF Upto
  <2> QED
    BY <1>5, <2>1, Zenon
<1> DEFINE Def(g) == [i \in 0..N |-> IF i = 0 THEN 0 ELSE g[i - 1] + HeadLength + a(i)]
<1>7. f = Def(f)
  BY <1>1, <1>6
<1>8. Ends(s) = CHOOSE g : g = Def(g)
  BY DEF Ends, N, a
<1>9. Ends(s) = Def(Ends(s))
  <2> HIDE DEF Def
  <2> QED
    BY <1>7, <1>8
<1> DEFINE e == Ends(s)
           R == {k \in Nat : k <= N => e[k] = f[k]}
<1> HIDE DEF e
<1>10. e = Def(e)
  BY <1>9 DEF e
<1>11. \A i \in 0..N : e[i] = IF i = 0 THEN 0 ELSE e[i - 1] + HeadLength + a(i)
  BY <1>10
<1>12. DOMAIN e = 0..N /\ e = [i \in 0..N |-> e[i]]
  BY <1>10
<1> HIDE DEF Def
<1>13. 0 \in R
  BY <1>6, <1>11, <1>1
<1>14. ASSUME NEW k \in Nat, k \in R PROVE k + 1 \in R
  BY <1>14, <1>6, <1>11, <1>1
<1>15. \A k \in 0..N : e[k] = f[k]
  <2>1. Nat \subseteq R
    <3> HIDE DEF R
    <3> QED
      BY <1>13, <1>14, SetInduction
  <2> QED
    BY <2>1
<1>16. Upto(N, e)
  BY <1>6, <1>12, <1>15, <1>1
<1> QED
  BY <1>16 DEF e, N, a

\* They grow by a head at least.
LEMMA EndsGrow ==
  ASSUME NEW s \in Seq(Message), NEW i \in 0..Len(s), NEW j \in 0..Len(s), i < j
  PROVE  Ends(s)[i] + HeadLength <= Ends(s)[j]
<1> DEFINE e == Ends(s)
           N == Len(s)
           a(k) == BodyLength(s[k].head)
           S == {k \in Nat : i + 1 + k <= N => e[i] + HeadLength <= e[i + 1 + k]}
<1>1. /\ N \in Nat /\ i \in 0..N /\ e \in [0..N -> Nat] /\ HeadLength \in Nat
      /\ \A k \in 1..N : a(k) \in Nat
      /\ \A k \in 1..N : e[k] = e[k - 1] + HeadLength + a(k)
  <2>1. ASSUME NEW k \in 1..N PROVE a(k) \in Nat
    <3>1. s[k] \in Message
      OBVIOUS
    <3>2. s[k].head \in Heads
      BY <3>1 DEF Message
    <3> QED
      BY <3>2, BodyType, ByteIsNat
  <2> QED
    BY <2>1, EndsEquations, WireAssumption
<1> HIDE DEF e, a, N
<1>2. 0 \in S
  BY <1>1
<1>3. ASSUME NEW k \in Nat, k \in S PROVE k + 1 \in S
  <2> SUFFICES ASSUME i + 1 + (k + 1) <= N PROVE e[i] + HeadLength <= e[i + 1 + (k + 1)]
    OBVIOUS
  <2>1. e[i] + HeadLength <= e[i + 1 + k]
    BY <1>1, <1>3
  <2>2. e[i + 1 + (k + 1)] = e[i + 1 + k] + HeadLength + a(i + 1 + (k + 1))
    BY <1>1
  <2>3. /\ e[i] \in Nat /\ e[i + 1 + k] \in Nat /\ HeadLength \in Nat
        /\ a(i + 1 + (k + 1)) \in Nat
    BY <1>1
  <2> QED
    BY ONLY <2>1, <2>2, <2>3
<1>4. j - (i + 1) \in S
  <2> HIDE DEF S
  <2> QED
    BY <1>2, <1>3, SetInduction
<1>5. i + 1 + (j - (i + 1)) = j
  OBVIOUS
<1> QED
  BY <1>4, <1>5 DEF e, N

\* A message that is appended moves no message before it.
LEMMA EndsKept ==
  ASSUME NEW s \in Seq(Message), NEW m \in Message, NEW i \in 0..Len(s)
  PROVE  Ends(Append(s, m))[i] = Ends(s)[i]
<1> DEFINE t == Append(s, m)
           e == Ends(s)
           g == Ends(t)
           S == {k \in Nat : k <= Len(s) => g[k] = e[k]}
<1>1. t \in Seq(Message) /\ Len(t) = Len(s) + 1 /\ \A k \in 1..Len(s) : t[k] = s[k]
  OBVIOUS
<1> HIDE DEF t
<1>2. e[0] = 0 /\ \A k \in 1..Len(s) : e[k] = e[k - 1] + HeadLength + BodyLength(s[k].head)
  BY EndsEquations
<1>3. g[0] = 0 /\ \A k \in 1..Len(t) : g[k] = g[k - 1] + HeadLength + BodyLength(t[k].head)
  BY <1>1, EndsEquations
<1> HIDE DEF e, g
<1>4. 0 \in S
  BY <1>2, <1>3
<1>5. ASSUME NEW k \in Nat, k \in S PROVE k + 1 \in S
  BY <1>5, <1>1, <1>2, <1>3
<1>6. i \in S
  <2> HIDE DEF S
  <2> QED
    BY <1>4, <1>5, SetInduction
<1> QED
  BY <1>6 DEF e, g, t

LEMMA EndOfIsEnds == EndOf = Ends(sent)
  BY DEF EndOf, Ends

-----------------------------------------------------------------------------
LEMMA SentType ==
  ASSUME TypeOK
  PROVE  sent \in Seq(Message) /\ EndOf \in [0..Len(sent) -> Nat]
<1>1. sent \in Seq(Message)
  BY DEF TypeOK, Message
<1> QED
  BY <1>1, EndOfIsEnds, EndsEquations

\* The type invariant.
LEMMA TypeInit == Init => TypeOK
<1>1. HeadLength \in 0..(HeadLength + 2 * Byte) /\ NoHead \in Heads
  BY WireAssumption DEF NoHead, Heads, Bytes
<1>2. <<>> \in Seq(Message) /\ <<>> \in Seq(1..0) /\ <<>> \in Seq(Received) /\ Len(<<>>) = 0
  OBVIOUS
<1> SUFFICES ASSUME Init PROVE TypeOK
  OBVIOUS
<1>3. sent \in Seq(Message) /\ buffer \in Seq(1..arrived) /\ handled \in Seq(Received)
  BY <1>2 DEF Init
<1>5. Len(buffer) <= HeadLength /\ left <= HeadLength
  <2>1. HeadLength \in Nat /\ Len(<<>>) = 0
    BY <1>2, WireAssumption
  <2> QED
    BY <2>1 DEF Init
<1>6. torn \in BOOLEAN
  BY DEF Init
<1>4. /\ arrived \in Nat /\ taken \in 0..arrived /\ from \in 0..Len(sent)
      /\ left \in 0..(HeadLength + 2 * Byte) /\ head \in Heads
  BY <1>1, <1>2 DEF Init
<1> QED
  BY <1>3, <1>4, <1>5, <1>6 DEF Init, TypeOK, Message

LEMMA LeastType ==
  ASSUME NEW a \in Nat, NEW b \in Nat, a > 0, b > 0
  PROVE  Least(a, b) \in 1..a
  BY DEF Least

LEMMA TypeRead ==
  ASSUME TypeOK, Read, UNCHANGED arrived
  PROVE  /\ taken' \in 0..arrived' /\ left' \in 0..(HeadLength + 2 * Byte)
         /\ buffer' \in Seq(1..arrived') /\ Len(buffer') <= left /\ left' <= left
<1> DEFINE n == Least(left, arrived - taken)
<1>1. n \in Nat /\ n <= left /\ n <= arrived - taken
  BY WireAssumption DEF TypeOK, Read, Least
<1>2. buffer' = [i \in 1..n |-> taken + i] /\ taken' = taken + n /\ left' = left - n
  BY DEF Read
<1> HIDE DEF n
<1>3. \A i \in 1..n : taken + i \in 1..arrived
  BY <1>1 DEF TypeOK
<1> QED
  BY <1>1, <1>2, <1>3, WireAssumption DEF TypeOK

LEMMA TypeNext == TypeOK /\ [Next]_vars => TypeOK'
<1> SUFFICES ASSUME TypeOK, [Next]_vars PROVE TypeOK'
  OBVIOUS
<1>1. ASSUME NEW m \in Inputs, Write(m) PROVE TypeOK'
  <2>1. [input |-> m, head |-> Compose(m)] \in [input : Inputs, head : Heads]
    BY ComposeType
  <2>2. sent' \in Seq([input : Inputs, head : Heads]) /\ Len(sent') = Len(sent) + 1
    BY <1>1, <2>1 DEF Write, TypeOK
  <2> QED
    BY <1>1, <2>2 DEF Write, TypeOK, readVars
<1>2. CASE Arrive
  <2>1. arrived' \in Nat /\ arrived' > arrived
    <3>1. PICK n \in Cuts : n > arrived /\ arrived' = n
      BY <1>2 DEF Arrive
    <3>2. n \in Int
      BY <3>1 DEF Cuts
    <3> QED
      BY <3>1, <3>2 DEF TypeOK
  <2>2. buffer \in Seq(1..arrived')
    BY <2>1 DEF TypeOK
  <2> QED
    BY <1>2, <2>1, <2>2 DEF Arrive, TypeOK, readVars
<1>3. CASE HangUp
  BY <1>3 DEF HangUp, TypeOK, readVars
<1>4. CASE ReadHead
  <2>1. UNCHANGED arrived /\ Read
    BY <1>4 DEF ReadHead
  <2>2. torn' \in BOOLEAN
    BY <1>4, Zenon DEF ReadHead
  <2>3. pc' = "head" /\ Len(buffer') <= HeadLength /\ left' <= HeadLength
    BY <1>4, <2>1, TypeRead, WireAssumption DEF ReadHead, TypeOK
  <2> QED
    BY <1>4, <2>1, <2>2, <2>3, TypeRead DEF ReadHead, TypeOK
<1>5. CASE GetHead
  <2>1. from' \in 0..Len(sent) /\ head' \in Heads
    <3>1. PICK i \in HeadInBuffer : from' = i /\ head' \in (IF i = 0 THEN StrayHeads ELSE {sent[i].head})
      BY <1>5 DEF GetHead
    <3>2. i = 0 \/ i \in DOMAIN sent
      BY <3>1 DEF HeadInBuffer
    <3>3. ASSUME i \in DOMAIN sent PROVE sent[i].head \in Heads /\ i \in 1..Len(sent)
      <4>1. sent[i] \in Message /\ i \in 1..Len(sent)
        BY <3>3, SentType
      <4> QED
        BY <4>1 DEF Message
    <3>4. StrayHeads \subseteq Heads /\ 0 \in 0..Len(sent) /\ 1..Len(sent) \subseteq 0..Len(sent)
      BY WireAssumption DEF TypeOK
    <3>5. CASE i = 0
      BY ONLY <3>1, <3>4, <3>5
    <3>6. CASE i # 0
      BY ONLY <3>1, <3>2, <3>3, <3>4, <3>6
    <3> QED
      BY <3>5, <3>6
  <2>2. left' \in 0..(HeadLength + 2 * Byte)
    BY <1>5, <2>1, BodyType, WireAssumption DEF GetHead
  <2>3. pc' = "body" /\ buffer' \in Seq(1..arrived') /\ Len(buffer') <= BodyRoom
    BY <1>5, WireAssumption DEF GetHead, BodyRoom
  <2> QED
    BY <1>5, <2>1, <2>2, <2>3 DEF GetHead, TypeOK
<1>6. CASE HeadEnds
  BY <1>6 DEF HeadEnds, TypeOK
<1>7. CASE ReadBody
  <2>1. UNCHANGED arrived /\ Read
    BY <1>7 DEF ReadBody
  <2>2. torn' \in BOOLEAN
    BY <1>7, Zenon DEF ReadBody
  <2>3. pc' \in {"body", "overrun"} /\ (pc' = "body" => Len(buffer') <= BodyRoom)
    <3>1. buffer' \in Seq(1..arrived')
      BY <2>1, TypeRead
    <3>2. Len(buffer') \in Nat /\ BodyRoom \in Nat
      BY <3>1, WireAssumption DEF BodyRoom
    <3> QED
      BY <1>7, <3>2 DEF ReadBody
  <2> QED
    BY <1>7, <2>1, <2>2, <2>3, TypeRead DEF ReadBody, TypeOK
<1>8. CASE CheckCode
  <2>1. ok' \in BOOLEAN
    BY <1>8 DEF CheckCode
  <2> QED
    BY <1>8, <2>1 DEF CheckCode, TypeOK
<1>11. CASE CheckBehindBuffer
  BY <1>11 DEF CheckBehindBuffer, TypeOK
<1>9. CASE Handle
  <2> DEFINE r == [topic |-> head.topic_name_len, data |-> head.data_len,
                   index |-> int82node_index(head.node_index)]
  <2>1. r \in Received
    BY MaskType DEF TypeOK, Heads, Received, Masks
  <2>2. handled' \in Seq(Received) /\ left' \in 0..(HeadLength + 2 * Byte)
    <3>1. handled' \in {Append(handled, r), handled} /\ left' \in {HeadLength, left}
      BY <1>9 DEF Handle
    <3>2. handled \in Seq(Received) /\ left \in 0..(HeadLength + 2 * Byte)
      BY DEF TypeOK
    <3> HIDE DEF r
    <3> QED
      BY <2>1, <3>1, <3>2, WireAssumption
  <2>3. NoHead \in Heads
    BY WireAssumption DEF NoHead, Heads, Bytes
  <2>4. /\ buffer' \in Seq(1..arrived') /\ Len(buffer') <= HeadLength /\ pc' \in {"head", "stopped"}
        /\ pc' = "head" => left' = HeadLength
    BY <1>9, WireAssumption DEF Handle
  <2>5. pc' = "head" => left' <= HeadLength
    BY <2>4, WireAssumption
  <2> QED
    BY <1>9, <2>2, <2>3, <2>4, <2>5 DEF Handle, TypeOK
<1>10. CASE UNCHANGED vars
  BY <1>10 DEF vars, TypeOK
<1> QED
  BY <1>1, <1>2, <1>3, <1>4, <1>5, <1>6, <1>7, <1>8, <1>9, <1>10, <1>11 DEF Next, ReadThread

(***************************************************************************)
(* A connection keeps its types, in whatever pieces the network delivers:  *)
(* every field of a head is a byte whatever the lengths of the strings,    *)
(* the reader takes no byte before it arrived, and the buffer holds what   *)
(* it was read for unless the reader is in the place overrun.  When it     *)
(* gets there is FailureIsExplained's.                                     *)
(***************************************************************************)
THEOREM TypeCorrect == Spec => []TypeOK
<1> QED
  BY TypeInit, TypeNext, PTL DEF Spec

-----------------------------------------------------------------------------
(***************************************************************************)
(* The invariant of the reader.                                            *)
(***************************************************************************)
h == Len(handled)

Composed == \A i \in DOMAIN sent : sent[i].head = Compose(sent[i].input)

ArrivedSent == arrived <= EndOf[Len(sent)]

HandledInOrder ==
  /\ h <= Len(sent)
  /\ \A i \in DOMAIN handled :
       handled[i] = [topic |-> sent[i].head.topic_name_len, data |-> sent[i].head.data_len,
                     index |-> int82node_index(sent[i].head.node_index)]

\* Nothing of the head is read, or a first part that awaits its end, or all of it.
InHead ==
  \/ left = HeadLength /\ taken = EndOf[h]
  \/ 0 < left /\ left < HeadLength /\ taken = EndOf[h] + HeadLength - left
  \/ left = 0 /\ h < Len(sent) /\ taken = EndOf[h] + HeadLength /\ Holds(EndOf[h], HeadLength)

HeadRead == h < Len(sent) /\ from = h + 1 /\ head = sent[h + 1].head

InBody ==
  \/ left = BodyLength(head) /\ taken = EndOf[h] + HeadLength /\ buffer = <<>>
  \/ 0 < left /\ left < BodyLength(head) /\ taken = EndOf[h + 1] - left
  \/ left = 0 /\ taken = EndOf[h + 1] /\ Holds(EndOf[h] + HeadLength, BodyLength(head))

InCheck ==
  \/ /\ left = 0 /\ taken = EndOf[h + 1]
     /\ ok <=> head.check_code = codeGenera(OnesIn(sent[from].input, BodyLength(head)))
  \/ left > 0 /\ closed /\ arrived < EndOf[h + 1]

Whole ==
  /\ HandledInOrder
  /\ pc = "head" => InHead
  /\ pc \in {"body", "check", "overrun"} => HeadRead
  /\ pc = "body" => InBody
  /\ pc = "check" => InCheck
  /\ pc = "overrun" => BodyLength(head) > BodyRoom
  /\ pc # "check" => ok

ReaderInv == Composed /\ ArrivedSent /\ (~torn => Whole)

LEMMA EndOfType ==
  ASSUME TypeOK
  PROVE  /\ EndOf[0] = 0 /\ \A i \in 0..Len(sent) : EndOf[i] \in Nat
         /\ \A i \in 1..Len(sent) : EndOf[i] = EndOf[i - 1] + HeadLength + BodyLength(sent[i].head)
         /\ \A i, j \in 0..Len(sent) : i < j => EndOf[i] + HeadLength <= EndOf[j]
<1>1. sent \in Seq(Message)
  BY SentType
<1>2. \A i, j \in 0..Len(sent) : i < j => Ends(sent)[i] + HeadLength <= Ends(sent)[j]
  BY <1>1, EndsGrow
<1> QED
  BY <1>1, <1>2, EndsEquations, EndOfIsEnds

LEMMA MessageType ==
  ASSUME TypeOK, NEW i \in 1..Len(sent)
  PROVE  sent[i].input \in Inputs /\ sent[i].head \in Heads /\ BodyLength(sent[i].head) \in Nat
<1>1. sent[i] \in Message
  BY SentType
<1>2. sent[i].input \in Inputs /\ sent[i].head \in Heads
  BY <1>1 DEF Message
<1> QED
  BY <1>2, BodyType, ByteIsNat

\* A whole head in the buffer is the head of the message behind position EndOf[k].
LEMMA WholeHead ==
  ASSUME TypeOK, NEW k \in 0..(Len(sent) - 1), Holds(EndOf[k], HeadLength)
  PROVE  HeadInBuffer = {k + 1}
<1>1. Len(sent) \in Nat /\ HeadLength \in Nat \ {0} /\ DOMAIN sent = 1..Len(sent) /\ k + 1 \in 1..Len(sent)
  BY WireAssumption DEF TypeOK
<1>2. ASSUME NEW i \in DOMAIN sent, Holds(EndOf[i - 1], HeadLength) PROVE i = k + 1
  <2>1. i - 1 \in 0..Len(sent) /\ k \in 0..Len(sent) /\ i \in Int
    BY ONLY <1>1, <1>2, k \in 0..(Len(sent) - 1)
  <2>2. EndOf[i - 1] \in Nat /\ EndOf[k] \in Nat
    BY <2>1, EndOfType
  <2>3. buffer[1] = EndOf[i - 1] + 1 /\ buffer[1] = EndOf[k] + 1
    BY <1>1, <1>2 DEF Holds
  <2>4. EndOf[i - 1] = EndOf[k]
    BY ONLY <2>2, <2>3
  <2>5. ~(i - 1 < k) /\ ~(k < i - 1)
    <3>1. /\ i - 1 < k => EndOf[i - 1] + HeadLength <= EndOf[k]
          /\ k < i - 1 => EndOf[k] + HeadLength <= EndOf[i - 1]
      BY <2>1, EndOfType
    <3> QED
      BY ONLY <1>1, <2>2, <2>4, <3>1
  <2> QED
    BY ONLY <2>1, <2>5
<1>3. {i \in DOMAIN sent : Holds(EndOf[i - 1], HeadLength)} = {k + 1}
  <2>1. k + 1 \in DOMAIN sent /\ (k + 1) - 1 = k
    BY <1>1
  <2> QED
    BY <1>2, <2>1
<1> QED
  BY <1>3 DEF HeadInBuffer

-----------------------------------------------------------------------------
LEMMA ComposedNext == TypeOK /\ Composed /\ [Next]_vars => Composed'
<1> SUFFICES ASSUME TypeOK, Composed, [Next]_vars PROVE Composed'
  OBVIOUS
<1>1. ASSUME NEW m \in Inputs, Write(m) PROVE Composed'
  <2> DEFINE r == [input |-> m, head |-> Compose(m)]
  <2>1. sent' = Append(sent, r) /\ sent \in Seq(Message) /\ r.input = m /\ r.head = Compose(m)
    BY <1>1, SentType DEF Write
  <2> HIDE DEF r
  <2>2. \A i \in DOMAIN sent' : (i \in DOMAIN sent /\ sent'[i] = sent[i]) \/ sent'[i] = r
    BY <2>1
  <2> QED
    BY <2>1, <2>2 DEF Composed
<1>2. CASE UNCHANGED sent
  BY <1>2 DEF Composed
<1>3. CASE Next /\ ~\E m \in Inputs : Write(m)
  BY <1>2, <1>3 DEF Next, Arrive, HangUp, readVars, ReadThread, ReadHead, GetHead, HeadEnds, ReadBody, CheckCode,
                  CheckBehindBuffer, Handle
<1> QED
  BY <1>1, <1>2, <1>3 DEF vars, Next

(***************************************************************************)
(* The check code of every message is its number of one bits modulo 256,   *)
(* for texts of any length: codeGenera, which only ever reduces its own    *)
(* byte, computes what its comment says.                                   *)
(***************************************************************************)
THEOREM CodeIsOnes == Spec => []CodeIsOnesModulo
<1>1. Init => Composed
  BY DEF Init, Composed
<1>2. TypeOK /\ Composed => CodeIsOnesModulo
  <2> SUFFICES ASSUME TypeOK, Composed, NEW i \in DOMAIN sent
               PROVE  LET m == sent[i].input
                      IN  sent[i].head.check_code = OnesIn(m, m.topic + m.data) % Byte
    BY DEF CodeIsOnesModulo
  <2> DEFINE m == sent[i].input
  <2>1. m \in Inputs /\ sent[i].head = Compose(m)
    BY MessageType DEF Composed, TypeOK
  <2> HIDE DEF m
  <2>2. m.topic + m.data \in 0..(m.topic + m.data)
    BY <2>1, WireAssumption
  <2>3. codeGenera(OnesIn(m, m.topic + m.data)) = OnesIn(m, m.topic + m.data) % Byte
    BY <2>1, <2>2, OnesType, CodeGenera DEF ToByte
  <2> QED
    BY <2>1, <2>3 DEF Compose, m
<1> QED
  BY <1>1, <1>2, TypeInit, TypeNext, ComposedNext, PTL DEF Spec

-----------------------------------------------------------------------------
LEMMA ReaderInit == Init => ReaderInv
<1> SUFFICES ASSUME Init PROVE ReaderInv
  OBVIOUS
<1>1. TypeOK /\ Len(sent) = 0 /\ h = 0 /\ DOMAIN sent = {} /\ DOMAIN handled = {}
  BY TypeInit DEF Init, h
<1>2. EndOf[0] = 0
  BY <1>1, EndOfType
<1> QED
  BY <1>1, <1>2 DEF Init, ReaderInv, Composed, ArrivedSent, Whole, HandledInOrder, InHead

\* No more bytes arrive than were written.
LEMMA ArrivedNext == TypeOK /\ ArrivedSent /\ [Next]_vars => ArrivedSent'
<1> SUFFICES ASSUME TypeOK, ArrivedSent, [Next]_vars PROVE ArrivedSent'
  OBVIOUS
<1>e. UNCHANGED sent => EndOf' = EndOf
  BY DEF EndOf
<1>1. ASSUME NEW m \in Inputs, Write(m) PROVE ArrivedSent'
  <2> DEFINE r == [input |-> m, head |-> Compose(m)]
  <2>1. sent' = Append(sent, r) /\ sent \in Seq(Message) /\ r \in Message /\ arrived' = arrived
    BY <1>1, SentType, ComposeType DEF Write, Message
  <2> HIDE DEF r
  <2>2. Len(sent') = Len(sent) + 1 /\ Len(sent) \in Nat /\ sent' \in Seq(Message)
    BY <2>1
  <2>3. EndOf' = Ends(sent')
    BY DEF EndOf, Ends
  <2>4. EndOf'[Len(sent)] = EndOf[Len(sent)]
    BY <2>1, <2>2, <2>3, EndsKept, EndOfIsEnds
  <2>5. Ends(sent')[Len(sent)] + HeadLength <= Ends(sent')[Len(sent')]
    BY <2>2, EndsGrow
  <2>6. Ends(sent') \in [0..Len(sent') -> Nat]
    BY <2>2, EndsEquations
  <2>7. /\ EndOf'[Len(sent)] \in Nat /\ EndOf'[Len(sent')] \in Nat /\ arrived \in Nat
        /\ EndOf'[Len(sent)] + HeadLength <= EndOf'[Len(sent')] /\ HeadLength \in Nat
    <3>1. Len(sent) \in 0..Len(sent') /\ Len(sent') \in 0..Len(sent')
      BY ONLY <2>2
    <3>2. HeadLength \in Nat
      BY WireAssumption
    <3>3. arrived \in Nat
      BY DEF TypeOK
    <3> QED
      BY ONLY <2>3, <2>5, <2>6, <3>1, <3>2, <3>3
  <2> QED
    BY <2>1, <2>4, <2>7 DEF ArrivedSent
<1>2. CASE Arrive
  BY <1>2, <1>e DEF Arrive, Cuts, ArrivedSent
<1>3. CASE UNCHANGED <<sent, arrived>>
  BY <1>3, <1>e DEF ArrivedSent
<1>4. ASSUME Next, ~\E m \in Inputs : Write(m), ~Arrive PROVE UNCHANGED <<sent, arrived>>
  BY <1>4 DEF Next, HangUp, ReadThread, ReadHead, GetHead, HeadEnds, ReadBody, CheckCode,
              CheckBehindBuffer, Handle
<1> QED
  BY <1>1, <1>2, <1>3, <1>4 DEF vars

\* A history stays true.
LEMMA TornStays == [Next]_vars /\ torn => torn'
<1> SUFFICES ASSUME [Next]_vars, torn PROVE torn'
  OBVIOUS
<1>1. CASE ReadHead
  BY <1>1, Zenon DEF ReadHead
<1>2. CASE ReadBody
  BY <1>2, Zenon DEF ReadBody
<1>3. ASSUME ~ReadHead, ~ReadBody PROVE torn' = torn
  BY <1>3 DEF Next, Write, Arrive, HangUp, ReadThread, GetHead, HeadEnds, CheckCode,
              CheckBehindBuffer, Handle, vars, readVars
<1> QED
  BY <1>1, <1>2, <1>3

LEMMA WholeNext == ASSUME TypeOK, ReaderInv, [Next]_vars, ~torn, ~torn' PROVE Whole'
<1>0. TypeOK' /\ Whole /\ ArrivedSent
  BY TypeNext DEF ReaderInv
<1>t. /\ h \in Nat /\ Len(sent) \in Nat /\ h <= Len(sent) /\ HeadLength \in Nat \ {0} /\ DOMAIN sent = 1..Len(sent)
      /\ DOMAIN handled = 1..h /\ EndOf[h] \in Nat /\ arrived \in Nat /\ taken \in Nat /\ left \in Nat
      /\ taken <= arrived /\ arrived <= EndOf[Len(sent)]
      /\ h < Len(sent) => /\ EndOf[h + 1] = EndOf[h] + HeadLength + BodyLength(sent[h + 1].head)
                          /\ BodyLength(sent[h + 1].head) \in Nat
  <2>1. /\ h \in Nat /\ Len(sent) \in Nat /\ h <= Len(sent) /\ HeadLength \in Nat \ {0} /\ DOMAIN sent = 1..Len(sent)
        /\ DOMAIN handled = 1..h /\ arrived \in Nat /\ taken \in Nat /\ left \in Nat /\ taken <= arrived
    BY <1>0, WireAssumption DEF TypeOK, h, Whole, HandledInOrder
  <2>2. arrived <= EndOf[Len(sent)]
    BY <1>0 DEF ArrivedSent
  <2> QED
    BY <2>1, <2>2, EndOfType, MessageType
<1>n. /\ left \in Nat /\ taken \in Nat /\ arrived \in Nat /\ taken <= arrived
      /\ HeadLength \in Nat /\ HeadLength > 0 /\ EndOf[h] \in Nat
  BY ONLY <1>t
\* When sent is unchanged, so are the positions.
<1>e. UNCHANGED sent => EndOf' = EndOf
  BY DEF EndOf
<1> USE <1>0 DEF Whole
<1>1. ASSUME NEW m \in Inputs, Write(m) PROVE Whole'
  <2> DEFINE r == [input |-> m, head |-> Compose(m)]
  <2>1. sent' = Append(sent, r) /\ sent \in Seq(Message) /\ r \in Message
    BY <1>1, SentType, ComposeType DEF Write, Message
  <2> HIDE DEF r
  <2>2. Len(sent') = Len(sent) + 1 /\ \A i \in 1..Len(sent) : sent'[i] = sent[i]
    BY <2>1
  <2>3. EndOf' = Ends(sent')
    BY DEF EndOf, Ends
  <2>4. \A i \in 0..Len(sent) : EndOf'[i] = EndOf[i]
    BY <2>1, <2>3, EndsKept, EndOfIsEnds
  <2>6. HandledInOrder' /\ h' = h
    BY <1>1, <2>2, <1>t DEF HandledInOrder, Write, readVars, h
  <2>7. pc = "head" => InHead'
    <3>1. UNCHANGED <<pc, left, taken, buffer>>
      BY <1>1 DEF Write, readVars
    <3>2. EndOf'[h'] = EndOf[h] /\ (h < Len(sent) => h' < Len(sent'))
      BY ONLY <2>2, <2>4, <2>6, <1>t
    <3>3. pc = "head" => InHead
      OBVIOUS
    <3> QED
      BY ONLY <2>6, <3>1, <3>2, <3>3 DEF InHead, Holds
  <2>8. pc \in {"body", "check", "overrun"} => HeadRead'
    BY <1>1, <2>2, <2>6, <1>t DEF HeadRead, Write, readVars
  <2>9. h < Len(sent) => EndOf'[h] = EndOf[h] /\ EndOf'[h + 1] = EndOf[h + 1] /\ sent'[h + 1] = sent[h + 1]
    <3>1. h < Len(sent) => h \in 0..Len(sent) /\ h + 1 \in 0..Len(sent) /\ h + 1 \in 1..Len(sent)
      BY ONLY <1>t
    <3> QED
      BY ONLY <2>2, <2>4, <3>1
  <2>10. pc = "body" => InBody'
    BY <1>1, <2>6, <2>9, <1>t DEF InBody, HeadRead, Write, readVars, Holds
  <2>11. pc = "check" => InCheck'
    BY <1>1, <2>6, <2>9, <1>t DEF InCheck, HeadRead, Write, readVars
  <2> QED
    BY <1>1, <2>6, <2>7, <2>8, <2>10, <2>11 DEF Write, readVars
<1>2. CASE Arrive
  <2>1. UNCHANGED <<sent, closed, readVars>> /\ ~closed
    BY <1>2 DEF Arrive
  <2> QED
    BY <2>1, <1>e DEF readVars, HandledInOrder, InHead, HeadRead, InBody, InCheck, Holds, h
<1>3. CASE HangUp
  BY <1>3, <1>e DEF HangUp, readVars, HandledInOrder, InHead, HeadRead, InBody, InCheck, Holds, h
<1>4. CASE ReadHead
  <2> DEFINE n == Least(left, arrived - taken)
  <2>1. left = HeadLength /\ taken = EndOf[h] /\ taken < arrived /\ pc = "head"
    <3>1. left > 0 /\ taken < arrived /\ pc = "head" /\ ~(left < HeadLength)
      <4>1. ~(left < HeadLength)
        BY <1>4, Zenon DEF ReadHead
      <4> QED
        BY <1>4, <4>1 DEF ReadHead, Read
    <3> QED
      BY <3>1 DEF InHead
  <2>2. h < Len(sent)
    BY <2>1, <1>t
  <2>3. n \in 1..HeadLength
    <3>1. HeadLength \in Nat /\ HeadLength > 0 /\ arrived - taken \in Nat /\ arrived - taken > 0
      BY ONLY <2>1, <1>n
    <3> QED
      BY ONLY <2>1, <3>1, LeastType
  <2>4. left' = HeadLength - n /\ taken' = EndOf[h] + n /\ buffer' = [i \in 1..n |-> EndOf[h] + i]
    BY <1>4, <2>1, <1>t DEF ReadHead, Read
  <2> HIDE DEF n
  <2>5. InHead'
    <3>1. UNCHANGED sent /\ h' = h
      BY <1>4 DEF ReadHead, h
    <3> QED
      BY <1>e, <2>2, <2>3, <2>4, <3>1, <1>t DEF InHead, Holds
  <2> QED
    BY <1>4, <1>e, <2>5 DEF ReadHead, HandledInOrder, h
<1>5. CASE GetHead
  <2>1. h < Len(sent) /\ taken = EndOf[h] + HeadLength /\ Holds(EndOf[h], HeadLength) /\ pc = "head"
    BY <1>5, <1>t DEF GetHead, InHead
  <2>2. HeadInBuffer = {h + 1}
    BY <2>1, <1>t, WholeHead
  <2>3. from' = h + 1 /\ head' = sent[h + 1].head
    BY <1>5, <2>2, <1>t DEF GetHead
  <2>4. InBody' /\ HeadRead'
    BY <1>5, <1>e, <2>1, <2>3 DEF GetHead, InBody, HeadRead, h
  <2> QED
    BY <1>5, <1>e, <2>4 DEF GetHead, HandledInOrder, h
<1>6. CASE HeadEnds
  BY <1>6, <1>e DEF HeadEnds, HandledInOrder, h
<1>7. CASE ReadBody
  <2> DEFINE n == Least(left, arrived - taken)
  <2>1. left = BodyLength(head) /\ taken = EndOf[h] + HeadLength /\ taken < arrived /\ pc = "body" /\ HeadRead
    <3>1. left > 0 /\ taken < arrived /\ pc = "body" /\ ~(left < BodyLength(head))
      <4>1. ~(left < BodyLength(head))
        BY <1>7, Zenon DEF ReadBody
      <4> QED
        BY <1>7, <4>1 DEF ReadBody, Read
    <3> QED
      BY <3>1 DEF InBody
  <2>2. EndOf[h + 1] = EndOf[h] + HeadLength + left /\ left \in Nat /\ left > 0
    BY <1>7, <2>1, <1>t DEF HeadRead, ReadBody
  <2>3. n \in 1..left
    <3>1. left \in Nat /\ left > 0 /\ arrived - taken \in Nat /\ arrived - taken > 0
      BY ONLY <2>1, <2>2, <1>n
    <3> QED
      BY ONLY <2>1, <3>1, LeastType
  <2>4. left' = left - n /\ taken' = taken + n /\ buffer' = [i \in 1..n |-> taken + i]
    BY <1>7 DEF ReadBody, Read
  <2> HIDE DEF n
  <2>5. UNCHANGED <<sent, handled, head, from, ok>> /\ h' = h /\ Len(buffer') = n
    BY <1>7, <2>3, <2>4, <1>t DEF ReadBody, h
  <2>6. HeadRead' /\ HandledInOrder'
    BY <2>1, <2>5, <1>e DEF HeadRead, HandledInOrder
  <2>7. InBody'
    <3>1. EndOf' = EndOf /\ BodyLength(head') = left
      BY ONLY <1>e, <2>1, <2>5
    <3>2. CASE n = left
      <4>1. left' = 0 /\ taken' = EndOf[h + 1] /\ buffer' = [i \in 1..left |-> EndOf[h] + HeadLength + i]
        BY ONLY <2>1, <2>2, <2>4, <3>2, <1>t
      <4> QED
        BY ONLY <2>5, <3>1, <4>1 DEF InBody, Holds
    <3>3. CASE n # left
      <4>1. 0 < left' /\ left' < left
        BY ONLY <2>2, <2>3, <2>4, <3>3
      <4>2. taken' = EndOf[h + 1] - left'
        BY ONLY <2>1, <2>2, <2>3, <2>4, <1>n
      <4> QED
        BY ONLY <2>5, <3>1, <4>1, <4>2 DEF InBody
    <3> QED
      BY <3>2, <3>3
  <2>8. pc' = (IF n > BodyRoom THEN "overrun" ELSE "body")
    BY <1>7, <2>5 DEF ReadBody
  <2>9. n > BodyRoom => BodyLength(head') > BodyRoom
    BY <2>1, <2>2, <2>3, <2>5, WireAssumption DEF BodyRoom
  <2> QED
    BY <2>1, <2>5, <2>6, <2>7, <2>8, <2>9
<1>8. CASE CheckCode
  <2>1. pc = "body" /\ HeadRead /\ InBody
    BY <1>8 DEF CheckCode
  <2>2. CASE left = 0
    <3>1. BodyIsWhole /\ taken = EndOf[h + 1]
      <4>1. from # 0 /\ EndOf[from - 1] = EndOf[h] /\ BodyLength(head) = BodyLength(sent[h + 1].head)
        BY <2>1, <1>t DEF HeadRead
      <4>2. CASE left = BodyLength(head) /\ taken = EndOf[h] + HeadLength /\ buffer = <<>>
        <5>1. taken = EndOf[h + 1] /\ BodyLength(head) = 0
          BY <2>1, <2>2, <4>1, <4>2, <1>t DEF HeadRead
        <5>2. <<>> = [i \in 1..0 |-> EndOf[h] + HeadLength + i]
          OBVIOUS
        <5> QED
          BY <4>1, <4>2, <5>1, <5>2 DEF BodyIsWhole, Holds
      <4>3. CASE left = 0 /\ taken = EndOf[h + 1] /\ Holds(EndOf[h] + HeadLength, BodyLength(head))
        BY <4>1, <4>3 DEF BodyIsWhole
      <4> QED
        BY <2>1, <2>2, <4>2, <4>3 DEF InBody
    <3>2. ok' = (head.check_code = codeGenera(OnesIn(sent[from].input, BodyLength(head))))
      BY <1>8, <3>1 DEF CheckCode
    <3> QED
      BY <1>8, <1>e, <2>1, <2>2, <3>1, <3>2 DEF CheckCode, HandledInOrder, HeadRead, InCheck, h
  <2>3. CASE left > 0
    <3>1. taken = arrived /\ closed
      BY <1>8, <2>3 DEF CheckCode, EndOfFile
    <3>2. arrived < EndOf[h + 1]
      <4>1. BodyLength(head) \in Nat /\ EndOf[h + 1] = EndOf[h] + HeadLength + BodyLength(head)
        BY ONLY <2>1, <1>t DEF HeadRead
      <4>2. \/ left = BodyLength(head) /\ taken = EndOf[h] + HeadLength
            \/ taken = EndOf[h + 1] - left
        BY ONLY <2>1, <2>3 DEF InBody
      <4> QED
        BY ONLY <2>3, <3>1, <4>1, <4>2, <1>n
    <3> QED
      BY <1>8, <1>e, <2>1, <2>3, <3>1, <3>2 DEF CheckCode, HandledInOrder, HeadRead, InCheck, h
  <2> QED
    BY <2>2, <2>3, <1>t
<1>11. CASE CheckBehindBuffer
  BY <1>11, <1>e DEF CheckBehindBuffer, HandledInOrder, HeadRead, h
<1>9. CASE Handle
  <2>1. pc = "check" /\ HeadRead /\ InCheck
    BY <1>9 DEF Handle
  <2>2. CASE left = 0
    <3> DEFINE r == [topic |-> head.topic_name_len, data |-> head.data_len,
                     index |-> int82node_index(head.node_index)]
    <3>1. taken = EndOf[h + 1] /\ handled' = Append(handled, r) /\ pc' = "head" /\ left' = HeadLength
      BY <1>9, <2>1, <2>2 DEF Handle, InCheck
    <3>2. handled \in Seq(Received)
      BY DEF TypeOK
    <3>3. r = [topic |-> sent[h + 1].head.topic_name_len, data |-> sent[h + 1].head.data_len,
               index |-> int82node_index(sent[h + 1].head.node_index)]
      BY <2>1 DEF HeadRead
    <3> HIDE DEF r
    <3>4. h' = h + 1 /\ DOMAIN handled' = 1..(h + 1) /\ handled'[h + 1] = r /\ \A i \in 1..h : handled'[i] = handled[i]
      BY <3>1, <3>2 DEF h
    <3>5. UNCHANGED <<sent, arrived, closed, taken, ok>>
      BY <1>9 DEF Handle
    <3>6. HandledInOrder'
      <4>1. \A i \in 1..(h + 1) : i \in 1..h \/ i = h + 1
        BY <1>t
      <4> QED
        BY <2>1, <3>3, <3>4, <3>5, <4>1, <1>t DEF HandledInOrder, HeadRead
    <3>7. ok /\ InHead'
      BY <1>9, <1>e, <3>1, <3>4, <3>5 DEF InHead, Handle
    <3> QED
      BY <1>e, <3>1, <3>5, <3>6, <3>7
  <2>3. CASE left # 0
    BY <1>9, <1>e, <2>3 DEF Handle, HandledInOrder, h
  <2> QED
    BY <2>2, <2>3
<1>10. CASE UNCHANGED vars
  BY <1>10, <1>e DEF vars, HandledInOrder, InHead, HeadRead, InBody, InCheck, Holds, h
<1> QED
  BY <1>1, <1>2, <1>3, <1>4, <1>5, <1>6, <1>7, <1>8, <1>9, <1>10, <1>11 DEF Next, ReadThread

LEMMA ReaderNext == TypeOK /\ ReaderInv /\ [Next]_vars => ReaderInv'
<1> SUFFICES ASSUME TypeOK, ReaderInv, [Next]_vars PROVE ReaderInv'
  OBVIOUS
<1>1. Composed' /\ ArrivedSent'
  BY ComposedNext, ArrivedNext DEF ReaderInv
<1>2. ASSUME ~torn' PROVE Whole'
  <2>1. ~torn
    BY <1>2, TornStays
  <2> QED
    BY <1>2, <2>1, WholeNext
<1> QED
  BY <1>1, <1>2 DEF ReaderInv

(***************************************************************************)
(* As long as no read overwrites the beginning of a head or a body,        *)
(* MsgHandler is given the messages of the peer in their order, none twice *)
(* and none left out, each with its node number and, when it fits, with    *)
(* its whole text.  The network may cut the stream anywhere.               *)
(***************************************************************************)
THEOREM RoundTripHolds == Spec => []RoundTrip
<1>1. TypeOK /\ ReaderInv => RoundTrip
  <2> SUFFICES ASSUME TypeOK, ReaderInv, ~torn, NEW i \in DOMAIN handled
               PROVE  /\ i \in DOMAIN sent
                      /\ handled[i].index = sent[i].input.index
                      /\ Fits(sent[i].input) =>
                           handled[i].topic = sent[i].input.topic /\ handled[i].data = sent[i].input.data
    BY DEF RoundTrip
  <2> DEFINE m == sent[i].input
  <2>1. i \in 1..Len(sent) /\ DOMAIN sent = 1..Len(sent)
    BY DEF ReaderInv, Whole, HandledInOrder, TypeOK, h
  <2>2. /\ m \in Inputs /\ sent[i].head = Compose(m)
        /\ handled[i] = [topic |-> sent[i].head.topic_name_len, data |-> sent[i].head.data_len,
                         index |-> int82node_index(sent[i].head.node_index)]
    BY <2>1, MessageType DEF ReaderInv, Whole, Composed, HandledInOrder
  <2> HIDE DEF m
  <2>3. /\ handled[i].topic = ToByte(m.topic) /\ handled[i].data = ToByte(m.data)
        /\ handled[i].index = int82node_index(node_index2int8(m.index))
    BY <2>2 DEF Compose
  <2>4. m.index \in Index /\ m.topic \in Nat /\ m.data \in Nat
    BY <2>2, WireAssumption
  <2>5. handled[i].index = m.index
    BY <2>3, <2>4, Codec
  <2>6. Fits(m) => handled[i].topic = m.topic /\ handled[i].data = m.data
    BY <2>3, <2>4, ToByteSmall DEF Fits
  <2> QED
    BY <2>1, <2>5, <2>6 DEF m
<1> QED
  BY <1>1, TypeInit, TypeNext, ReaderInit, ReaderNext, PTL DEF Spec

(***************************************************************************)
(* The assertion on the check code fails, and the reader leaves its        *)
(* buffer, only over a message that does not fit, one that the peer left   *)
(* unfinished, or one of which a read has overwritten a part.              *)
(***************************************************************************)
THEOREM FailureIsExplained == Spec => []FailureExplained
<1>1. TypeOK /\ ReaderInv => FailureExplained
  <2> SUFFICES ASSUME TypeOK, ReaderInv, ~ok \/ pc = "overrun", ~torn, Fits(sent[from].input)
               PROVE  ~ok /\ closed /\ arrived < EndOf[from]
    BY DEF FailureExplained
  <2> DEFINE m == sent[from].input
  <2>1. HeadRead /\ pc \in {"check", "overrun"}
    BY DEF ReaderInv, Whole
  <2>2. from \in 1..Len(sent) /\ DOMAIN sent = 1..Len(sent)
    BY <2>1 DEF HeadRead, TypeOK, h
  <2>3. m \in Inputs /\ head = Compose(m)
    BY <2>1, <2>2, MessageType DEF ReaderInv, Composed, HeadRead
  <2>7. Fits(m)
    OBVIOUS
  <2> HIDE DEF m
  <2>4. /\ m.topic \in Nat /\ m.data \in Nat /\ m.topic < Byte /\ m.data < Byte
        /\ HeadLength + m.topic + m.data <= BufferSize
    BY <2>3, <2>7, WireAssumption DEF Fits
  <2>5. head.topic_name_len = m.topic /\ head.data_len = m.data
    BY <2>3, <2>4, ToByteSmall DEF Compose
  <2>6. head.check_code = codeGenera(OnesIn(m, BodyLength(head)))
    BY <2>3, <2>5 DEF Compose, BodyLength
  <2>8. BodyLength(head) <= BodyRoom
    BY <2>4, <2>5, WireAssumption DEF BodyLength, BodyRoom
  <2>9. BodyLength(head) \in Nat /\ BodyRoom \in Int
    BY <2>4, <2>5, WireAssumption DEF BodyLength, BodyRoom
  <2>10. pc = "check" /\ ~ok
    BY <2>1, <2>8, <2>9 DEF ReaderInv, Whole
  <2>11. InCheck
    BY <2>10 DEF ReaderInv, Whole
  <2> QED
    BY <2>1, <2>6, <2>10, <2>11 DEF InCheck, HeadRead, m
<1> QED
  BY <1>1, TypeInit, TypeNext, ReaderInit, ReaderNext, PTL DEF Spec
=============================================================================
