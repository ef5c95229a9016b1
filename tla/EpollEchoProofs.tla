-------------------------- MODULE EpollEchoProofs --------------------------
(***************************************************************************)
(* The echo server of the epoll experiments, for any clients, any lines    *)
(* and buffers of any length.                                              *)
(***************************************************************************)
EXTENDS EpollEcho, FiniteSetTheorems, TLAPS

-----------------------------------------------------------------------------
(***************************************************************************)
(* Induction over the naturals, stated for sets: the finite subsets of Nat *)
(* are well-founded, hence so are its initial segments.                    *)
(***************************************************************************)
LEMMA LeastNat ==
  ASSUME NEW T \in SUBSET Nat, T # {}
  PROVE  \E m \in T : \A k \in T : m <= k
<1> DEFINE U == {0..(m - 1) : m \in T}
<1>1. U \subseteq FiniteSubsetsOf(Nat) /\ U # {}
  <2>1. ASSUME NEW m \in T PROVE 0..(m - 1) \in FiniteSubsetsOf(Nat)
    <3>1. IsFiniteSet(0..(m - 1))
      BY FS_Interval
    <3>2. 0..(m - 1) \subseteq Nat
      OBVIOUS
    <3> QED
      BY <3>1, <3>2, Zenon DEF FiniteSubsetsOf
  <2> QED
    BY <2>1
<1>2. IsWellFoundedOn(StrictSubsetOrdering(Nat), FiniteSubsetsOf(Nat))
  BY FS_StrictSubsetOrderingWellFounded
<1>3. PICK x \in U : \A y \in U : ~ (<<y, x>> \in StrictSubsetOrdering(Nat))
  <2> HIDE DEF U
  <2> QED
    BY <1>1, <1>2, WFMin
<1>4. PICK m \in T : x = 0..(m - 1)
  OBVIOUS
<1>5. ASSUME NEW k \in T, k < m PROVE FALSE
  <2>1. 0..(k - 1) \in U
    OBVIOUS
  <2>2. 0..(k - 1) \subseteq 0..(m - 1) /\ 0..(k - 1) # 0..(m - 1)
    <3>1. k \in 0..(m - 1) /\ k \notin 0..(k - 1)
      BY <1>5
    <3> QED
      BY <3>1, <1>5
  <2>3. <<0..(k - 1), x>> \in StrictSubsetOrdering(Nat)
    BY <2>2, <1>4 DEF StrictSubsetOrdering
  <2> QED
    BY <2>3, <2>1, <1>3
<1> QED
  BY <1>5

LEMMA SetInduction ==
  ASSUME NEW S, 0 \in S, \A n \in Nat : n \in S => n + 1 \in S
  PROVE  Nat \subseteq S
<1> SUFFICES ASSUME Nat \ S # {} PROVE FALSE
  OBVIOUS
<1>1. PICK m \in Nat \ S : \A k \in Nat \ S : m <= k
  BY LeastNat
<1>2. m # 0 /\ m - 1 \in Nat /\ m - 1 \in S
  BY <1>1
<1> QED
  BY <1>2

\* Names that keep the provers from taking a sequence apart.
Cat(q, r) == q \o r
App(q, x) == Append(q, x)

LEMMA CatType ==
  ASSUME NEW S, NEW q \in Seq(S), NEW r \in Seq(S)
  PROVE  /\ Cat(q, r) \in Seq(S) /\ Len(Cat(q, r)) = Len(q) + Len(r)
         /\ \A i \in 1..Len(q) : Cat(q, r)[i] = q[i]
         /\ \A i \in 1..Len(r) : Cat(q, r)[Len(q) + i] = r[i]
  BY DEF Cat

LEMMA CatEmpty ==
  ASSUME NEW S, NEW q \in Seq(S)
  PROVE  Cat(<<>>, q) = q /\ Cat(q, <<>>) = q
  BY DEF Cat

-----------------------------------------------------------------------------
(***************************************************************************)
(* What a buffer holds after s was read into it.                           *)
(***************************************************************************)
LEMMA IntoType ==
  ASSUME NEW S, NEW b \in Seq(S), NEW s \in Seq(S)
  PROVE  /\ Into(b, s) \in Seq(S)
         /\ Len(Into(b, s)) = IF Len(b) <= Len(s) THEN Len(s) ELSE Len(b)
         /\ \A i \in 1..Len(s) : Into(b, s)[i] = s[i]
         /\ \A i \in (Len(s) + 1)..Len(b) : Into(b, s)[i] = b[i]
<1> DEFINE t == SubSeq(b, Len(s) + 1, Len(b))
<1>1. CASE Len(b) <= Len(s)
  <2>1. t = <<>>
    BY <1>1
  <2> QED
    BY <1>1, <2>1 DEF Into
<1>2. CASE Len(b) > Len(s)
  <2>1. t \in Seq(S) /\ Len(t) = Len(b) - Len(s) /\ \A i \in 1..Len(t) : t[i] = b[Len(s) + i]
    BY <1>2
  <2> HIDE DEF t
  <2>2. Into(b, s) = s \o t
    BY DEF Into, t
  <2>3. \A i \in (Len(s) + 1)..Len(b) : (s \o t)[i] = t[i - Len(s)] /\ i - Len(s) \in 1..Len(t)
    BY <1>2, <2>1
  <2>4. \A i \in (Len(s) + 1)..Len(b) : t[i - Len(s)] = b[i]
    BY <1>2, <2>1
  <2>5. s \o t \in Seq(S) /\ Len(s \o t) = Len(b) /\ \A i \in 1..Len(s) : (s \o t)[i] = s[i]
    BY <1>2, <2>1
  <2>6. \A i \in (Len(s) + 1)..Len(b) : (s \o t)[i] = b[i]
    BY <2>3, <2>4
  <2> QED
    BY <1>2, <2>2, <2>5, <2>6
<1> QED
  BY <1>1, <1>2

LEMMA IntoContents ==
  ASSUME NEW b, NEW s, Contents(b), Contents(s)
  PROVE  Contents(Into(b, s))
  BY IntoType DEF Contents

\* What is read into an empty buffer is what the buffer holds.
LEMMA IntoEmpty ==
  ASSUME NEW S, NEW s \in Seq(S), NEW b, b = <<>>
  PROVE  Into(b, s) = s
<1>1. SubSeq(b, Len(s) + 1, Len(b)) = <<>>
  <2>1. Len(b) = 0 /\ b \in Seq(S) /\ Len(s) \in Nat
    OBVIOUS
  <2> QED
    BY <2>1
<1>2. s \o <<>> = s
  OBVIOUS
<1> QED
  BY <1>1, <1>2 DEF Into

-----------------------------------------------------------------------------
(***************************************************************************)
(* The bytes of a sequence that were typed.                                *)
(***************************************************************************)
UpTo(s) == CHOOSE f : f = [i \in 0..Len(s) |->
             IF i = 0 THEN <<>> ELSE IF s[i] = Junk THEN f[i - 1] ELSE Append(f[i - 1], s[i])]

LEMMA RealIsUpTo == \A s : Real(s) = UpTo(s)[Len(s)]
  BY DEF Real, UpTo

LEMMA UpToEquations ==
  ASSUME NEW S, NEW s \in Seq(S)
  PROVE  /\ UpTo(s)[0] = <<>> /\ \A i \in 0..Len(s) : UpTo(s)[i] \in Seq(S)
         /\ \A i \in 1..Len(s) :
              UpTo(s)[i] = IF s[i] = Junk THEN UpTo(s)[i - 1] ELSE Append(UpTo(s)[i - 1], s[i])
<1> DEFINE n == Len(s)
           More(q, i) == IF s[i] = Junk THEN q ELSE Append(q, s[i])
           Upto(k, f) == /\ f \in [0..k -> Seq(S)] /\ f[0] = <<>>
                         /\ \A i \in 1..k : f[i] = More(f[i - 1], i)
           T == {k \in Nat : k <= n => \E f : Upto(k, f)}
<1>1. n \in Nat /\ \A i \in 1..n, q \in Seq(S) : More(q, i) \in Seq(S)
  OBVIOUS
<1> HIDE DEF n, More
<1>2. 0 \in T
  <2>1. <<>> \in Seq(S)
    OBVIOUS
  <2>2. Upto(0, [i \in 0..0 |-> <<>>])
    BY <2>1
  <2> QED
    BY <2>2
<1>3. ASSUME NEW k \in Nat, k \in T PROVE k + 1 \in T
  <2> SUFFICES ASSUME k + 1 <= n PROVE \E f : Upto(k + 1, f)
    <3>1. k + 1 \in Nat
      OBVIOUS
    <3> HIDE DEF Upto
    <3> QED
      BY <3>1, Zenon
  <2>1. PICK f : Upto(k, f)
    <3>1. k <= n
      BY <1>1
    <3> HIDE DEF Upto
    <3> QED
      BY <3>1, <1>3, Zenon
  <2> DEFINE g == [i \in 0..(k + 1) |-> IF i <= k THEN f[i] ELSE More(f[k], k + 1)]
  <2>2. g \in [0..(k + 1) -> Seq(S)] /\ g[0] = <<>>
    BY <2>1, <1>1
  <2>3. ASSUME NEW i \in 1..(k + 1) PROVE g[i] = More(g[i - 1], i)
    <3>1. CASE i <= k
      BY <2>1, <3>1
    <3>2. CASE i = k + 1
      <4>1. g[i] = More(f[k], k + 1) /\ g[i - 1] = f[k]
        BY <3>2
      <4> QED
        BY <4>1, <3>2
    <3> QED
      BY <3>1, <3>2
  <2>4. Upto(k + 1, g)
    BY <2>2, <2>3
  <2> QED
    BY <2>4
<1>4. n \in T
  <2> HIDE DEF T
  <2> QED
    BY <1>1, <1>2, <1>3, SetInduction
<1>5. PICK f : Upto(n, f)
  <2>1. n <= n
    BY <1>1
  <2> HIDE DEF Upto
  <2> QED
    BY <1>4, <2>1, Zenon
<1> DEFINE Def(g) == [i \in 0..n |-> IF i = 0 THEN <<>> ELSE More(g[i - 1], i)]
<1>6. f = Def(f)
  BY <1>1, <1>5
<1>7. UpTo(s) = CHOOSE g : g = Def(g)
  BY DEF UpTo, n, More
<1>8. UpTo(s) = Def(UpTo(s))
  <2> HIDE DEF Def
  <2> QED
    BY <1>6, <1>7
<1> DEFINE e == UpTo(s)
           R == {k \in Nat : k <= n => e[k] = f[k]}
<1> HIDE DEF e
<1>9. \A i \in 0..n : e[i] = IF i = 0 THEN <<>> ELSE More(e[i - 1], i)
  <2>1. e = Def(e)
    BY <1>8 DEF e
  <2> QED
    BY <2>1
<1> HIDE DEF Def
<1>10. 0 \in R
  BY <1>5, <1>9, <1>1
<1>11. ASSUME NEW k \in Nat, k \in R PROVE k + 1 \in R
  <2> SUFFICES ASSUME k + 1 <= n PROVE e[k + 1] = f[k + 1]
    OBVIOUS
  <2>1. e[k] = f[k]
    BY <1>11, <1>1
  <2>2. e[k + 1] = More(e[k], k + 1) /\ f[k + 1] = More(f[k], k + 1)
    BY <1>5, <1>9, <1>1
  <2> QED
    BY <2>1, <2>2
<1>12. \A k \in 0..n : e[k] = f[k]
  <2>1. Nat \subseteq R
    <3> HIDE DEF R
    <3> QED
      BY <1>10, <1>11, SetInduction
  <2> QED
    BY <2>1
<1>13. e[0] = <<>> /\ \A i \in 0..n : e[i] \in Seq(S)
  BY <1>1, <1>5, <1>12
<1>14. \A i \in 1..n : e[i] = More(e[i - 1], i)
  BY <1>9
<1> QED
  BY <1>13, <1>14 DEF e, n, More

LEMMA RealType == ASSUME NEW S, NEW s \in Seq(S) PROVE Real(s) \in Seq(S)
  BY RealIsUpTo, UpToEquations

LEMMA RealEmpty == Real(<<>>) = <<>>
<1>1. <<>> \in Seq({}) /\ Len(<<>>) = 0
  OBVIOUS
<1> QED
  BY <1>1, RealIsUpTo, UpToEquations

LEMMA AppendConcat ==
  ASSUME NEW S, NEW q \in Seq(S), NEW r \in Seq(S), NEW x \in S
  PROVE  App(Cat(q, r), x) = Cat(q, App(r, x))
  BY DEF Cat, App

LEMMA RealConcat ==
  ASSUME NEW S, NEW s \in Seq(S), NEW t \in Seq(S)
  PROVE  Real(s \o t) = Real(s) \o Real(t)
<1> DEFINE u == s \o t
           n == Len(s)
           m == Len(t)
           e == UpTo(u)
           f == UpTo(s)
           g == UpTo(t)
<1>1. /\ u \in Seq(S) /\ Len(u) = n + m /\ n \in Nat /\ m \in Nat
      /\ \A i \in 1..n : u[i] = s[i] /\ s[i] \in S
      /\ \A i \in 1..m : u[n + i] = t[i] /\ t[i] \in S
  OBVIOUS
<1> HIDE DEF u
<1>2. /\ e[0] = <<>>
      /\ \A i \in 1..(n + m) : e[i] = IF u[i] = Junk THEN e[i - 1] ELSE Append(e[i - 1], u[i])
  BY <1>1, UpToEquations
<1>3. /\ f[0] = <<>> /\ \A i \in 0..n : f[i] \in Seq(S)
      /\ \A i \in 1..n : f[i] = IF s[i] = Junk THEN f[i - 1] ELSE Append(f[i - 1], s[i])
  BY UpToEquations
<1>4. /\ g[0] = <<>> /\ \A i \in 0..m : g[i] \in Seq(S)
      /\ \A i \in 1..m : g[i] = IF t[i] = Junk THEN g[i - 1] ELSE Append(g[i - 1], t[i])
  BY UpToEquations
<1>5. Real(u) = e[n + m] /\ Real(s) = f[n] /\ Real(t) = g[m]
  BY <1>1, RealIsUpTo
<1> HIDE DEF n, m, e, f, g
<1> DEFINE T == {k \in Nat : k <= n => e[k] = f[k]}
           P(k) == e[n + k] = f[n] \o g[k]
           R == {k \in Nat : k <= m => P(k)}
<1>6. 0 \in T
  BY <1>2, <1>3
<1>7. ASSUME NEW k \in Nat, k \in T PROVE k + 1 \in T
  BY <1>7, <1>1, <1>2, <1>3
<1>8. e[n] = f[n]
  <2>1. n \in T
    <3> HIDE DEF T
    <3> QED
      BY <1>1, <1>6, <1>7, SetInduction
  <2> QED
    BY <2>1, <1>1
<1>9. P(0)
  <2>1. f[n] \in Seq(S) /\ n + 0 = n
    BY <1>1, <1>3
  <2>2. f[n] \o <<>> = f[n]
    BY <2>1
  <2> QED
    BY <1>4, <1>8, <2>1, <2>2
<1>10. ASSUME NEW k \in Nat, k + 1 <= m, P(k) PROVE P(k + 1)
  <2>1. f[n] \in Seq(S) /\ g[k] \in Seq(S) /\ t[k + 1] \in S
    BY <1>10, <1>1, <1>3, <1>4
  <2>2. e[n + (k + 1)] = IF t[k + 1] = Junk THEN e[n + k] ELSE Append(e[n + k], t[k + 1])
    <3>1. n + (k + 1) \in 1..(n + m) /\ (n + (k + 1)) - 1 = n + k /\ u[n + (k + 1)] = t[k + 1]
      BY <1>1, <1>10
    <3> QED
      BY <3>1, <1>2
  <2>3. g[k + 1] = IF t[k + 1] = Junk THEN g[k] ELSE Append(g[k], t[k + 1])
    BY <1>1, <1>4, <1>10
  <2>4. Append(f[n] \o g[k], t[k + 1]) = f[n] \o Append(g[k], t[k + 1])
    <3>1. App(Cat(f[n], g[k]), t[k + 1]) = Cat(f[n], App(g[k], t[k + 1]))
      BY <2>1, AppendConcat
    <3> QED
      BY <3>1, Zenon DEF Cat, App
  <2> QED
    BY <1>10, <2>2, <2>3, <2>4, Zenon
<1>11. P(m)
  <2> HIDE DEF P
  <2>1. 0 \in R
    BY <1>9
  <2>2. ASSUME NEW k \in Nat, k \in R PROVE k + 1 \in R
    BY <2>2, <1>1, <1>10
  <2>3. m \in R
    <3> HIDE DEF R
    <3> QED
      BY <1>1, <2>1, <2>2, SetInduction
  <2> QED
    BY <2>3, <1>1
<1> QED
  BY <1>5, <1>11, Zenon DEF u

\* A sequence that was typed is kept whole.
LEMMA RealTyped ==
  ASSUME NEW S, NEW s \in Seq(S), \A i \in 1..Len(s) : s[i] # Junk
  PROVE  Real(s) = s
<1> DEFINE n == Len(s)
           f == UpTo(s)
           T == {k \in Nat : k <= n => f[k] = SubSeq(s, 1, k)}
<1>1. /\ n \in Nat /\ f[0] = <<>> /\ Real(s) = f[n]
      /\ \A i \in 1..n : f[i] = Append(f[i - 1], s[i])
  <2>1. n \in Nat /\ Real(s) = f[n]
    BY RealIsUpTo
  <2>2. f[0] = <<>> /\ \A i \in 1..n : f[i] = IF s[i] = Junk THEN f[i - 1] ELSE Append(f[i - 1], s[i])
    BY UpToEquations
  <2> HIDE DEF f
  <2> QED
    BY <2>1, <2>2
<1> HIDE DEF f
<1>2. 0 \in T
  <2>1. SubSeq(s, 1, 0) = <<>>
    OBVIOUS
  <2> QED
    BY <1>1, <2>1
<1>3. ASSUME NEW k \in Nat, k \in T PROVE k + 1 \in T
  <2> SUFFICES ASSUME k + 1 <= n PROVE f[k + 1] = SubSeq(s, 1, k + 1)
    OBVIOUS
  <2>1. f[k + 1] = Append(SubSeq(s, 1, k), s[k + 1])
    <3>1. f[k] = SubSeq(s, 1, k)
      BY <1>3
    <3>2. f[k + 1] = Append(f[k], s[k + 1])
      BY <1>1
    <3> QED
      BY <3>1, <3>2
  <2>2. Append(SubSeq(s, 1, k), s[k + 1]) = SubSeq(s, 1, k + 1)
    OBVIOUS
  <2> QED
    BY <2>1, <2>2
<1>4. n \in T
  <2> HIDE DEF T
  <2> QED
    BY <1>1, <1>2, <1>3, SetInduction
<1>5. SubSeq(s, 1, n) = s
  OBVIOUS
<1> QED
  BY <1>1, <1>4, <1>5

\* Nothing is left of a sequence exactly when none of it was typed.
LEMMA RealNone ==
  ASSUME NEW S, NEW s \in Seq(S)
  PROVE  Real(s) = <<>> <=> \A i \in 1..Len(s) : s[i] = Junk
<1> DEFINE n == Len(s)
           f == UpTo(s)
<1>1. /\ n \in Nat /\ f[0] = <<>> /\ Real(s) = f[n]
      /\ \A i \in 0..n : f[i] \in Seq(S)
      /\ \A i \in 1..n : f[i] = IF s[i] = Junk THEN f[i - 1] ELSE Append(f[i - 1], s[i])
      /\ \A i \in 1..n : s[i] \in S
  BY RealIsUpTo, UpToEquations
<1> HIDE DEF f, n
<1>2. ASSUME \A i \in 1..n : s[i] = Junk PROVE f[n] = <<>>
  <2> DEFINE T == {k \in Nat : k <= n => f[k] = <<>>}
  <2>1. 0 \in T
    BY <1>1
  <2>2. ASSUME NEW k \in Nat, k \in T PROVE k + 1 \in T
    BY <2>2, <1>1, <1>2
  <2>3. n \in T
    <3> HIDE DEF T
    <3> QED
      BY <1>1, <2>1, <2>2, SetInduction
  <2> QED
    BY <2>3, <1>1
<1>3. ASSUME NEW i \in 1..n, s[i] # Junk PROVE f[n] # <<>>
  <2> DEFINE T == {k \in Nat : i + k <= n => Len(f[i + k]) > 0}
  <2>1. 0 \in T
    <3>1. f[i - 1] \in Seq(S) /\ s[i] \in S
      BY <1>1
    <3>2. f[i] = Append(f[i - 1], s[i])
      BY <1>1, <1>3
    <3> QED
      BY <3>1, <3>2
  <2>2. ASSUME NEW k \in Nat, k \in T PROVE k + 1 \in T
    <3> SUFFICES ASSUME i + (k + 1) <= n PROVE Len(f[i + (k + 1)]) > 0
      OBVIOUS
    <3>1. Len(f[i + k]) > 0 /\ f[i + k] \in Seq(S) /\ s[i + (k + 1)] \in S
      BY <2>2, <1>1
    <3>2. f[i + (k + 1)] = IF s[i + (k + 1)] = Junk THEN f[i + k] ELSE Append(f[i + k], s[i + (k + 1)])
      <4>1. i + (k + 1) \in 1..n /\ (i + (k + 1)) - 1 = i + k
        BY <1>1
      <4> QED
        BY <4>1, <1>1
    <3> QED
      BY <3>1, <3>2
  <2>3. n - i \in T
    <3>1. n - i \in Nat
      BY <1>1
    <3> HIDE DEF T
    <3> QED
      BY <3>1, <2>1, <2>2, SetInduction
  <2>4. i + (n - i) = n
    BY <1>1
  <2>5. Len(f[n]) > 0
    BY <2>3, <2>4, <1>1
  <2> QED
    BY <2>5
<1> QED
  BY <1>1, <1>2, <1>3 DEF n

\* A line typed over a buffer with nothing typed in it.
LEMMA RealInto ==
  ASSUME NEW S, NEW b \in Seq(S), NEW s \in Seq(S), Real(b) = <<>>, \A i \in 1..Len(s) : s[i] # Junk
  PROVE  Real(Into(b, s)) = s
<1> DEFINE t == SubSeq(b, Len(s) + 1, Len(b))
<1>1. t \in Seq(S) /\ \A i \in 1..Len(t) : t[i] = Junk
  <2>1. \A i \in 1..Len(b) : b[i] = Junk
    BY RealNone
  <2>2. t \in Seq(S)
    OBVIOUS
  <2>3. ASSUME NEW i \in 1..Len(t) PROVE t[i] = Junk
    <3>1. t[i] = b[Len(s) + i] /\ Len(s) + i \in 1..Len(b)
      OBVIOUS
    <3> QED
      BY <3>1, <2>1
  <2> QED
    BY <2>2, <2>3
<1> HIDE DEF t
<1>2. Real(s \o t) = s \o <<>>
  <2>1. Real(s \o t) = Real(s) \o Real(t)
    BY <1>1, RealConcat
  <2>2. Real(s) = s
    BY RealTyped
  <2>3. Real(t) = <<>>
    BY <1>1, RealNone
  <2> QED
    BY <2>1, <2>2, <2>3
<1>3. s \o <<>> = s
  OBVIOUS
<1> QED
  BY <1>2, <1>3 DEF Into, t

-----------------------------------------------------------------------------
(***************************************************************************)
(* The invariant.                                                          *)
(***************************************************************************)
\* The bytes of a client are in one place at a time, unless one of its buffers was overrun.
Ring(c) ==
  /\ Contents(up[c]) /\ Contents(down[c])
  /\ sock[c] = "closed" => ~alive
  /\ open[c] =>
       /\ interest[c] # "none"
       /\ sock[c] \in {"none", "out"} \/ interest[c] = "out" => up[c] = <<>> /\ down[c] = <<>>
       /\ sock[c] \in {"none", "out"} => interest[c] # "out"
       /\ down[c] # <<>> => up[c] = <<>>

Types == TypeOK /\ buf \in [Conn -> Seq(Byte)] /\ line \in [Conn -> Nat]

BaseInv == Types /\ \A c \in Conn : c \in overrun \/ Ring(c)

\* Without an overlap the buffer belongs to the one connection that is to be written.
Owned ==
  ~overlap => \A c \in Conn :
    /\ interest[c] = "out" => \A d \in Conn : interest[d] = "out" => c = d
    /\ interest[c] = "out" /\ alive => buffer # <<>>
    /\ open[c] => c \in overrun \/ got[c] = Cat(sent[c], IF interest[c] = "out" THEN buffer ELSE <<>>)

\* A client that never types ahead goes round: it types, sends, receives, prints.
Phase(c) ==
  \/ sock[c] = "none" /\ ~stdout[c] /\ Real(buf[c]) = <<>>
  \/ /\ Real(printed[c]) # typed[c]
     /\ \/ sock[c] = "none" /\ stdout[c]
        \/ sock[c] = "out" /\ ~stdout[c]
        \/ sock[c] \in {"in", "closed"} /\ ~stdout[c] /\ buf[c] = <<>>

Phases == \A c \in Conn : c \in ahead \/ c \in overrun \/ ~open[c] \/ Phase(c)

\* What was typed and is not printed yet.
InFlight(c) ==
  IF sock[c] # "in" THEN buf[c]
  ELSE IF interest[c] = "out" THEN buffer
  ELSE IF up[c] # <<>> THEN up[c] ELSE down[c]

WholeAt(c) ==
  /\ IsPrefix(Real(printed[c]), typed[c])
  /\ open[c] /\ sock[c] # "closed" => typed[c] = Cat(Real(printed[c]), Real(InFlight(c)))

Whole == ~overlap => \A c \in Conn : c \in ahead \/ c \in overrun \/ WholeAt(c)

\* The places where a byte may wait that the server has not written or that it has.
Pending(c) == IF sock[c] = "out" THEN buf[c] ELSE <<>>
Loc == {<<"buffer", "buffer">>} \cup ({"sent", "up", "line"} \X Conn)
Place ==
  [l \in Loc |->
     IF l[1] = "buffer" THEN buffer
     ELSE IF l[1] = "sent" THEN sent[l[2]]
     ELSE IF l[1] = "up" THEN up[l[2]] ELSE Pending(l[2])]

Reals(s) == {s[i] : i \in DOMAIN s} \ {Junk}
Once(s) == \A i, j \in DOMAIN s : s[i] = s[j] => s[i] = Junk \/ i = j
IsTyped(b) == \E c \in Conn : \E k \in 1..Len(typed[c]) : b = <<c, k>>

\* A byte is in one place at one position, and was typed.
Distinct(f) ==
  /\ \A l \in Loc : Once(f[l])
  /\ \A l, m \in Loc : l # m => Reals(f[l]) \cap Reals(f[m]) = {}

OnceInv ==
  ahead = {} /\ overrun = {} =>
    Distinct(Place) /\ \A l \in Loc : \A b \in Reals(Place[l]) : IsTyped(b)

-----------------------------------------------------------------------------
LEMMA ContentsEmpty == Contents(<<>>)
  BY EpollAssumption DEF Contents

\* What a read takes fits into the buffer; when everything fits, it takes everything.
LEMMA TakenType ==
  ASSUME NEW S, NEW s \in Seq(S)
  PROVE  /\ Taken(s) \in Seq(S) /\ Rest(s) \in Seq(S) /\ Len(Taken(s)) <= MAXSIZE
         /\ s # <<>> => Taken(s) # <<>>
         /\ Len(s) <= MAXSIZE => Taken(s) = s /\ Rest(s) = <<>>
<1>1. MAXSIZE \in Nat /\ MAXSIZE >= 1
  BY EpollAssumption
<1>2. CASE Len(s) <= MAXSIZE
  BY <1>1, <1>2 DEF Taken, Rest
<1>3. CASE Len(s) > MAXSIZE
  <2>1. Taken(s) = SubSeq(s, 1, MAXSIZE) /\ Rest(s) = SubSeq(s, MAXSIZE + 1, Len(s))
    BY <1>1, <1>3 DEF Taken, Rest
  <2>2. SubSeq(s, 1, MAXSIZE) \in Seq(S) /\ Len(SubSeq(s, 1, MAXSIZE)) = MAXSIZE
    BY <1>1, <1>3
  <2>3. SubSeq(s, MAXSIZE + 1, Len(s)) \in Seq(S)
    BY <1>1, <1>3
  <2>4. Taken(s) \in Seq(S) /\ Len(Taken(s)) = MAXSIZE /\ Rest(s) \in Seq(S)
    BY ONLY <2>1, <2>2, <2>3
  <2> QED
    BY ONLY <1>1, <1>3, <2>4
<1> QED
  BY <1>1, <1>2, <1>3

LEMMA TextType ==
  ASSUME NEW b \in Seq(Byte), NEW t \in Text(b)
  PROVE  t \in Seq(Byte) /\ (Len(b) < MAXSIZE => t = b)
<1> HIDE DEF Byte
<1>1. CASE Len(b) < MAXSIZE
  BY <1>1 DEF Text
<1>2. CASE ~(Len(b) < MAXSIZE)
  <2>1. PICK g \in Behind : t = b \o g
    BY <1>2 DEF Text
  <2>2. g \in Seq({Junk}) /\ Junk \in Byte
    BY EpollAssumption DEF Byte
  <2>3. g \in Seq(Byte)
    BY <2>2
  <2> QED
    BY <1>2, <2>1, <2>3
<1> QED
  BY <1>1, <1>2

LEMMA StrlenType ==
  ASSUME NEW c \in Conn, NEW b, Strlen(c, b), overrun \subseteq Conn
  PROVE  /\ overrun \subseteq overrun' /\ overrun' \subseteq Conn
         /\ \A d : d # c /\ d \in overrun' => d \in overrun
         /\ c \notin overrun' => c \notin overrun /\ Len(b) < MAXSIZE
  BY DEF Strlen

\* No step takes an overrun back.
LEMMA OverrunStays ==
  ASSUME TypeOK, [Next]_vars
  PROVE  overrun \subseteq overrun'
<1>1. overrun \subseteq Conn
  BY DEF TypeOK
<1>2. UNCHANGED overrun \/ \E c \in Conn : \E b : Strlen(c, b)
  BY DEF Next, vars, handle_events, handle_accpet, do_read, do_write, do_readStdin, do_readEnd,
         handle_connection, do_readSock, do_writeSock, do_writeStdout, Kill
<1> QED
  BY <1>1, <1>2, StrlenType

LEMMA ExtendType ==
  ASSUME NEW f \in [Conn -> Seq(Byte)], NEW c \in Conn, NEW s \in Seq(Byte)
  PROVE  /\ Extend(f, c, s) \in [Conn -> Seq(Byte)]
         /\ Extend(f, c, s)[c] = Cat(f[c], s)
         /\ \A d \in Conn : d # c => Extend(f, c, s)[d] = f[d]
<1>1. Cat(f[c], s) \in Seq(Byte)
  BY CatType
<1>2. Extend(f, c, s) = [f EXCEPT ![c] = Cat(f[c], s)]
  BY DEF Extend, Cat
<1> QED
  BY <1>1, <1>2

LEMMA ExtendEmpty ==
  ASSUME NEW f \in [Conn -> Seq(Byte)], NEW c \in Conn, NEW s \in Seq(Byte), Len(f[c]) = 0
  PROVE  Extend(f, c, s)[c] = s
<1>1. f[c] = <<>>
  OBVIOUS
<1>2. Cat(f[c], s) = s
  BY <1>1, CatEmpty
<1> QED
  BY <1>2, ExtendType

\* The bytes of a line that is typed.
LineOf(c) == [k \in 1..Lines[c][line[c] + 1] |-> <<c, Len(typed[c]) + k>>]

LEMMA LineType ==
  ASSUME Types, NEW c \in Conn, line[c] < Len(Lines[c])
  PROVE  /\ Contents(LineOf(c)) /\ LineOf(c) # <<>>
         /\ \A k \in 1..Len(LineOf(c)) : LineOf(c)[k] = <<c, Len(typed[c]) + k>> /\ LineOf(c)[k] # Junk
<1> DEFINE n == Lines[c][line[c] + 1]
           Lengths == 1..MAXSIZE
<1>1. n \in Nat /\ n >= 1 /\ n <= MAXSIZE /\ MAXSIZE \in Nat
  <2>1. Lines[c] \in Seq(Lengths) /\ line[c] \in Nat
    BY EpollAssumption DEF Types
  <2> HIDE DEF Lengths
  <2>2. line[c] + 1 \in 1..Len(Lines[c])
    BY <2>1
  <2>3. n \in Lengths
    BY <2>1, <2>2
  <2> QED
    BY <2>3, EpollAssumption DEF Lengths
<1>2. Len(typed[c]) \in Nat
  BY DEF Types, TypeOK
<1>3. \A k \in 1..n : <<c, Len(typed[c]) + k>> \in Byte /\ <<c, Len(typed[c]) + k>> # Junk
  BY <1>1, <1>2 DEF Byte, Junk
<1> HIDE DEF n
<1>4. LineOf(c) = [k \in 1..n |-> <<c, Len(typed[c]) + k>>]
  BY DEF LineOf, n
<1>5. LineOf(c) \in Seq(Byte) /\ Len(LineOf(c)) = n
  <2>1. LineOf(c) \in [1..n -> Byte]
    BY <1>3, <1>4
  <2> QED
    BY <1>1, <2>1
<1>6. LineOf(c) # <<>>
  BY <1>1, <1>5
<1>7. Contents(LineOf(c))
  BY <1>1, <1>5 DEF Contents
<1>8. \A k \in 1..Len(LineOf(c)) : LineOf(c)[k] = <<c, Len(typed[c]) + k>>
  BY <1>4, <1>5
<1> QED
  BY <1>3, <1>5, <1>6, <1>7, <1>8

LEMMA BaseInit == Init => BaseInv
<1> SUFFICES ASSUME Init PROVE BaseInv
  OBVIOUS
<1>1. <<>> \in Seq(Byte) /\ Contents(<<>>)
  BY ContentsEmpty
<1>2. Nothing \in [Conn -> Seq(Byte)] /\ \A c \in Conn : Nothing[c] = <<>>
  BY <1>1 DEF Nothing
<1>3. ASSUME NEW c \in Conn PROVE Contents(buf[c])
  <2>1. buf[c] \in Seq({Junk}) /\ Len(buf[c]) <= MAXSIZE
    BY EpollAssumption DEF Init
  <2>2. {Junk} \subseteq Byte
    BY DEF Byte
  <2> HIDE DEF Byte
  <2> QED
    BY <2>1, <2>2 DEF Contents
<1>4. buf \in [Conn -> Seq(Byte)]
  BY <1>3 DEF Init, Contents
<1>5. \A c \in Conn : Len(Lines[c]) \in Nat
  BY EpollAssumption
<1>6. TypeOK
  <2>1. up \in [Conn -> Seq(Byte)] /\ down \in [Conn -> Seq(Byte)] /\ got \in [Conn -> Seq(Byte)]
    BY <1>2 DEF Init
  <2>2. sent \in [Conn -> Seq(Byte)] /\ typed \in [Conn -> Seq(Byte)] /\ printed \in [Conn -> Seq(Byte)]
    BY <1>2 DEF Init
  <2>3. \A c \in Conn : line[c] \in 0..Len(Lines[c])
    BY <1>5 DEF Init
  <2>4. /\ interest \in [Conn -> {"new", "in", "out", "none"}] /\ alive \in BOOLEAN
        /\ open \in [Conn -> BOOLEAN] /\ stdin \in [Conn -> BOOLEAN] /\ stdout \in [Conn -> BOOLEAN]
        /\ sock \in [Conn -> {"none", "in", "out", "closed"}]
    BY DEF Init
  <2>5. Contents(buffer) /\ overlap \in BOOLEAN /\ ahead \subseteq Conn /\ overrun \subseteq Conn
    BY <1>1 DEF Init
  <2> QED
    BY <1>3, <2>1, <2>2, <2>3, <2>4, <2>5 DEF TypeOK
<1>7. ASSUME NEW c \in Conn PROVE Ring(c)
  BY <1>1, <1>2 DEF Init, Ring
<1> QED
  BY <1>4, <1>6, <1>7 DEF BaseInv, Types, Init

\* Which handlers keep the invariant of every connection but their own.
LEMMA RingElsewhere ==
  ASSUME NEW d \in Conn, Ring(d),
         UNCHANGED <<up[d], down[d], sock[d], open[d], interest[d]>>, alive' => alive
  PROVE  Ring(d)'
  BY DEF Ring, Contents

LEMMA BaseServer ==
  ASSUME BaseInv, NEW c \in Conn, handle_events(c)
  PROVE  BaseInv'
<1> USE DEF BaseInv, Types
<1> HIDE DEF Byte
<1>0. overrun \subseteq overrun' /\ overrun' \subseteq Conn
  BY StrlenType DEF handle_events, handle_accpet, do_read, do_write, TypeOK
<1>1. CASE handle_accpet(c)
  <2>1. Types'
    BY <1>1 DEF handle_accpet, TypeOK, clientVars
  <2>2. ASSUME NEW d \in Conn PROVE d \in overrun' \/ Ring(d)'
    BY <1>1 DEF handle_accpet, TypeOK, clientVars, Ring, Contents
  <2> QED
    BY <2>1, <2>2
<1>2. CASE do_read(c)
  <2>1. CASE /\ up[c] # <<>>
             /\ buffer' = Into(buffer, Taken(up[c]))
             /\ overlap' = (overlap \/ buffer # <<>>)
             /\ interest' = [interest EXCEPT ![c] = "out"]
             /\ up' = [up EXCEPT ![c] = Rest(@)]
             /\ got' = Extend(got, c, Taken(up[c]))
    <3>1. /\ Contents(Taken(up[c])) /\ Contents(buffer) /\ Taken(up[c]) \in Seq(Byte)
          /\ Rest(up[c]) \in Seq(Byte)
      <4>1. up[c] \in Seq(Byte)
        BY DEF TypeOK
      <4>2. /\ Taken(up[c]) \in Seq(Byte) /\ Rest(up[c]) \in Seq(Byte) /\ Len(Taken(up[c])) <= MAXSIZE
        BY <4>1, TakenType
      <4> QED
        BY <4>2 DEF TypeOK, Contents
    <3>2. Contents(buffer')
      BY <2>1, <3>1, IntoContents
    <3>3. got' \in [Conn -> Seq(Byte)]
      BY <2>1, <3>1, ExtendType DEF TypeOK
    <3>4. up' \in [Conn -> Seq(Byte)] /\ interest' \in [Conn -> {"new", "in", "out", "none"}]
      <4>1. up \in [Conn -> Seq(Byte)] /\ Rest(up[c]) \in Seq(Byte)
        BY <3>1 DEF TypeOK
      <4>2. interest \in [Conn -> {"new", "in", "out", "none"}]
        BY DEF TypeOK
      <4>3. up' \in [Conn -> Seq(Byte)]
        BY ONLY <2>1, <4>1
      <4>4. interest' \in [Conn -> {"new", "in", "out", "none"}]
        BY ONLY <2>1, <4>2
      <4> QED
        BY <4>3, <4>4
    <3>5. Types'
      BY <1>2, <2>1, <3>2, <3>3, <3>4 DEF do_read, TypeOK, clientVars
    <3>6. ASSUME NEW d \in Conn, d # c PROVE d \in overrun' \/ Ring(d)'
      BY <1>2, <2>1, <3>6, RingElsewhere DEF do_read, clientVars, TypeOK
    <3>7. c \in overrun' \/ Ring(c)'
      <4> SUFFICES ASSUME Ring(c) PROVE Ring(c)'
        BY <1>2 DEF do_read
      <4>1. Rest(up[c]) = <<>>
        BY TakenType DEF Ring, Contents
      <4> QED
        BY <1>2, <2>1, <4>1, ContentsEmpty DEF do_read, clientVars, TypeOK, Ring, Contents
    <3> QED
      BY <3>5, <3>6, <3>7
  <2>2. CASE /\ ~open[c]
             /\ interest' = [interest EXCEPT ![c] = "none"]
             /\ UNCHANGED <<buffer, overlap, up, got>>
    <3>1. Types'
      BY <1>2, <2>2 DEF do_read, TypeOK, clientVars
    <3>2. ASSUME NEW d \in Conn PROVE d \in overrun' \/ Ring(d)'
      BY <1>2, <2>2 DEF do_read, TypeOK, clientVars, Ring, Contents
    <3> QED
      BY <3>1, <3>2
  <2> QED
    BY <1>2, <2>1, <2>2 DEF do_read
<1>3. CASE do_write(c)
  <2>s. buffer \in Seq(Byte) /\ down \in [Conn -> Seq(Byte)] /\ sent \in [Conn -> Seq(Byte)]
    BY DEF TypeOK, Contents
  <2>1. CASE /\ open[c]
             /\ \E s \in Text(buffer) : down' = Extend(down, c, s) /\ sent' = Extend(sent, c, s)
             /\ interest' = [interest EXCEPT ![c] = "in"]
             /\ UNCHANGED alive
    <3>1. PICK s \in Text(buffer) : down' = Extend(down, c, s) /\ sent' = Extend(sent, c, s)
      BY <2>1
    <3>2. s \in Seq(Byte) /\ (Len(buffer) < MAXSIZE => s = buffer)
      BY <2>s, TextType
    <3>3. /\ sent' \in [Conn -> Seq(Byte)] /\ down' \in [Conn -> Seq(Byte)]
          /\ \A d \in Conn : d # c => down'[d] = down[d]
      <4>1. Extend(down, c, s) \in [Conn -> Seq(Byte)] /\ Extend(sent, c, s) \in [Conn -> Seq(Byte)]
        BY ONLY <2>s, <3>2, ExtendType
      <4>2. \A d \in Conn : d # c => Extend(down, c, s)[d] = down[d]
        BY ONLY <2>s, <3>2, ExtendType
      <4> QED
        BY ONLY <3>1, <4>1, <4>2
    <3>4. Contents(buffer')
      BY <1>3, ContentsEmpty DEF do_write
    <3>5. Types'
      BY <1>0, <1>3, <2>1, <3>3, <3>4 DEF do_write, TypeOK, clientVars
    <3>6. ASSUME NEW d \in Conn, d # c PROVE d \in overrun' \/ Ring(d)'
      BY <1>0, <1>3, <2>1, <3>3, <3>6, RingElsewhere DEF do_write, clientVars, TypeOK
    <3>7. c \in overrun' \/ Ring(c)'
      <4> SUFFICES ASSUME c \notin overrun' PROVE Ring(c)'
        OBVIOUS
      <4>1. c \notin overrun /\ Len(buffer) < MAXSIZE
        BY <1>3, StrlenType DEF do_write, TypeOK
      <4>2. /\ Ring(c) /\ Contents(buffer) /\ sock[c] = "in" /\ up[c] = <<>> /\ down[c] = <<>>
        BY <1>3, <2>1, <4>1 DEF do_write, TypeOK, Ring
      <4>3. down'[c] = buffer
        <5>1. Len(down[c]) = 0
          BY <4>2
        <5>2. Extend(down, c, buffer)[c] = buffer
          BY ONLY <2>s, <5>1, ExtendEmpty
        <5> QED
          BY ONLY <3>1, <3>2, <4>1, <5>2
      <4> QED
        BY <1>3, <2>1, <4>2, <4>3 DEF do_write, clientVars, TypeOK, Ring, Contents
    <3> QED
      BY <3>5, <3>6, <3>7
  <2>2. CASE /\ ~open[c]
             /\ \/ \E s \in {"in", "none"} : interest' = [interest EXCEPT ![c] = s] /\ UNCHANGED alive
                \/ alive' = FALSE /\ UNCHANGED interest
             /\ UNCHANGED <<down, sent>>
    <3>1. interest' \in [Conn -> {"new", "in", "out", "none"}] /\ \A d \in Conn : d # c => interest'[d] = interest[d]
      BY <2>2 DEF TypeOK
    <3>2. alive' \in BOOLEAN /\ (alive' => alive)
      <4>1. alive' = alive \/ alive' = FALSE
        BY <2>2
      <4>2. alive \in BOOLEAN
        BY DEF TypeOK
      <4>3. CASE alive' = alive
        BY <4>2, <4>3, Zenon
      <4>4. CASE alive' = FALSE
        <5>1. ~alive'
          BY <4>4, Zenon
        <5>2. alive' \in BOOLEAN
          BY <4>4, Zenon
        <5> QED
          BY <5>1, <5>2, Zenon
      <4> QED
        BY <4>1, <4>3, <4>4, Zenon
    <3>3. Contents(buffer')
      BY <1>3, ContentsEmpty DEF do_write
    <3>4. Types'
      BY <1>0, <1>3, <2>2, <3>1, <3>2, <3>3 DEF do_write, TypeOK, clientVars
    <3>5. ASSUME NEW d \in Conn PROVE d \in overrun' \/ Ring(d)'
      BY <1>0, <1>3, <2>2, <3>1, <3>2 DEF do_write, clientVars, Ring, Contents
    <3> QED
      BY <3>4, <3>5
  <2> QED
    BY <1>3, <2>1, <2>2 DEF do_write
<1> QED
  BY <1>1, <1>2, <1>3 DEF handle_events

LEMMA BaseClient ==
  ASSUME BaseInv, NEW c \in Conn,
         do_readStdin(c) \/ do_readEnd(c) \/ handle_connection(c) \/ Kill(c)
  PROVE  BaseInv'
<1> USE DEF BaseInv, Types
<1> HIDE DEF Byte
<1>0. overrun \subseteq overrun' /\ overrun' \subseteq Conn
  BY StrlenType DEF do_readStdin, do_readEnd, handle_connection, do_readSock, do_writeSock,
                    do_writeStdout, Kill, TypeOK
<1>1. CASE do_readStdin(c)
  <2> DEFINE s == LineOf(c)
  <2>1. Contents(s) /\ Contents(buf[c]) /\ s \in Seq(Byte)
    BY <1>1, LineType DEF do_readStdin, TypeOK, Contents
  <2>2. buf' = [buf EXCEPT ![c] = Into(@, s)] /\ typed' = Extend(typed, c, s)
    BY <1>1 DEF do_readStdin, LineOf
  <2> HIDE DEF s
  <2>3. Contents(Into(buf[c], s)) /\ Into(buf[c], s) \in Seq(Byte)
    BY <2>1, IntoContents DEF Contents
  <2>4. buf' \in [Conn -> Seq(Byte)] /\ \A d \in Conn : Contents(buf'[d])
    BY <2>2, <2>3 DEF TypeOK
  <2>5. typed' \in [Conn -> Seq(Byte)]
    BY <2>1, <2>2, ExtendType DEF TypeOK
  <2>6. line' \in [Conn -> Nat] /\ \A d \in Conn : line'[d] \in 0..Len(Lines[d])
    <3>1. \A d \in Conn : Len(Lines[d]) \in Nat
      BY EpollAssumption
    <3>2. line' = [line EXCEPT ![c] = line[c] + 1] /\ line[c] < Len(Lines[c]) /\ line \in [Conn -> Nat]
      BY <1>1 DEF do_readStdin
    <3>3. \A d \in Conn : line[d] \in 0..Len(Lines[d])
      BY DEF TypeOK
    <3> QED
      BY <3>1, <3>2, <3>3
  <2>7. sock' \in [Conn -> {"none", "in", "out", "closed"}] /\ ahead' \subseteq Conn
    BY <1>1 DEF do_readStdin, TypeOK
  <2>8. Types'
    BY <1>1, <2>4, <2>5, <2>6, <2>7 DEF do_readStdin, TypeOK, serverVars
  <2>9. ASSUME NEW d \in Conn PROVE d \in overrun' \/ Ring(d)'
    BY <1>1 DEF do_readStdin, TypeOK, serverVars, Ring, Contents
  <2> QED
    BY <2>8, <2>9
<1>2. CASE do_readEnd(c)
  <2>1. Types'
    BY <1>2 DEF do_readEnd, TypeOK, serverVars
  <2>2. ASSUME NEW d \in Conn PROVE d \in overrun' \/ Ring(d)'
    BY <1>2 DEF do_readEnd, serverVars, Ring, Contents
  <2> QED
    BY <2>1, <2>2
<1>3. CASE do_readSock(c)
  <2>1. CASE /\ down[c] # <<>>
             /\ buf' = [buf EXCEPT ![c] = Into(@, Taken(down[c]))]
             /\ down' = [down EXCEPT ![c] = Rest(@)]
             /\ sock' = [sock EXCEPT ![c] = "none"]
             /\ stdout' = [stdout EXCEPT ![c] = TRUE]
    <3>1. Contents(Taken(down[c])) /\ Contents(buf[c]) /\ Rest(down[c]) \in Seq(Byte)
      <4>1. down[c] \in Seq(Byte)
        BY DEF TypeOK
      <4>2. /\ Taken(down[c]) \in Seq(Byte) /\ Rest(down[c]) \in Seq(Byte) /\ Len(Taken(down[c])) <= MAXSIZE
        BY <4>1, TakenType
      <4> QED
        BY <4>2 DEF TypeOK, Contents
    <3>2. Contents(Into(buf[c], Taken(down[c]))) /\ Into(buf[c], Taken(down[c])) \in Seq(Byte)
      BY <3>1, IntoContents DEF Contents
    <3>3. buf' \in [Conn -> Seq(Byte)] /\ \A d \in Conn : Contents(buf'[d])
      BY <2>1, <3>2 DEF TypeOK
    <3>4. down' \in [Conn -> Seq(Byte)]
      BY <2>1, <3>1 DEF TypeOK
    <3>5. Types'
      BY <1>3, <2>1, <3>3, <3>4 DEF do_readSock, TypeOK, serverVars
    <3>6. ASSUME NEW d \in Conn, d # c PROVE d \in overrun' \/ Ring(d)'
      BY <1>3, <2>1, <3>6, RingElsewhere DEF do_readSock, serverVars, TypeOK
    <3>7. c \in overrun' \/ Ring(c)'
      <4> SUFFICES ASSUME Ring(c) PROVE Ring(c)'
        BY <1>3 DEF do_readSock
      <4>1. Rest(down[c]) = <<>>
        BY TakenType DEF Ring, Contents
      <4> QED
        BY <1>3, <2>1, <4>1, ContentsEmpty DEF do_readSock, serverVars, TypeOK, Ring, Contents
    <3> QED
      BY <3>5, <3>6, <3>7
  <2>2. CASE /\ down[c] = <<>> /\ ~alive
             /\ sock' = [sock EXCEPT ![c] = "closed"]
             /\ UNCHANGED <<buf, down, stdout>>
    <3>1. Types'
      BY <1>3, <2>2 DEF do_readSock, TypeOK, serverVars
    <3>2. ASSUME NEW d \in Conn PROVE d \in overrun' \/ Ring(d)'
      BY <1>3, <2>2 DEF do_readSock, TypeOK, serverVars, Ring, Contents
    <3> QED
      BY <3>1, <3>2
  <2> QED
    BY <1>3, <2>1, <2>2 DEF do_readSock
<1>4. CASE do_writeSock(c)
  <2>1. Contents(buf[c]) /\ buf[c] \in Seq(Byte) /\ up \in [Conn -> Seq(Byte)]
    BY DEF TypeOK
  <2>2. /\ up' \in [Conn -> Seq(Byte)] /\ (\E s \in Text(buf[c]) : up' = Extend(up, c, s))
        /\ \A d \in Conn : d # c => up'[d] = up[d]
    <3>1. PICK s \in Text(buf[c]) : up' = Extend(up, c, s)
      BY <1>4 DEF do_writeSock
    <3>2. s \in Seq(Byte)
      BY <2>1, TextType
    <3>3. Extend(up, c, s) \in [Conn -> Seq(Byte)]
      BY ONLY <2>1, <3>2, ExtendType
    <3>4. \A d \in Conn : d # c => Extend(up, c, s)[d] = up[d]
      BY ONLY <2>1, <3>2, ExtendType
    <3> QED
      BY ONLY <3>1, <3>3, <3>4
  <2>3. buf' \in [Conn -> Seq(Byte)] /\ \A d \in Conn : Contents(buf'[d])
    BY <1>4, ContentsEmpty DEF do_writeSock, TypeOK, Contents
  <2>4. /\ sock' \in [Conn -> {"none", "in", "out", "closed"}] /\ open' \in [Conn -> BOOLEAN]
        /\ \A d \in Conn : d # c => sock'[d] = sock[d] /\ open'[d] = open[d]
    BY <1>4 DEF do_writeSock, TypeOK
  <2>5. \/ sock'[c] = "in" /\ open'[c] = open[c]
        \/ ~alive /\ sock'[c] = "closed" /\ open'[c] = open[c]
        \/ ~alive /\ sock'[c] = sock[c] /\ ~open'[c]
    BY <1>4 DEF do_writeSock, TypeOK
  <2>6. Types'
    BY <1>0, <1>4, <2>2, <2>3, <2>4 DEF do_writeSock, TypeOK, serverVars
  <2>7. ASSUME NEW d \in Conn, d # c PROVE d \in overrun' \/ Ring(d)'
    BY <1>0, <1>4, <2>2, <2>4, <2>7, RingElsewhere DEF do_writeSock, serverVars
  <2>8. c \in overrun' \/ Ring(c)'
    <3> SUFFICES ASSUME c \notin overrun' PROVE Ring(c)'
      OBVIOUS
    <3>1. c \notin overrun /\ Len(buf[c]) < MAXSIZE
      BY <1>4, StrlenType DEF do_writeSock, TypeOK
    <3>2. Ring(c) /\ up[c] = <<>> /\ down[c] = <<>> /\ interest[c] # "out"
      BY <1>4, <3>1 DEF do_writeSock, Ring
    <3>3. up'[c] = buf[c]
      <4>1. PICK s \in Text(buf[c]) : up' = Extend(up, c, s)
        BY <2>2
      <4>2. s = buf[c]
        BY <2>1, <3>1, TextType
      <4>3. up \in [Conn -> Seq(Byte)] /\ buf[c] \in Seq(Byte) /\ Len(up[c]) = 0
        BY <2>1, <3>2 DEF TypeOK
      <4>4. Extend(up, c, buf[c])[c] = buf[c]
        BY ONLY <4>3, ExtendEmpty
      <4> QED
        BY ONLY <4>1, <4>2, <4>4
    <3> QED
      BY <1>4, <2>1, <2>5, <3>2, <3>3 DEF do_writeSock, serverVars, Ring, Contents
  <2> QED
    BY <2>6, <2>7, <2>8
<1>5. CASE do_writeStdout(c)
  <2>1. buf' \in [Conn -> Seq(Byte)] /\ \A d \in Conn : Contents(buf'[d])
    BY <1>5, ContentsEmpty DEF do_writeStdout, TypeOK, Contents
  <2>2. printed' \in [Conn -> Seq(Byte)]
    <3>1. PICK s \in Text(buf[c]) : printed' = Extend(printed, c, s)
      BY <1>5 DEF do_writeStdout
    <3>2. printed \in [Conn -> Seq(Byte)] /\ s \in Seq(Byte)
      BY TextType DEF TypeOK
    <3>3. Extend(printed, c, s) \in [Conn -> Seq(Byte)]
      BY ONLY <3>2, ExtendType
    <3> QED
      BY <3>1, <3>3
  <2>3. Types'
    BY <1>0, <1>5, <2>1, <2>2 DEF do_writeStdout, TypeOK, serverVars
  <2>4. ASSUME NEW d \in Conn PROVE d \in overrun' \/ Ring(d)'
    BY <1>0, <1>5 DEF do_writeStdout, serverVars, Ring, Contents
  <2> QED
    BY <2>3, <2>4
<1>6. CASE Kill(c)
  <2>1. Types'
    BY <1>6 DEF Kill, TypeOK, serverVars
  <2>2. ASSUME NEW d \in Conn PROVE d \in overrun' \/ Ring(d)'
    BY <1>6 DEF Kill, TypeOK, serverVars, Ring, Contents
  <2> QED
    BY <2>1, <2>2
<1> QED
  BY <1>1, <1>2, <1>3, <1>4, <1>5, <1>6 DEF handle_connection

LEMMA BaseNext == BaseInv /\ [Next]_vars => BaseInv'
<1>1. CASE UNCHANGED vars
  BY <1>1 DEF vars, serverVars, clientVars, BaseInv, Types, TypeOK, Ring, Contents
<1> QED
  BY <1>1, BaseServer, BaseClient DEF Next

(***************************************************************************)
(* What the server and the clients read and write keeps to its types, and  *)
(* no read puts more into a buffer than it has room for.  That it may      *)
(* leave no room for the zero which strlen looks for is what overrun       *)
(* records.                                                                *)
(***************************************************************************)
THEOREM TypeCorrect == Spec => []TypeOK
<1>1. BaseInv => TypeOK
  BY DEF BaseInv, Types
<1> QED
  BY <1>1, BaseInit, BaseNext, PTL DEF Spec

-----------------------------------------------------------------------------
LEMMA OwnedInit == Init => Owned
<1> SUFFICES ASSUME Init, NEW c \in Conn PROVE got[c] = Cat(sent[c], <<>>) /\ interest[c] # "out"
  BY DEF Init, Owned
<1>1. got[c] = <<>> /\ sent[c] = <<>> /\ interest[c] # "out"
  BY DEF Init, Nothing
<1>2. Cat(<<>>, <<>>) = <<>>
  <2>1. <<>> \in Seq(Byte)
    OBVIOUS
  <2> QED
    BY <2>1, CatEmpty
<1> QED
  BY <1>1, <1>2

LEMMA OwnedServer ==
  ASSUME BaseInv, Owned, NEW c \in Conn, handle_events(c)
  PROVE  Owned'
<1> USE DEF BaseInv, Types
<1>s. /\ interest \in [Conn -> {"new", "in", "out", "none"}]
      /\ got \in [Conn -> Seq(Byte)] /\ sent \in [Conn -> Seq(Byte)]
      /\ \A d \in Conn : Cat(sent[d], <<>>) = sent[d]
  <2>1. sent \in [Conn -> Seq(Byte)]
    BY DEF TypeOK
  <2> QED
    BY <2>1, CatEmpty DEF TypeOK
<1>1. CASE handle_accpet(c)
  BY <1>1, <1>s DEF handle_accpet, clientVars, Owned
<1>2. CASE do_read(c)
  <2>1. CASE /\ up[c] # <<>>
             /\ buffer' = Into(buffer, Taken(up[c]))
             /\ overlap' = (overlap \/ buffer # <<>>)
             /\ interest' = [interest EXCEPT ![c] = "out"]
             /\ up' = [up EXCEPT ![c] = Rest(@)]
             /\ got' = Extend(got, c, Taken(up[c]))
    <3> SUFFICES ASSUME ~overlap' PROVE Owned'
      BY DEF Owned
    <3>1. ~overlap /\ buffer = <<>>
      BY <2>1
    <3>2. alive /\ alive' /\ interest[c] = "in" /\ \A d \in Conn : interest[d] # "out"
      BY <1>2, <3>1 DEF do_read, Owned
    <3>3. Taken(up[c]) \in Seq(Byte) /\ Taken(up[c]) # <<>>
      <4>1. up[c] \in Seq(Byte)
        BY DEF TypeOK
      <4> QED
        BY <2>1, <4>1, TakenType
    <3>4. buffer' = Taken(up[c])
      BY <2>1, <3>1, <3>3, IntoEmpty
    <3>5. got'[c] = Cat(got[c], Taken(up[c])) /\ \A d \in Conn : d # c => got'[d] = got[d]
      BY <2>1, <3>3, <1>s, ExtendType
    <3>6. \A d \in Conn : open[d] => d \in overrun \/ got[d] = sent[d]
      BY <3>1, <3>2, <1>s DEF Owned
    <3>7. UNCHANGED <<sent, open, overrun>>
      BY <1>2 DEF do_read, clientVars
    <3>8. interest'[c] = "out" /\ \A d \in Conn : d # c => interest'[d] # "out"
      BY <2>1, <3>2, <1>s
    <3>9. ASSUME NEW d \in Conn, open'[d], d \notin overrun'
          PROVE  got'[d] = Cat(sent'[d], IF interest'[d] = "out" THEN buffer' ELSE <<>>)
      <4>1. CASE d = c
        BY <3>9, <4>1, <3>4, <3>5, <3>6, <3>7, <3>8
      <4>2. CASE d # c
        BY <3>9, <4>2, <3>5, <3>6, <3>7, <3>8, <1>s
      <4> QED
        BY <4>1, <4>2
    <3> QED
      BY <2>1, <3>3, <3>4, <3>8, <3>9 DEF Owned
  <2>2. CASE /\ ~open[c]
             /\ interest' = [interest EXCEPT ![c] = "none"]
             /\ UNCHANGED <<buffer, overlap, up, got>>
    BY <1>2, <2>2, <1>s DEF do_read, clientVars, Owned
  <2> QED
    BY <1>2, <2>1, <2>2 DEF do_read
<1>3. CASE do_write(c)
  <2> SUFFICES ASSUME ~overlap' PROVE Owned'
    BY DEF Owned
  <2>1. ~overlap /\ alive /\ interest[c] = "out" /\ UNCHANGED <<got, open>> /\ buffer' = <<>>
    BY <1>3 DEF do_write, clientVars
  <2>2. \A d \in Conn : d # c => interest[d] # "out"
    BY <2>1 DEF Owned
  <2>s. /\ overrun \subseteq overrun'
        /\ c \notin overrun' => c \notin overrun /\ Len(buffer) < MAXSIZE
    BY <1>3, StrlenType DEF do_write, TypeOK
  <2>3. CASE /\ open[c]
             /\ \E s \in Text(buffer) : down' = Extend(down, c, s) /\ sent' = Extend(sent, c, s)
             /\ interest' = [interest EXCEPT ![c] = "in"]
             /\ UNCHANGED alive
    <3>1. buffer \in Seq(Byte)
      BY DEF TypeOK, Contents
    <3>2. /\ \A d \in Conn : d # c => sent'[d] = sent[d]
          /\ c \notin overrun' => sent'[c] = Cat(sent[c], buffer) /\ Cat(sent'[c], <<>>) = sent'[c]
      <4>1. PICK s \in Text(buffer) : sent' = Extend(sent, c, s)
        BY <2>3
      <4>2. s \in Seq(Byte) /\ (Len(buffer) < MAXSIZE => s = buffer)
        BY <3>1, TextType
      <4>3. \A d \in Conn : d # c => sent'[d] = sent[d]
        BY <1>s, <4>1, <4>2, ExtendType
      <4>4. sent'[c] = Cat(sent[c], s) /\ sent'[c] \in Seq(Byte)
        <5>1. Extend(sent, c, s) \in [Conn -> Seq(Byte)]
          BY ONLY <1>s, <4>2, ExtendType
        <5>2. Extend(sent, c, s)[c] = Cat(sent[c], s)
          BY ONLY <1>s, <4>2, ExtendType
        <5> QED
          BY ONLY <4>1, <5>1, <5>2
      <4>5. Cat(sent'[c], <<>>) = sent'[c]
        BY <4>4, CatEmpty
      <4> QED
        BY <2>s, <4>2, <4>3, <4>4, <4>5
    <3>3. \A d \in Conn : interest'[d] # "out"
      BY <2>2, <2>3, <1>s
    <3>4. c \in overrun' \/ got'[c] = Cat(sent'[c], <<>>)
      BY <2>1, <2>3, <2>s, <3>2 DEF Owned
    <3>5. \A d \in Conn : d # c /\ open[d] => d \in overrun' \/ got'[d] = Cat(sent'[d], <<>>)
      BY <2>1, <2>2, <2>s, <3>2 DEF Owned
    <3> QED
      BY <2>1, <3>3, <3>4, <3>5 DEF Owned
  <2>4. CASE /\ ~open[c]
             /\ \/ \E s \in {"in", "none"} : interest' = [interest EXCEPT ![c] = s] /\ UNCHANGED alive
                \/ alive' = FALSE /\ UNCHANGED interest
             /\ UNCHANGED <<down, sent>>
    <3>1. \A d \in Conn : d # c => interest'[d] # "out"
      BY <2>2, <2>4, <1>s
    <3>2. interest'[c] = "out" => ~alive'
      <4>1. CASE \E s \in {"in", "none"} : interest' = [interest EXCEPT ![c] = s] /\ UNCHANGED alive
        BY <4>1, <1>s
      <4>2. CASE alive' = FALSE
        BY <4>2, Zenon
      <4> QED
        BY <2>4, <4>1, <4>2
    <3>3. \A d \in Conn : open[d] => d # c /\ (d \in overrun' \/ got'[d] = Cat(sent'[d], <<>>))
      BY <2>1, <2>2, <2>4, <2>s DEF Owned
    <3> QED
      BY <2>1, <3>1, <3>2, <3>3 DEF Owned
  <2> QED
    BY <1>3, <2>3, <2>4 DEF do_write
<1> QED
  BY <1>1, <1>2, <1>3 DEF handle_events

\* No client changes what the server reads, or comes back.
LEMMA ClientFrame ==
  ASSUME BaseInv, NEW c \in Conn,
         do_readStdin(c) \/ do_readEnd(c) \/ handle_connection(c) \/ Kill(c)
  PROVE  /\ UNCHANGED serverVars
         /\ \A d \in Conn : open'[d] => open[d]
         /\ ahead \subseteq ahead' /\ overrun \subseteq overrun'
<1>1. CASE do_readStdin(c)
  BY <1>1 DEF do_readStdin
<1>2. CASE do_readEnd(c)
  BY <1>2 DEF do_readEnd
<1>3. CASE do_readSock(c)
  BY <1>3 DEF do_readSock
<1>4. CASE do_writeSock(c)
  BY <1>4, StrlenType DEF do_writeSock, BaseInv, Types, TypeOK
<1>5. CASE do_writeStdout(c)
  BY <1>5, StrlenType DEF do_writeStdout, BaseInv, Types, TypeOK
<1>6. CASE Kill(c)
  BY <1>6 DEF Kill, BaseInv, Types, TypeOK
<1> QED
  BY <1>1, <1>2, <1>3, <1>4, <1>5, <1>6 DEF handle_connection

LEMMA OwnedNext == BaseInv /\ Owned /\ [Next]_vars => Owned'
<1> SUFFICES ASSUME BaseInv, Owned, [Next]_vars PROVE Owned'
  OBVIOUS
<1>1. CASE UNCHANGED vars
  BY <1>1 DEF vars, serverVars, clientVars, Owned
<1>2. ASSUME NEW c \in Conn,
             do_readStdin(c) \/ do_readEnd(c) \/ handle_connection(c) \/ Kill(c)
      PROVE  Owned'
  BY <1>2, ClientFrame DEF serverVars, Owned
<1> QED
  BY <1>1, <1>2, OwnedServer DEF Next

(***************************************************************************)
(* As long as the one buffer is written before the next read into it, a    *)
(* connection is sent what was read from it, in order and nothing else,    *)
(* unless something of its own filled a buffer.                            *)
(***************************************************************************)
THEOREM EchoIsOwn == Spec => []EchoUnlessOverlap
<1>1. Owned => EchoUnlessOverlap
  BY DEF Owned, EchoUnlessOverlap, Cat
<1> QED
  BY <1>1, BaseInit, BaseNext, OwnedInit, OwnedNext, PTL DEF Spec

-----------------------------------------------------------------------------
\* A client changes nothing of another.
LEMMA ClientElsewhere ==
  ASSUME BaseInv, NEW c \in Conn, NEW d \in Conn, d # c,
         do_readStdin(c) \/ do_readEnd(c) \/ handle_connection(c) \/ Kill(c)
  PROVE  /\ UNCHANGED <<sock[d], stdout[d], buf[d], printed[d], typed[d], up[d], down[d], open[d]>>
         /\ (d \in ahead' <=> d \in ahead) /\ (d \in overrun' <=> d \in overrun)
<1> USE DEF BaseInv, Types, TypeOK
<1>1. CASE do_readStdin(c)
  <2>1. typed' = Extend(typed, c, LineOf(c)) /\ LineOf(c) \in Seq(Byte)
    BY <1>1, LineType DEF do_readStdin, LineOf, Contents
  <2>2. typed'[d] = typed[d]
    <3>1. typed \in [Conn -> Seq(Byte)] /\ d # c
      OBVIOUS
    <3>2. Extend(typed, c, LineOf(c))[d] = typed[d]
      BY ONLY <2>1, <3>1, ExtendType
    <3> QED
      BY ONLY <2>1, <3>2
  <2> QED
    BY <1>1, <2>2 DEF do_readStdin
<1>2. CASE do_readEnd(c)
  BY <1>2 DEF do_readEnd
<1>3. CASE do_readSock(c)
  BY <1>3 DEF do_readSock
<1>4. CASE do_writeSock(c)
  BY <1>4, StrlenType DEF do_writeSock, Extend
<1>5. CASE do_writeStdout(c)
  BY <1>5, StrlenType DEF do_writeStdout, Extend
<1>6. CASE Kill(c)
  BY <1>6 DEF Kill
<1> QED
  BY <1>1, <1>2, <1>3, <1>4, <1>5, <1>6 DEF handle_connection

LEMMA PhasesInit == Init => Phases
<1> SUFFICES ASSUME Init, NEW c \in Conn PROVE Phase(c)
  BY DEF Phases
<1>1. buf[c] \in Seq({Junk})
  BY EpollAssumption DEF Init
<1>2. \A i \in 1..Len(buf[c]) : buf[c][i] = Junk
  BY <1>1
<1>3. Real(buf[c]) = <<>>
  BY <1>1, <1>2, RealNone
<1> QED
  BY <1>3 DEF Init, Phase

\* Typing a line that is not typed ahead starts a round.
LEMMA TypesNext ==
  ASSUME BaseInv, Phases, NEW c \in Conn, do_readStdin(c), c \notin ahead', c \notin overrun
  PROVE  /\ c \notin ahead /\ sock[c] = "none" /\ ~stdout[c]
         /\ Real(printed[c]) = typed[c] /\ Real(buf[c]) = <<>>
         /\ sock'[c] = "out" /\ ~stdout'[c] /\ printed'[c] = printed[c]
         /\ typed'[c] = Cat(typed[c], LineOf(c)) /\ typed'[c] # typed[c]
         /\ buf'[c] = Into(buf[c], LineOf(c)) /\ Real(buf'[c]) = LineOf(c)
<1> USE DEF BaseInv, Types, TypeOK
<1>1. c \notin ahead /\ Real(printed[c]) = typed[c] /\ open[c]
  BY DEF do_readStdin
<1>2. Phase(c)
  BY <1>1 DEF Phases
<1>3. sock[c] = "none" /\ ~stdout[c] /\ Real(buf[c]) = <<>>
  BY <1>1, <1>2 DEF Phase
<1>4. sock'[c] = "out" /\ UNCHANGED <<stdout, printed>>
  BY <1>3 DEF do_readStdin
<1>5. /\ typed' = Extend(typed, c, LineOf(c)) /\ buf' = [buf EXCEPT ![c] = Into(@, LineOf(c))]
      /\ LineOf(c) \in Seq(Byte) /\ LineOf(c) # <<>>
      /\ \A k \in 1..Len(LineOf(c)) : LineOf(c)[k] # Junk
  BY LineType DEF do_readStdin, LineOf, Contents
<1>6. typed'[c] = Cat(typed[c], LineOf(c))
  <2>1. typed \in [Conn -> Seq(Byte)]
    OBVIOUS
  <2>2. Extend(typed, c, LineOf(c))[c] = Cat(typed[c], LineOf(c))
    BY ONLY <1>5, <2>1, ExtendType
  <2> QED
    BY <1>5, <2>2
<1>7. typed'[c] # typed[c]
  <2>1. Len(typed'[c]) = Len(typed[c]) + Len(LineOf(c))
    BY <1>5, <1>6, CatType
  <2>2. Len(LineOf(c)) > 0 /\ Len(typed[c]) \in Nat /\ Len(LineOf(c)) \in Nat
    BY <1>5
  <2> QED
    BY <2>1, <2>2
<1>8. buf'[c] = Into(buf[c], LineOf(c))
  BY <1>5
<1>9. Real(buf'[c]) = LineOf(c)
  BY <1>3, <1>5, <1>8, RealInto
<1> QED
  BY <1>1, <1>3, <1>4, <1>6, <1>7, <1>8, <1>9

LEMMA PhasesClient ==
  ASSUME BaseInv, Phases, NEW c \in Conn,
         do_readStdin(c) \/ do_readEnd(c) \/ handle_connection(c) \/ Kill(c)
  PROVE  Phases'
<1> USE DEF BaseInv, Types
<1>0. SUFFICES ASSUME c \notin ahead', c \notin overrun', open'[c] PROVE Phase(c)'
  <2>1. ASSUME NEW d \in Conn, d # c, ~(d \in ahead'), ~(d \in overrun'), open'[d] PROVE Phase(d)'
    <3>1. /\ UNCHANGED <<sock[d], stdout[d], buf[d], printed[d], typed[d], up[d], down[d], open[d]>>
          /\ (d \in ahead' <=> d \in ahead) /\ (d \in overrun' <=> d \in overrun)
      BY <2>1, ClientElsewhere
    <3>2. Phase(d)
      BY <2>1, <3>1 DEF Phases
    <3> QED
      BY <3>1, <3>2 DEF Phase
  <2> QED
    BY <2>1 DEF Phases
<1>1. c \notin ahead /\ c \notin overrun /\ open[c] /\ Phase(c)
  BY <1>0, ClientFrame DEF Phases
<1>2. CASE do_readStdin(c)
  BY <1>0, <1>1, <1>2, TypesNext DEF Phase
<1>3. CASE do_readEnd(c)
  BY <1>1, <1>3 DEF do_readEnd, Phase
<1>4. CASE do_readSock(c)
  <2>1. Real(printed[c]) # typed[c] /\ buf[c] = <<>> /\ ~stdout[c]
    BY <1>1, <1>4 DEF do_readSock, Phase
  <2>2. UNCHANGED <<printed, typed>>
    BY <1>4 DEF do_readSock
  <2>3. \/ sock'[c] = "none" /\ stdout'[c]
        \/ sock'[c] = "closed" /\ ~stdout'[c] /\ buf'[c] = <<>>
    BY <1>4, <2>1 DEF do_readSock, TypeOK
  <2> QED
    BY <2>1, <2>2, <2>3 DEF Phase
<1>5. CASE do_writeSock(c)
  <2>1. Real(printed[c]) # typed[c] /\ ~stdout[c]
    BY <1>1, <1>5 DEF do_writeSock, Phase
  <2>2. UNCHANGED <<printed, typed, stdout>> /\ buf'[c] = <<>>
    BY <1>5 DEF do_writeSock, TypeOK
  <2>3. sock'[c] \in {"in", "closed"}
    BY <1>0, <1>5 DEF do_writeSock, TypeOK
  <2> QED
    BY <2>1, <2>2, <2>3 DEF Phase
<1>6. CASE do_writeStdout(c)
  <2>1. sock[c] = "none"
    BY <1>1, <1>6 DEF do_writeStdout, Phase
  <2>2. sock'[c] = "none" /\ ~stdout'[c] /\ buf'[c] = <<>>
    BY <1>6, <2>1 DEF do_writeStdout, TypeOK
  <2> QED
    BY <2>2, RealEmpty DEF Phase
<1>7. CASE Kill(c)
  BY <1>0, <1>7 DEF Kill, TypeOK
<1> QED
  BY <1>2, <1>3, <1>4, <1>5, <1>6, <1>7 DEF handle_connection

\* No step of the server changes a client.
LEMMA ServerFrame ==
  ASSUME NEW c \in Conn, handle_events(c)
  PROVE  UNCHANGED clientVars
  BY DEF handle_events, handle_accpet, do_read, do_write

LEMMA PhasesNext == BaseInv /\ Phases /\ [Next]_vars => Phases'
<1> SUFFICES ASSUME BaseInv, Phases, [Next]_vars PROVE Phases'
  OBVIOUS
<1>1. CASE UNCHANGED vars
  BY <1>1 DEF vars, clientVars, Phases, Phase
<1>2. ASSUME NEW c \in Conn, handle_events(c) PROVE Phases'
  BY <1>2, ServerFrame, OverrunStays DEF clientVars, Phases, Phase, BaseInv, Types
<1> QED
  BY <1>1, <1>2, PhasesClient DEF Next

-----------------------------------------------------------------------------
LEMMA PrefixCat ==
  ASSUME NEW S, NEW q \in Seq(S), NEW r \in Seq(S)
  PROVE  IsPrefix(q, Cat(q, r))
<1> DEFINE t == Cat(q, r)
<1>1. Len(q) <= Len(t) /\ t \in Seq(S) /\ \A i \in 1..Len(q) : t[i] = q[i]
  <2>1. t \in Seq(S) /\ Len(t) = Len(q) + Len(r)
    BY CatType
  <2>2. \A i \in 1..Len(q) : t[i] = q[i]
    BY CatType
  <2> HIDE DEF t
  <2> QED
    BY <2>1, <2>2
<1> HIDE DEF t
<1>2. SubSeq(q, 1, Len(q)) = SubSeq(t, 1, Len(q))
  BY <1>1
<1> QED
  BY <1>1, <1>2 DEF IsPrefix, t

LEMMA RealCat ==
  ASSUME NEW S, NEW q \in Seq(S), NEW r \in Seq(S)
  PROVE  Real(Cat(q, r)) = Cat(Real(q), Real(r))
  BY RealConcat DEF Cat

LEMMA PrefixIsWhole ==
  ASSUME BaseInv, NEW c \in Conn, typed[c] = Cat(Real(printed[c]), Real(InFlight(c)))
  PROVE  WholeAt(c)
<1>1. printed[c] \in Seq(Byte) /\ InFlight(c) \in Seq(Byte)
  BY DEF BaseInv, Types, TypeOK, InFlight, Contents
<1>2. Real(printed[c]) \in Seq(Byte) /\ Real(InFlight(c)) \in Seq(Byte)
  BY <1>1, RealType
<1>3. IsPrefix(Real(printed[c]), typed[c])
  BY <1>2, PrefixCat
<1> QED
  BY <1>3 DEF WholeAt

LEMMA WholeInit == Init => Whole
<1> SUFFICES ASSUME Init, NEW c \in Conn PROVE WholeAt(c)
  BY DEF Whole
<1>1. buf[c] \in Seq({Junk})
  BY EpollAssumption DEF Init
<1>2. \A i \in 1..Len(buf[c]) : buf[c][i] = Junk
  BY <1>1
<1>3. Real(buf[c]) = <<>>
  BY <1>1, <1>2, RealNone
<1>4. InFlight(c) = buf[c] /\ printed[c] = <<>> /\ typed[c] = <<>>
  BY DEF Init, InFlight, Nothing
<1>5. Cat(<<>>, <<>>) = <<>>
  <2>1. <<>> \in Seq(Byte)
    OBVIOUS
  <2> QED
    BY <2>1, CatEmpty
<1>6. typed[c] = Cat(Real(printed[c]), Real(InFlight(c)))
  BY <1>3, <1>4, <1>5, RealEmpty
<1> QED
  BY <1>6, BaseInit, PrefixIsWhole

\* Without an overlap the server moves what is in flight and loses none of it.
LEMMA FlightServer ==
  ASSUME BaseInv, Owned, NEW c \in Conn, handle_events(c), ~overlap', NEW d \in Conn, open[d],
         overrun \subseteq overrun', d \notin overrun'
  PROVE  ~overlap /\ InFlight(d)' = InFlight(d)
<1> USE DEF BaseInv, Types
<1>1. CASE handle_accpet(c)
  BY <1>1 DEF handle_accpet, clientVars, TypeOK, InFlight
<1>2. CASE do_read(c)
  <2>1. CASE /\ up[c] # <<>>
             /\ buffer' = Into(buffer, Taken(up[c]))
             /\ overlap' = (overlap \/ buffer # <<>>)
             /\ interest' = [interest EXCEPT ![c] = "out"]
             /\ up' = [up EXCEPT ![c] = Rest(@)]
             /\ got' = Extend(got, c, Taken(up[c]))
    <3>1. /\ ~overlap /\ buffer = <<>> /\ up[c] \in Seq(Byte) /\ Taken(up[c]) \in Seq(Byte)
          /\ up'[c] = Rest(up[c]) /\ \A e \in Conn : e # c => up'[e] = up[e]
      BY <2>1, TakenType DEF TypeOK
    <3>2. buffer' = Taken(up[c])
      BY <2>1, <3>1, IntoEmpty
    <3>r. d = c => Taken(up[c]) = up[c] /\ Rest(up[c]) = <<>>
      BY <3>1, TakenType DEF Ring, Contents
    <3>3. interest[c] = "in" /\ \A e \in Conn : interest[e] # "out"
      BY <1>2, <3>1 DEF do_read, Owned
    <3>4. UNCHANGED <<sock, buf, down>>
      BY <1>2 DEF do_read, clientVars
    <3> QED
      BY <2>1, <3>1, <3>2, <3>3, <3>4, <3>r DEF InFlight, TypeOK
  <2>2. CASE /\ ~open[c]
             /\ interest' = [interest EXCEPT ![c] = "none"]
             /\ UNCHANGED <<buffer, overlap, up, got>>
    BY <1>2, <2>2 DEF do_read, clientVars, InFlight
  <2> QED
    BY <1>2, <2>1, <2>2 DEF do_read
<1>3. CASE do_write(c)
  <2>1. ~overlap /\ interest[c] = "out" /\ UNCHANGED <<sock, buf, up>>
    BY <1>3 DEF do_write, clientVars
  <2>2. \A e \in Conn : e # c => interest[e] # "out"
    BY <2>1 DEF Owned
  <2>3. CASE /\ open[c]
             /\ \E s \in Text(buffer) : down' = Extend(down, c, s) /\ sent' = Extend(sent, c, s)
             /\ interest' = [interest EXCEPT ![c] = "in"]
             /\ UNCHANGED alive
    <3>1. PICK s \in Text(buffer) : down' = Extend(down, c, s)
      BY <2>3
    <3>2. /\ buffer \in Seq(Byte) /\ down \in [Conn -> Seq(Byte)] /\ s \in Seq(Byte)
          /\ Len(buffer) < MAXSIZE => s = buffer
      BY TextType DEF TypeOK, Contents
    <3>s. \A e \in Conn : e # c => down'[e] = down[e]
      <4>1. \A e \in Conn : e # c => Extend(down, c, s)[e] = down[e]
        BY ONLY <3>2, ExtendType
      <4> QED
        BY ONLY <3>1, <4>1
    <3>r. ASSUME d = c
          PROVE  down[c] = <<>> /\ up[c] = <<>> /\ down'[c] = buffer
      <4>1. c \notin overrun /\ Len(buffer) < MAXSIZE
        BY <1>3, <3>r, StrlenType DEF do_write, TypeOK
      <4>2. down[c] = <<>> /\ up[c] = <<>>
        BY <2>1, <2>3, <4>1 DEF Ring
      <4>3. Len(down[c]) = 0
        BY <4>2
      <4>4. Extend(down, c, buffer)[c] = buffer
        BY ONLY <3>2, <4>3, ExtendEmpty
      <4> QED
        BY ONLY <3>1, <3>2, <4>1, <4>2, <4>4
    <3>3. interest'[c] = "in" /\ \A e \in Conn : e # c => interest'[e] = interest[e]
      BY <2>3 DEF TypeOK
    <3>4. CASE d = c
      BY <2>1, <3>r, <3>3, <3>4 DEF InFlight
    <3>5. CASE d # c
      BY <2>1, <2>2, <3>s, <3>3, <3>5 DEF InFlight
    <3> QED
      BY <2>1, <3>4, <3>5
  <2>4. CASE /\ ~open[c]
             /\ \/ \E s \in {"in", "none"} : interest' = [interest EXCEPT ![c] = s] /\ UNCHANGED alive
                \/ alive' = FALSE /\ UNCHANGED interest
             /\ UNCHANGED <<down, sent>>
    <3>1. d # c /\ interest'[d] = interest[d]
      BY <2>4 DEF TypeOK
    <3> QED
      BY <2>1, <2>2, <2>4, <3>1 DEF InFlight
  <2> QED
    BY <1>3, <2>3, <2>4 DEF do_write
<1> QED
  BY <1>1, <1>2, <1>3 DEF handle_events

LEMMA WholeClient ==
  ASSUME BaseInv, BaseInv', Phases, NEW c \in Conn, c \notin ahead', c \notin overrun',
         WholeAt(c),
         do_readStdin(c) \/ do_readEnd(c) \/ handle_connection(c) \/ Kill(c)
  PROVE  WholeAt(c)'
<1> USE DEF BaseInv, Types
<1>1. open[c] /\ c \notin ahead /\ c \notin overrun /\ Phase(c) /\ Ring(c) /\ UNCHANGED <<interest, buffer>>
  <2>1. open[c]
    BY DEF do_readStdin, do_readEnd, handle_connection, do_readSock, do_writeSock, do_writeStdout, Kill
  <2>2. c \notin ahead /\ c \notin overrun /\ UNCHANGED serverVars
    BY ClientFrame
  <2> QED
    BY <2>1, <2>2 DEF Phases, serverVars
<1>2. sock[c] # "closed" => typed[c] = Cat(Real(printed[c]), Real(InFlight(c)))
  BY <1>1 DEF WholeAt
<1>3. ASSUME typed'[c] = Cat(Real(printed'[c]), Real(InFlight(c)')) PROVE WholeAt(c)'
  <2>1. printed'[c] \in Seq(Byte) /\ InFlight(c)' \in Seq(Byte)
    BY DEF TypeOK, InFlight, Contents
  <2>2. Real(printed'[c]) \in Seq(Byte) /\ Real(InFlight(c)') \in Seq(Byte)
    BY <2>1, RealType
  <2>3. IsPrefix(Real(printed'[c]), typed'[c])
    BY <1>3, <2>2, PrefixCat
  <2> QED
    BY <1>3, <2>3 DEF WholeAt
<1>4. ASSUME UNCHANGED <<typed, printed>>, ~open'[c] \/ sock'[c] = "closed" PROVE WholeAt(c)'
  BY <1>4 DEF WholeAt
<1>5. CASE do_readStdin(c)
  <2>1. /\ Real(printed[c]) = typed[c] /\ sock'[c] = "out" /\ printed'[c] = printed[c]
        /\ typed'[c] = Cat(typed[c], LineOf(c)) /\ Real(buf'[c]) = LineOf(c)
    BY <1>1, <1>5, TypesNext
  <2>2. InFlight(c)' = buf'[c]
    BY <2>1 DEF InFlight
  <2> QED
    BY <1>3, <2>1, <2>2
<1>6. CASE do_readEnd(c)
  BY <1>6, <1>1 DEF do_readEnd, WholeAt, InFlight
<1>7. CASE do_readSock(c)
  <2>1. sock[c] = "in" /\ buf[c] = <<>> /\ UNCHANGED <<typed, printed>>
    BY <1>1, <1>7 DEF do_readSock, Phase
  <2>2. CASE /\ down[c] # <<>>
             /\ buf' = [buf EXCEPT ![c] = Into(@, Taken(down[c]))]
             /\ down' = [down EXCEPT ![c] = Rest(@)]
             /\ sock' = [sock EXCEPT ![c] = "none"]
             /\ stdout' = [stdout EXCEPT ![c] = TRUE]
    <3>1. up[c] = <<>> /\ interest[c] # "out" /\ down[c] \in Seq(Byte)
      BY <1>1, <2>2 DEF Ring, TypeOK
    <3>2. InFlight(c) = down[c]
      BY <2>1, <3>1 DEF InFlight
    <3>3. buf'[c] = down[c]
      <4>1. Taken(down[c]) = down[c]
        BY <1>1, <3>1, TakenType DEF Ring, Contents
      <4>2. Into(buf[c], down[c]) = down[c]
        BY <2>1, <3>1, IntoEmpty
      <4> QED
        BY <2>2, <4>1, <4>2
    <3>4. InFlight(c)' = down[c]
      BY <2>2, <3>3 DEF InFlight, TypeOK
    <3> QED
      BY <1>2, <1>3, <2>1, <3>2, <3>4
  <2>3. CASE down[c] = <<>> /\ ~alive /\ sock' = [sock EXCEPT ![c] = "closed"]
    BY <1>4, <2>1, <2>3 DEF TypeOK
  <2> QED
    BY <1>7, <2>2, <2>3 DEF do_readSock
<1>8. CASE do_writeSock(c)
  <2>1. sock[c] = "out" /\ UNCHANGED <<typed, printed, down>>
    BY <1>8 DEF do_writeSock
  <2>2. up[c] = <<>> /\ down[c] = <<>> /\ interest[c] # "out" /\ buf[c] \in Seq(Byte)
    BY <1>1, <2>1 DEF Ring
  <2>3. up'[c] = buf[c]
    <3>s. Len(buf[c]) < MAXSIZE
      BY <1>8, StrlenType DEF do_writeSock, TypeOK
    <3>p. PICK s \in Text(buf[c]) : up' = Extend(up, c, s)
      BY <1>8 DEF do_writeSock
    <3>1. up' = Extend(up, c, buf[c]) /\ up \in [Conn -> Seq(Byte)]
      BY <2>2, <3>s, <3>p, TextType DEF TypeOK
    <3>2. buf[c] \in Seq(Byte) /\ up \in [Conn -> Seq(Byte)] /\ Len(up[c]) = 0
      BY <2>2, <3>1
    <3>3. Extend(up, c, buf[c])[c] = buf[c]
      BY ONLY <3>2, ExtendEmpty
    <3> QED
      BY ONLY <3>1, <3>3
  <2>4. InFlight(c) = buf[c]
    BY <2>1 DEF InFlight
  <2>5. CASE sock'[c] = "in"
    <3>1. InFlight(c)' = buf[c]
      BY <1>1, <2>1, <2>2, <2>3, <2>5 DEF InFlight
    <3> QED
      BY <1>2, <1>3, <2>1, <2>4, <3>1
  <2>6. CASE sock'[c] = "closed" \/ ~open'[c]
    BY <1>4, <2>1, <2>6
  <2> QED
    BY <1>8, <2>5, <2>6 DEF do_writeSock, TypeOK
<1>9. CASE do_writeStdout(c)
  <2>1. sock[c] = "none" /\ sock'[c] = "none" /\ typed'[c] = typed[c] /\ buf'[c] = <<>>
    BY <1>1, <1>9 DEF do_writeStdout, Phase
  <2>2. InFlight(c) = buf[c] /\ InFlight(c)' = <<>>
    BY <2>1 DEF InFlight
  <2>3. buf[c] \in Seq(Byte) /\ printed[c] \in Seq(Byte) /\ typed[c] \in Seq(Byte)
    BY DEF TypeOK
  <2>4. printed'[c] = Cat(printed[c], buf[c])
    <3>s. Len(buf[c]) < MAXSIZE
      BY <1>9, StrlenType DEF do_writeStdout, TypeOK
    <3>p. PICK s \in Text(buf[c]) : printed' = Extend(printed, c, s)
      BY <1>9 DEF do_writeStdout
    <3>1. printed' = Extend(printed, c, buf[c]) /\ printed \in [Conn -> Seq(Byte)]
      BY <2>3, <3>s, <3>p, TextType DEF TypeOK
    <3> QED
      <4>1. printed \in [Conn -> Seq(Byte)] /\ buf[c] \in Seq(Byte)
        BY <2>3, <3>1
      <4>2. Extend(printed, c, buf[c])[c] = Cat(printed[c], buf[c])
        BY ONLY <4>1, ExtendType
      <4> QED
        BY <3>1, <4>2
  <2>5. Real(printed'[c]) = typed[c]
    BY <1>2, <2>1, <2>2, <2>3, <2>4, RealCat
  <2>6. Cat(typed[c], <<>>) = typed[c]
    BY <2>3, CatEmpty
  <2> QED
    BY <1>3, <2>1, <2>2, <2>5, <2>6, RealEmpty
<1>10. CASE Kill(c)
  BY <1>4, <1>10 DEF Kill, TypeOK
<1> QED
  BY <1>5, <1>6, <1>7, <1>8, <1>9, <1>10 DEF handle_connection

LEMMA WholeNext == BaseInv /\ Owned /\ Phases /\ Whole /\ [Next]_vars => Whole'
<1> SUFFICES ASSUME BaseInv, Owned, Phases, Whole, [Next]_vars, ~overlap', NEW d \in Conn, ~(d \in ahead'),
                    ~(d \in overrun')
             PROVE  WholeAt(d)'
  BY DEF Whole
<1>1. BaseInv' /\ overrun \subseteq overrun'
  BY BaseNext, OverrunStays DEF BaseInv, Types
<1>2. CASE UNCHANGED vars
  BY <1>2 DEF vars, serverVars, clientVars, Whole, WholeAt, InFlight
<1>3. ASSUME NEW c \in Conn, handle_events(c) PROVE WholeAt(d)'
  <2>1. UNCHANGED clientVars
    BY <1>3, ServerFrame
  <2>2. ~overlap
    BY <1>3 DEF handle_events, handle_accpet, do_read, do_write
  <2>3. WholeAt(d)
    BY <1>1, <2>1, <2>2 DEF Whole, clientVars
  <2>4. CASE open[d]
    <3>1. InFlight(d)' = InFlight(d)
      BY <1>1, <1>3, <2>4, FlightServer
    <3> QED
      BY <2>1, <2>3, <3>1 DEF WholeAt, clientVars
  <2>5. CASE ~open[d]
    BY <2>1, <2>3, <2>5 DEF WholeAt, clientVars
  <2> QED
    BY <2>4, <2>5
<1>4. ASSUME NEW c \in Conn,
             do_readStdin(c) \/ do_readEnd(c) \/ handle_connection(c) \/ Kill(c)
      PROVE  WholeAt(d)'
  <2>1. UNCHANGED serverVars /\ d \notin ahead
    BY <1>4, ClientFrame
  <2>2. WholeAt(d)
    BY <1>1, <2>1 DEF Whole, serverVars
  <2>3. CASE d = c
    BY <1>1, <1>4, <2>2, <2>3, WholeClient
  <2>4. CASE d # c
    <3>1. UNCHANGED <<sock[d], stdout[d], buf[d], printed[d], typed[d], up[d], down[d], open[d]>>
      BY <1>4, <2>4, ClientElsewhere
    <3> QED
      BY <2>1, <2>2, <3>1 DEF WholeAt, InFlight, serverVars
  <2> QED
    BY <2>3, <2>4
<1> QED
  BY <1>2, <1>3, <1>4 DEF Next

(***************************************************************************)
(* Apart from what its buffer held at first, a client prints what was      *)
(* typed, unless a line is typed before the echo of the last is there, or  *)
(* the server mixed two connections up, or one of its lines filled a       *)
(* buffer.                                                                 *)
(***************************************************************************)
THEOREM PrintsTyped == Spec => []PrintsWhatWasTyped
<1>1. Whole => PrintsWhatWasTyped
  BY DEF Whole, WholeAt, PrintsWhatWasTyped
<1> QED
  BY <1>1, BaseInit, BaseNext, OwnedInit, OwnedNext, PhasesInit, PhasesNext, WholeInit, WholeNext, PTL DEF Spec

-----------------------------------------------------------------------------
LEMMA RealsEmpty == Reals(<<>>) = {} /\ Once(<<>>)
  BY DEF Reals, Once

LEMMA RealsNone ==
  ASSUME NEW S, NEW s \in Seq(S), Real(s) = <<>> PROVE Reals(s) = {} /\ Once(s)
<1>1. \A i \in 1..Len(s) : s[i] = Junk
  BY RealNone
<1> QED
  BY <1>1 DEF Reals, Once

LEMMA CatOnce ==
  ASSUME NEW S, NEW q \in Seq(S), NEW r \in Seq(S), Once(q), Once(r), Reals(q) \cap Reals(r) = {}
  PROVE  Once(Cat(q, r)) /\ Reals(Cat(q, r)) \subseteq Reals(q) \cup Reals(r)
<1> DEFINE t == Cat(q, r)
<1>0. q \in Seq(S) /\ r \in Seq(S)
  OBVIOUS
<1>1. /\ t \in Seq(S) /\ Len(t) = Len(q) + Len(r) /\ Len(q) \in Nat /\ Len(r) \in Nat
  <2>1. Len(q) \in Nat /\ Len(r) \in Nat
    OBVIOUS
  <2>2. t \in Seq(S) /\ Len(t) = Len(q) + Len(r)
    BY CatType
  <2> QED
    BY <2>1, <2>2
<1>2. \A i \in 1..Len(q) : t[i] = q[i]
  BY ONLY <1>0, CatType
<1>3. \A i \in 1..Len(r) : t[Len(q) + i] = r[i]
  BY ONLY <1>0, CatType
<1> HIDE DEF t
<1>4. ASSUME NEW i \in DOMAIN t
      PROVE  \/ i \in DOMAIN q /\ t[i] = q[i]
             \/ i - Len(q) \in DOMAIN r /\ t[i] = r[i - Len(q)] /\ i \notin DOMAIN q
  <2>1. i \in 1..(Len(q) + Len(r)) /\ DOMAIN q = 1..Len(q) /\ DOMAIN r = 1..Len(r)
    BY <1>1
  <2>2. CASE i <= Len(q)
    BY <2>1, <2>2, <1>1, <1>2
  <2>3. CASE i > Len(q)
    <3>1. i - Len(q) \in 1..Len(r) /\ Len(q) + (i - Len(q)) = i
      BY <2>1, <2>3, <1>1
    <3> QED
      BY <2>1, <2>3, <3>1, <1>1, <1>3
  <2> QED
    BY <2>1, <2>2, <2>3, <1>1
<1>5. Reals(t) \subseteq Reals(q) \cup Reals(r)
  BY <1>4 DEF Reals
<1>6. ASSUME NEW i \in DOMAIN t, NEW j \in DOMAIN t, t[i] = t[j], t[i] # Junk PROVE i = j
  <2>1. CASE i \in DOMAIN q /\ t[i] = q[i]
    <3>1. q[i] \in Reals(q)
      BY <2>1, <1>6 DEF Reals
    <3>2. CASE j \in DOMAIN q /\ t[j] = q[j]
      BY <2>1, <3>2, <1>6 DEF Once
    <3>3. CASE j - Len(q) \in DOMAIN r /\ t[j] = r[j - Len(q)]
      <4>1. r[j - Len(q)] \in Reals(r)
        BY <3>3, <1>6 DEF Reals
      <4> QED
        BY <2>1, <3>1, <3>3, <4>1, <1>6
    <3> QED
      BY <3>2, <3>3, <1>4
  <2>2. CASE i - Len(q) \in DOMAIN r /\ t[i] = r[i - Len(q)]
    <3>1. r[i - Len(q)] \in Reals(r)
      BY <2>2, <1>6 DEF Reals
    <3>2. CASE j \in DOMAIN q /\ t[j] = q[j]
      <4>1. q[j] \in Reals(q)
        BY <3>2, <1>6 DEF Reals
      <4> QED
        BY <2>2, <3>1, <3>2, <4>1, <1>6
    <3>3. CASE j - Len(q) \in DOMAIN r /\ t[j] = r[j - Len(q)]
      <4>1. i - Len(q) = j - Len(q)
        BY <2>2, <3>3, <1>6 DEF Once
      <4>2. i \in Int /\ j \in Int
        BY <1>1
      <4> QED
        BY <4>1, <4>2, <1>1
    <3> QED
      BY <3>2, <3>3, <1>4
  <2> QED
    BY <2>1, <2>2, <1>4
<1> QED
  BY <1>5, <1>6 DEF Once, t

LEMMA IntoOnce ==
  ASSUME NEW S, NEW b \in Seq(S), NEW s \in Seq(S), Once(b), Once(s), Reals(b) \cap Reals(s) = {}
  PROVE  Once(Into(b, s)) /\ Reals(Into(b, s)) \subseteq Reals(b) \cup Reals(s)
<1> DEFINE t == Into(b, s)
<1>1. t \in Seq(S) /\ Len(b) \in Nat /\ Len(s) \in Nat
  BY IntoType
<1>2. Len(t) = IF Len(b) <= Len(s) THEN Len(s) ELSE Len(b)
  BY IntoType
<1>3. \A i \in 1..Len(s) : t[i] = s[i]
  BY IntoType
<1>4. \A i \in (Len(s) + 1)..Len(b) : t[i] = b[i]
  BY IntoType
<1> HIDE DEF t
<1>5. ASSUME NEW i \in DOMAIN t
      PROVE  (i \in DOMAIN s /\ t[i] = s[i]) \/ (i \in DOMAIN b /\ t[i] = b[i])
  <2>1. DOMAIN t = 1..Len(t) /\ DOMAIN s = 1..Len(s) /\ DOMAIN b = 1..Len(b)
    BY <1>1
  <2>2. CASE i <= Len(s)
    BY <2>1, <2>2, <1>1, <1>3
  <2>3. CASE i > Len(s)
    BY <2>1, <2>3, <1>1, <1>2, <1>4
  <2> QED
    BY <2>1, <2>2, <2>3, <1>1
<1>6. Reals(t) \subseteq Reals(b) \cup Reals(s)
  BY <1>5 DEF Reals
<1>7. ASSUME NEW i \in DOMAIN t, NEW j \in DOMAIN t, t[i] = t[j], t[i] # Junk PROVE i = j
  <2>1. CASE i \in DOMAIN s /\ t[i] = s[i] /\ j \in DOMAIN s /\ t[j] = s[j]
    BY <2>1, <1>7 DEF Once
  <2>2. CASE i \in DOMAIN b /\ t[i] = b[i] /\ j \in DOMAIN b /\ t[j] = b[j]
    BY <2>2, <1>7 DEF Once
  <2>3. CASE i \in DOMAIN s /\ t[i] = s[i] /\ j \in DOMAIN b /\ t[j] = b[j]
    <3>1. s[i] \in Reals(s) /\ b[j] \in Reals(b)
      BY <2>3, <1>7 DEF Reals
    <3> QED
      BY <2>3, <3>1, <1>7
  <2>4. CASE i \in DOMAIN b /\ t[i] = b[i] /\ j \in DOMAIN s /\ t[j] = s[j]
    <3>1. b[i] \in Reals(b) /\ s[j] \in Reals(s)
      BY <2>4, <1>7 DEF Reals
    <3> QED
      BY <2>4, <3>1, <1>7
  <2> QED
    BY <2>1, <2>2, <2>3, <2>4, <1>5
<1> QED
  BY <1>6, <1>7 DEF Once, t

\* The bytes of one place move to another.
Moves(f, g, src, dst) ==
  /\ src \in Loc /\ dst \in Loc /\ src # dst
  /\ Reals(g[src]) = {} /\ Once(g[src])
  /\ Once(g[dst]) /\ Reals(g[dst]) \subseteq Reals(f[dst]) \cup Reals(f[src])
  /\ \A l \in Loc : l # src /\ l # dst => g[l] = f[l]

LEMMA Moved ==
  ASSUME NEW f, NEW g, NEW src, NEW dst, Distinct(f), Moves(f, g, src, dst)
  PROVE  Distinct(g) /\ \A l \in Loc : \A b \in Reals(g[l]) : \E m \in Loc : b \in Reals(f[m])
<1> USE DEF Moves
<1>1. Reals(g[src]) = {}
  OBVIOUS
<1>2. \A l \in Loc : Once(g[l])
  BY DEF Distinct
<1>3. ASSUME NEW l \in Loc, NEW m \in Loc, l # m PROVE Reals(g[l]) \cap Reals(g[m]) = {}
  <2>1. CASE l = src \/ m = src
    BY <1>1, <2>1
  <2>2. CASE l = dst /\ m # src
    <3>1. g[m] = f[m] /\ Reals(f[dst]) \cap Reals(f[m]) = {} /\ Reals(f[src]) \cap Reals(f[m]) = {}
      BY <1>3, <2>2 DEF Distinct
    <3> QED
      BY <2>2, <3>1
  <2>3. CASE m = dst /\ l # src
    <3>1. g[l] = f[l] /\ Reals(f[l]) \cap Reals(f[dst]) = {} /\ Reals(f[l]) \cap Reals(f[src]) = {}
      BY <1>3, <2>3 DEF Distinct
    <3> QED
      BY <2>3, <3>1
  <2>4. CASE l \notin {src, dst} /\ m \notin {src, dst}
    BY <1>3, <2>4 DEF Distinct
  <2> QED
    BY <2>1, <2>2, <2>3, <2>4
<1>4. ASSUME NEW l \in Loc, NEW b \in Reals(g[l]) PROVE \E m \in Loc : b \in Reals(f[m])
  BY <1>1, <1>4
<1> QED
  BY <1>2, <1>3, <1>4 DEF Distinct

LEMMA PlaceType == BaseInv => \A l \in Loc : Place[l] \in Seq(Byte)
<1> SUFFICES ASSUME BaseInv, NEW l \in Loc PROVE Place[l] \in Seq(Byte)
  OBVIOUS
<1>1. \A c \in Conn : Pending(c) \in Seq(Byte) /\ up[c] \in Seq(Byte) /\ sent[c] \in Seq(Byte)
  BY DEF Pending, BaseInv, Types, TypeOK
<1>2. buffer \in Seq(Byte)
  BY DEF BaseInv, Types, TypeOK, Contents
<1> QED
  BY <1>1, <1>2 DEF Place, Loc

LEMMA OnceInit == Init => OnceInv
<1> SUFFICES ASSUME Init, NEW l \in Loc PROVE Place[l] = <<>>
  BY RealsEmpty DEF OnceInv, Distinct
<1>1. buffer = <<>> /\ \A c \in Conn : sent[c] = <<>> /\ up[c] = <<>> /\ Pending(c) = <<>>
  BY DEF Init, Nothing, Pending
<1> QED
  BY <1>1 DEF Place, Loc

\* Where a byte may be, by name.
LEMMA PlaceNames ==
  /\ <<"buffer", "buffer">> \in Loc /\ Place[<<"buffer", "buffer">>] = buffer
  /\ \A c \in Conn :
       /\ <<"sent", c>> \in Loc /\ Place[<<"sent", c>>] = sent[c]
       /\ <<"up", c>> \in Loc /\ Place[<<"up", c>>] = up[c]
       /\ <<"line", c>> \in Loc /\ Place[<<"line", c>>] = Pending(c)
  BY DEF Place, Loc

LEMMA LocNames ==
  \A l \in Loc : l = <<"buffer", "buffer">> \/ \E d \in Conn : l \in {<<"sent", d>>, <<"up", d>>, <<"line", d>>}
  BY DEF Loc

LEMMA PlaceNamesNext ==
  /\ Place'[<<"buffer", "buffer">>] = buffer'
  /\ \A c \in Conn :
       /\ Place'[<<"sent", c>>] = sent'[c] /\ Place'[<<"up", c>>] = up'[c]
       /\ Place'[<<"line", c>>] = Pending(c)'
  BY DEF Place, Loc

LEMMA PlaceSame ==
  ASSUME UNCHANGED <<buffer, sent, up>>, \A c \in Conn : Pending(c)' = Pending(c)
  PROVE  Place' = Place
  BY DEF Place, Loc

LEMMA OnceServer ==
  ASSUME BaseInv, overrun = {}, overrun' = {}, Distinct(Place), NEW c \in Conn, handle_events(c)
  PROVE  Distinct(Place') /\ \A l \in Loc : \A b \in Reals(Place'[l]) : \E m \in Loc : b \in Reals(Place[m])
<1> DEFINE B == <<"buffer", "buffer">>
<1> USE DEF BaseInv, Types
<1>1. UNCHANGED <<sock, buf>> /\ \A d \in Conn : Pending(d)' = Pending(d)
  BY ServerFrame DEF clientVars, Pending
<1>2. buffer \in Seq(Byte) /\ up \in [Conn -> Seq(Byte)] /\ sent \in [Conn -> Seq(Byte)]
  BY DEF TypeOK, Contents
<1>r. Taken(up[c]) = up[c] /\ Rest(up[c]) = <<>>
  BY <1>2, TakenType DEF Ring, Contents
<1>3. CASE Place' = Place
  BY <1>3
<1>4. CASE handle_accpet(c)
  BY <1>1, <1>3, <1>4, PlaceSame DEF handle_accpet
<1>5. CASE do_read(c)
  <2>1. CASE /\ up[c] # <<>>
             /\ buffer' = Into(buffer, Taken(up[c]))
             /\ overlap' = (overlap \/ buffer # <<>>)
             /\ interest' = [interest EXCEPT ![c] = "out"]
             /\ up' = [up EXCEPT ![c] = Rest(@)]
             /\ got' = Extend(got, c, Taken(up[c]))
    <3> DEFINE U == <<"up", c>>
    <3>1. B \in Loc /\ U \in Loc /\ U # B /\ Place[B] = buffer /\ Place[U] = up[c]
      BY PlaceNames
    <3>2. Once(buffer) /\ Once(up[c]) /\ Reals(buffer) \cap Reals(up[c]) = {}
      BY <3>1 DEF Distinct
    <3>3. Once(buffer') /\ Reals(buffer') \subseteq Reals(buffer) \cup Reals(up[c])
      BY <2>1, <3>2, <1>2, <1>r, IntoOnce
    <3>4. Place'[U] = <<>> /\ Place'[B] = buffer'
      BY <2>1, <1>2, <1>r, PlaceNamesNext
    <3>5. \A l \in Loc : l # U /\ l # B => Place'[l] = Place[l]
      <4>1. UNCHANGED sent /\ \A d \in Conn : d # c => up'[d] = up[d]
        BY <1>5, <2>1, <1>2 DEF do_read
      <4>2. ASSUME NEW d \in Conn
            PROVE  /\ <<"sent", d>> # U => Place'[<<"sent", d>>] = Place[<<"sent", d>>]
                   /\ <<"up", d>> # U => Place'[<<"up", d>>] = Place[<<"up", d>>]
                   /\ <<"line", d>> # U => Place'[<<"line", d>>] = Place[<<"line", d>>]
        <5>1. sent'[d] = sent[d] /\ Pending(d)' = Pending(d)
          BY <1>1, <4>1
        <5>2. <<"up", d>> # U => up'[d] = up[d]
          BY <4>1
        <5> QED
          BY <5>1, <5>2, PlaceNames, PlaceNamesNext
      <4> QED
        BY <4>2, LocNames
    <3>6. Reals(Place'[U]) = {} /\ Once(Place'[U])
      BY <3>4, RealsEmpty
    <3>7. Once(Place'[B]) /\ Reals(Place'[B]) \subseteq Reals(Place[B]) \cup Reals(Place[U])
      BY <3>1, <3>3, <3>4
    <3> HIDE DEF U, B
    <3> QED
      <4>1. Moves(Place, Place', U, B)
        BY ONLY <3>1, <3>5, <3>6, <3>7 DEF Moves
      <4> QED
        BY ONLY Distinct(Place), <4>1, Moved
  <2>2. CASE UNCHANGED <<buffer, overlap, up, got>>
    BY <1>1, <1>3, <1>5, <2>2, PlaceSame DEF do_read
  <2> QED
    BY <1>5, <2>1, <2>2 DEF do_read
<1>6. CASE do_write(c)
  <2> DEFINE D == <<"sent", c>>
  <2>1. B \in Loc /\ D \in Loc /\ B # D /\ Place[B] = buffer /\ Place[D] = sent[c]
    BY PlaceNames
  <2>2. Once(buffer) /\ Once(sent[c]) /\ Reals(sent[c]) \cap Reals(buffer) = {}
    BY <2>1 DEF Distinct
  <2>3. Place'[B] = <<>> /\ Place'[D] = sent'[c] /\ UNCHANGED up
    BY <1>6, PlaceNamesNext DEF do_write
  <2>4. /\ Once(sent'[c]) /\ Reals(sent'[c]) \subseteq Reals(sent[c]) \cup Reals(buffer)
        /\ \A d \in Conn : d # c => sent'[d] = sent[d]
    <3>s. Len(buffer) < MAXSIZE
      BY <1>6, StrlenType DEF do_write, TypeOK
    <3>1. CASE \E s \in Text(buffer) : sent' = Extend(sent, c, s)
      <4>s. sent' = Extend(sent, c, buffer)
        BY <3>1, <3>s, <1>2, TextType
      <4>1. Extend(sent, c, buffer)[c] = Cat(sent[c], buffer)
        BY ONLY <1>2, ExtendType
      <4>2. \A d \in Conn : d # c => Extend(sent, c, buffer)[d] = sent[d]
        BY ONLY <1>2, ExtendType
      <4>3. Once(Cat(sent[c], buffer)) /\ Reals(Cat(sent[c], buffer)) \subseteq Reals(sent[c]) \cup Reals(buffer)
        BY <1>2, <2>2, CatOnce
      <4> QED
        BY <4>s, <4>1, <4>2, <4>3
    <3>2. CASE UNCHANGED sent
      BY <2>2, <3>2
    <3> QED
      BY <1>6, <3>1, <3>2 DEF do_write
  <2>5. \A l \in Loc : l # B /\ l # D => Place'[l] = Place[l]
    <3>1. ASSUME NEW d \in Conn
          PROVE  /\ <<"sent", d>> # D => Place'[<<"sent", d>>] = Place[<<"sent", d>>]
                 /\ <<"up", d>> # D => Place'[<<"up", d>>] = Place[<<"up", d>>]
                 /\ <<"line", d>> # D => Place'[<<"line", d>>] = Place[<<"line", d>>]
      <4>1. up'[d] = up[d] /\ Pending(d)' = Pending(d)
        BY <1>1, <2>3
      <4>2. <<"sent", d>> # D => sent'[d] = sent[d]
        BY <2>4
      <4> QED
        BY <4>1, <4>2, PlaceNames, PlaceNamesNext
    <3> QED
      BY <3>1, LocNames
  <2>6. Reals(Place'[B]) = {} /\ Once(Place'[B])
    BY <2>3, RealsEmpty
  <2>7. Once(Place'[D]) /\ Reals(Place'[D]) \subseteq Reals(Place[D]) \cup Reals(Place[B])
    BY <2>1, <2>3, <2>4
  <2> HIDE DEF D, B
  <2> QED
    <3>1. Moves(Place, Place', B, D)
      BY ONLY <2>1, <2>5, <2>6, <2>7 DEF Moves
    <3> QED
      BY ONLY Distinct(Place), <3>1, Moved
<1> QED
  BY <1>4, <1>5, <1>6 DEF handle_events

\* A typed line is new and its bytes are different ones.
LEMMA LineOnce ==
  ASSUME Types, NEW c \in Conn, line[c] < Len(Lines[c])
  PROVE  /\ Once(LineOf(c))
         /\ \A b \in Reals(LineOf(c)) : ~IsTyped(b) /\ \E k \in Nat : b = <<c, Len(typed[c]) + k>>
<1>1. /\ LineOf(c) \in Seq(Byte) /\ typed[c] \in Seq(Byte)
      /\ \A k \in 1..Len(LineOf(c)) : LineOf(c)[k] = <<c, Len(typed[c]) + k>>
  BY LineType DEF Contents, Types, TypeOK
<1>2. DOMAIN LineOf(c) = 1..Len(LineOf(c)) /\ Len(LineOf(c)) \in Nat /\ Len(typed[c]) \in Nat
  BY <1>1
<1>3. Once(LineOf(c))
  BY <1>1, <1>2 DEF Once
<1>4. ASSUME NEW b \in Reals(LineOf(c)) PROVE ~IsTyped(b) /\ \E k \in Nat : b = <<c, Len(typed[c]) + k>>
  <2>1. PICK k \in 1..Len(LineOf(c)) : b = <<c, Len(typed[c]) + k>>
    BY <1>1, <1>2 DEF Reals
  <2>2. ASSUME NEW d \in Conn, NEW j \in 1..Len(typed[d]), b = <<d, j>> PROVE FALSE
    <3>1. d = c /\ j = Len(typed[c]) + k
      BY <2>1, <2>2
    <3> QED
      BY <1>2, <2>1, <3>1
  <2> QED
    BY <1>2, <2>1, <2>2 DEF IsTyped
<1> QED
  BY <1>3, <1>4

\* What was typed stays so, and what a line adds is typed after it.
LEMMA TypedStays ==
  ASSUME BaseInv, [Next]_vars
  PROVE  /\ \A b : IsTyped(b) => IsTyped(b)'
         /\ ahead \subseteq ahead'
         /\ \A c \in Conn : do_readStdin(c) => \A b \in Reals(LineOf(c)) : IsTyped(b)'
<1> USE DEF BaseInv, Types
<1>1. typed \in [Conn -> Seq(Byte)]
  BY DEF TypeOK
<1>2. CASE UNCHANGED <<typed, ahead>> /\ \A c \in Conn : ~do_readStdin(c)
  BY <1>2 DEF IsTyped
<1>3. ASSUME NEW c \in Conn, do_readStdin(c)
      PROVE  /\ \A b : IsTyped(b) => IsTyped(b)'
             /\ ahead \subseteq ahead'
             /\ \A b \in Reals(LineOf(c)) : IsTyped(b)'
  <2>1. /\ typed' = Extend(typed, c, LineOf(c)) /\ LineOf(c) \in Seq(Byte) /\ line[c] < Len(Lines[c])
        /\ \A k \in 1..Len(LineOf(c)) : LineOf(c)[k] = <<c, Len(typed[c]) + k>>
    BY <1>3, LineType DEF do_readStdin, LineOf, Contents
  <2>2. typed'[c] = Cat(typed[c], LineOf(c)) /\ \A d \in Conn : d # c => typed'[d] = typed[d]
    <3>1. Extend(typed, c, LineOf(c))[c] = Cat(typed[c], LineOf(c))
      BY ONLY <1>1, <2>1, ExtendType
    <3>2. \A d \in Conn : d # c => Extend(typed, c, LineOf(c))[d] = typed[d]
      BY ONLY <1>1, <2>1, ExtendType
    <3> QED
      BY <2>1, <3>1, <3>2
  <2>3. Len(typed'[c]) = Len(typed[c]) + Len(LineOf(c)) /\ Len(typed[c]) \in Nat /\ Len(LineOf(c)) \in Nat
    <3>1. Len(Cat(typed[c], LineOf(c))) = Len(typed[c]) + Len(LineOf(c))
      BY <1>1, <2>1, CatType
    <3> QED
      BY <1>1, <2>1, <2>2, <3>1
  <2>4. ASSUME NEW b, IsTyped(b) PROVE IsTyped(b)'
    <3>1. PICK d \in Conn : \E j \in 1..Len(typed[d]) : b = <<d, j>>
      BY <2>4 DEF IsTyped
    <3>2. Len(typed'[d]) \in Nat /\ Len(typed[d]) \in Nat /\ Len(typed'[d]) >= Len(typed[d])
      <4>1. CASE d = c
        BY <2>3, <4>1
      <4>2. CASE d # c
        <5>1. Len(typed[d]) \in Nat /\ typed'[d] = typed[d]
          BY <1>1, <2>2, <4>2
        <5> QED
          BY <5>1
      <4> QED
        BY <4>1, <4>2
    <3> QED
      BY <3>1, <3>2 DEF IsTyped
  <2>5. ASSUME NEW b \in Reals(LineOf(c)) PROVE IsTyped(b)'
    <3>1. PICK k \in 1..Len(LineOf(c)) : b = <<c, Len(typed[c]) + k>>
      <4>1. DOMAIN LineOf(c) = 1..Len(LineOf(c))
        BY <2>1
      <4>2. \E k \in DOMAIN LineOf(c) : b = LineOf(c)[k]
        BY DEF Reals
      <4> QED
        BY <2>1, <4>1, <4>2
    <3> DEFINE n == Len(typed[c]) + k
    <3>2. n \in 1..Len(typed'[c])
      BY <2>3
    <3> HIDE DEF n
    <3>3. b = <<c, n>>
      BY <3>1 DEF n
    <3> QED
      BY <3>2, <3>3 DEF IsTyped
  <2>6. ahead \subseteq ahead'
    BY <1>3 DEF do_readStdin
  <2> QED
    BY <2>4, <2>5, <2>6
<1>4. CASE \A c \in Conn : ~do_readStdin(c)
  <2>1. UNCHANGED <<typed, ahead>>
    BY <1>4 DEF Next, vars, clientVars, serverVars, handle_events, handle_accpet, do_read, do_write,
                do_readEnd, handle_connection, do_readSock, do_writeSock, do_writeStdout, Kill
  <2> QED
    BY <1>2, <1>4, <2>1
<1> QED
  BY <1>3, <1>4

\* A client's step in a run in which no line was typed ahead.
LEMMA OnceClient ==
  ASSUME BaseInv, [Next]_vars, Phases, OnceInv, ahead' = {}, overrun' = {}, NEW c \in Conn,
         do_readStdin(c) \/ do_readEnd(c) \/ handle_connection(c) \/ Kill(c)
  PROVE  OnceInv'
<1> USE DEF BaseInv, Types
<1>1. /\ ahead = {} /\ overrun = {} /\ open[c] /\ Phase(c) /\ UNCHANGED serverVars
      /\ \A b : IsTyped(b) => IsTyped(b)'
  <2>1. ahead = {} /\ overrun = {} /\ \A b : IsTyped(b) => IsTyped(b)'
    BY TypedStays, OverrunStays
  <2>2. open[c]
    BY DEF do_readStdin, do_readEnd, handle_connection, do_readSock, do_writeSock, do_writeStdout, Kill
  <2> QED
    BY <2>1, <2>2, ClientFrame DEF Phases
<1>2. Distinct(Place) /\ \A l \in Loc : \A b \in Reals(Place[l]) : IsTyped(b)
  BY <1>1 DEF OnceInv
<1>3. /\ UNCHANGED <<buffer, sent>>
      /\ \A d \in Conn \ {c} : up'[d] = up[d] /\ Pending(d)' = Pending(d)
  <2>1. \A d \in Conn \ {c} : UNCHANGED <<up[d], sock[d], buf[d]>>
    BY ClientElsewhere
  <2> QED
    BY <1>1, <2>1 DEF serverVars, Pending
<1>4. ASSUME Place' = Place PROVE OnceInv'
  BY <1>1, <1>2, <1>4 DEF OnceInv
<1>5. CASE do_readStdin(c)
  <2> DEFINE L == <<"line", c>>
             B == <<"buffer", "buffer">>
  <2>1. /\ sock[c] = "none" /\ Real(buf[c]) = <<>> /\ sock'[c] = "out"
        /\ buf'[c] = Into(buf[c], LineOf(c))
    BY <1>1, <1>5, TypesNext
  <2>2. Pending(c) = <<>> /\ Pending(c)' = Into(buf[c], LineOf(c)) /\ UNCHANGED up
    BY <1>5, <2>1 DEF Pending, do_readStdin
  <2>3. L \in Loc /\ Place[L] = <<>> /\ Place'[L] = Into(buf[c], LineOf(c))
    BY <2>2, PlaceNames, PlaceNamesNext
  <2>4. \A l \in Loc : l # L => Place'[l] = Place[l]
    <3>1. ASSUME NEW d \in Conn
          PROVE  /\ Place'[<<"sent", d>>] = Place[<<"sent", d>>]
                 /\ Place'[<<"up", d>>] = Place[<<"up", d>>]
                 /\ <<"line", d>> # L => Place'[<<"line", d>>] = Place[<<"line", d>>]
      BY <1>3, <2>2, PlaceNames, PlaceNamesNext
    <3>2. Place'[B] = Place[B]
      BY <1>3, PlaceNames, PlaceNamesNext
    <3> QED
      BY <3>1, <3>2, LocNames
  <2>5. /\ Once(LineOf(c)) /\ LineOf(c) \in Seq(Byte) /\ buf[c] \in Seq(Byte)
        /\ \A b \in Reals(LineOf(c)) : ~IsTyped(b) /\ IsTyped(b)'
    <3>1. line[c] < Len(Lines[c])
      BY <1>5 DEF do_readStdin
    <3> QED
      BY <1>5, <3>1, LineOnce, LineType, TypedStays DEF Contents
  <2>6. Reals(buf[c]) = {} /\ Once(buf[c])
    BY <2>1, <2>5, RealsNone
  <2>7. Once(Place'[L]) /\ Reals(Place'[L]) \subseteq Reals(LineOf(c))
    <3>1. /\ Once(Into(buf[c], LineOf(c)))
          /\ Reals(Into(buf[c], LineOf(c))) \subseteq Reals(buf[c]) \cup Reals(LineOf(c))
      BY <2>5, <2>6, IntoOnce
    <3> QED
      BY <2>3, <2>6, <3>1
  <2> HIDE DEF L, B
  <2>8. \A l \in Loc : Once(Place'[l])
    BY <1>2, <2>4, <2>7 DEF Distinct
  <2>9. ASSUME NEW l \in Loc, NEW m \in Loc, l # m PROVE Reals(Place'[l]) \cap Reals(Place'[m]) = {}
    <3>1. CASE l = L
      BY <1>2, <2>4, <2>5, <2>7, <2>9, <3>1
    <3>2. CASE m = L
      BY <1>2, <2>4, <2>5, <2>7, <2>9, <3>2
    <3>3. CASE l # L /\ m # L
      BY <1>2, <2>4, <2>9, <3>3 DEF Distinct
    <3> QED
      BY <3>1, <3>2, <3>3
  <2>10. ASSUME NEW l \in Loc, NEW b \in Reals(Place'[l]) PROVE IsTyped(b)'
    <3>1. CASE l = L
      BY <2>5, <2>7, <2>10, <3>1
    <3>2. CASE l # L
      BY <1>1, <1>2, <2>4, <2>10, <3>2
    <3> QED
      BY <3>1, <3>2
  <2> QED
    BY <2>8, <2>9, <2>10 DEF OnceInv, Distinct
<1>6. CASE do_readEnd(c) \/ Kill(c)
  <2>1. UNCHANGED <<up, sock, buf>>
    BY <1>6 DEF do_readEnd, Kill
  <2> QED
    BY <1>3, <1>4, <2>1, PlaceSame DEF Pending
<1>7. CASE do_readSock(c) \/ do_writeStdout(c)
  <2>1. UNCHANGED up /\ sock[c] # "out" /\ sock'[c] # "out"
    BY <1>1, <1>7 DEF do_readSock, do_writeStdout, Phase, TypeOK
  <2>2. Pending(c)' = Pending(c)
    BY <2>1 DEF Pending
  <2> QED
    BY <1>3, <1>4, <2>1, <2>2, PlaceSame
<1>8. CASE do_writeSock(c)
  <2> DEFINE L == <<"line", c>>
             U == <<"up", c>>
             B == <<"buffer", "buffer">>
  <2>1. sock[c] = "out" /\ buf'[c] = <<>> /\ up[c] = <<>> /\ buf[c] \in Seq(Byte) /\ up \in [Conn -> Seq(Byte)]
    BY <1>1, <1>8 DEF do_writeSock, TypeOK, Ring, Contents
  <2>2. up'[c] = buf[c] /\ \A d \in Conn : d # c => up'[d] = up[d]
    <3>s. Len(buf[c]) < MAXSIZE
      BY <1>8, StrlenType DEF do_writeSock, TypeOK
    <3>p. PICK s \in Text(buf[c]) : up' = Extend(up, c, s)
      BY <1>8 DEF do_writeSock
    <3>1. up' = Extend(up, c, buf[c])
      BY <2>1, <3>s, <3>p, TextType
    <3>t. buf[c] \in Seq(Byte) /\ up \in [Conn -> Seq(Byte)] /\ Len(up[c]) = 0
      BY <2>1
    <3>2. Extend(up, c, buf[c])[c] = buf[c]
      BY ONLY <3>t, ExtendEmpty
    <3>3. \A d \in Conn : d # c => Extend(up, c, buf[c])[d] = up[d]
      BY ONLY <3>t, ExtendType
    <3> QED
      BY ONLY <3>1, <3>2, <3>3
  <2>3. L \in Loc /\ U \in Loc /\ L # U /\ Place[L] = buf[c] /\ Place'[L] = <<>> /\ Place'[U] = buf[c]
    BY <2>1, <2>2, PlaceNames, PlaceNamesNext DEF Pending
  <2>4. \A l \in Loc : l # L /\ l # U => Place'[l] = Place[l]
    <3>1. ASSUME NEW d \in Conn
          PROVE  /\ Place'[<<"sent", d>>] = Place[<<"sent", d>>]
                 /\ <<"up", d>> # U => Place'[<<"up", d>>] = Place[<<"up", d>>]
                 /\ <<"line", d>> # L => Place'[<<"line", d>>] = Place[<<"line", d>>]
      BY <1>3, <2>2, PlaceNames, PlaceNamesNext
    <3>2. Place'[B] = Place[B]
      BY <1>3, PlaceNames, PlaceNamesNext
    <3> QED
      BY <3>1, <3>2, LocNames
  <2>5. Reals(Place'[L]) = {} /\ Once(Place'[L])
    BY <2>3, RealsEmpty
  <2>6. Once(Place'[U]) /\ Reals(Place'[U]) \subseteq Reals(Place[U]) \cup Reals(Place[L])
    BY <1>2, <2>3 DEF Distinct
  <2> HIDE DEF L, U, B
  <2>7. Distinct(Place') /\ \A l \in Loc : \A b \in Reals(Place'[l]) : \E m \in Loc : b \in Reals(Place[m])
    <3>1. Moves(Place, Place', L, U)
      BY ONLY <2>3, <2>4, <2>5, <2>6 DEF Moves
    <3> QED
      BY ONLY <1>2, <3>1, Moved
  <2> QED
    BY <1>1, <1>2, <2>7 DEF OnceInv
<1> QED
  BY <1>5, <1>6, <1>7, <1>8 DEF handle_connection

LEMMA OnceNext == BaseInv /\ Phases /\ OnceInv /\ [Next]_vars => OnceInv'
<1> SUFFICES ASSUME BaseInv, Phases, OnceInv, [Next]_vars, ahead' = {}, overrun' = {} PROVE OnceInv'
  BY DEF OnceInv
<1>1. ahead = {} /\ overrun = {} /\ \A b : IsTyped(b) => IsTyped(b)'
  BY TypedStays, OverrunStays DEF BaseInv, Types
<1>2. Distinct(Place) /\ \A l \in Loc : \A b \in Reals(Place[l]) : IsTyped(b)
  BY <1>1 DEF OnceInv
<1>3. CASE UNCHANGED vars
  <2>1. Place' = Place
    BY <1>3, PlaceSame DEF vars, serverVars, clientVars, Pending
  <2> QED
    BY <1>1, <1>2, <2>1 DEF OnceInv
<1>4. ASSUME NEW c \in Conn, handle_events(c) PROVE OnceInv'
  <2>1. Distinct(Place') /\ \A l \in Loc : \A b \in Reals(Place'[l]) : \E m \in Loc : b \in Reals(Place[m])
    BY <1>1, <1>2, <1>4, OnceServer
  <2> QED
    BY <1>1, <1>2, <2>1 DEF OnceInv
<1>5. ASSUME NEW c \in Conn,
             do_readStdin(c) \/ do_readEnd(c) \/ handle_connection(c) \/ Kill(c)
      PROVE  OnceInv'
  BY <1>5, OnceClient
<1> QED
  BY <1>3, <1>4, <1>5 DEF Next

(***************************************************************************)
(* However the connections overlap in the one buffer, a byte that was      *)
(* typed is sent back once at most, and to one client, unless a client     *)
(* itself sends the echo again, which one that types ahead may do.  Stated *)
(* for runs in which nothing fills a buffer.                               *)
(***************************************************************************)
THEOREM SentIsOnce == Spec => []SentOnce
<1>1. BaseInv /\ OnceInv => SentOnce
  <2> SUFFICES ASSUME BaseInv, Distinct(Place), NEW c \in Conn, NEW d \in Conn,
                      NEW i \in DOMAIN sent[c], NEW j \in DOMAIN sent[d],
                      sent[c][i] = sent[d][j], sent[c][i] # Junk
               PROVE  c = d /\ i = j
    BY DEF OnceInv, SentOnce
  <2> DEFINE C == <<"sent", c>>
             D == <<"sent", d>>
  <2>1. C \in Loc /\ D \in Loc /\ Place[C] = sent[c] /\ Place[D] = sent[d] /\ (C = D => c = d)
    BY PlaceNames
  <2>2. sent[c][i] \in Reals(sent[c]) /\ sent[c][i] \in Reals(sent[d])
    BY DEF Reals
  <2> HIDE DEF C, D
  <2>3. c = d
    BY <2>1, <2>2 DEF Distinct
  <2>4. Once(sent[c])
    BY <2>1 DEF Distinct
  <2> QED
    BY <2>3, <2>4 DEF Once
<1> QED
  BY <1>1, BaseInit, BaseNext, PhasesInit, PhasesNext, OnceInit, OnceNext, PTL DEF Spec

=============================================================================
