--------------------------- MODULE RsCodec_proofs ---------------------------
(***************************************************************************)
(* demos/rust/spqr/gf.rs.  First its field arithmetic, for every width and *)
(* every polynomial; then its Reed-Solomon kernel, over any field, with    *)
(* any number of coefficients and any points.                              *)
(***************************************************************************)
EXTENDS RsCodec, GfLadder, Integers, FiniteSetTheorems, WellFoundedInduction, TLAPS

-----------------------------------------------------------------------------
(* Induction and recursion, stated for sets: a property is the set of the  *)
(* numbers that have it, a recursive definition a sequence of functions.   *)

LEMMA LeastElement ==
  ASSUME NEW T \in SUBSET Nat, T # {}
  PROVE  \E x \in T : \A y \in T : x <= y
<1> DEFINE R == {p \in Nat \X Nat : p[1] < p[2]}
<1>1. IsWellFoundedOn(R, Nat)
  BY NatLessThanWellFounded, Zenon DEF OpToRel
<1> HIDE DEF R
<1>2. PICK x \in T : \A y \in T : ~(<<y, x>> \in R)
  BY <1>1, WFMin, Zenon
<1>3. \A y \in T : x <= y
  <2> TAKE y \in T
  <2>1. x \in Nat /\ y \in Nat
    OBVIOUS
  <2>2. <<y, x>> \notin R
    BY <1>2
  <2>3. <<y, x>> \in R <=> y < x
    BY <2>1 DEF R
  <2> QED
    BY <2>1, <2>2, <2>3
<1> QED
  BY <1>2, <1>3

LEMMA Induction ==
  ASSUME NEW S, 0 \in S, \A n \in Nat : n \in S => n + 1 \in S
  PROVE  \A n \in Nat : n \in S
<1> SUFFICES ASSUME NEW m \in Nat, m \notin S PROVE FALSE
  OBVIOUS
<1>1. PICK x \in Nat \ S : \A y \in Nat \ S : x <= y
  <2>1. Nat \ S \in SUBSET Nat /\ Nat \ S # {}
    OBVIOUS
  <2> QED
    BY <2>1, LeastElement
<1>2. x # 0 /\ x - 1 \in Nat /\ x = (x - 1) + 1
  BY <1>1
<1>3. x - 1 \notin S
  BY <1>2, <1>1
<1> QED
  BY <1>1, <1>2, <1>3

Steps(n, V) == [0..n - 1 -> [V -> V]]

\* f goes from c through the first n steps.
Iterates(f, n, V, c, step) ==
  f \in [0..n -> V] /\ f[0] = c /\ \A i \in 0..n - 1 : f[i + 1] = step[i][f[i]]

LEMMA Recursion ==
  ASSUME NEW n \in Nat, NEW V, NEW c \in V, NEW step \in Steps(n, V)
  PROVE  \E f : Iterates(f, n, V, c, step)
<1> DEFINE Good(m) == \E f \in [0..m -> V] :
                        f[0] = c /\ \A i \in 0..m - 1 : f[i + 1] = step[i][f[i]]
           S == {m \in Nat : m <= n => Good(m)}
<1>1. 0 \in S
  <2> DEFINE g == [i \in 0..0 |-> c]
  <2>1. g \in [0..0 -> V] /\ g[0] = c /\ 0..0 - 1 = {}
    OBVIOUS
  <2> HIDE DEF g
  <2>2. Good(0)
    BY <2>1
  <2> QED
    BY <2>2
<1>1a. step \in [0..n - 1 -> [V -> V]]
  BY DEF Steps
<1>2. ASSUME NEW m \in Nat, m \in S PROVE m + 1 \in S
  <2> SUFFICES ASSUME m + 1 <= n PROVE Good(m + 1)
    OBVIOUS
  <2>1. PICK f \in [0..m -> V] : f[0] = c /\ \A i \in 0..m - 1 : f[i + 1] = step[i][f[i]]
    BY <1>2
  <2> DEFINE g == [i \in 0..m + 1 |-> IF i = m + 1 THEN step[m][f[m]] ELSE f[i]]
  <2>2. step[m][f[m]] \in V
    BY <1>1a
  <2>3. g \in [0..m + 1 -> V]
    BY <2>2
  <2>4. g[0] = c
    BY <2>1
  <2>5. \A i \in 0..(m + 1) - 1 : g[i + 1] = step[i][g[i]]
    BY <2>1
  <2> HIDE DEF g
  <2> QED
    BY <2>3, <2>4, <2>5
<1> HIDE DEF S
<1>3. n \in S
  BY <1>1, <1>2, Induction
<1> QED
  BY <1>3 DEF S, Iterates

-----------------------------------------------------------------------------
(* Parity.                                                                 *)

Odd(S) == Cardinality(S) % 2 = 1

LEMMA OddEmpty == ~Odd({})
BY FS_EmptySet DEF Odd

LEMMA OddSingleton == ASSUME NEW x PROVE Odd({x})
BY FS_Singleton DEF Odd

\* Elements of both sides go in pairs.
LEMMA OddXor ==
  ASSUME NEW S, NEW T, IsFiniteSet(S), IsFiniteSet(T)
  PROVE  IsFiniteSet(Xor(S, T)) /\ (Odd(Xor(S, T)) <=> ~(Odd(S) <=> Odd(T)))
<1>1. /\ IsFiniteSet(S \ T) /\ IsFiniteSet(T \ S)
      /\ Cardinality(S \ T) = Cardinality(S) - Cardinality(S \cap T)
      /\ Cardinality(T \ S) = Cardinality(T) - Cardinality(T \cap S)
  BY FS_Difference
<1>2. (S \ T) \cap (T \ S) = {} /\ S \cap T = T \cap S
  OBVIOUS
<1>3. /\ IsFiniteSet(Xor(S, T))
      /\ Cardinality(Xor(S, T)) = Cardinality(S \ T) + Cardinality(T \ S) - Cardinality({})
  BY <1>1, <1>2, FS_Union DEF Xor
<1>4. Cardinality({}) = 0
  BY FS_EmptySet
<1>5. /\ Cardinality(S) \in Nat /\ Cardinality(T) \in Nat /\ Cardinality(S \cap T) \in Nat
  BY FS_CardinalityType, FS_Intersection
<1>6a. Cardinality(T \cap S) = Cardinality(S \cap T)
  BY <1>2, Zenon
<1>6. Cardinality(Xor(S, T)) = Cardinality(S) + Cardinality(T) - 2 * Cardinality(S \cap T)
  BY <1>1, <1>3, <1>4, <1>5, <1>6a
<1> HIDE DEF Xor
<1>7. \A a, b, c \in Nat : (a + b - 2 * c) % 2 = 1 <=> ~(a % 2 = 1 <=> b % 2 = 1)
  OBVIOUS
<1> QED
  BY <1>3, <1>5, <1>6, <1>7 DEF Odd

LEMMA OddBijection ==
  ASSUME NEW S, NEW T, IsFiniteSet(S), NEW f \in [S -> T],
         \A x, y \in S : f[x] = f[y] => x = y,
         \A z \in T : \E x \in S : f[x] = z
  PROVE  Odd(T) <=> Odd(S)
<1>1. f \in Bijection(S, T)
  BY DEF Bijection, Injection, Surjection, IsInjective
<1>2. ExistsBijection(S, T)
  BY <1>1 DEF ExistsBijection
<1>3. Cardinality(T) = Cardinality(S)
  BY <1>2, FS_Bijection
<1> QED
  BY <1>3 DEF Odd

-----------------------------------------------------------------------------
(* Words.                                                                  *)

LEMMA Widths ==
  /\ Half \in Nat /\ Half >= 1 /\ Width \in Nat /\ Width = Half + Half
  /\ Width \in Poly /\ Poly \subseteq 0..Width
BY FieldAssumption DEF Width

LEMMA XorLaws ==
  /\ \A v : Xor(v, {}) = v /\ Xor({}, v) = v /\ Xor(v, v) = {}
  /\ \A v, w : Xor(v, w) = Xor(w, v)
  /\ \A u, v, w : Xor(u, Xor(v, w)) = Xor(Xor(u, v), w)
  /\ \A u, v, w : v \in SUBSET u /\ w \in SUBSET u => Xor(v, w) \in SUBSET u
BY DEF Xor

\* Two words that cancel are the same.
LEMMA XorEqual == \A v, w : Xor(v, w) = {} <=> v = w
BY DEF Xor

LEMMA InXor == \A v, w, e : e \in Xor(v, w) <=> ~(e \in v <=> e \in w)
BY DEF Xor

LEMMA FiniteWords == \A n \in Nat : \A v \in SUBSET (0..n) : IsFiniteSet(v)
<1> SUFFICES ASSUME NEW n \in Nat, NEW v \in SUBSET (0..n) PROVE IsFiniteSet(v)
  OBVIOUS
<1>1. IsFiniteSet(0..n)
  BY FS_Interval
<1> QED
  BY <1>1, FS_Subset

LEMMA ElemWords ==
  /\ \A v \in Elem : IsFiniteSet(v) /\ v \in SUBSET (0..Width) /\ v \in SUBSET (0..2 * Width)
  /\ {} \in Elem /\ {0} \in Elem
  /\ \A v, w \in Elem : Xor(v, w) \in Elem
<1>1. \A v \in Elem : v \in SUBSET (0..Width) /\ v \in SUBSET (0..2 * Width)
  BY Widths DEF Elem, Bits
<1>2. \A v \in Elem : IsFiniteSet(v)
  BY <1>1, Widths, FiniteWords
<1>3. {} \in Elem /\ {0} \in Elem
  BY Widths DEF Elem, Bits
<1>4. \A v, w \in Elem : Xor(v, w) \in Elem
  BY XorLaws DEF Elem
<1> QED
  BY <1>1, <1>2, <1>3, <1>4

\* What holds of nothing, of every single bit and of the sum of two words it
\* holds of, holds of every word of w bits.
LEMMA BitInduction ==
  ASSUME NEW w \in Nat, NEW Z, {} \in Z, \A k \in Bits(w) : {k} \in Z,
         \A u, v \in SUBSET Bits(w) : u \in Z /\ v \in Z => Xor(u, v) \in Z
  PROVE  \A v \in SUBSET Bits(w) : v \in Z
<1> DEFINE S == {n \in Nat : n <= w => SUBSET Bits(n) \subseteq Z}
<1>0. \A n \in Nat : n <= w => SUBSET Bits(n) \subseteq SUBSET Bits(w)
  BY DEF Bits
<1>1. 0 \in S
  <2>1. Bits(0) = {}
    BY DEF Bits
  <2>2. \A v \in SUBSET Bits(0) : v = {}
    BY <2>1
  <2> QED
    BY <2>2
<1>2. ASSUME NEW n \in Nat, n \in S PROVE n + 1 \in S
  <2> SUFFICES ASSUME n + 1 <= w, NEW v \in SUBSET Bits(n + 1) PROVE v \in Z
    OBVIOUS
  <2>1. n \in Bits(w) /\ n <= w
    BY DEF Bits
  <2>2. v \ {n} \in SUBSET Bits(n)
    BY DEF Bits
  <2>3. v \ {n} \in Z /\ v \ {n} \in SUBSET Bits(w) /\ {n} \in Z /\ {n} \in SUBSET Bits(w)
    BY <1>0, <1>2, <2>1, <2>2
  <2>4. CASE n \in v
    <3>1. v = Xor(v \ {n}, {n})
      BY <2>4 DEF Xor
    <3> QED
      BY <2>3, <3>1
  <2>5. CASE n \notin v
    <3>1. v = v \ {n}
      BY <2>5
    <3> QED
      BY <2>3, <3>1, Zenon
  <2> QED
    BY <2>4, <2>5
<1> HIDE DEF S
<1>3. w \in S
  BY <1>1, <1>2, Induction
<1> QED
  BY <1>3 DEF S

-----------------------------------------------------------------------------
(* Multiplication by the indeterminate, and the reference product.         *)

XTimes(v) == IF Width \in Shl(v, 1) THEN Xor(Shl(v, 1), Poly) ELSE Shl(v, 1)

LEMMA XTimesBits ==
  ASSUME NEW v \in Elem
  PROVE  /\ XTimes(v) \in Elem
         /\ \A e \in Bits(Width) :
              e \in XTimes(v) <=> ~(e - 1 \in v <=> Width - 1 \in v /\ e \in Poly)
<1>1. \A e : e \in Shl(v, 1) <=> e \in Int /\ e - 1 \in v
  BY DEF Shl, Elem, Bits
<1>2. Width \in Shl(v, 1) <=> Width - 1 \in v
  BY <1>1, Widths
<1>3. \A e \in Shl(v, 1) : e \in 0..Width
  BY <1>1, Widths DEF Elem, Bits
<1>4. CASE Width \in Shl(v, 1)
  <2>1. XTimes(v) = Xor(Shl(v, 1), Poly)
    BY <1>4 DEF XTimes
  <2>2. ASSUME NEW e \in XTimes(v) PROVE e \in 0..Width /\ e # Width
    <3>1. e \in Shl(v, 1) \/ e \in Poly
      BY <2>1, InXor
    <3>2. e # Width
      BY <1>4, <2>1, Widths, InXor
    <3> QED
      BY <1>3, <3>1, <3>2, Widths
  <2>3. XTimes(v) \in Elem
    BY <2>2, Widths DEF Elem, Bits
  <2> QED
    BY <1>1, <1>2, <1>4, <2>1, <2>3, InXor, Widths DEF Bits
<1>5. CASE Width \notin Shl(v, 1)
  <2>1. XTimes(v) = Shl(v, 1)
    BY <1>5 DEF XTimes
  <2>2. XTimes(v) \in Elem
    BY <1>3, <1>5, <2>1, Widths DEF Elem, Bits
  <2> QED
    BY <1>1, <1>2, <1>5, <2>1, <2>2, Widths DEF Bits
<1> QED
  BY <1>4, <1>5

LEMMA WordsEqual ==
  ASSUME NEW v \in Elem, NEW w \in Elem, \A e \in Bits(Width) : e \in v <=> e \in w
  PROVE  v = w
BY DEF Elem

LEMMA XTimesXor ==
  ASSUME NEW v \in Elem, NEW w \in Elem
  PROVE  XTimes(Xor(v, w)) = Xor(XTimes(v), XTimes(w))
<1>1. Xor(v, w) \in Elem /\ XTimes(Xor(v, w)) \in Elem /\ Xor(XTimes(v), XTimes(w)) \in Elem
  BY ElemWords, XTimesBits
<1>2. ASSUME NEW e \in Bits(Width)
      PROVE  e \in XTimes(Xor(v, w)) <=> e \in Xor(XTimes(v), XTimes(w))
  BY <1>1, XTimesBits, InXor
<1> QED
  BY <1>1, <1>2, WordsEqual

\* The residues of the powers of the indeterminate.
LEMMA Residues ==
  /\ Residue \in [0..2 * Width -> Elem]
  /\ Residue[0] = {0}
  /\ \A k \in 0..2 * Width - 1 : Residue[k + 1] = XTimes(Residue[k])
<1> DEFINE top == 2 * Width
           one == {0}
           step == [i \in 0..top - 1 |-> [v \in Elem |-> XTimes(v)]]
<1>1. top \in Nat /\ one \in Elem /\ step \in Steps(top, Elem)
  BY Widths, ElemWords, XTimesBits DEF Steps
<1>2. PICK f : Iterates(f, top, Elem, one, step)
  <2> HIDE DEF step, top, one
  <2> QED
    BY <1>1, Recursion, Zenon
<1>3. ASSUME NEW i \in 0..2 * Width - 1 PROVE f[i + 1] = XTimes(f[i])
  <2>1. f[i] \in Elem /\ f[i + 1] = step[i][f[i]]
    BY <1>1, <1>2 DEF Iterates
  <2> QED
    BY <2>1
<1>4. f = [k \in 0..2 * Width |->
             IF k = 0 THEN {0}
             ELSE LET v == Shl(f[k - 1], 1) IN IF Width \in v THEN Xor(v, Poly) ELSE v]
  <2>1. ASSUME NEW k \in 0..2 * Width
        PROVE  f[k] = IF k = 0 THEN {0} ELSE XTimes(f[k - 1])
    <3>1. CASE k = 0
      BY <1>2, <3>1 DEF Iterates
    <3>2. CASE k # 0
      <4>1. k - 1 \in 0..2 * Width - 1 /\ (k - 1) + 1 = k
        BY <3>2, Widths
      <4> QED
        BY <1>3, <3>2, <4>1
    <3> QED
      BY <3>1, <3>2
  <2>2. f = [k \in 0..2 * Width |-> f[k]]
    BY <1>2 DEF Iterates
  <2> QED
    BY <2>1, <2>2, Zenon DEF XTimes
<1>5. Residue = [k \in 0..2 * Width |->
             IF k = 0 THEN {0}
             ELSE LET v == Shl(Residue[k - 1], 1) IN IF Width \in v THEN Xor(v, Poly) ELSE v]
  BY <1>4, Zenon DEF Residue
<1>6. ASSUME NEW k \in 0..2 * Width
      PROVE  Residue[k] = IF k = 0 THEN {0} ELSE XTimes(Residue[k - 1])
  BY <1>5 DEF XTimes
<1> DEFINE S == {n \in Nat : n <= 2 * Width => Residue[n] \in Elem}
<1>7. 0 \in S
  BY <1>1, <1>6
<1>8. ASSUME NEW n \in Nat, n \in S PROVE n + 1 \in S
  <2> SUFFICES ASSUME n + 1 <= 2 * Width PROVE Residue[n + 1] \in Elem
    OBVIOUS
  <2>1. Residue[n] \in Elem /\ n + 1 \in 0..2 * Width /\ n + 1 # 0 /\ (n + 1) - 1 = n
    BY <1>8, Widths
  <2>2. Residue[n + 1] = XTimes(Residue[n])
    BY <1>6, <2>1
  <2> QED
    BY <2>1, <2>2, XTimesBits
<1>9. \A n \in Nat : n \in S
  <2> HIDE DEF S
  <2> QED
    BY <1>7, <1>8, Induction
<1>10. \A k \in 0..2 * Width : Residue[k] \in Elem
  BY <1>9, Widths
<1>11. Residue \in [0..2 * Width -> Elem]
  BY <1>5, <1>10
<1>12. ASSUME NEW k \in 0..2 * Width - 1 PROVE Residue[k + 1] = XTimes(Residue[k])
  <2>1. k + 1 \in 0..2 * Width /\ k + 1 # 0 /\ (k + 1) - 1 = k
    BY Widths
  <2> QED
    BY <1>6, <2>1
<1>13. Residue[0] = {0}
  BY <1>1, <1>6
<1> QED
  BY <1>11, <1>12, <1>13

-----------------------------------------------------------------------------
(* Reduction: what a word of up to 2 * Width + 1 bits leaves.               *)

Long   == SUBSET (0..2 * Width)
Red(v) == {e \in Bits(Width) : Odd({k \in v : e \in Residue[k]})}

LEMMA RedElem == \A v : Red(v) \in Elem
BY DEF Red, Elem

LEMMA RedXor ==
  ASSUME NEW v \in Long, NEW w \in Long
  PROVE  Red(Xor(v, w)) = Xor(Red(v), Red(w))
<1>1. Red(Xor(v, w)) \in Elem /\ Xor(Red(v), Red(w)) \in Elem
  BY RedElem, ElemWords
<1>2. ASSUME NEW e \in Bits(Width)
      PROVE  e \in Red(Xor(v, w)) <=> e \in Xor(Red(v), Red(w))
  <2> DEFINE A(u) == {k \in u : e \in Residue[k]}
  <2>1. A(v) \in Long /\ A(w) \in Long
    BY DEF Long
  <2>2. IsFiniteSet(A(v)) /\ IsFiniteSet(A(w))
    <3>1. 2 * Width \in Nat
      BY Widths
    <3> HIDE DEF A
    <3> QED
      BY <2>1, <3>1, FiniteWords, Zenon DEF Long
  <2>3. A(Xor(v, w)) = Xor(A(v), A(w))
    BY DEF Xor
  <2>4. \A u : e \in Red(u) <=> Odd(A(u))
    BY DEF Red
  <2> HIDE DEF A
  <2>5. Odd(A(Xor(v, w))) <=> ~(Odd(A(v)) <=> Odd(A(w)))
    BY <2>2, <2>3, OddXor
  <2> QED
    BY <2>4, <2>5, InXor
<1> QED
  BY <1>1, <1>2, WordsEqual

LEMMA RedBit == ASSUME NEW n \in 0..2 * Width PROVE Red({n}) = Residue[n]
<1>1. Red({n}) \in Elem /\ Residue[n] \in Elem
  BY RedElem, Residues
<1>2. ASSUME NEW e \in Bits(Width) PROVE e \in Red({n}) <=> e \in Residue[n]
  <2> DEFINE A == {k \in {n} : e \in Residue[k]}
  <2>1. e \in Red({n}) <=> Odd(A)
    BY DEF Red
  <2>2. CASE e \in Residue[n]
    <3>1. A = {n}
      BY <2>2
    <3> QED
      BY <2>1, <2>2, <3>1, OddSingleton, Zenon
  <2>3. CASE e \notin Residue[n]
    <3>1. A = {}
      BY <2>3
    <3> QED
      BY <2>1, <2>3, <3>1, OddEmpty, Zenon
  <2> QED
    BY <2>2, <2>3
<1> QED
  BY <1>1, <1>2, WordsEqual

LEMMA RedNothing == Red({}) = {}
<1>1. \A e : {k \in {} : e \in Residue[k]} = {}
  OBVIOUS
<1> QED
  BY <1>1, OddEmpty DEF Red

LEMMA XTimesNothing == XTimes({}) = {}
BY DEF XTimes, Shl

\* Below the field's width nothing is reduced.
LEMMA LowResidues == \A k \in Bits(Width) : Residue[k] = {k}
<1> DEFINE S == {n \in Nat : n < Width => Residue[n] = {n}}
<1>1. 0 \in S
  BY Residues
<1>2. ASSUME NEW n \in Nat, n \in S PROVE n + 1 \in S
  <2> SUFFICES ASSUME n + 1 < Width PROVE Residue[n + 1] = {n + 1}
    OBVIOUS
  <2>1. Residue[n] = {n} /\ Residue[n + 1] = XTimes(Residue[n])
    BY <1>2, Residues, Widths
  <2>2. Shl({n}, 1) = {n + 1}
    BY DEF Shl
  <2>3. Width \notin {n + 1}
    BY Widths
  <2> QED
    BY <2>1, <2>2, <2>3, Zenon DEF XTimes
<1> HIDE DEF S
<1>3. \A n \in Nat : n \in S
  BY <1>1, <1>2, Induction
<1> QED
  BY <1>3, Widths DEF S, Bits

LEMMA RedIdentity == \A v \in Elem : Red(v) = v
<1> DEFINE Z == {v \in Elem : Red(v) = v}
<1>1. {} \in Z
  BY RedNothing, ElemWords
<1>2. ASSUME NEW k \in Bits(Width) PROVE {k} \in Z
  <2>1. k \in 0..2 * Width /\ {k} \in Elem
    BY Widths DEF Bits, Elem
  <2> QED
    BY <2>1, RedBit, LowResidues
<1>3. ASSUME NEW u \in Elem, NEW v \in Elem, u \in Z, v \in Z PROVE Xor(u, v) \in Z
  <2>1. u \in Long /\ v \in Long /\ Xor(u, v) \in Elem
    BY ElemWords DEF Long
  <2> QED
    BY <1>3, <2>1, RedXor
<1> HIDE DEF Z
<1>4. \A v \in SUBSET Bits(Width) : v \in Z
  BY <1>1, <1>2, <1>3, BitInduction, Widths DEF Elem
<1> QED
  BY <1>4 DEF Elem, Z

LEMMA ShlLaws ==
  /\ \A k : Shl({}, k) = {}
  /\ \A k, i : Shl({i}, k) = {i + k}
  /\ \A k \in Nat : \A v, w \in SUBSET Nat :
       /\ Shl(Xor(v, w), k) = Xor(Shl(v, k), Shl(w, k))
       /\ Shl(v, k) \in SUBSET Nat
  /\ \A v \in SUBSET Nat : Shl(v, 0) = v
  /\ \A v \in SUBSET Nat : \A j, k \in Nat : Shl(Shl(v, j), k) = Shl(v, j + k)
  /\ \A k, n \in Nat : \A v \in SUBSET (0..n) : Shl(v, k) \in SUBSET (0..n + k)
<1>1. ASSUME NEW k \in Nat, NEW v \in SUBSET Nat, NEW w \in SUBSET Nat
      PROVE Shl(Xor(v, w), k) = Xor(Shl(v, k), Shl(w, k))
  <2>1. \A i \in Nat : \A j \in Nat : i + k = j + k => i = j
    OBVIOUS
  <2>2. \A x, e : e \in Shl(x, k) <=> \E i \in x : e = i + k
    BY Zenon DEF Shl
  <2>3. \A x, y, e : e \in Xor(x, y) <=> (e \in x /\ e \notin y) \/ (e \in y /\ e \notin x)
    BY Zenon DEF Xor
  <2>4. v \in SUBSET Nat /\ w \in SUBSET Nat
    OBVIOUS
  <2>5. ASSUME NEW x \in SUBSET Nat, NEW j \in Nat PROVE j + k \in Shl(x, k) <=> j \in x
    <3>1. \A i \in x : i \in Nat
      OBVIOUS
    <3>2. j \in x => j + k \in Shl(x, k)
      BY <2>2, Zenon
    <3>3. ASSUME j + k \in Shl(x, k) PROVE j \in x
      <4>1. PICK i \in x : j + k = i + k
        BY <2>2, <3>3, Zenon
      <4>2. i = j
        BY <2>1, <3>1, <4>1, Zenon
      <4> QED
        BY <4>1, <4>2, Zenon
    <3> QED
      BY <3>2, <3>3
  <2>6. ASSUME NEW e, e \in Shl(Xor(v, w), k) PROVE e \in Xor(Shl(v, k), Shl(w, k))
    <3>1. PICK i \in Xor(v, w) : e = i + k
      BY <2>2, <2>6, Zenon
    <3>2. i \in Nat
      BY <2>3, <2>4
    <3>3. (e \in Shl(v, k) <=> i \in v) /\ (e \in Shl(w, k) <=> i \in w)
      BY <2>5, <3>1, <3>2, Zenon
    <3> QED
      BY <2>3, <3>1, <3>3
  <2>7. ASSUME NEW e, e \in Xor(Shl(v, k), Shl(w, k)) PROVE e \in Shl(Xor(v, w), k)
    <3>1. PICK i \in v \cup w : e = i + k
      <4>1. e \in Shl(v, k) \/ e \in Shl(w, k)
        BY <2>3, <2>7
      <4> QED
        BY <2>2, <4>1
    <3>2. i \in Nat
      BY <2>4
    <3>3. (e \in Shl(v, k) <=> i \in v) /\ (e \in Shl(w, k) <=> i \in w)
      BY <2>5, <3>1, <3>2, Zenon
    <3>4. i \in Xor(v, w)
      BY <2>3, <2>7, <3>1, <3>3
    <3> QED
      BY <2>2, <3>1, <3>4, Zenon
  <2> QED
    BY <2>6, <2>7, Zenon
<1>2. ASSUME NEW v \in SUBSET Nat PROVE Shl(v, 0) = v
  <2>1. \A i \in v : i + 0 = i
    OBVIOUS
  <2>2. \A e : e \in Shl(v, 0) <=> e \in v
    BY <2>1, Zenon DEF Shl
  <2> QED
    BY <2>2
<1>3. ASSUME NEW v \in SUBSET Nat, NEW j \in Nat, NEW k \in Nat
      PROVE  Shl(Shl(v, j), k) = Shl(v, j + k)
  <2>1. \A i \in v : (i + j) + k = i + (j + k)
    OBVIOUS
  <2>2. \A e : e \in Shl(Shl(v, j), k) <=> \E i \in v : e = (i + j) + k
    BY Zenon DEF Shl
  <2>3. \A e : e \in Shl(v, j + k) <=> \E i \in v : e = i + (j + k)
    BY Zenon DEF Shl
  <2>4. \A e : e \in Shl(Shl(v, j), k) <=> e \in Shl(v, j + k)
    BY <2>1, <2>2, <2>3
  <2> QED
    BY <2>4
<1>4. ASSUME NEW k \in Nat, NEW v \in SUBSET Nat PROVE Shl(v, k) \in SUBSET Nat
  BY DEF Shl
<1>5. ASSUME NEW k \in Nat, NEW n \in Nat, NEW v \in SUBSET (0..n)
      PROVE  Shl(v, k) \in SUBSET (0..n + k)
  BY DEF Shl
<1>6. (\A k : Shl({}, k) = {}) /\ \A k, i : Shl({i}, k) = {i + k}
  BY DEF Shl
<1>7. \A k \in Nat : \A v, w \in SUBSET Nat :
        Shl(Xor(v, w), k) = Xor(Shl(v, k), Shl(w, k)) /\ Shl(v, k) \in SUBSET Nat
  BY <1>1, <1>4, Zenon
<1>8. \A v \in SUBSET Nat : \A j, k \in Nat : Shl(Shl(v, j), k) = Shl(v, j + k)
  BY <1>3, Zenon
<1> QED
  BY <1>2, <1>5, <1>6, <1>7, <1>8, Zenon

LEMMA RedShl1 ==
  \A v \in SUBSET Bits(2 * Width) : Shl(v, 1) \in Long /\ Red(Shl(v, 1)) = XTimes(Red(v))
<1> DEFINE B == 2 * Width
           Z == {v \in SUBSET Bits(B) : Red(Shl(v, 1)) = XTimes(Red(v))}
<1>0. B \in Nat
  BY Widths
<1>1. {} \in Z
  BY RedNothing, XTimesNothing, ShlLaws
<1>2. ASSUME NEW k \in Bits(B) PROVE {k} \in Z
  <2>1. k \in 0..2 * Width /\ k + 1 \in 0..2 * Width /\ k \in 0..2 * Width - 1
    BY Widths DEF Bits
  <2>2. Red({k + 1}) = XTimes(Red({k}))
    BY <2>1, RedBit, Residues
  <2>3. Shl({k}, 1) = {k + 1}
    BY ShlLaws
  <2> QED
    BY <2>2, <2>3
<1>a. ASSUME NEW v \in SUBSET Bits(B)
      PROVE  v \in SUBSET Nat /\ v \in Long /\ Shl(v, 1) \in Long
  BY Widths DEF Bits, Long, Shl
<1>3. ASSUME NEW u \in SUBSET Bits(B), NEW v \in SUBSET Bits(B), u \in Z, v \in Z
      PROVE  Xor(u, v) \in Z
  <2>1. Red(Xor(Shl(u, 1), Shl(v, 1))) = Xor(Red(Shl(u, 1)), Red(Shl(v, 1)))
    BY <1>a, RedXor
  <2>2. Red(Xor(u, v)) = Xor(Red(u), Red(v))
    BY <1>a, RedXor
  <2>3. Shl(Xor(u, v), 1) = Xor(Shl(u, 1), Shl(v, 1))
    BY <1>a, ShlLaws
  <2>4. XTimes(Xor(Red(u), Red(v))) = Xor(XTimes(Red(u)), XTimes(Red(v)))
    BY RedElem, XTimesXor
  <2>5. Xor(u, v) \in SUBSET Bits(B)
    BY XorLaws
  <2> QED
    BY <1>3, <2>1, <2>2, <2>3, <2>4, <2>5
<1>4. \A v \in SUBSET Bits(B) : v \in Z
  <2> HIDE DEF Z, B
  <2> QED
    BY <1>0, <1>1, <1>2, <1>3, BitInduction
<1> QED
  BY <1>4, <1>a

\* What a shifted word leaves depends on what the word leaves.
LEMMA RedShl ==
  ASSUME NEW k \in Nat, NEW v \in SUBSET Nat, NEW w \in SUBSET Nat,
         Shl(v, k) \in Long, Shl(w, k) \in Long, Red(v) = Red(w)
  PROVE  Red(Shl(v, k)) = Red(Shl(w, k))
<1> DEFINE Fits(n) == Shl(v, n) \in Long /\ Shl(w, n) \in Long
           S == {n \in Nat : Fits(n) => Red(Shl(v, n)) = Red(Shl(w, n))}
<1>1. 0 \in S
  BY ShlLaws
<1>2. ASSUME NEW n \in Nat, n \in S PROVE n + 1 \in S
  <2> SUFFICES ASSUME Fits(n + 1) PROVE Red(Shl(v, n + 1)) = Red(Shl(w, n + 1))
    OBVIOUS
  <2>1. ASSUME NEW u \in SUBSET Nat, Shl(u, n + 1) \in Long
        PROVE  Shl(u, n) \in SUBSET Bits(2 * Width)
    <3>1. \A i \in u : i + (n + 1) \in 0..2 * Width
      BY <2>1 DEF Shl, Long
    <3>2. \A i \in u : i + n \in Bits(2 * Width)
      BY <3>1, Widths DEF Bits
    <3> QED
      BY <3>2 DEF Shl
  <2>2. /\ Shl(v, n) \in SUBSET Bits(2 * Width)
        /\ Shl(w, n) \in SUBSET Bits(2 * Width)
    BY <2>1
  <2>3. SUBSET Bits(2 * Width) \subseteq Long
    BY Widths DEF Long, Bits
  <2>4. Red(Shl(v, n)) = Red(Shl(w, n))
    BY <1>2, <2>2, <2>3
  <2>5. Shl(v, n + 1) = Shl(Shl(v, n), 1) /\ Shl(w, n + 1) = Shl(Shl(w, n), 1)
    BY ShlLaws
  <2> QED
    BY <2>2, <2>4, <2>5, RedShl1
<1>3. \A n \in Nat : n \in S
  <2> HIDE DEF S
  <2> QED
    BY <1>1, <1>2, Induction
<1> QED
  BY <1>3

LEMMA RedPoly == \A k \in 0..Width : Shl(Poly, k) \in Long /\ Red(Shl(Poly, k)) = {}
<1>1. Residue[Width] = Xor({Width}, Poly)
  <2>1. Width - 1 \in Bits(Width) /\ Width - 1 \in 0..2 * Width - 1 /\ (Width - 1) + 1 = Width
    BY Widths DEF Bits
  <2>2. Residue[Width] = XTimes({Width - 1})
    BY <2>1, LowResidues, Residues
  <2>3. Shl({Width - 1}, 1) = {Width}
    BY <2>1, ShlLaws
  <2> QED
    BY <2>2, <2>3 DEF XTimes
<1>2. Residue[Width] \in Elem /\ Width \in 0..2 * Width
  BY Residues, Widths
<1>3. Poly = Xor({Width}, Residue[Width])
  <2>1. Xor({Width}, Xor({Width}, Poly)) = Poly
    BY XorLaws
  <2> QED
    BY <1>1, <2>1
<1>4. {Width} \in Long /\ Residue[Width] \in Long
  BY <1>2, ElemWords, Widths DEF Long
<1>5. Red(Poly) = {}
  <2>1. Red(Poly) = Xor(Red({Width}), Red(Residue[Width]))
    BY <1>3, <1>4, RedXor
  <2>2. Red({Width}) = Residue[Width] /\ Red(Residue[Width]) = Residue[Width]
    BY <1>2, RedBit, RedIdentity
  <2> QED
    BY <2>1, <2>2, XorLaws
<1>6. ASSUME NEW k \in 0..Width PROVE Shl(Poly, k) \in Long
  BY Widths DEF Long, Shl
<1>7. ASSUME NEW k \in 0..Width PROVE Red(Shl(Poly, k)) = {}
  <2>1. Shl({}, k) = {} /\ {} \in Long /\ {} \in SUBSET Nat /\ Poly \in SUBSET Nat /\ k \in Nat
    BY ShlLaws, Widths DEF Long
  <2> QED
    BY <1>5, <1>6, <2>1, RedShl, RedNothing
<1> QED
  BY <1>6, <1>7

-----------------------------------------------------------------------------
(* The reference product is bilinear and commutative.                      *)

\* The pairs of exponents that contribute bit e.
Pairs(a, b, e) == {p \in a \X b : e \in Residue[p[1] + p[2]]}

LEMMA ProductBits ==
  /\ \A a, b : Product(a, b) \in Elem
  /\ \A a, b : \A e \in Bits(Width) : e \in Product(a, b) <=> Odd(Pairs(a, b, e))
BY DEF Product, Elem, Odd, Pairs

LEMMA FinitePairs ==
  ASSUME NEW a \in Elem, NEW b \in Elem, NEW e PROVE IsFiniteSet(Pairs(a, b, e))
<1>1. IsFiniteSet(a) /\ IsFiniteSet(b)
  BY ElemWords
<1>2. IsFiniteSet(a \X b)
  BY <1>1, FS_Product
<1>3. Pairs(a, b, e) \in SUBSET (a \X b)
  BY DEF Pairs
<1> QED
  BY <1>2, <1>3, FS_Subset

LEMMA ProductXor ==
  ASSUME NEW a \in Elem, NEW b \in Elem, NEW c \in Elem
  PROVE  /\ Product(a, Xor(b, c)) = Xor(Product(a, b), Product(a, c))
         /\ Product(Xor(b, c), a) = Xor(Product(b, a), Product(c, a))
<1>1. /\ Product(a, Xor(b, c)) \in Elem /\ Xor(Product(a, b), Product(a, c)) \in Elem
      /\ Product(Xor(b, c), a) \in Elem /\ Xor(Product(b, a), Product(c, a)) \in Elem
  BY ProductBits, ElemWords
<1>2. ASSUME NEW e \in Bits(Width)
      PROVE  e \in Product(a, Xor(b, c)) <=> e \in Xor(Product(a, b), Product(a, c))
  <2>1. Pairs(a, Xor(b, c), e) = Xor(Pairs(a, b, e), Pairs(a, c, e))
    BY DEF Pairs, Xor
  <2>2. Odd(Pairs(a, Xor(b, c), e)) <=> ~(Odd(Pairs(a, b, e)) <=> Odd(Pairs(a, c, e)))
    BY <2>1, FinitePairs, OddXor
  <2> QED
    BY <2>2, ProductBits, InXor
<1>3. ASSUME NEW e \in Bits(Width)
      PROVE  e \in Product(Xor(b, c), a) <=> e \in Xor(Product(b, a), Product(c, a))
  <2>1. Pairs(Xor(b, c), a, e) = Xor(Pairs(b, a, e), Pairs(c, a, e))
    BY DEF Pairs, Xor
  <2>2. Odd(Pairs(Xor(b, c), a, e)) <=> ~(Odd(Pairs(b, a, e)) <=> Odd(Pairs(c, a, e)))
    BY <2>1, FinitePairs, OddXor
  <2> QED
    BY <2>2, ProductBits, InXor
<1>4. Product(a, Xor(b, c)) = Xor(Product(a, b), Product(a, c))
  BY <1>1, <1>2, WordsEqual
<1>5. Product(Xor(b, c), a) = Xor(Product(b, a), Product(c, a))
  BY <1>1, <1>3, WordsEqual
<1> QED
  BY <1>4, <1>5

LEMMA ProductCommutes ==
  ASSUME NEW a \in Elem, NEW b \in Elem PROVE Product(a, b) = Product(b, a)
<1>1. Product(a, b) \in Elem /\ Product(b, a) \in Elem
  BY ProductBits
<1>2. ASSUME NEW e \in Bits(Width) PROVE e \in Product(a, b) <=> e \in Product(b, a)
  <2> DEFINE f == [p \in Pairs(a, b, e) |-> <<p[2], p[1]>>]
  <2>0. a \subseteq Int /\ b \subseteq Int
    BY DEF Elem, Bits
  <2>1. ASSUME NEW p \in Pairs(a, b, e) PROVE p[1] \in Int /\ p[2] \in Int /\ p = <<p[1], p[2]>>
    <3>1. PICK i \in a, j \in b : p = <<i, j>>
      BY DEF Pairs
    <3> QED
      BY <2>0, <3>1
  <2>2. f \in [Pairs(a, b, e) -> Pairs(b, a, e)]
    BY <2>1 DEF Pairs
  <2>3. \A p, q \in Pairs(a, b, e) : f[p] = f[q] => p = q
    BY <2>1
  <2>4. ASSUME NEW q \in Pairs(b, a, e) PROVE \E p \in Pairs(a, b, e) : f[p] = q
    <3>1. q[1] \in Int /\ q[2] \in Int /\ q = <<q[1], q[2]>>
      <4>1. PICK i \in b, j \in a : q = <<i, j>>
        BY DEF Pairs
      <4> QED
        BY <2>0, <4>1
    <3>2. <<q[2], q[1]>> \in Pairs(a, b, e)
      BY <3>1 DEF Pairs
    <3>3. f[<<q[2], q[1]>>] = q
      BY <3>1, <3>2
    <3> QED
      BY <3>2, <3>3, Zenon
  <2> HIDE DEF f
  <2>5. Odd(Pairs(b, a, e)) <=> Odd(Pairs(a, b, e))
    BY <2>2, <2>3, <2>4, FinitePairs, OddBijection
  <2> QED
    BY <2>5, ProductBits
<1> QED
  BY <1>1, <1>2, WordsEqual

\* A product by one bit is a shift, reduced.
LEMMA ProductBit ==
  ASSUME NEW a \in Elem, NEW n \in Bits(Width)
  PROVE  Shl(a, n) \in Long /\ Product(a, {n}) = Red(Shl(a, n))
<1>1. Product(a, {n}) \in Elem /\ Red(Shl(a, n)) \in Elem
  BY ProductBits, RedElem
<1>2. Shl(a, n) \in Long /\ n \in Nat /\ {n} \in Elem /\ \A i \in a : i \in Nat
  BY Widths DEF Shl, Long, Elem, Bits
<1>3. ASSUME NEW e \in Bits(Width) PROVE e \in Product(a, {n}) <=> e \in Red(Shl(a, n))
  <2> DEFINE T == {k \in Shl(a, n) : e \in Residue[k]}
             f == [p \in Pairs(a, {n}, e) |-> p[1] + n]
  <2>1. \A p \in Pairs(a, {n}, e) : p[1] \in a /\ p[2] = n /\ p = <<p[1], p[2]>> /\ e \in Residue[p[1] + n]
    BY DEF Pairs
  <2>2. f \in [Pairs(a, {n}, e) -> T]
    BY <2>1 DEF Shl
  <2>3. ASSUME NEW p \in Pairs(a, {n}, e), NEW q \in Pairs(a, {n}, e), f[p] = f[q]
        PROVE  p = q
    <3>1. p[1] + n = q[1] + n /\ p[1] \in Nat /\ q[1] \in Nat
      BY <1>2, <2>1, <2>3
    <3>2. p[1] = q[1]
      BY <1>2, <3>1
    <3> QED
      BY <2>1, <3>2
  <2>4. ASSUME NEW k \in T PROVE \E p \in Pairs(a, {n}, e) : f[p] = k
    <3>1. PICK i \in a : k = i + n
      BY DEF Shl
    <3>2. <<i, n>> \in Pairs(a, {n}, e)
      BY <3>1 DEF Pairs
    <3>3. f[<<i, n>>] = k
      BY <3>1, <3>2
    <3> QED
      BY <3>2, <3>3, Zenon
  <2>5. e \in Red(Shl(a, n)) <=> Odd(T)
    BY DEF Red
  <2> HIDE DEF f, T
  <2>6. Odd(T) <=> Odd(Pairs(a, {n}, e))
    BY <1>2, <2>2, <2>3, <2>4, FinitePairs, OddBijection
  <2> QED
    BY <2>5, <2>6, ProductBits
<1> QED
  BY <1>1, <1>2, <1>3, WordsEqual

LEMMA ProductNothing == \A a \in Elem : Product(a, {}) = {} /\ Product({}, a) = {}
<1> SUFFICES ASSUME NEW a \in Elem PROVE Product(a, {}) = {} /\ Product({}, a) = {}
  OBVIOUS
<1>1. {} \in Elem /\ Xor({}, {}) = {}
  BY ElemWords, XorLaws
<1>2. /\ Product(a, {}) = Xor(Product(a, {}), Product(a, {}))
      /\ Product({}, a) = Xor(Product({}, a), Product({}, a))
  BY <1>1, ProductXor
<1> QED
  BY <1>2, XorLaws

LEMMA ProductOne == \A a \in Elem : Product(a, {0}) = a /\ Product({0}, a) = a
<1> SUFFICES ASSUME NEW a \in Elem PROVE Product(a, {0}) = a /\ Product({0}, a) = a
  OBVIOUS
<1>1. 0 \in Bits(Width) /\ {0} \in Elem /\ a \in SUBSET Nat
  BY Widths DEF Bits, Elem
<1>2. Product(a, {0}) = Red(Shl(a, 0))
  BY <1>1, ProductBit
<1>3. Shl(a, 0) = a
  BY <1>1, ShlLaws
<1> QED
  BY <1>1, <1>2, <1>3, RedIdentity, ProductCommutes

LEMMA ProductShift ==
  ASSUME NEW a \in Elem, NEW k \in Nat, k + 1 < Width
  PROVE  Product(a, {k + 1}) = XTimes(Product(a, {k}))
<1>1. k \in Bits(Width) /\ k + 1 \in Bits(Width) /\ a \in SUBSET Nat
  BY Widths DEF Bits, Elem
<1>2. Product(a, {k}) = Red(Shl(a, k)) /\ Product(a, {k + 1}) = Red(Shl(a, k + 1))
  BY <1>1, ProductBit
<1>3. Shl(a, k + 1) = Shl(Shl(a, k), 1)
  BY <1>1, ShlLaws
<1>4. Shl(a, k) \in SUBSET Bits(2 * Width)
  BY Widths DEF Shl, Elem, Bits
<1> QED
  BY <1>2, <1>3, <1>4, RedShl1

LEMMA XTimesProduct ==
  ASSUME NEW a \in Elem, NEW b \in Elem
  PROVE  /\ XTimes(Product(a, b)) = Product(XTimes(a), b)
         /\ XTimes(Product(a, b)) = Product(a, XTimes(b))
<1> SUFFICES \A u, v \in Elem : XTimes(Product(u, v)) = Product(XTimes(u), v)
  BY ProductCommutes, XTimesBits
<1> TAKE u \in Elem
<1> DEFINE Z == {v \in Elem : XTimes(Product(u, v)) = Product(XTimes(u), v)}
<1>0. XTimes(u) \in Elem
  BY XTimesBits
<1>1. {} \in Z
  BY <1>0, ElemWords, ProductNothing, XTimesNothing
<1>2. ASSUME NEW k \in Bits(Width) PROVE {k} \in Z
  <2>1. u \in SUBSET Nat /\ XTimes(u) \in SUBSET Nat /\ k \in Nat /\ {k} \in Elem
    BY <1>0, Widths DEF Bits, Elem
  <2>2. /\ Shl(u, k) \in SUBSET Bits(2 * Width)
        /\ u \in SUBSET Bits(2 * Width)
        /\ Shl(u, 1) \in SUBSET Nat
    BY Widths DEF Shl, Elem, Bits
  <2>3. Product(u, {k}) = Red(Shl(u, k)) /\ Product(XTimes(u), {k}) = Red(Shl(XTimes(u), k))
    BY <1>0, ProductBit
  <2>4. XTimes(Product(u, {k})) = Red(Shl(u, k + 1))
    BY <2>1, <2>2, <2>3, RedShl1, ShlLaws
  <2>5. Red(XTimes(u)) = Red(Shl(u, 1))
    BY <1>0, <2>2, RedIdentity, RedShl1
  <2>6. Shl(Shl(u, 1), k) = Shl(u, k + 1) /\ Shl(Shl(u, k), 1) = Shl(u, k + 1)
    BY <2>1, ShlLaws
  <2>7. Shl(XTimes(u), k) \in Long /\ Shl(u, k + 1) \in Long
    BY <1>0, <2>2, <2>6, ProductBit, RedShl1
  <2>8. Red(Shl(XTimes(u), k)) = Red(Shl(Shl(u, 1), k))
    BY <2>1, <2>2, <2>5, <2>6, <2>7, RedShl
  <2> QED
    BY <2>1, <2>3, <2>4, <2>6, <2>8
<1>3. ASSUME NEW v \in Elem, NEW w \in Elem, v \in Z, w \in Z PROVE Xor(v, w) \in Z
  <2>1. Xor(v, w) \in Elem /\ Product(u, v) \in Elem /\ Product(u, w) \in Elem
    BY ElemWords, ProductBits
  <2>2. XTimes(Product(u, Xor(v, w))) = Xor(XTimes(Product(u, v)), XTimes(Product(u, w)))
    BY <2>1, ProductXor, XTimesXor
  <2>3. Product(XTimes(u), Xor(v, w)) = Xor(Product(XTimes(u), v), Product(XTimes(u), w))
    BY <1>0, ProductXor
  <2> QED
    BY <1>3, <2>1, <2>2, <2>3
<1>4. \A v \in SUBSET Bits(Width) : v \in Z
  <2> HIDE DEF Z
  <2> QED
    BY <1>1, <1>2, <1>3, BitInduction, Widths DEF Elem
<1> QED
  BY <1>4 DEF Elem

LEMMA ProductAssociates ==
  ASSUME NEW a \in Elem, NEW b \in Elem, NEW c \in Elem
  PROVE  Product(Product(a, b), c) = Product(a, Product(b, c))
<1> DEFINE Z == {v \in Elem : Product(Product(a, b), v) = Product(a, Product(b, v))}
<1>0. Product(a, b) \in Elem
  BY ProductBits
<1>1. {} \in Z
  BY <1>0, ElemWords, ProductNothing
<1>2. ASSUME NEW k \in Bits(Width) PROVE {k} \in Z
  <2> DEFINE S == {n \in Nat : n < Width => {n} \in Z}
  <2>0. \A n \in Nat : n < Width => {n} \in Elem
    BY Widths DEF Elem, Bits
  <2>1. 0 \in S
    BY <1>0, <2>0, ProductOne, Widths
  <2>2. ASSUME NEW n \in Nat, n \in S PROVE n + 1 \in S
    <3> SUFFICES ASSUME n + 1 < Width PROVE {n + 1} \in Z
      OBVIOUS
    <3>1. {n} \in Z /\ {n} \in Elem /\ {n + 1} \in Elem
      BY <2>0, <2>2, Widths
    <3>2. Product(Product(a, b), {n + 1}) = XTimes(Product(Product(a, b), {n}))
      BY <1>0, ProductShift
    <3>3. Product(b, {n + 1}) = XTimes(Product(b, {n})) /\ Product(b, {n}) \in Elem
      BY ProductShift, ProductBits
    <3>4. Product(a, XTimes(Product(b, {n}))) = XTimes(Product(a, Product(b, {n})))
      BY <3>3, XTimesProduct
    <3>5. Product(Product(a, b), {n}) = Product(a, Product(b, {n}))
      BY <3>1
    <3> QED
      BY <3>1, <3>2, <3>3, <3>4, <3>5
  <2> HIDE DEF S
  <2>3. k \in S /\ k \in Nat /\ k < Width
    BY <2>1, <2>2, Induction, Widths DEF Bits
  <2> QED
    BY <2>3 DEF S
<1>3. ASSUME NEW v \in Elem, NEW w \in Elem, v \in Z, w \in Z PROVE Xor(v, w) \in Z
  <2>1. Xor(v, w) \in Elem /\ Product(b, v) \in Elem /\ Product(b, w) \in Elem
    BY ElemWords, ProductBits
  <2>2. Product(a, Product(b, Xor(v, w))) = Xor(Product(a, Product(b, v)), Product(a, Product(b, w)))
    BY <2>1, ProductXor
  <2>3. Product(Product(a, b), Xor(v, w)) = Xor(Product(Product(a, b), v), Product(Product(a, b), w))
    BY <1>0, ProductXor
  <2> QED
    BY <1>3, <2>1, <2>2, <2>3
<1>4. \A v \in SUBSET Bits(Width) : v \in Z
  <2> HIDE DEF Z
  <2> QED
    BY <1>1, <1>2, <1>3, BitInduction, Widths DEF Elem
<1> QED
  BY <1>4 DEF Elem

-----------------------------------------------------------------------------
(* The code's product: poly_mul, the byte table and the two folds.         *)

\* The loop of poly_mul adds the shifted multiplicand for every bit.
LEMMA PolyMul ==
  ASSUME NEW a \in Elem, NEW b \in Elem
  PROVE  /\ poly_mul(a, b) \in SUBSET Bits(2 * Width)
         /\ Red(poly_mul(a, b)) = Product(a, b)
<1> DEFINE V == SUBSET Bits(2 * Width)
           none == {}
           step == [i \in 0..Width - 1 |->
                      [v \in V |-> IF i \in b THEN Xor(v, Shl(a, i)) ELSE v]]
<1>1. Width \in Nat /\ none \in V
  BY Widths
<1>2. \A i \in 0..Width - 1 : Shl(a, i) \in V
  BY Widths DEF Shl, Elem, Bits
<1>3. step \in Steps(Width, V)
  BY <1>2, XorLaws DEF Steps
<1>4. PICK f : Iterates(f, Width, V, none, step)
  <2> HIDE DEF step, V, none
  <2> QED
    BY <1>1, <1>3, Recursion, Zenon
<1>5. f \in [0..Width -> V] /\ f[0] = {}
  BY <1>4 DEF Iterates
<1>6. ASSUME NEW i \in 0..Width - 1
      PROVE  f[i + 1] = IF i \in b THEN Xor(f[i], Shl(a, i)) ELSE f[i]
  <2>1. \A j \in 0..Width - 1 : f[j + 1] = step[j][f[j]]
    BY <1>4, Zenon DEF Iterates
  <2>2. i \in 0..Width /\ f[i] \in V
    BY <1>1, <1>5
  <2> QED
    BY <2>1, <2>2
<1>7. ASSUME NEW n \in 0..Width
      PROVE  f[n] = IF n = 0 THEN {}
                    ELSE IF n - 1 \in b THEN Xor(f[n - 1], Shl(a, n - 1)) ELSE f[n - 1]
  <2>1. CASE n = 0
    BY <1>5, <2>1
  <2>2. CASE n # 0
    <3>1. n - 1 \in 0..Width - 1 /\ (n - 1) + 1 = n
      BY <1>1, <2>2
    <3> QED
      BY <1>6, <2>2, <3>1
  <2> QED
    BY <2>1, <2>2
<1>8. f = [n \in 0..Width |->
             IF n = 0 THEN {}
             ELSE IF n - 1 \in b THEN Xor(f[n - 1], Shl(a, n - 1)) ELSE f[n - 1]]
  <2>1. f = [n \in 0..Width |-> f[n]]
    BY <1>5
  <2> QED
    BY <1>7, <2>1, Zenon
<1>9. PICK acc :
        /\ acc = [n \in 0..Width |->
                    IF n = 0 THEN {}
                    ELSE IF n - 1 \in b THEN Xor(acc[n - 1], Shl(a, n - 1)) ELSE acc[n - 1]]
        /\ poly_mul(a, b) = acc[Width]
  BY <1>8, Zenon DEF poly_mul
<1>10. /\ acc[0] = {}
       /\ \A i \in 0..Width - 1 :
            acc[i + 1] = IF i \in b THEN Xor(acc[i], Shl(a, i)) ELSE acc[i]
  <2>1. ASSUME NEW n \in 0..Width
        PROVE acc[n] = IF n = 0 THEN {}
                    ELSE IF n - 1 \in b THEN Xor(acc[n - 1], Shl(a, n - 1)) ELSE acc[n - 1]
    BY <1>9, Zenon
  <2>2. ASSUME NEW i \in 0..Width - 1
        PROVE  i + 1 \in 0..Width /\ i + 1 # 0 /\ (i + 1) - 1 = i
    BY <1>1
  <2> QED
    BY <1>1, <2>1, <2>2
<1>11. \A n \in 0..Width : acc[n] \in V /\ Red(acc[n]) = Product(a, Cut(b, n))
  <2> DEFINE S == {n \in Nat : n <= Width => acc[n] \in V /\ Red(acc[n]) = Product(a, Cut(b, n))}
  <2>1. 0 \in S
    <3>1. Cut(b, 0) = {}
      BY DEF Cut, Bits
    <3> QED
      BY <1>10, <3>1, RedNothing, ProductNothing
  <2>2. ASSUME NEW n \in Nat, n \in S PROVE n + 1 \in S
    <3> SUFFICES ASSUME n + 1 <= Width
                 PROVE  acc[n + 1] \in V /\ Red(acc[n + 1]) = Product(a, Cut(b, n + 1))
      OBVIOUS
    <3>1. /\ n \in 0..Width - 1 /\ n \in Bits(Width)
          /\ acc[n] \in V /\ Red(acc[n]) = Product(a, Cut(b, n))
      BY <1>1, <2>2 DEF Bits
    <3>2. Cut(b, n) \in Elem /\ {n} \in Elem
      BY <3>1 DEF Cut, Elem
    <3>3. CASE n \in b
      <4>1. acc[n + 1] = Xor(acc[n], Shl(a, n)) /\ acc[n + 1] \in V
        BY <1>2, <1>10, <3>1, <3>3, XorLaws
      <4>2. acc[n] \in Long /\ Shl(a, n) \in Long
        BY <1>2, <3>1, Widths DEF Long, Bits
      <4>3. Cut(b, n + 1) = Xor(Cut(b, n), {n})
        BY <3>3 DEF Cut, Bits, Xor, Elem
      <4>4. Red(acc[n + 1]) = Xor(Product(a, Cut(b, n)), Product(a, {n}))
        BY <3>1, <4>1, <4>2, RedXor, ProductBit
      <4> QED
        BY <3>2, <4>1, <4>3, <4>4, ProductXor
    <3>4. CASE n \notin b
      <4>1. acc[n + 1] = acc[n]
        BY <1>10, <3>1, <3>4
      <4>2. Cut(b, n + 1) = Cut(b, n)
        BY <3>4 DEF Cut, Bits, Elem
      <4> QED
        BY <3>1, <4>1, <4>2
    <3> QED
      BY <3>3, <3>4
  <2>3. \A n \in Nat : n \in S
    <3> HIDE DEF S
    <3> QED
      BY <2>1, <2>2, Induction
  <2> QED
    BY <1>1, <2>3
<1>12. Cut(b, Width) = b
  BY DEF Cut, Elem
<1>13. acc[Width] \in V /\ Red(acc[Width]) = Product(a, Cut(b, Width))
  BY <1>1, <1>11
<1> QED
  BY <1>9, <1>12, <1>13

ByteStates == [a : Byte, out : Long]

ByteStep(s, h) ==
  LET p == Shl(Poly, h)
  IN  IF h \in s.a THEN [a |-> Xor(s.a, Cut(Shr(p, Width), Half)), out |-> Xor(s.out, p)] ELSE s

\* The invariant of reduce_from_byte's loop when the bits from n up are done:
\* out reduces to nothing and its upper part is what has been folded.
ByteFolds(byte, s, n) ==
  /\ s \in ByteStates
  /\ s.a \in SUBSET Bits(n) /\ s.out \in SUBSET Bits(Width + Half)
  /\ Red(s.out) = {}
  /\ \A j \in Bits(Half) : j \in s.a <=> ~(j \in byte <=> Width + j \in s.out)

LEMMA PolyShifted ==
  ASSUME NEW h \in Bits(Half)
  PROVE  /\ Shl(Poly, h) \in Long /\ Shl(Poly, h) \in SUBSET Bits(Width + Half)
         /\ Red(Shl(Poly, h)) = {}
         /\ Cut(Shr(Shl(Poly, h), Width), Half) \in SUBSET Bits(h + 1)
         /\ h \in Cut(Shr(Shl(Poly, h), Width), Half)
         /\ \A j \in Bits(Half) :
              j \in Cut(Shr(Shl(Poly, h), Width), Half) <=> Width + j \in Shl(Poly, h)
<1> DEFINE p == Shl(Poly, h)
<1>1. h \in 0..Width /\ h \in Nat /\ h < Half
  BY Widths DEF Bits
<1>2. p \in Long /\ Red(p) = {}
  BY <1>1, RedPoly
<1>3. p \in SUBSET Bits(Width + Half) /\ \A k \in p : k \in Nat /\ k <= Width + h
  BY <1>1, Widths DEF Shl, Bits
<1>4. Width + h \in p
  BY <1>1, Widths DEF Shl
<1> HIDE DEF p
<1>5. \A j : j \in Cut(Shr(p, Width), Half) <=> j \in Bits(Half) /\ \E k \in p : k >= Width /\ j = k - Width
  BY DEF Cut, Shr
<1>6. \A j \in Bits(Half) : j \in Cut(Shr(p, Width), Half) <=> Width + j \in p
  BY <1>3, <1>5, Widths DEF Bits
<1>7. h \in Cut(Shr(p, Width), Half)
  BY <1>4, <1>6
<1>8. Cut(Shr(p, Width), Half) \in SUBSET Bits(h + 1)
  BY <1>1, <1>3, <1>5, Widths DEF Bits
<1> QED
  BY <1>2, <1>3, <1>6, <1>7, <1>8 DEF p

LEMMA ByteStepFolds ==
  ASSUME NEW byte \in Byte, NEW s, NEW h \in Bits(Half), ByteFolds(byte, s, h + 1)
  PROVE  ByteFolds(byte, ByteStep(s, h), h)
<1> DEFINE p == Shl(Poly, h)
           c == Cut(Shr(p, Width), Half)
<1>1. /\ p \in Long /\ p \in SUBSET Bits(Width + Half) /\ Red(p) = {}
      /\ c \in SUBSET Bits(h + 1) /\ h \in c
      /\ \A j \in Bits(Half) : j \in c <=> Width + j \in p
  BY PolyShifted
<1>2. /\ s \in ByteStates /\ s.a \in SUBSET Bits(h + 1) /\ s.out \in SUBSET Bits(Width + Half)
      /\ Red(s.out) = {}
      /\ \A j \in Bits(Half) : j \in s.a <=> ~(j \in byte <=> Width + j \in s.out)
  BY DEF ByteFolds
<1>3. h \in Nat /\ h < Half /\ \A k \in Bits(h + 1) : k # h => k \in Bits(h)
  BY Widths DEF Bits
<1>4. CASE h \in s.a
  <2> DEFINE t == [a |-> Xor(s.a, c), out |-> Xor(s.out, p)]
  <2>1. ByteStep(s, h) = t
    BY <1>4, Zenon DEF ByteStep
  <2> HIDE DEF p, c
  <2>2. t.a = Xor(s.a, c) /\ t.out = Xor(s.out, p)
    OBVIOUS
  <2>3. Xor(s.a, c) \in SUBSET Bits(h)
    <3>1. ASSUME NEW e \in Xor(s.a, c) PROVE e \in Bits(h)
      <4>1. (e \in s.a \/ e \in c) /\ e # h
        BY <1>1, <1>4, InXor
      <4> QED
        BY <1>1, <1>2, <1>3, <4>1
    <3> QED
      BY <3>1
  <2>4. Bits(h) \subseteq Bits(Half) /\ s.out \in Long
    BY <1>2, <1>3, Widths DEF Bits, ByteStates
  <2>5. Xor(s.out, p) \in Long /\ Xor(s.out, p) \in SUBSET Bits(Width + Half)
    BY <1>1, <1>2, <2>4 DEF Long, Xor
  <2>6. t \in ByteStates
    BY <2>3, <2>4, <2>5 DEF ByteStates, Byte
  <2>7. Red(Xor(s.out, p)) = {}
    BY <1>1, <1>2, <2>4, RedXor, XorLaws
  <2>8. ASSUME NEW j \in Bits(Half)
        PROVE  j \in Xor(s.a, c) <=> ~(j \in byte <=> Width + j \in Xor(s.out, p))
    <3>1. j \in c <=> Width + j \in p
      BY <1>1, Zenon
    <3>2. j \in s.a <=> ~(j \in byte <=> Width + j \in s.out)
      BY <1>2, Zenon
    <3> QED
      BY <3>1, <3>2, InXor
  <2> HIDE DEF t
  <2> QED
    BY <2>1, <2>2, <2>3, <2>5, <2>6, <2>7, <2>8 DEF ByteFolds
<1>5. CASE h \notin s.a
  <2>1. ByteStep(s, h) = s
    BY <1>5, Zenon DEF ByteStep
  <2>2. s.a \in SUBSET Bits(h)
    BY <1>2, <1>3, <1>5
  <2> QED
    BY <1>2, <2>1, <2>2 DEF ByteFolds
<1> QED
  BY <1>4, <1>5

\* The remainder of a byte that lies above the field.
LEMMA ReduceFromByte ==
  ASSUME NEW byte \in Byte
  PROVE  Shl(byte, Width) \in Long /\ reduce_bytes[byte] = Red(Shl(byte, Width))
<1> DEFINE start == [a |-> byte, out |-> {}]
           step == [i \in 0..Half - 1 |-> [s \in ByteStates |-> ByteStep(s, Half - (i + 1))]]
<1>1. Half \in Nat /\ start \in ByteStates /\ start.a = byte /\ start.out = {}
  BY Widths DEF ByteStates, Long
<1>2. \A i \in 0..Half - 1 : Half - (i + 1) \in Bits(Half)
  BY Widths DEF Bits
<1>3. ASSUME NEW h \in Bits(Half), NEW s \in ByteStates PROVE ByteStep(s, h) \in ByteStates
  <2> DEFINE p == Shl(Poly, h)
  <2>1. p \in Long /\ Cut(Shr(p, Width), Half) \in Byte /\ s.a \in Byte /\ s.out \in Long
    BY PolyShifted DEF ByteStates, Cut, Byte
  <2> HIDE DEF p
  <2>2. Xor(s.a, Cut(Shr(p, Width), Half)) \in Byte /\ Xor(s.out, p) \in Long
    BY <2>1 DEF Byte, Long, Xor
  <2>3. [a |-> Xor(s.a, Cut(Shr(p, Width), Half)), out |-> Xor(s.out, p)] \in ByteStates
    BY <2>2 DEF ByteStates
  <2> QED
    BY <2>3 DEF ByteStep, p
<1>4. step \in Steps(Half, ByteStates)
  BY <1>2, <1>3 DEF Steps
<1>5. PICK f : Iterates(f, Half, ByteStates, start, step)
  <2> HIDE DEF step, start
  <2> QED
    BY <1>1, <1>4, Recursion, Zenon
<1>6. f \in [0..Half -> ByteStates] /\ f[0] = start
  BY <1>5, Zenon DEF Iterates
<1>7. ASSUME NEW n \in 0..Half
      PROVE  f[n] = IF n = 0 THEN start ELSE ByteStep(f[n - 1], Half - n)
  <2>1. CASE n = 0
    BY <1>6, <2>1
  <2>2. CASE n # 0
    <3>1. n - 1 \in 0..Half - 1 /\ (n - 1) + 1 = n /\ n - 1 \in 0..Half
      BY <1>1, <2>2
    <3>2. f[(n - 1) + 1] = step[n - 1][f[n - 1]]
      BY <1>5, <3>1, Zenon DEF Iterates
    <3>3. f[n - 1] \in ByteStates
      BY <1>6, <3>1
    <3>4. step[n - 1][f[n - 1]] = ByteStep(f[n - 1], Half - ((n - 1) + 1))
      BY <3>1, <3>3
    <3> QED
      BY <2>2, <3>1, <3>2, <3>4
  <2> QED
    BY <2>1, <2>2
<1>8. f = [n \in 0..Half |-> IF n = 0 THEN start ELSE ByteStep(f[n - 1], Half - n)]
  <2>1. f = [n \in 0..Half |-> f[n]]
    BY <1>6
  <2> HIDE DEF start
  <2> QED
    BY <1>7, <2>1, Zenon
<1>9. PICK fold :
        /\ fold = [n \in 0..Half |-> IF n = 0 THEN start ELSE ByteStep(fold[n - 1], Half - n)]
        /\ reduce_from_byte(byte) = fold[Half].out
  BY <1>8, Zenon DEF reduce_from_byte, ByteStep
<1>10. ASSUME NEW n \in 0..Half
       PROVE  fold[n] = IF n = 0 THEN start ELSE ByteStep(fold[n - 1], Half - n)
  BY <1>9, Zenon
<1> DEFINE S == {n \in Nat : n <= Half => ByteFolds(byte, fold[n], Half - n)}
<1>11. 0 \in S
  <2>1. fold[0] = start
    BY <1>1, <1>10
  <2>2. \A j \in Bits(Half) : Width + j \notin {}
    OBVIOUS
  <2>3. byte \in SUBSET Bits(Half - 0)
    BY Widths DEF Byte
  <2> HIDE DEF start
  <2>4. ByteFolds(byte, start, Half - 0)
    BY <1>1, <2>3, RedNothing DEF ByteFolds
  <2> QED
    BY <2>1, <2>4
<1>12. ASSUME NEW n \in Nat, n \in S PROVE n + 1 \in S
  <2> SUFFICES ASSUME n + 1 <= Half PROVE ByteFolds(byte, fold[n + 1], Half - (n + 1))
    OBVIOUS
  <2>1. /\ n + 1 \in 0..Half /\ n + 1 # 0 /\ (n + 1) - 1 = n
        /\ Half - n = (Half - (n + 1)) + 1 /\ Half - (n + 1) \in Bits(Half)
    BY Widths DEF Bits
  <2>2. fold[n + 1] = ByteStep(fold[n], Half - (n + 1))
    BY <1>10, <2>1
  <2>3. ByteFolds(byte, fold[n], (Half - (n + 1)) + 1)
    <3>1. ByteFolds(byte, fold[n], Half - n)
      <4>1. n <= Half
        BY Widths
      <4> QED
        BY <1>12, <4>1, Zenon
    <3> QED
      BY <2>1, <3>1, Zenon
  <2> QED
    BY <2>1, <2>2, <2>3, ByteStepFolds
<1>13. ByteFolds(byte, fold[Half], 0)
  <2> HIDE DEF S
  <2>1. Half \in S
    BY <1>1, <1>11, <1>12, Induction
  <2> QED
    BY <1>1, <2>1 DEF S
<1> DEFINE out == fold[Half].out
<1>14. /\ out \in SUBSET Bits(Width + Half) /\ Red(out) = {}
       /\ \A j \in Bits(Half) : j \in byte <=> Width + j \in out
  <2>1. Bits(0) = {}
    BY DEF Bits
  <2> QED
    BY <1>13, <2>1 DEF ByteFolds
<1> HIDE DEF out
<1>15. /\ Shl(byte, Width) \in Long /\ Cut(out, Width) \in Elem
  BY Widths DEF Shl, Byte, Bits, Long, Cut, Elem
<1>16. out = Xor(Cut(out, Width), Shl(byte, Width))
  <2>1. \A e : e \in Shl(byte, Width) <=> e \in Int /\ e - Width \in byte
    BY Widths DEF Shl, Byte, Bits
  <2>2. \A e \in Shl(byte, Width) : e \in Bits(Width + Half) /\ ~(e \in Bits(Width))
    BY <2>1, Widths DEF Byte, Bits
  <2>3. \A e \in Bits(Width + Half) : e \in Int /\ (e \notin Bits(Width) =>
          e - Width \in Bits(Half) /\ Width + (e - Width) = e)
    BY Widths DEF Bits
  <2>4. ASSUME NEW e \in Bits(Width + Half), e \notin Bits(Width)
        PROVE  e \in out <=> e \in Shl(byte, Width)
    BY <1>14, <2>1, <2>3, <2>4
  <2> QED
    BY <1>14, <2>2, <2>4 DEF Xor, Cut
<1>17. Xor(Red(Cut(out, Width)), Red(Shl(byte, Width))) = {}
  BY <1>14, <1>15, <1>16, ElemWords, RedXor DEF Long
<1>18. Cut(out, Width) = Red(Shl(byte, Width))
  BY <1>15, <1>17, XorEqual, RedIdentity
<1>19. reduce_bytes[byte] = Cut(out, Width)
  BY <1>9 DEF reduce_bytes, out
<1> QED
  BY <1>15, <1>18, <1>19

\* Two byte folds reduce any word of two elements' bits.
LEMMA PolyReduce ==
  ASSUME NEW v \in SUBSET Bits(2 * Width) PROVE poly_reduce(v) = Red(v)
<1> DEFINE top == Shr(v, Width + Half)
           r1  == reduce_bytes[top]
           v1  == Xor(v, Shl(r1, Half))
           mid == Cut(Shr(v1, Width), Half)
           r2  == reduce_bytes[mid]
<1>1. /\ top \in Byte
      /\ \A e : e \in Shl(top, Width + Half) <=> e \in v /\ e >= Width + Half
  <2>1. \A k \in v : k \in Nat /\ k < Width + Width
    BY Widths DEF Bits
  <2>2. \A j : j \in top <=> \E k \in v : k >= Width + Half /\ j = k - (Width + Half)
    BY DEF Shr
  <2> HIDE DEF top
  <2>3. \A j \in top : j \in Bits(Half)
    BY <2>1, <2>2, Widths DEF Bits
  <2>4. \A e : e \in Shl(top, Width + Half) <=> \E j \in top : e = j + (Width + Half)
    BY DEF Shl
  <2>5. ASSUME NEW e
        PROVE  e \in Shl(top, Width + Half) <=> e \in v /\ e >= Width + Half
    <3>1. ASSUME e \in Shl(top, Width + Half) PROVE e \in v /\ e >= Width + Half
      BY <2>1, <2>2, <2>4, <3>1, Widths
    <3>2. ASSUME e \in v, e >= Width + Half PROVE e \in Shl(top, Width + Half)
      <4>1. e \in Nat /\ e = (e - (Width + Half)) + (Width + Half)
        BY <2>1, <3>2, Widths
      <4> QED
        BY <2>2, <2>4, <3>2, <4>1
    <3> QED
      BY <3>1, <3>2
  <2> QED
    BY <2>3, <2>5 DEF Byte
<1> HIDE DEF top
<1>2. Shl(top, Width) \in Long /\ r1 = Red(Shl(top, Width)) /\ r1 \in Elem
  BY <1>1, ReduceFromByte, RedElem
<1> HIDE DEF r1
<1>3. /\ Shl(r1, Half) \in SUBSET Bits(Width + Half)
      /\ Shl(r1, Half) \in Long /\ Shl(top, Width + Half) \in Long
      /\ Shl(top, Width + Half) = Shl(Shl(top, Width), Half)
  <2>1. \A e \in Shl(r1, Half) : e \in Bits(Width + Half)
    <3>1. \A i \in r1 : i + Half \in Bits(Width + Half)
      BY <1>2, Widths DEF Elem, Bits
    <3> QED
      BY <3>1 DEF Shl
  <2>2. Bits(Width + Half) \subseteq 0..2 * Width
    BY Widths DEF Bits
  <2>3. top \in SUBSET Nat /\ Half \in Nat /\ Width \in Nat
    BY <1>1, Widths DEF Byte, Bits
  <2>4. \A e \in v : e \in 0..2 * Width
    BY Widths DEF Bits
  <2>5. Shl(top, Width + Half) = Shl(Shl(top, Width), Half)
    BY <2>3, ShlLaws
  <2> QED
    BY <1>1, <2>1, <2>2, <2>4, <2>5 DEF Long
<1>4. Red(Shl(r1, Half)) = Red(Shl(top, Width + Half))
  <2>1. Red(r1) = Red(Shl(top, Width))
    BY <1>2, RedIdentity
  <2>2. r1 \in SUBSET Nat /\ Shl(top, Width) \in SUBSET Nat /\ Half \in Nat
    BY <1>2, Widths DEF Elem, Bits, Long
  <2> QED
    BY <1>3, <2>1, <2>2, RedShl
<1>5. /\ v \in Long /\ v1 \in Long /\ v1 \in SUBSET Bits(2 * Width)
      /\ Red(v1) = Xor(Red(v), Red(Shl(top, Width + Half)))
  <2>1. v \in Long /\ Bits(Width + Half) \subseteq Bits(2 * Width)
    BY Widths DEF Long, Bits
  <2>2. v1 \in SUBSET Bits(2 * Width)
    BY <1>3, <2>1 DEF Xor
  <2>3. v1 \in Long
    BY <2>2, Widths DEF Long, Bits
  <2> QED
    BY <1>3, <1>4, <2>1, <2>2, <2>3, RedXor
<1>6. \A e \in Bits(2 * Width) : e >= Width + Half => (e \in v1 <=> e \in v)
  <2>1. \A e \in Shl(r1, Half) : ~(e >= Width + Half)
    BY <1>3, Widths DEF Bits
  <2> QED
    BY <2>1, InXor
<1> HIDE DEF v1
<1>7. /\ mid \in Byte
      /\ \A e : e \in Shl(mid, Width) <=> e \in v1 /\ e >= Width /\ e < Width + Half
  <2>1. \A j : j \in Shr(v1, Width) <=> \E k \in v1 : k >= Width /\ j = k - Width
    BY DEF Shr
  <2>2. \A j : j \in mid <=> j \in Bits(Half) /\ \E k \in v1 : k >= Width /\ j = k - Width
    BY <2>1 DEF Cut
  <2>3. mid \in Byte
    BY <2>2 DEF Byte
  <2>4. \A k \in v1 : k \in Nat
    BY <1>5 DEF Bits
  <2> HIDE DEF mid
  <2>5. ASSUME NEW e
        PROVE  e \in Shl(mid, Width) <=> e \in v1 /\ e >= Width /\ e < Width + Half
    <3>1. e \in Shl(mid, Width) <=> \E j \in mid : e = j + Width
      BY DEF Shl
    <3>2. ASSUME e \in Shl(mid, Width) PROVE e \in v1 /\ e >= Width /\ e < Width + Half
      <4>1. PICK j \in mid : e = j + Width
        BY <3>1, <3>2
      <4>2. PICK k \in v1 : k >= Width /\ j = k - Width
        BY <2>2
      <4>3. j \in Bits(Half)
        BY <2>2
      <4> QED
        BY <2>4, <4>1, <4>2, <4>3, Widths DEF Bits
    <3>3. ASSUME e \in v1, e >= Width, e < Width + Half PROVE e \in Shl(mid, Width)
      <4>1. e \in Nat /\ e - Width \in Bits(Half) /\ e = (e - Width) + Width
        BY <2>4, <3>3, Widths DEF Bits
      <4>2. e - Width \in mid
        BY <2>2, <3>3, <4>1
      <4> QED
        BY <3>1, <4>1, <4>2
    <3> QED
      BY <3>2, <3>3
  <2> QED
    BY <2>3, <2>5
<1> HIDE DEF mid
<1>8. Shl(mid, Width) \in Long /\ r2 = Red(Shl(mid, Width)) /\ r2 \in Elem
  BY <1>7, ReduceFromByte, RedElem
<1> HIDE DEF r2
<1>9. Cut(v1, Width) \in Elem /\ Cut(v1, Width) \in Long
  BY <1>5, Widths DEF Cut, Elem, Bits, Long
<1>10. v1 = Xor(Xor(Cut(v1, Width), Shl(mid, Width)), Shl(top, Width + Half))
  <2>1. \A e : e \in Cut(v1, Width) <=> e \in v1 /\ e < Width
    <3>1. \A e \in v1 : e \in Nat
      BY <1>5 DEF Bits
    <3>2. \A e \in Nat : e \in Bits(Width) <=> e < Width
      BY Widths DEF Bits
    <3> QED
      BY <3>1, <3>2 DEF Cut
  <2>2. \A e : e \in Shl(top, Width + Half) <=> e \in v1 /\ e >= Width + Half
    BY <1>1, <1>5, <1>6
  <2>3. \A e \in v1 : e \in Nat
    BY <1>5 DEF Bits
  <2>4. ASSUME NEW e
        PROVE  e \in v1 <=> e \in Xor(Xor(Cut(v1, Width), Shl(mid, Width)), Shl(top, Width + Half))
    <3>1. CASE e \in v1
      BY <1>7, <2>1, <2>2, <2>3, <3>1, InXor, Widths
    <3>2. CASE e \notin v1
      BY <1>7, <2>1, <2>2, <3>2, InXor
    <3> QED
      BY <3>1, <3>2
  <2> QED
    BY <2>4
<1> DEFINE T == Red(Shl(top, Width + Half))
<1>11. Red(v1) = Xor(Xor(Cut(v1, Width), r2), T)
  <2>1. Xor(Cut(v1, Width), Shl(mid, Width)) \in Long
    BY <1>8, <1>9 DEF Long, Xor
  <2>2. Red(v1) = Xor(Red(Xor(Cut(v1, Width), Shl(mid, Width))), T)
    BY <1>3, <1>10, <2>1, RedXor
  <2>3. Red(Xor(Cut(v1, Width), Shl(mid, Width))) = Xor(Red(Cut(v1, Width)), Red(Shl(mid, Width)))
    BY <1>8, <1>9, RedXor
  <2> QED
    BY <1>8, <1>9, <2>2, <2>3, RedIdentity
<1>12. Xor(Red(v), T) = Xor(Xor(Cut(v1, Width), r2), T)
  BY <1>5, <1>11
<1> HIDE DEF T
<1>13. Red(v) = Xor(Cut(v1, Width), r2)
  BY <1>12 DEF Xor
<1>14. poly_reduce(v) = Cut(Xor(v1, r2), Width)
  BY Zenon DEF poly_reduce, r2, mid, v1, r1, top
<1>15. Cut(Xor(v1, r2), Width) = Xor(Cut(v1, Width), r2)
  BY <1>8 DEF Cut, Xor, Elem
<1> QED
  BY <1>13, <1>14, <1>15

LEMMA GfMul == \A a, b \in Elem : gf_mul(a, b) = Product(a, b)
<1> SUFFICES ASSUME NEW a \in Elem, NEW b \in Elem PROVE gf_mul(a, b) = Product(a, b)
  OBVIOUS
<1>1. gf_mul(a, b) = poly_reduce(poly_mul(a, b))
  BY DEF gf_mul, times
<1> QED
  BY <1>1, PolyMul, PolyReduce

\* The table-driven product of every two elements is the remainder of their
\* carry-less product by the polynomial (gf.rs:65-107).
THEOREM TheoremProductExact == LadderSpec => []ProductExact
<1>1. LadderInit => numer \in Elem /\ denom \in Elem
  BY DEF LadderInit
<1>2. (numer \in Elem /\ denom \in Elem) /\ [Round]_ladder_vars
        => (numer \in Elem /\ denom \in Elem)'
  BY DEF Round, ladder_vars
<1>3. numer \in Elem /\ denom \in Elem => ProductExact
  BY GfMul DEF ProductExact
<1> QED
  BY <1>1, <1>2, <1>3, PTL DEF LadderSpec

-----------------------------------------------------------------------------
(* Powers, and the ladder of gf_div.                                       *)

\* p runs through the powers of a up to n.
PowersTo(p, a, n) == p[0] = {0} /\ \A i \in 0..n - 1 : p[i + 1] = Product(p[i], a)

LEMMA PowerRuns ==
  ASSUME NEW a \in Elem, NEW n \in Nat
  PROVE  \E p : PowersTo(p, a, n) /\ Power(a, n) = p[n]
<1> DEFINE one == {0}
           step == [i \in 0..n - 1 |-> [v \in Elem |-> Product(v, a)]]
<1>1. n \in Nat /\ one \in Elem
  BY ElemWords
<1>2. step \in Steps(n, Elem)
  BY ProductBits DEF Steps
<1>3. PICK f : Iterates(f, n, Elem, one, step)
  <2> HIDE DEF step, one
  <2> QED
    BY <1>1, <1>2, Recursion, Zenon
<1>4. f \in [0..n -> Elem] /\ f[0] = {0}
  BY <1>3, Zenon DEF Iterates
<1>5. ASSUME NEW k \in 0..n
      PROVE  f[k] = IF k = 0 THEN {0} ELSE Product(f[k - 1], a)
  <2>1. CASE k = 0
    BY <1>4, <2>1
  <2>2. CASE k # 0
    <3>1. k - 1 \in 0..n - 1 /\ (k - 1) + 1 = k /\ k - 1 \in 0..n
      BY <2>2
    <3>2. f[(k - 1) + 1] = step[k - 1][f[k - 1]]
      BY <1>3, <3>1, Zenon DEF Iterates
    <3>3. f[k - 1] \in Elem
      BY <1>4, <3>1
    <3>4. step[k - 1][f[k - 1]] = Product(f[k - 1], a)
      BY <3>1, <3>3
    <3> QED
      BY <2>2, <3>1, <3>2, <3>4
  <2> QED
    BY <2>1, <2>2
<1>6. f = [k \in 0..n |-> IF k = 0 THEN {0} ELSE Product(f[k - 1], a)]
  <2>1. f = [k \in 0..n |-> f[k]]
    BY <1>4
  <2> QED
    BY <1>5, <2>1, Zenon
<1>7. PICK p : /\ p = [k \in 0..n |-> IF k = 0 THEN {0} ELSE Product(p[k - 1], a)]
               /\ Power(a, n) = p[n]
  BY <1>6, Zenon DEF Power
<1>8. ASSUME NEW k \in 0..n PROVE p[k] = IF k = 0 THEN {0} ELSE Product(p[k - 1], a)
  BY <1>7, Zenon
<1>9. ASSUME NEW i \in 0..n - 1 PROVE p[i + 1] = Product(p[i], a)
  <2>1. i + 1 \in 0..n /\ i + 1 # 0 /\ (i + 1) - 1 = i
    OBVIOUS
  <2> QED
    BY <1>8, <2>1
<1> QED
  <2>1. p[0] = {0}
    BY <1>8
  <2> QED
    BY <1>7, <1>9, <2>1, Zenon DEF PowersTo

LEMMA PowerLaws ==
  ASSUME NEW a \in Elem
  PROVE  /\ Power(a, 0) = {0}
         /\ \A n \in Nat : Power(a, n) \in Elem /\ Power(a, n + 1) = Product(Power(a, n), a)
<1>1. Power(a, 0) = {0}
  BY PowerRuns DEF PowersTo
<1>2. ASSUME NEW n \in Nat, NEW p, NEW q, PowersTo(p, a, n), PowersTo(q, a, n + 1)
      PROVE  p[n] = q[n]
  <2> DEFINE S == {i \in Nat : i <= n => p[i] = q[i]}
  <2>1. 0 \in S
    BY <1>2 DEF PowersTo
  <2>2. ASSUME NEW i \in Nat, i \in S PROVE i + 1 \in S
    BY <1>2, <2>2 DEF PowersTo
  <2> HIDE DEF S
  <2>3. n \in S
    BY <2>1, <2>2, Induction
  <2> QED
    BY <2>3 DEF S
<1>3. ASSUME NEW n \in Nat PROVE Power(a, n + 1) = Product(Power(a, n), a)
  <2>1. PICK p : PowersTo(p, a, n) /\ Power(a, n) = p[n]
    BY PowerRuns
  <2>2. PICK q : PowersTo(q, a, n + 1) /\ Power(a, n + 1) = q[n + 1]
    BY PowerRuns
  <2>3. q[n + 1] = Product(q[n], a)
    BY <2>2 DEF PowersTo
  <2> QED
    BY <1>2, <2>1, <2>2, <2>3
<1>4. ASSUME NEW n \in Nat PROVE Power(a, n) \in Elem
  <2>1. CASE n = 0
    BY <1>1, <2>1, ElemWords
  <2>2. CASE n # 0
    <3>1. n - 1 \in Nat /\ (n - 1) + 1 = n
      BY <2>2
    <3>2. Power(a, (n - 1) + 1) = Product(Power(a, n - 1), a)
      BY <1>3, <3>1
    <3> QED
      BY <3>1, <3>2, ProductBits
  <2> QED
    BY <2>1, <2>2
<1> QED
  BY <1>1, <1>3, <1>4

LEMMA PowerAdd ==
  ASSUME NEW a \in Elem, NEW m \in Nat, NEW n \in Nat
  PROVE  Power(a, m + n) = Product(Power(a, m), Power(a, n))
<1> DEFINE S == {k \in Nat : Power(a, m + k) = Product(Power(a, m), Power(a, k))}
<1>1. 0 \in S
  <2>1. m + 0 = m /\ Power(a, m) \in Elem /\ Power(a, 0) = {0}
    BY PowerLaws
  <2> QED
    BY <2>1, ProductOne
<1>2. ASSUME NEW k \in Nat, k \in S PROVE k + 1 \in S
  <2>1. /\ Power(a, m) \in Elem /\ Power(a, k) \in Elem
        /\ Power(a, k + 1) = Product(Power(a, k), a)
    BY PowerLaws
  <2>2. m + (k + 1) = (m + k) + 1 /\ m + k \in Nat
    OBVIOUS
  <2>3. Power(a, (m + k) + 1) = Product(Power(a, m + k), a)
    BY <2>2, PowerLaws
  <2>4. Product(Product(Power(a, m), Power(a, k)), a) = Product(Power(a, m), Product(Power(a, k), a))
    BY <2>1, ProductAssociates
  <2> QED
    BY <1>2, <2>1, <2>2, <2>3, <2>4
<1> HIDE DEF S
<1>3. n \in S
  BY <1>1, <1>2, Induction
<1> QED
  BY <1>3 DEF S

LEMMA TwoToLaws ==
  /\ TwoTo[0] = 1
  /\ \A k \in 0..Width - 1 : TwoTo[k + 1] = 2 * TwoTo[k]
  /\ \A k \in 0..Width : TwoTo[k] \in Nat /\ TwoTo[k] >= 1
<1> DEFINE one == 1
           step == [i \in 0..Width - 1 |-> [v \in Nat |-> 2 * v]]
<1>1. Width \in Nat /\ one \in Nat
  BY Widths
<1>2. step \in Steps(Width, Nat)
  BY DEF Steps
<1>3. PICK f : Iterates(f, Width, Nat, one, step)
  <2> HIDE DEF step, one
  <2> QED
    BY <1>1, <1>2, Recursion, Zenon
<1>4. f \in [0..Width -> Nat] /\ f[0] = 1
  BY <1>3, Zenon DEF Iterates
<1>5. ASSUME NEW k \in 0..Width
      PROVE  f[k] = IF k = 0 THEN 1 ELSE 2 * f[k - 1]
  <2>1. CASE k = 0
    BY <1>4, <2>1
  <2>2. CASE k # 0
    <3>1. k - 1 \in 0..Width - 1 /\ (k - 1) + 1 = k /\ k - 1 \in 0..Width
      BY <1>1, <2>2
    <3>2. f[(k - 1) + 1] = step[k - 1][f[k - 1]]
      BY <1>3, <3>1, Zenon DEF Iterates
    <3>3. f[k - 1] \in Nat
      BY <1>4, <3>1
    <3>4. step[k - 1][f[k - 1]] = 2 * f[k - 1]
      BY <3>1, <3>3
    <3> QED
      BY <2>2, <3>1, <3>2, <3>4
  <2> QED
    BY <2>1, <2>2
<1>6. f = [k \in 0..Width |-> IF k = 0 THEN 1 ELSE 2 * f[k - 1]]
  <2>1. f = [k \in 0..Width |-> f[k]]
    BY <1>4
  <2> QED
    BY <1>5, <2>1, Zenon
<1>7. TwoTo = [k \in 0..Width |-> IF k = 0 THEN 1 ELSE 2 * TwoTo[k - 1]]
  BY <1>6, Zenon DEF TwoTo
<1>8. ASSUME NEW k \in 0..Width PROVE TwoTo[k] = IF k = 0 THEN 1 ELSE 2 * TwoTo[k - 1]
  BY <1>7, Zenon
<1>9. ASSUME NEW i \in 0..Width - 1 PROVE TwoTo[i + 1] = 2 * TwoTo[i]
  <2>1. i + 1 \in 0..Width /\ i + 1 # 0 /\ (i + 1) - 1 = i
    BY <1>1
  <2> QED
    BY <1>8, <2>1
<1>10. TwoTo[0] = 1
  BY <1>1, <1>8
<1>11. \A k \in 0..Width : TwoTo[k] \in Nat /\ TwoTo[k] >= 1
  <2> DEFINE S == {n \in Nat : n <= Width => TwoTo[n] \in Nat /\ TwoTo[n] >= 1}
  <2>1. 0 \in S
    BY <1>10
  <2>2. ASSUME NEW n \in Nat, n \in S PROVE n + 1 \in S
    <3> SUFFICES ASSUME n + 1 <= Width PROVE TwoTo[n + 1] \in Nat /\ TwoTo[n + 1] >= 1
      OBVIOUS
    <3>1. TwoTo[n] \in Nat /\ TwoTo[n] >= 1 /\ TwoTo[n + 1] = 2 * TwoTo[n]
      BY <1>1, <1>9, <2>2
    <3> QED
      BY <3>1
  <2>3. \A n \in Nat : n \in S
    <3> HIDE DEF S
    <3> QED
      BY <2>1, <2>2, Induction
  <2> QED
    BY <1>1, <2>3
<1> QED
  BY <1>9, <1>10, <1>11

LadderTypeOK ==
  /\ numer \in Elem /\ denom \in Elem
  /\ rounds \in 0..Rounds
  /\ ladder \in [square : Elem, out : Elem]

LEMMA LadderSteps ==
  ASSUME NEW n \in Elem, NEW d \in Elem, NEW i \in 0..Rounds - 1,
         NEW s \in [square : Elem, out : Elem],
         s.square = Power(d, TwoTo[i]), s.out = Product(n, Power(d, TwoTo[i + 1] - 2))
  PROVE  /\ LadderStep(s) \in [square : Elem, out : Elem]
         /\ LadderStep(s).square = Power(d, TwoTo[i + 1])
         /\ LadderStep(s).out = Product(n, Power(d, TwoTo[(i + 1) + 1] - 2))
<1> DEFINE sq == gf_mul(s.square, s.square)
           e  == TwoTo[i]
<1>1. /\ e \in Nat /\ e >= 1 /\ TwoTo[i + 1] = e + e /\ TwoTo[(i + 1) + 1] = (e + e) + (e + e)
  <2>1. i \in 0..Width - 1 /\ i \in 0..Width /\ i + 1 \in 0..Width - 1
    BY Widths DEF Rounds
  <2> QED
    BY <2>1, TwoToLaws
<1> HIDE DEF e
<1>2. s.square \in Elem /\ s.out \in Elem
  OBVIOUS
<1>3. sq = Product(Power(d, e), Power(d, e))
  BY <1>2, GfMul DEF e
<1>4. sq = Power(d, e + e) /\ sq \in Elem
  BY <1>1, <1>3, PowerAdd, PowerLaws
<1>5. gf_mul(s.out, sq) = Product(Product(n, Power(d, (e + e) - 2)), Power(d, e + e))
  BY <1>1, <1>2, <1>4, GfMul
<1>6. (e + e) - 2 \in Nat /\ e + e \in Nat
  BY <1>1
<1>7. Product(Product(n, Power(d, (e + e) - 2)), Power(d, e + e))
        = Product(n, Product(Power(d, (e + e) - 2), Power(d, e + e)))
  BY <1>6, PowerLaws, ProductAssociates
<1>8. Product(Power(d, (e + e) - 2), Power(d, e + e)) = Power(d, ((e + e) - 2) + (e + e))
  BY <1>6, PowerAdd
<1>9. ((e + e) - 2) + (e + e) = ((e + e) + (e + e)) - 2
  BY <1>1
<1>10. gf_mul(s.out, sq) = Product(n, Power(d, ((e + e) + (e + e)) - 2))
  BY <1>5, <1>7, <1>8, <1>9
<1>11. LadderStep(s) = [square |-> sq, out |-> gf_mul(s.out, sq)]
  BY Zenon DEF LadderStep
<1>12. gf_mul(s.out, sq) \in Elem
  BY <1>10, ProductBits
<1> HIDE DEF sq
<1> QED
  BY <1>1, <1>4, <1>10, <1>11, <1>12

LadderInv == LadderTypeOK /\ LadderExact

LEMMA LadderInvInit == LadderInit => LadderInv
<1> SUFFICES ASSUME LadderInit PROVE LadderInv
  OBVIOUS
<1>1. /\ numer \in Elem /\ denom \in Elem /\ rounds = 0
      /\ ladder = [square |-> denom, out |-> numer]
  BY DEF LadderInit
<1>2. LadderTypeOK
  BY <1>1, Widths DEF LadderTypeOK, Rounds
<1>3. TwoTo[0] = 1 /\ TwoTo[0 + 1] = 2
  BY TwoToLaws, Widths
<1>4. Power(denom, 0) = {0} /\ Power(denom, 0 + 1) = Product(Power(denom, 0), denom)
  BY <1>1, PowerLaws
<1>5. Power(denom, 1) = denom /\ Product(numer, Power(denom, 0)) = numer
  BY <1>1, <1>4, ProductOne
<1> QED
  BY <1>1, <1>2, <1>3, <1>5 DEF LadderInv, LadderExact

LEMMA LadderInvStep == LadderInv /\ [Round]_ladder_vars => LadderInv'
<1> SUFFICES ASSUME LadderInv, [Round]_ladder_vars PROVE LadderInv'
  OBVIOUS
<1>1. CASE Round
  <2>1. /\ numer \in Elem /\ denom \in Elem /\ rounds \in 0..Rounds /\ rounds < Rounds
        /\ ladder \in [square : Elem, out : Elem]
        /\ numer' = numer /\ denom' = denom /\ rounds' = rounds + 1
        /\ ladder' = LadderStep(ladder)
    BY <1>1 DEF LadderInv, LadderTypeOK, Round
  <2>2. rounds \in 0..Rounds - 1 /\ rounds + 1 \in 0..Rounds
    BY <2>1, Widths DEF Rounds
  <2>3. /\ ladder.square = Power(denom, TwoTo[rounds])
        /\ ladder.out = Product(numer, Power(denom, TwoTo[rounds + 1] - 2))
    BY DEF LadderInv, LadderExact
  <2>4. /\ ladder' \in [square : Elem, out : Elem]
        /\ (ladder').square = Power(denom, TwoTo[rounds + 1])
        /\ (ladder').out = Product(numer, Power(denom, TwoTo[(rounds + 1) + 1] - 2))
    BY <2>1, <2>2, <2>3, LadderSteps
  <2>5. LadderTypeOK'
    BY <2>1, <2>2, <2>4 DEF LadderTypeOK, Rounds, Elem, Bits, Width
  <2>6. LadderExact'
    <3>1. /\ (ladder').square = Power(denom', TwoTo[rounds'])
          /\ (ladder').out = Product(numer', Power(denom', TwoTo[rounds' + 1] - 2))
      BY <2>1, <2>4, Zenon
    <3> QED
      BY <3>1, Zenon DEF LadderExact
  <2> QED
    BY <2>5, <2>6 DEF LadderInv
<1>2. CASE UNCHANGED ladder_vars
  BY <1>2 DEF LadderInv, LadderTypeOK, LadderExact, ladder_vars
<1> QED
  BY <1>1, <1>2

\* After every round square is denom^(2^i) and out is
\* numer * denom^(2^(i+1) - 2), for every two elements (gf.rs:134-144).
THEOREM TheoremLadderExact == LadderSpec => []LadderExact
<1>1. LadderInv => LadderExact
  BY DEF LadderInv
<1> QED
  BY <1>1, LadderInvInit, LadderInvStep, PTL DEF LadderSpec

-----------------------------------------------------------------------------
(* Division.  The ladder multiplies by denom^(2^Width - 2).                *)

Ladders == [square : Elem, out : Elem]

LEMMA LadderStepType == \A s \in Ladders : LadderStep(s) \in Ladders
<1> SUFFICES ASSUME NEW s \in Ladders PROVE LadderStep(s) \in Ladders
  OBVIOUS
<1>1. s.square \in Elem /\ s.out \in Elem
  BY DEF Ladders
<1> DEFINE sq == gf_mul(s.square, s.square)
<1>2. sq \in Elem
  BY <1>1, GfMul, ProductBits
<1> HIDE DEF sq
<1>3. gf_mul(s.out, sq) \in Elem
  BY <1>1, <1>2, GfMul, ProductBits
<1>4. LadderStep(s) = [square |-> sq, out |-> gf_mul(s.out, sq)]
  BY Zenon DEF LadderStep, sq
<1> QED
  BY <1>2, <1>3, <1>4 DEF Ladders

LEMMA GfDiv ==
  ASSUME NEW n \in Elem, NEW d \in Elem
  PROVE  gf_div(n, d) = Product(n, Power(d, TwoTo[Width] - 2))
<1> DEFINE start == [square |-> d, out |-> n]
           step == [i \in 0..Rounds - 1 |-> [s \in Ladders |-> LadderStep(s)]]
<1>1. /\ Rounds \in Nat /\ Rounds + 1 = Width
      /\ start \in Ladders /\ start.square = d /\ start.out = n
  BY Widths DEF Rounds, Ladders
<1>2. step \in Steps(Rounds, Ladders)
  BY LadderStepType DEF Steps
<1>3. PICK f : Iterates(f, Rounds, Ladders, start, step)
  <2> HIDE DEF step, start
  <2> QED
    BY <1>1, <1>2, Recursion, Zenon
<1>4. f \in [0..Rounds -> Ladders] /\ f[0] = start
  BY <1>3, Zenon DEF Iterates
<1>5. ASSUME NEW k \in 0..Rounds
      PROVE  f[k] = IF k = 0 THEN start ELSE LadderStep(f[k - 1])
  <2>1. CASE k = 0
    BY <1>4, <2>1
  <2>2. CASE k # 0
    <3>1. k - 1 \in 0..Rounds - 1 /\ (k - 1) + 1 = k /\ k - 1 \in 0..Rounds
      BY <1>1, <2>2
    <3>2. f[(k - 1) + 1] = step[k - 1][f[k - 1]]
      BY <1>3, <3>1, Zenon DEF Iterates
    <3>3. f[k - 1] \in Ladders
      BY <1>4, <3>1
    <3>4. step[k - 1][f[k - 1]] = LadderStep(f[k - 1])
      BY <3>1, <3>3
    <3> QED
      BY <2>2, <3>1, <3>2, <3>4
  <2> QED
    BY <2>1, <2>2
<1>6. f = [k \in 0..Rounds |-> IF k = 0 THEN start ELSE LadderStep(f[k - 1])]
  <2>1. f = [k \in 0..Rounds |-> f[k]]
    BY <1>4
  <2> HIDE DEF start
  <2> QED
    BY <1>5, <2>1, Zenon
<1>7. PICK p : /\ p = [k \in 0..Rounds |-> IF k = 0 THEN start ELSE LadderStep(p[k - 1])]
               /\ gf_div(n, d) = p[Rounds].out
  BY <1>6, Zenon DEF gf_div
<1>8. ASSUME NEW k \in 0..Rounds PROVE p[k] = IF k = 0 THEN start ELSE LadderStep(p[k - 1])
  BY <1>7, Zenon
<1> DEFINE Exact(s, i) ==
             /\ s \in Ladders
             /\ s.square = Power(d, TwoTo[i])
             /\ s.out = Product(n, Power(d, TwoTo[i + 1] - 2))
           S == {i \in Nat : i <= Rounds => Exact(p[i], i)}
<1>9. 0 \in S
  <2>1. TwoTo[0] = 1 /\ TwoTo[0 + 1] = 2
    BY TwoToLaws, Widths
  <2>2. Power(d, 0) = {0} /\ Power(d, 0 + 1) = Product(Power(d, 0), d)
    BY PowerLaws
  <2>3. Power(d, 1) = d /\ Product(n, Power(d, 0)) = n
    BY <2>2, ProductOne
  <2>4. p[0] = start
    BY <1>1, <1>8
  <2> HIDE DEF start
  <2> QED
    BY <1>1, <2>1, <2>3, <2>4
<1>10. ASSUME NEW i \in Nat, i \in S PROVE i + 1 \in S
  <2> SUFFICES ASSUME i + 1 <= Rounds PROVE Exact(p[i + 1], i + 1)
    OBVIOUS
  <2>1. i \in 0..Rounds - 1 /\ i + 1 \in 0..Rounds /\ i + 1 # 0 /\ (i + 1) - 1 = i /\ i <= Rounds
    BY <1>1
  <2>2. p[i + 1] = LadderStep(p[i])
    BY <1>8, <2>1
  <2>3. Exact(p[i], i)
    BY <1>10, <2>1
  <2> DEFINE s == p[i]
  <2>4. /\ s \in [square : Elem, out : Elem]
        /\ s.square = Power(d, TwoTo[i])
        /\ s.out = Product(n, Power(d, TwoTo[i + 1] - 2))
    BY <2>3 DEF Ladders
  <2> HIDE DEF s
  <2>5. /\ LadderStep(s) \in Ladders
        /\ LadderStep(s).square = Power(d, TwoTo[i + 1])
        /\ LadderStep(s).out = Product(n, Power(d, TwoTo[(i + 1) + 1] - 2))
    BY <2>1, <2>4, LadderSteps DEF Ladders
  <2> QED
    BY <2>2, <2>5 DEF s
<1>11. Rounds \in S
  <2> HIDE DEF S
  <2> QED
    BY <1>1, <1>9, <1>10, Induction
<1>12. Exact(p[Rounds], Rounds)
  BY <1>1, <1>11
<1> QED
  BY <1>1, <1>7, <1>12

\* In a field of 2^Width elements every element but zero has this order.
IsField == \A a \in Elem : a # {} => Power(a, TwoTo[Width] - 1) = {0}

LEMMA Exponents ==
  /\ TwoTo[Width] \in Nat /\ TwoTo[Width] - 1 \in Nat /\ TwoTo[Width] - 2 \in Nat
  /\ TwoTo[Width] - 2 >= 1
<1>1. TwoTo[0] = 1 /\ TwoTo[1] = 2 * TwoTo[0]
  <2>1. 0 \in 0..Width - 1 /\ 0 + 1 = 1
    BY Widths
  <2> QED
    BY <2>1, TwoToLaws
<1>2. TwoTo[Width] = 2 * TwoTo[Width - 1] /\ TwoTo[Width - 1] = 2 * TwoTo[Width - 2]
  <2>1. /\ Width - 1 \in 0..Width - 1 /\ (Width - 1) + 1 = Width
        /\ Width - 2 \in 0..Width - 1 /\ (Width - 2) + 1 = Width - 1
    BY Widths
  <2> QED
    BY <2>1, TwoToLaws
<1>3. TwoTo[Width - 2] \in Nat /\ TwoTo[Width - 2] >= 1
  BY Widths, TwoToLaws
<1> QED
  BY <1>2, <1>3

LEMMA PowerNothing == \A n \in Nat : n >= 1 => Power({}, n) = {}
<1> SUFFICES ASSUME NEW n \in Nat, n >= 1 PROVE Power({}, n) = {}
  OBVIOUS
<1>1. n - 1 \in Nat /\ (n - 1) + 1 = n
  OBVIOUS
<1>2. Power({}, (n - 1) + 1) = Product(Power({}, n - 1), {}) /\ Power({}, n - 1) \in Elem
  BY <1>1, PowerLaws, ElemWords
<1> QED
  BY <1>1, <1>2, ProductNothing

LEMMA Division ==
  ASSUME NEW n \in Elem, NEW d \in Elem
  PROVE  /\ gf_div(n, d) \in Elem
         /\ gf_div(n, {}) = {}
         /\ IsField /\ d # {} => Product(gf_div(n, d), d) = n
<1>1. gf_div(n, d) = Product(n, Power(d, TwoTo[Width] - 2))
  BY GfDiv
<1>2. gf_div(n, {}) = {}
  <2>1. gf_div(n, {}) = Product(n, Power({}, TwoTo[Width] - 2))
    BY ElemWords, GfDiv
  <2>2. Power({}, TwoTo[Width] - 2) = {}
    BY Exponents, PowerNothing
  <2> QED
    BY <2>1, <2>2, ProductNothing
<1>3. ASSUME IsField, d # {} PROVE Product(gf_div(n, d), d) = n
  <2> DEFINE k == TwoTo[Width] - 2
  <2>1. k \in Nat /\ k + 1 = TwoTo[Width] - 1
    BY Exponents
  <2> HIDE DEF k
  <2>2. Power(d, k) \in Elem /\ Product(Power(d, k), d) = {0}
    BY <1>3, <2>1, PowerLaws DEF IsField
  <2>3. Product(Product(n, Power(d, k)), d) = Product(n, Product(Power(d, k), d))
    BY <2>2, ProductAssociates
  <2> QED
    BY <1>1, <2>2, <2>3, ProductOne DEF k
<1> QED
  BY <1>1, <1>2, <1>3, ProductBits

LEMMA LadderDivides ==
  ASSUME IsField, LadderInv PROVE DivisionInverts
<1> SUFFICES ASSUME rounds = Rounds
             PROVE  /\ ladder.out = gf_div(numer, denom)
                    /\ denom = {} => ladder.out = {}
                    /\ denom # {} => Product(ladder.out, denom) = numer
  BY DEF DivisionInverts
<1>1. /\ numer \in Elem /\ denom \in Elem
      /\ ladder.out = Product(numer, Power(denom, TwoTo[Rounds + 1] - 2))
      /\ Rounds + 1 = Width
  BY Widths DEF LadderInv, LadderTypeOK, LadderExact, Rounds
<1>2. ladder.out = gf_div(numer, denom)
  BY <1>1, GfDiv
<1> QED
  BY <1>1, <1>2, Division

-----------------------------------------------------------------------------
(* The code's field: POLY = 0x1100b over 16 bits (gf.rs:35-60).            *)

CodeField == Half = 8 /\ Poly = {16, 12, 3, 1, 0}

a (+) b == ~(a <=> b)

Square(a) == Product(a, a)

LEMMA SquareXor ==
  ASSUME NEW a \in Elem, NEW b \in Elem
  PROVE  Square(Xor(a, b)) = Xor(Square(a), Square(b))
<1>1. Xor(a, b) \in Elem
  BY ElemWords
<1>2. Product(Xor(a, b), Xor(a, b)) = Xor(Product(Xor(a, b), a), Product(Xor(a, b), b))
  BY <1>1, ProductXor
<1>3. /\ Product(Xor(a, b), a) = Xor(Product(a, a), Product(b, a))
      /\ Product(Xor(a, b), b) = Xor(Product(a, b), Product(b, b))
  BY ProductXor
<1>4. Product(a, b) = Product(b, a)
  BY ProductCommutes
<1>5. \A u, v, w : Xor(Xor(u, v), Xor(v, w)) = Xor(u, w)
  BY DEF Xor
<1> QED
  BY <1>2, <1>3, <1>4, <1>5 DEF Square

LEMMA SquareBit == ASSUME NEW k \in Bits(Width) PROVE Square({k}) = Residue[k + k]
<1>1. {k} \in Elem /\ k + k \in 0..2 * Width
  BY Widths DEF Elem, Bits
<1>2. Product({k}, {k}) = Red(Shl({k}, k))
  BY <1>1, ProductBit
<1>3. Shl({k}, k) = {k + k}
  BY ShlLaws
<1> QED
  BY <1>1, <1>2, <1>3, RedBit DEF Square

\* Squaring adds up the squares of the single bits.
LEMMA SquareCut ==
  ASSUME NEW a \in Elem, NEW k \in Bits(Width), NEW j \in Bits(Width)
  PROVE  j \in Square(Cut(a, k + 1))
           <=> (j \in Square(Cut(a, k))) (+) (k \in a /\ j \in Residue[k + k])
<1>1. Cut(a, k) \in Elem /\ {k} \in Elem
  BY DEF Cut, Elem
<1>2. CASE k \in a
  <2>1. Cut(a, k + 1) = Xor(Cut(a, k), {k})
    BY <1>2 DEF Cut, Bits, Xor, Elem
  <2>2. Square(Cut(a, k + 1)) = Xor(Square(Cut(a, k)), Residue[k + k])
    BY <1>1, <2>1, SquareXor, SquareBit
  <2> QED
    BY <1>2, <2>2, InXor DEF (+)
<1>3. CASE k \notin a
  <2>1. Cut(a, k + 1) = Cut(a, k)
    BY <1>3 DEF Cut, Bits, Elem
  <2> QED
    BY <1>3, <2>1 DEF (+)
<1> QED
  BY <1>2, <1>3

LEMMA CodeResidues ==
  ASSUME CodeField
  PROVE  /\ Width = 16
         /\ \A k \in 0..7 : Residue[k + k] = {k + k}
         /\ Residue[16] = {0, 1, 3, 12}
         /\ Residue[18] = {2, 3, 5, 14}
         /\ Residue[20] = {0, 1, 3, 4, 5, 7, 12}
         /\ Residue[22] = {2, 3, 5, 6, 7, 9, 14}
         /\ Residue[24] = {0, 1, 3, 4, 5, 7, 8, 9, 11, 12}
         /\ Residue[26] = {2, 3, 5, 6, 7, 9, 10, 11, 13, 14}
         /\ Residue[28] = {0, 1, 3, 4, 5, 7, 8, 9, 11, 13, 15}
         /\ Residue[30] = {1, 3, 4, 5, 6, 7, 9, 10, 11, 15}
<1>1. Width = 16 /\ Poly = {16, 12, 3, 1, 0}
  BY DEF CodeField, Width
<1>2. \A k \in 0..7 : Residue[k + k] = {k + k}
  BY <1>1, LowResidues DEF Bits
<1>15. Residue[15] = {15}
  BY <1>1, LowResidues DEF Bits
<1>a. \A k \in 0..31 : Residue[k + 1] = XTimes(Residue[k])
  BY <1>1, Residues
<1>16. Residue[16] = {0, 1, 3, 12}
  <2>1. Shl({15}, 1) = {16}
    BY DEF Shl
  <2>2. Residue[16] = XTimes({15})
    BY <1>a, <1>15
  <2>3. XTimes({15}) = Xor({16}, Poly)
    BY <1>1, <2>1 DEF XTimes
  <2> QED
    BY <1>1, <2>2, <2>3 DEF Xor
<1>17. Residue[17] = {1, 2, 4, 13}
  <2>1. Shl({0, 1, 3, 12}, 1) = {1, 2, 4, 13}
    BY DEF Shl
  <2>2. Residue[17] = XTimes({0, 1, 3, 12})
    BY <1>a, <1>16
  <2> QED
    BY <1>1, <2>1, <2>2 DEF XTimes
<1>18. Residue[18] = {2, 3, 5, 14}
  <2>1. Shl({1, 2, 4, 13}, 1) = {2, 3, 5, 14}
    BY DEF Shl
  <2>2. Residue[18] = XTimes({1, 2, 4, 13})
    BY <1>a, <1>17
  <2> QED
    BY <1>1, <2>1, <2>2 DEF XTimes
<1>19. Residue[19] = {3, 4, 6, 15}
  <2>1. Shl({2, 3, 5, 14}, 1) = {3, 4, 6, 15}
    BY DEF Shl
  <2>2. Residue[19] = XTimes({2, 3, 5, 14})
    BY <1>a, <1>18
  <2> QED
    BY <1>1, <2>1, <2>2 DEF XTimes
<1>20. Residue[20] = {0, 1, 3, 4, 5, 7, 12}
  <2>1. Shl({3, 4, 6, 15}, 1) = {4, 5, 7, 16}
    BY DEF Shl
  <2>2. Residue[20] = XTimes({3, 4, 6, 15})
    BY <1>a, <1>19
  <2>3. XTimes({3, 4, 6, 15}) = Xor({4, 5, 7, 16}, Poly)
    BY <1>1, <2>1 DEF XTimes
  <2> QED
    BY <1>1, <2>2, <2>3 DEF Xor
<1>21. Residue[21] = {1, 2, 4, 5, 6, 8, 13}
  <2>1. Shl({0, 1, 3, 4, 5, 7, 12}, 1) = {1, 2, 4, 5, 6, 8, 13}
    BY DEF Shl
  <2>2. Residue[21] = XTimes({0, 1, 3, 4, 5, 7, 12})
    BY <1>a, <1>20
  <2> QED
    BY <1>1, <2>1, <2>2 DEF XTimes
<1>22. Residue[22] = {2, 3, 5, 6, 7, 9, 14}
  <2>1. Shl({1, 2, 4, 5, 6, 8, 13}, 1) = {2, 3, 5, 6, 7, 9, 14}
    BY DEF Shl
  <2>2. Residue[22] = XTimes({1, 2, 4, 5, 6, 8, 13})
    BY <1>a, <1>21
  <2> QED
    BY <1>1, <2>1, <2>2 DEF XTimes
<1>23. Residue[23] = {3, 4, 6, 7, 8, 10, 15}
  <2>1. Shl({2, 3, 5, 6, 7, 9, 14}, 1) = {3, 4, 6, 7, 8, 10, 15}
    BY DEF Shl
  <2>2. Residue[23] = XTimes({2, 3, 5, 6, 7, 9, 14})
    BY <1>a, <1>22
  <2> QED
    BY <1>1, <2>1, <2>2 DEF XTimes
<1>24. Residue[24] = {0, 1, 3, 4, 5, 7, 8, 9, 11, 12}
  <2>1. Shl({3, 4, 6, 7, 8, 10, 15}, 1) = {4, 5, 7, 8, 9, 11, 16}
    BY DEF Shl
  <2>2. Residue[24] = XTimes({3, 4, 6, 7, 8, 10, 15})
    BY <1>a, <1>23
  <2>3. XTimes({3, 4, 6, 7, 8, 10, 15}) = Xor({4, 5, 7, 8, 9, 11, 16}, Poly)
    BY <1>1, <2>1 DEF XTimes
  <2> QED
    BY <1>1, <2>2, <2>3 DEF Xor
<1>25. Residue[25] = {1, 2, 4, 5, 6, 8, 9, 10, 12, 13}
  <2>1. Shl({0, 1, 3, 4, 5, 7, 8, 9, 11, 12}, 1) = {1, 2, 4, 5, 6, 8, 9, 10, 12, 13}
    BY DEF Shl
  <2>2. Residue[25] = XTimes({0, 1, 3, 4, 5, 7, 8, 9, 11, 12})
    BY <1>a, <1>24
  <2> QED
    BY <1>1, <2>1, <2>2 DEF XTimes
<1>26. Residue[26] = {2, 3, 5, 6, 7, 9, 10, 11, 13, 14}
  <2>1. Shl({1, 2, 4, 5, 6, 8, 9, 10, 12, 13}, 1) = {2, 3, 5, 6, 7, 9, 10, 11, 13, 14}
    BY DEF Shl
  <2>2. Residue[26] = XTimes({1, 2, 4, 5, 6, 8, 9, 10, 12, 13})
    BY <1>a, <1>25
  <2> QED
    BY <1>1, <2>1, <2>2 DEF XTimes
<1>27. Residue[27] = {3, 4, 6, 7, 8, 10, 11, 12, 14, 15}
  <2>1. Shl({2, 3, 5, 6, 7, 9, 10, 11, 13, 14}, 1) = {3, 4, 6, 7, 8, 10, 11, 12, 14, 15}
    BY DEF Shl
  <2>2. Residue[27] = XTimes({2, 3, 5, 6, 7, 9, 10, 11, 13, 14})
    BY <1>a, <1>26
  <2> QED
    BY <1>1, <2>1, <2>2 DEF XTimes
<1>28. Residue[28] = {0, 1, 3, 4, 5, 7, 8, 9, 11, 13, 15}
  <2>1. Shl({3, 4, 6, 7, 8, 10, 11, 12, 14, 15}, 1) = {4, 5, 7, 8, 9, 11, 12, 13, 15, 16}
    BY DEF Shl
  <2>2. Residue[28] = XTimes({3, 4, 6, 7, 8, 10, 11, 12, 14, 15})
    BY <1>a, <1>27
  <2>3. XTimes({3, 4, 6, 7, 8, 10, 11, 12, 14, 15}) = Xor({4, 5, 7, 8, 9, 11, 12, 13, 15, 16}, Poly)
    BY <1>1, <2>1 DEF XTimes
  <2> QED
    BY <1>1, <2>2, <2>3 DEF Xor
<1>29. Residue[29] = {0, 2, 3, 4, 5, 6, 8, 9, 10, 14}
  <2>1. Shl({0, 1, 3, 4, 5, 7, 8, 9, 11, 13, 15}, 1) = {1, 2, 4, 5, 6, 8, 9, 10, 12, 14, 16}
    BY DEF Shl
  <2>2. Residue[29] = XTimes({0, 1, 3, 4, 5, 7, 8, 9, 11, 13, 15})
    BY <1>a, <1>28
  <2>3. XTimes({0, 1, 3, 4, 5, 7, 8, 9, 11, 13, 15}) = Xor({1, 2, 4, 5, 6, 8, 9, 10, 12, 14, 16}, Poly)
    BY <1>1, <2>1 DEF XTimes
  <2> QED
    BY <1>1, <2>2, <2>3 DEF Xor
<1>30. Residue[30] = {1, 3, 4, 5, 6, 7, 9, 10, 11, 15}
  <2>1. Shl({0, 2, 3, 4, 5, 6, 8, 9, 10, 14}, 1) = {1, 3, 4, 5, 6, 7, 9, 10, 11, 15}
    BY DEF Shl
  <2>2. Residue[30] = XTimes({0, 2, 3, 4, 5, 6, 8, 9, 10, 14})
    BY <1>a, <1>29
  <2> QED
    BY <1>1, <2>1, <2>2 DEF XTimes
<1> QED
  BY <1>1, <1>2, <1>16, <1>18, <1>20, <1>22, <1>24, <1>26, <1>28, <1>30

\* The square of every element, bit by bit.
LEMMA SquareBits ==
  ASSUME CodeField, NEW a \in Elem
  PROVE  /\ Square(a) \in Elem
         /\ 0 \in Square(a) <=> (0 \in a) (+) (8 \in a) (+) (10 \in a) (+) (12 \in a) (+) (14 \in a)
         /\ 1 \in Square(a) <=> (8 \in a) (+) (10 \in a) (+) (12 \in a) (+) (14 \in a) (+) (15 \in a)
         /\ 2 \in Square(a) <=> (1 \in a) (+) (9 \in a) (+) (11 \in a) (+) (13 \in a)
         /\ 3 \in Square(a) <=> (8 \in a) (+) (9 \in a) (+) (10 \in a) (+) (11 \in a) (+) (12 \in a) (+) (13 \in a) (+) (14 \in a) (+) (15 \in a)
         /\ 4 \in Square(a) <=> (2 \in a) (+) (10 \in a) (+) (12 \in a) (+) (14 \in a) (+) (15 \in a)
         /\ 5 \in Square(a) <=> (9 \in a) (+) (10 \in a) (+) (11 \in a) (+) (12 \in a) (+) (13 \in a) (+) (14 \in a) (+) (15 \in a)
         /\ 6 \in Square(a) <=> (3 \in a) (+) (11 \in a) (+) (13 \in a) (+) (15 \in a)
         /\ 7 \in Square(a) <=> (10 \in a) (+) (11 \in a) (+) (12 \in a) (+) (13 \in a) (+) (14 \in a) (+) (15 \in a)
         /\ 8 \in Square(a) <=> (4 \in a) (+) (12 \in a) (+) (14 \in a)
         /\ 9 \in Square(a) <=> (11 \in a) (+) (12 \in a) (+) (13 \in a) (+) (14 \in a) (+) (15 \in a)
         /\ 10 \in Square(a) <=> (5 \in a) (+) (13 \in a) (+) (15 \in a)
         /\ 11 \in Square(a) <=> (12 \in a) (+) (13 \in a) (+) (14 \in a) (+) (15 \in a)
         /\ 12 \in Square(a) <=> (6 \in a) (+) (8 \in a) (+) (10 \in a) (+) (12 \in a)
         /\ 13 \in Square(a) <=> (13 \in a) (+) (14 \in a)
         /\ 14 \in Square(a) <=> (7 \in a) (+) (9 \in a) (+) (11 \in a) (+) (13 \in a)
         /\ 15 \in Square(a) <=> (14 \in a) (+) (15 \in a)
<1>1. Width = 16 /\ Bits(Width) = 0..15
  BY CodeResidues DEF Bits
<1> DEFINE Sq(k) == Square(Cut(a, k))
<1>2. \A j \in 0..15 : ~(j \in Sq(0))
  <2>1. Cut(a, 0) = {}
    BY DEF Cut, Bits
  <2> QED
    BY <2>1, ElemWords, ProductNothing DEF Square
<1>3. Sq(16) = Square(a)
  <2>1. Cut(a, 16) = a
    BY <1>1 DEF Cut, Elem
  <2> QED
    BY <2>1
<1>4. \A k, j \in 0..15 : j \in Sq(k + 1) <=> (j \in Sq(k)) (+) (k \in a /\ j \in Residue[k + k])
  BY <1>1, SquareCut
<1> HIDE DEF Sq
<1>10. \A j \in 0..15 : j \in Sq(1) <=> (j \in Sq(0)) (+) (0 \in a /\ j \in {0})
  <2>1. Residue[0 + 0] = {0}
    BY CodeResidues
  <2> QED
    BY <1>4, <2>1
<1>11. \A j \in 0..15 : j \in Sq(2) <=> (j \in Sq(1)) (+) (1 \in a /\ j \in {2})
  <2>1. Residue[1 + 1] = {2}
    BY CodeResidues
  <2> QED
    BY <1>4, <2>1
<1>12. \A j \in 0..15 : j \in Sq(3) <=> (j \in Sq(2)) (+) (2 \in a /\ j \in {4})
  <2>1. Residue[2 + 2] = {4}
    BY CodeResidues
  <2> QED
    BY <1>4, <2>1
<1>13. \A j \in 0..15 : j \in Sq(4) <=> (j \in Sq(3)) (+) (3 \in a /\ j \in {6})
  <2>1. Residue[3 + 3] = {6}
    BY CodeResidues
  <2> QED
    BY <1>4, <2>1
<1>14. \A j \in 0..15 : j \in Sq(5) <=> (j \in Sq(4)) (+) (4 \in a /\ j \in {8})
  <2>1. Residue[4 + 4] = {8}
    BY CodeResidues
  <2> QED
    BY <1>4, <2>1
<1>15. \A j \in 0..15 : j \in Sq(6) <=> (j \in Sq(5)) (+) (5 \in a /\ j \in {10})
  <2>1. Residue[5 + 5] = {10}
    BY CodeResidues
  <2> QED
    BY <1>4, <2>1
<1>16. \A j \in 0..15 : j \in Sq(7) <=> (j \in Sq(6)) (+) (6 \in a /\ j \in {12})
  <2>1. Residue[6 + 6] = {12}
    BY CodeResidues
  <2> QED
    BY <1>4, <2>1
<1>17. \A j \in 0..15 : j \in Sq(8) <=> (j \in Sq(7)) (+) (7 \in a /\ j \in {14})
  <2>1. Residue[7 + 7] = {14}
    BY CodeResidues
  <2> QED
    BY <1>4, <2>1
<1>18. \A j \in 0..15 : j \in Sq(9) <=> (j \in Sq(8)) (+) (8 \in a /\ j \in {0, 1, 3, 12})
  <2>1. Residue[8 + 8] = {0, 1, 3, 12}
    BY CodeResidues
  <2> QED
    BY <1>4, <2>1
<1>19. \A j \in 0..15 : j \in Sq(10) <=> (j \in Sq(9)) (+) (9 \in a /\ j \in {2, 3, 5, 14})
  <2>1. Residue[9 + 9] = {2, 3, 5, 14}
    BY CodeResidues
  <2> QED
    BY <1>4, <2>1
<1>20. \A j \in 0..15 : j \in Sq(11) <=> (j \in Sq(10)) (+) (10 \in a /\ j \in {0, 1, 3, 4, 5, 7, 12})
  <2>1. Residue[10 + 10] = {0, 1, 3, 4, 5, 7, 12}
    BY CodeResidues
  <2> QED
    BY <1>4, <2>1
<1>21. \A j \in 0..15 : j \in Sq(12) <=> (j \in Sq(11)) (+) (11 \in a /\ j \in {2, 3, 5, 6, 7, 9, 14})
  <2>1. Residue[11 + 11] = {2, 3, 5, 6, 7, 9, 14}
    BY CodeResidues
  <2> QED
    BY <1>4, <2>1
<1>22. \A j \in 0..15 : j \in Sq(13) <=> (j \in Sq(12)) (+) (12 \in a /\ j \in {0, 1, 3, 4, 5, 7, 8, 9, 11, 12})
  <2>1. Residue[12 + 12] = {0, 1, 3, 4, 5, 7, 8, 9, 11, 12}
    BY CodeResidues
  <2> QED
    BY <1>4, <2>1
<1>23. \A j \in 0..15 : j \in Sq(14) <=> (j \in Sq(13)) (+) (13 \in a /\ j \in {2, 3, 5, 6, 7, 9, 10, 11, 13, 14})
  <2>1. Residue[13 + 13] = {2, 3, 5, 6, 7, 9, 10, 11, 13, 14}
    BY CodeResidues
  <2> QED
    BY <1>4, <2>1
<1>24. \A j \in 0..15 : j \in Sq(15) <=> (j \in Sq(14)) (+) (14 \in a /\ j \in {0, 1, 3, 4, 5, 7, 8, 9, 11, 13, 15})
  <2>1. Residue[14 + 14] = {0, 1, 3, 4, 5, 7, 8, 9, 11, 13, 15}
    BY CodeResidues
  <2> QED
    BY <1>4, <2>1
<1>25. \A j \in 0..15 : j \in Sq(16) <=> (j \in Sq(15)) (+) (15 \in a /\ j \in {1, 3, 4, 5, 6, 7, 9, 10, 11, 15})
  <2>1. Residue[15 + 15] = {1, 3, 4, 5, 6, 7, 9, 10, 11, 15}
    BY CodeResidues
  <2> QED
    BY <1>4, <2>1
<1>30. 0 \in Square(a) <=> (0 \in a) (+) (8 \in a) (+) (10 \in a) (+) (12 \in a) (+) (14 \in a)
  BY <1>2, <1>3, <1>10, <1>11, <1>12, <1>13, <1>14, <1>15, <1>16, <1>17, <1>18, <1>19, <1>20, <1>21, <1>22, <1>23, <1>24, <1>25 DEF (+)
<1>31. 1 \in Square(a) <=> (8 \in a) (+) (10 \in a) (+) (12 \in a) (+) (14 \in a) (+) (15 \in a)
  BY <1>2, <1>3, <1>10, <1>11, <1>12, <1>13, <1>14, <1>15, <1>16, <1>17, <1>18, <1>19, <1>20, <1>21, <1>22, <1>23, <1>24, <1>25 DEF (+)
<1>32. 2 \in Square(a) <=> (1 \in a) (+) (9 \in a) (+) (11 \in a) (+) (13 \in a)
  BY <1>2, <1>3, <1>10, <1>11, <1>12, <1>13, <1>14, <1>15, <1>16, <1>17, <1>18, <1>19, <1>20, <1>21, <1>22, <1>23, <1>24, <1>25 DEF (+)
<1>33. 3 \in Square(a) <=> (8 \in a) (+) (9 \in a) (+) (10 \in a) (+) (11 \in a) (+) (12 \in a) (+) (13 \in a) (+) (14 \in a) (+) (15 \in a)
  BY <1>2, <1>3, <1>10, <1>11, <1>12, <1>13, <1>14, <1>15, <1>16, <1>17, <1>18, <1>19, <1>20, <1>21, <1>22, <1>23, <1>24, <1>25 DEF (+)
<1>34. 4 \in Square(a) <=> (2 \in a) (+) (10 \in a) (+) (12 \in a) (+) (14 \in a) (+) (15 \in a)
  BY <1>2, <1>3, <1>10, <1>11, <1>12, <1>13, <1>14, <1>15, <1>16, <1>17, <1>18, <1>19, <1>20, <1>21, <1>22, <1>23, <1>24, <1>25 DEF (+)
<1>35. 5 \in Square(a) <=> (9 \in a) (+) (10 \in a) (+) (11 \in a) (+) (12 \in a) (+) (13 \in a) (+) (14 \in a) (+) (15 \in a)
  BY <1>2, <1>3, <1>10, <1>11, <1>12, <1>13, <1>14, <1>15, <1>16, <1>17, <1>18, <1>19, <1>20, <1>21, <1>22, <1>23, <1>24, <1>25 DEF (+)
<1>36. 6 \in Square(a) <=> (3 \in a) (+) (11 \in a) (+) (13 \in a) (+) (15 \in a)
  BY <1>2, <1>3, <1>10, <1>11, <1>12, <1>13, <1>14, <1>15, <1>16, <1>17, <1>18, <1>19, <1>20, <1>21, <1>22, <1>23, <1>24, <1>25 DEF (+)
<1>37. 7 \in Square(a) <=> (10 \in a) (+) (11 \in a) (+) (12 \in a) (+) (13 \in a) (+) (14 \in a) (+) (15 \in a)
  BY <1>2, <1>3, <1>10, <1>11, <1>12, <1>13, <1>14, <1>15, <1>16, <1>17, <1>18, <1>19, <1>20, <1>21, <1>22, <1>23, <1>24, <1>25 DEF (+)
<1>38. 8 \in Square(a) <=> (4 \in a) (+) (12 \in a) (+) (14 \in a)
  BY <1>2, <1>3, <1>10, <1>11, <1>12, <1>13, <1>14, <1>15, <1>16, <1>17, <1>18, <1>19, <1>20, <1>21, <1>22, <1>23, <1>24, <1>25 DEF (+)
<1>39. 9 \in Square(a) <=> (11 \in a) (+) (12 \in a) (+) (13 \in a) (+) (14 \in a) (+) (15 \in a)
  BY <1>2, <1>3, <1>10, <1>11, <1>12, <1>13, <1>14, <1>15, <1>16, <1>17, <1>18, <1>19, <1>20, <1>21, <1>22, <1>23, <1>24, <1>25 DEF (+)
<1>40. 10 \in Square(a) <=> (5 \in a) (+) (13 \in a) (+) (15 \in a)
  BY <1>2, <1>3, <1>10, <1>11, <1>12, <1>13, <1>14, <1>15, <1>16, <1>17, <1>18, <1>19, <1>20, <1>21, <1>22, <1>23, <1>24, <1>25 DEF (+)
<1>41. 11 \in Square(a) <=> (12 \in a) (+) (13 \in a) (+) (14 \in a) (+) (15 \in a)
  BY <1>2, <1>3, <1>10, <1>11, <1>12, <1>13, <1>14, <1>15, <1>16, <1>17, <1>18, <1>19, <1>20, <1>21, <1>22, <1>23, <1>24, <1>25 DEF (+)
<1>42. 12 \in Square(a) <=> (6 \in a) (+) (8 \in a) (+) (10 \in a) (+) (12 \in a)
  BY <1>2, <1>3, <1>10, <1>11, <1>12, <1>13, <1>14, <1>15, <1>16, <1>17, <1>18, <1>19, <1>20, <1>21, <1>22, <1>23, <1>24, <1>25 DEF (+)
<1>43. 13 \in Square(a) <=> (13 \in a) (+) (14 \in a)
  BY <1>2, <1>3, <1>10, <1>11, <1>12, <1>13, <1>14, <1>15, <1>16, <1>17, <1>18, <1>19, <1>20, <1>21, <1>22, <1>23, <1>24, <1>25 DEF (+)
<1>44. 14 \in Square(a) <=> (7 \in a) (+) (9 \in a) (+) (11 \in a) (+) (13 \in a)
  BY <1>2, <1>3, <1>10, <1>11, <1>12, <1>13, <1>14, <1>15, <1>16, <1>17, <1>18, <1>19, <1>20, <1>21, <1>22, <1>23, <1>24, <1>25 DEF (+)
<1>45. 15 \in Square(a) <=> (14 \in a) (+) (15 \in a)
  BY <1>2, <1>3, <1>10, <1>11, <1>12, <1>13, <1>14, <1>15, <1>16, <1>17, <1>18, <1>19, <1>20, <1>21, <1>22, <1>23, <1>24, <1>25 DEF (+)
<1> QED
  BY ProductBits, <1>30, <1>31, <1>32, <1>33, <1>34, <1>35, <1>36, <1>37, <1>38, <1>39, <1>40, <1>41, <1>42, <1>43, <1>44, <1>45 DEF Square

\* The sixteenth square of the indeterminate is the indeterminate.
LEMMA SquaresOfX ==
  ASSUME CodeField PROVE Power({1}, TwoTo[Width]) = {1}
<1> DEFINE P(i) == Power({1}, TwoTo[i])
<1>1. Width = 16 /\ Bits(Width) = 0..15 /\ {1} \in Elem
  BY CodeResidues DEF Bits, Elem
<1>2. ASSUME NEW v \in SUBSET (0..15), NEW w \in SUBSET (0..15),
             \A j \in 0..15 : j \in Square(v) <=> j \in w
      PROVE  Square(v) = w
  <2>1. v \in Elem /\ w \in Elem /\ Square(v) \in Elem
    BY <1>1, ProductBits DEF Elem, Square
  <2> QED
    BY <1>1, <1>2, <2>1, WordsEqual
<1>3. \A i \in 0..15 : P(i + 1) = Square(P(i))
  <2> SUFFICES ASSUME NEW i \in 0..15 PROVE P(i + 1) = Square(P(i))
    OBVIOUS
  <2>1. TwoTo[i] \in Nat /\ TwoTo[i + 1] = TwoTo[i] + TwoTo[i]
    BY <1>1, TwoToLaws
  <2> QED
    BY <1>1, <2>1, PowerAdd DEF Square
<1>4. P(0) = {1}
  <2>1. TwoTo[0] = 1 /\ 0 + 1 = 1
    BY TwoToLaws
  <2>2. Power({1}, 0) = {0} /\ Power({1}, 0 + 1) = Product(Power({1}, 0), {1})
    BY <1>1, PowerLaws
  <2> QED
    BY <1>1, <2>1, <2>2, ProductOne
<1> HIDE DEF P
<1>10. P(1) = {2}
  <2>1. {1} \in Elem /\ {1} \in SUBSET (0..15) /\ {2} \in SUBSET (0..15)
    BY <1>1 DEF Elem
  <2>2. \A j \in 0..15 : j \in Square({1}) <=> j \in {2}
    BY <2>1, SquareBits DEF (+)
  <2>3. Square({1}) = {2}
    BY <1>2, <2>1, <2>2
  <2> QED
    BY <1>3, <1>4, <2>3
<1>11. P(2) = {4}
  <2>1. {2} \in Elem /\ {2} \in SUBSET (0..15) /\ {4} \in SUBSET (0..15)
    BY <1>1 DEF Elem
  <2>2. \A j \in 0..15 : j \in Square({2}) <=> j \in {4}
    BY <2>1, SquareBits DEF (+)
  <2>3. Square({2}) = {4}
    BY <1>2, <2>1, <2>2
  <2> QED
    BY <1>3, <1>10, <2>3
<1>12. P(3) = {8}
  <2>1. {4} \in Elem /\ {4} \in SUBSET (0..15) /\ {8} \in SUBSET (0..15)
    BY <1>1 DEF Elem
  <2>2. \A j \in 0..15 : j \in Square({4}) <=> j \in {8}
    BY <2>1, SquareBits DEF (+)
  <2>3. Square({4}) = {8}
    BY <1>2, <2>1, <2>2
  <2> QED
    BY <1>3, <1>11, <2>3
<1>13. P(4) = {0, 1, 3, 12}
  <2>1. {8} \in Elem /\ {8} \in SUBSET (0..15) /\ {0, 1, 3, 12} \in SUBSET (0..15)
    BY <1>1 DEF Elem
  <2>2. \A j \in 0..15 : j \in Square({8}) <=> j \in {0, 1, 3, 12}
    BY <2>1, SquareBits DEF (+)
  <2>3. Square({8}) = {0, 1, 3, 12}
    BY <1>2, <2>1, <2>2
  <2> QED
    BY <1>3, <1>12, <2>3
<1>14. P(5) = {1, 2, 3, 4, 5, 6, 7, 8, 9, 11, 12}
  <2>1. {0, 1, 3, 12} \in Elem /\ {0, 1, 3, 12} \in SUBSET (0..15) /\ {1, 2, 3, 4, 5, 6, 7, 8, 9, 11, 12} \in SUBSET (0..15)
    BY <1>1 DEF Elem
  <2>2. \A j \in 0..15 : j \in Square({0, 1, 3, 12}) <=> j \in {1, 2, 3, 4, 5, 6, 7, 8, 9, 11, 12}
    BY <2>1, SquareBits DEF (+)
  <2>3. Square({0, 1, 3, 12}) = {1, 2, 3, 4, 5, 6, 7, 8, 9, 11, 12}
    BY <1>2, <2>1, <2>2
  <2> QED
    BY <1>3, <1>13, <2>3
<1>15. P(6) = {2, 5, 10, 11, 12, 14}
  <2>1. {1, 2, 3, 4, 5, 6, 7, 8, 9, 11, 12} \in Elem /\ {1, 2, 3, 4, 5, 6, 7, 8, 9, 11, 12} \in SUBSET (0..15) /\ {2, 5, 10, 11, 12, 14} \in SUBSET (0..15)
    BY <1>1 DEF Elem
  <2>2. \A j \in 0..15 : j \in Square({1, 2, 3, 4, 5, 6, 7, 8, 9, 11, 12}) <=> j \in {2, 5, 10, 11, 12, 14}
    BY <2>1, SquareBits DEF (+)
  <2>3. Square({1, 2, 3, 4, 5, 6, 7, 8, 9, 11, 12}) = {2, 5, 10, 11, 12, 14}
    BY <1>2, <2>1, <2>2
  <2> QED
    BY <1>3, <1>14, <2>3
<1>16. P(7) = {0, 1, 2, 6, 9, 10, 13, 14, 15}
  <2>1. {2, 5, 10, 11, 12, 14} \in Elem /\ {2, 5, 10, 11, 12, 14} \in SUBSET (0..15) /\ {0, 1, 2, 6, 9, 10, 13, 14, 15} \in SUBSET (0..15)
    BY <1>1 DEF Elem
  <2>2. \A j \in 0..15 : j \in Square({2, 5, 10, 11, 12, 14}) <=> j \in {0, 1, 2, 6, 9, 10, 13, 14, 15}
    BY <2>1, SquareBits DEF (+)
  <2>3. Square({2, 5, 10, 11, 12, 14}) = {0, 1, 2, 6, 9, 10, 13, 14, 15}
    BY <1>2, <2>1, <2>2
  <2> QED
    BY <1>3, <1>15, <2>3
<1>17. P(8) = {0, 1, 2, 3, 5, 8, 9, 11}
  <2>1. {0, 1, 2, 6, 9, 10, 13, 14, 15} \in Elem /\ {0, 1, 2, 6, 9, 10, 13, 14, 15} \in SUBSET (0..15) /\ {0, 1, 2, 3, 5, 8, 9, 11} \in SUBSET (0..15)
    BY <1>1 DEF Elem
  <2>2. \A j \in 0..15 : j \in Square({0, 1, 2, 6, 9, 10, 13, 14, 15}) <=> j \in {0, 1, 2, 3, 5, 8, 9, 11}
    BY <2>1, SquareBits DEF (+)
  <2>3. Square({0, 1, 2, 6, 9, 10, 13, 14, 15}) = {0, 1, 2, 3, 5, 8, 9, 11}
    BY <1>2, <2>1, <2>2
  <2> QED
    BY <1>3, <1>16, <2>3
<1>18. P(9) = {1, 2, 3, 4, 7, 9, 10, 12}
  <2>1. {0, 1, 2, 3, 5, 8, 9, 11} \in Elem /\ {0, 1, 2, 3, 5, 8, 9, 11} \in SUBSET (0..15) /\ {1, 2, 3, 4, 7, 9, 10, 12} \in SUBSET (0..15)
    BY <1>1 DEF Elem
  <2>2. \A j \in 0..15 : j \in Square({0, 1, 2, 3, 5, 8, 9, 11}) <=> j \in {1, 2, 3, 4, 7, 9, 10, 12}
    BY <2>1, SquareBits DEF (+)
  <2>3. Square({0, 1, 2, 3, 5, 8, 9, 11}) = {1, 2, 3, 4, 7, 9, 10, 12}
    BY <1>2, <2>1, <2>2
  <2> QED
    BY <1>3, <1>17, <2>3
<1>19. P(10) = {3, 4, 5, 6, 9, 11}
  <2>1. {1, 2, 3, 4, 7, 9, 10, 12} \in Elem /\ {1, 2, 3, 4, 7, 9, 10, 12} \in SUBSET (0..15) /\ {3, 4, 5, 6, 9, 11} \in SUBSET (0..15)
    BY <1>1 DEF Elem
  <2>2. \A j \in 0..15 : j \in Square({1, 2, 3, 4, 7, 9, 10, 12}) <=> j \in {3, 4, 5, 6, 9, 11}
    BY <2>1, SquareBits DEF (+)
  <2>3. Square({1, 2, 3, 4, 7, 9, 10, 12}) = {3, 4, 5, 6, 9, 11}
    BY <1>2, <2>1, <2>2
  <2> QED
    BY <1>3, <1>18, <2>3
<1>20. P(11) = {7, 8, 9, 10, 12}
  <2>1. {3, 4, 5, 6, 9, 11} \in Elem /\ {3, 4, 5, 6, 9, 11} \in SUBSET (0..15) /\ {7, 8, 9, 10, 12} \in SUBSET (0..15)
    BY <1>1 DEF Elem
  <2>2. \A j \in 0..15 : j \in Square({3, 4, 5, 6, 9, 11}) <=> j \in {7, 8, 9, 10, 12}
    BY <2>1, SquareBits DEF (+)
  <2>3. Square({3, 4, 5, 6, 9, 11}) = {7, 8, 9, 10, 12}
    BY <1>2, <2>1, <2>2
  <2> QED
    BY <1>3, <1>19, <2>3
<1>21. P(12) = {0, 1, 2, 5, 8, 9, 11, 12}
  <2>1. {7, 8, 9, 10, 12} \in Elem /\ {7, 8, 9, 10, 12} \in SUBSET (0..15) /\ {0, 1, 2, 5, 8, 9, 11, 12} \in SUBSET (0..15)
    BY <1>1 DEF Elem
  <2>2. \A j \in 0..15 : j \in Square({7, 8, 9, 10, 12}) <=> j \in {0, 1, 2, 5, 8, 9, 11, 12}
    BY <2>1, SquareBits DEF (+)
  <2>3. Square({7, 8, 9, 10, 12}) = {0, 1, 2, 5, 8, 9, 11, 12}
    BY <1>2, <2>1, <2>2
  <2> QED
    BY <1>3, <1>20, <2>3
<1>22. P(13) = {0, 2, 5, 6, 8, 10, 11}
  <2>1. {0, 1, 2, 5, 8, 9, 11, 12} \in Elem /\ {0, 1, 2, 5, 8, 9, 11, 12} \in SUBSET (0..15) /\ {0, 2, 5, 6, 8, 10, 11} \in SUBSET (0..15)
    BY <1>1 DEF Elem
  <2>2. \A j \in 0..15 : j \in Square({0, 1, 2, 5, 8, 9, 11, 12}) <=> j \in {0, 2, 5, 6, 8, 10, 11}
    BY <2>1, SquareBits DEF (+)
  <2>3. Square({0, 1, 2, 5, 8, 9, 11, 12}) = {0, 2, 5, 6, 8, 10, 11}
    BY <1>2, <2>1, <2>2
  <2> QED
    BY <1>3, <1>21, <2>3
<1>23. P(14) = {0, 2, 3, 6, 9, 10, 12, 14}
  <2>1. {0, 2, 5, 6, 8, 10, 11} \in Elem /\ {0, 2, 5, 6, 8, 10, 11} \in SUBSET (0..15) /\ {0, 2, 3, 6, 9, 10, 12, 14} \in SUBSET (0..15)
    BY <1>1 DEF Elem
  <2>2. \A j \in 0..15 : j \in Square({0, 2, 5, 6, 8, 10, 11}) <=> j \in {0, 2, 3, 6, 9, 10, 12, 14}
    BY <2>1, SquareBits DEF (+)
  <2>3. Square({0, 2, 5, 6, 8, 10, 11}) = {0, 2, 3, 6, 9, 10, 12, 14}
    BY <1>2, <2>1, <2>2
  <2> QED
    BY <1>3, <1>22, <2>3
<1>24. P(15) = {1, 2, 6, 7, 12, 13, 14, 15}
  <2>1. {0, 2, 3, 6, 9, 10, 12, 14} \in Elem /\ {0, 2, 3, 6, 9, 10, 12, 14} \in SUBSET (0..15) /\ {1, 2, 6, 7, 12, 13, 14, 15} \in SUBSET (0..15)
    BY <1>1 DEF Elem
  <2>2. \A j \in 0..15 : j \in Square({0, 2, 3, 6, 9, 10, 12, 14}) <=> j \in {1, 2, 6, 7, 12, 13, 14, 15}
    BY <2>1, SquareBits DEF (+)
  <2>3. Square({0, 2, 3, 6, 9, 10, 12, 14}) = {1, 2, 6, 7, 12, 13, 14, 15}
    BY <1>2, <2>1, <2>2
  <2> QED
    BY <1>3, <1>23, <2>3
<1>25. P(16) = {1}
  <2>1. {1, 2, 6, 7, 12, 13, 14, 15} \in Elem /\ {1, 2, 6, 7, 12, 13, 14, 15} \in SUBSET (0..15) /\ {1} \in SUBSET (0..15)
    BY <1>1 DEF Elem
  <2>2. \A j \in 0..15 : j \in Square({1, 2, 6, 7, 12, 13, 14, 15}) <=> j \in {1}
    BY <2>1, SquareBits DEF (+)
  <2>3. Square({1, 2, 6, 7, 12, 13, 14, 15}) = {1}
    BY <1>2, <2>1, <2>2
  <2> QED
    BY <1>3, <1>24, <2>3
<1> QED
  BY <1>1, <1>25 DEF P

\* Only zero and one are their own squares: the polynomial has one factor.
LEMMA Idempotents ==
  ASSUME CodeField, NEW a \in Elem, Square(a) = a PROVE a = {} \/ a = {0}
<1>1. Bits(Width) = 0..15
  BY CodeResidues DEF Bits
<1>2. \A k \in 1..15 : k \notin a
  BY SquareBits DEF (+)
<1>3. a \subseteq {0}
  BY <1>1, <1>2 DEF Elem
<1> QED
  BY <1>3

\* Powers by 2^i add up and multiply.
LEMMA Frobenius ==
  ASSUME NEW a \in Elem, NEW b \in Elem, NEW i \in 0..Width
  PROVE  /\ Power(Xor(a, b), TwoTo[i]) = Xor(Power(a, TwoTo[i]), Power(b, TwoTo[i]))
         /\ Power(Product(a, b), TwoTo[i]) = Product(Power(a, TwoTo[i]), Power(b, TwoTo[i]))
<1> DEFINE P(v, n) == Power(v, TwoTo[n])
           S == {n \in Nat : n <= Width =>
                   /\ P(Xor(a, b), n) = Xor(P(a, n), P(b, n))
                   /\ P(Product(a, b), n) = Product(P(a, n), P(b, n))}
<1>0. Xor(a, b) \in Elem /\ Product(a, b) \in Elem /\ Width \in Nat
  BY ElemWords, ProductBits, Widths
<1>1. ASSUME NEW v \in Elem
      PROVE  P(v, 0) = v /\ \A n \in 0..Width - 1 : P(v, n) \in Elem /\ P(v, n + 1) = Square(P(v, n))
  <2>1. Power(v, 0) = {0} /\ Power(v, 0 + 1) = Product(Power(v, 0), v)
    BY PowerLaws
  <2>2. P(v, 0) = v
    BY <2>1, ProductOne, TwoToLaws
  <2>3. ASSUME NEW n \in 0..Width - 1 PROVE P(v, n) \in Elem /\ P(v, n + 1) = Square(P(v, n))
    <3>1. TwoTo[n] \in Nat /\ TwoTo[n + 1] = TwoTo[n] + TwoTo[n]
      BY <1>0, TwoToLaws
    <3>2. Power(v, TwoTo[n]) \in Elem
      BY <3>1, PowerLaws
    <3>3. Power(v, TwoTo[n] + TwoTo[n]) = Product(Power(v, TwoTo[n]), Power(v, TwoTo[n]))
      BY <3>1, PowerAdd
    <3> QED
      BY <3>1, <3>2, <3>3 DEF Square
  <2> QED
    BY <2>2, <2>3
<1> HIDE DEF P
<1>2. 0 \in S
  BY <1>0, <1>1
<1>3. ASSUME NEW n \in Nat, n \in S PROVE n + 1 \in S
  <2> SUFFICES ASSUME n + 1 <= Width
               PROVE  /\ P(Xor(a, b), n + 1) = Xor(P(a, n + 1), P(b, n + 1))
                      /\ P(Product(a, b), n + 1) = Product(P(a, n + 1), P(b, n + 1))
    OBVIOUS
  <2> DEFINE u == P(a, n)
             v == P(b, n)
  <2>1. n \in 0..Width - 1
    BY <1>0
  <2>2. /\ u \in Elem /\ v \in Elem /\ P(a, n + 1) = Square(u) /\ P(b, n + 1) = Square(v)
        /\ P(Xor(a, b), n + 1) = Square(P(Xor(a, b), n))
        /\ P(Product(a, b), n + 1) = Square(P(Product(a, b), n))
    BY <1>0, <1>1, <2>1
  <2>3. P(Xor(a, b), n) = Xor(u, v) /\ P(Product(a, b), n) = Product(u, v)
    <3>1. n <= Width
      BY <1>0
    <3> QED
      BY <1>3, <3>1
  <2> HIDE DEF u, v
  <2>4. Square(Xor(u, v)) = Xor(Square(u), Square(v))
    BY <2>2, SquareXor
  <2>5. Product(Product(u, v), Product(u, v)) = Product(Product(u, u), Product(v, v))
    <3>1. Product(u, v) \in Elem /\ Product(u, u) \in Elem /\ Product(v, v) \in Elem
      BY ProductBits
    <3>2. Product(Product(u, v), Product(u, v)) = Product(u, Product(v, Product(u, v)))
      BY <2>2, <3>1, ProductAssociates
    <3>3. Product(v, Product(u, v)) = Product(Product(u, v), v)
      BY <2>2, <3>1, ProductCommutes
    <3>4. Product(Product(u, v), v) = Product(u, Product(v, v))
      BY <2>2, ProductAssociates
    <3>5. Product(u, Product(u, Product(v, v))) = Product(Product(u, u), Product(v, v))
      BY <2>2, <3>1, ProductAssociates
    <3> QED
      BY <3>2, <3>3, <3>4, <3>5
  <2> QED
    BY <2>2, <2>3, <2>4, <2>5 DEF Square
<1>4. i \in S
  <2> HIDE DEF S
  <2> QED
    BY <1>2, <1>3, Induction
<1> QED
  BY <1>0, <1>4 DEF P

LEMMA PowersOfOne == \A n \in Nat : Power({0}, n) = {0}
<1> DEFINE S == {n \in Nat : Power({0}, n) = {0}}
<1>1. 0 \in S
  BY PowerLaws, ElemWords
<1>2. ASSUME NEW n \in Nat, n \in S PROVE n + 1 \in S
  <2>1. {0} \in Elem /\ Power({0}, n) = {0}
    BY <1>2, ElemWords
  <2>2. Power({0}, n + 1) = Product({0}, {0})
    BY <2>1, PowerLaws
  <2> QED
    BY <2>1, <2>2, ProductOne
<1> HIDE DEF S
<1>3. \A n \in Nat : n \in S
  BY <1>1, <1>2, Induction
<1> QED
  BY <1>3 DEF S

\* Sixteen squarings give every element back.
LEMMA SquaresReturn ==
  ASSUME CodeField, NEW a \in Elem PROVE Power(a, TwoTo[Width]) = a
<1> DEFINE Z == {v \in Elem : Power(v, TwoTo[Width]) = v}
<1>1. Width \in 0..Width /\ Width = 16 /\ {1} \in Elem
  BY CodeResidues, Widths DEF Elem, Bits
<1>2. {} \in Z
  BY Exponents, PowerNothing, ElemWords
<1>3. ASSUME NEW k \in Bits(Width) PROVE {k} \in Z
  <2> DEFINE S == {n \in Nat : n < Width => {n} \in Z}
  <2>1. 0 \in S
    BY ElemWords, Exponents, PowersOfOne
  <2>2. ASSUME NEW n \in Nat, n \in S PROVE n + 1 \in S
    <3> SUFFICES ASSUME n + 1 < Width PROVE {n + 1} \in Z
      OBVIOUS
    <3>1. /\ n \in Bits(Width) /\ n + 1 \in Bits(Width) /\ 1 \in Bits(Width)
          /\ {n} \in Elem /\ {n + 1} \in Elem
      BY <1>1 DEF Bits, Elem
    <3>2. {n} \in Z
      BY <1>1, <2>2
    <3>3. Product({n}, {1}) = {n + 1}
      <4>1. Product({n}, {1}) = Red(Shl({n}, 1))
        BY <3>1, ProductBit
      <4>2. Shl({n}, 1) = {n + 1}
        BY ShlLaws
      <4> QED
        BY <3>1, <4>1, <4>2, RedIdentity
    <3>4. Power(Product({n}, {1}), TwoTo[Width])
            = Product(Power({n}, TwoTo[Width]), Power({1}, TwoTo[Width]))
      BY <1>1, <3>1, Frobenius
    <3> QED
      BY <3>1, <3>2, <3>3, <3>4, SquaresOfX
  <2> HIDE DEF S
  <2>3. k \in S /\ k \in Nat /\ k < Width
    BY <2>1, <2>2, Induction, Widths DEF Bits
  <2> QED
    BY <2>3 DEF S
<1>4. ASSUME NEW v \in Elem, NEW w \in Elem, v \in Z, w \in Z PROVE Xor(v, w) \in Z
  <2>1. Power(Xor(v, w), TwoTo[Width]) = Xor(Power(v, TwoTo[Width]), Power(w, TwoTo[Width]))
    BY <1>1, Frobenius
  <2> QED
    BY <1>4, <2>1, ElemWords
<1>5. \A v \in SUBSET Bits(Width) : v \in Z
  <2> HIDE DEF Z
  <2> QED
    BY <1>2, <1>3, <1>4, BitInduction, Widths DEF Elem
<1> QED
  BY <1>5 DEF Elem

\* POLY makes the 16-bit words a field.
THEOREM CodeIsField == CodeField => IsField
<1> SUFFICES ASSUME CodeField, NEW a \in Elem, a # {}
             PROVE  Power(a, TwoTo[Width] - 1) = {0}
  BY DEF IsField
<1> DEFINE k == TwoTo[Width] - 2
           e == Power(a, k + 1)
<1>1. k \in Nat /\ TwoTo[Width] - 1 = k + 1 /\ TwoTo[Width] = (k + 1) + 1
  BY Exponents
<1>2. Power(a, (k + 1) + 1) = a
  BY <1>1, SquaresReturn
<1> HIDE DEF k
<1>3. e \in Elem /\ Product(e, a) = a
  BY <1>1, <1>2, PowerLaws
<1>4. Square(e) = e
  <2>1. (k + 1) + (k + 1) = k + ((k + 1) + 1) /\ k + 1 \in Nat /\ (k + 1) + 1 \in Nat
    BY <1>1
  <2>2. Power(a, (k + 1) + (k + 1)) = Product(e, e)
    BY <2>1, PowerAdd
  <2>3. Power(a, k + ((k + 1) + 1)) = Product(Power(a, k), Power(a, (k + 1) + 1))
    BY <1>1, <2>1, PowerAdd
  <2>4. Power(a, k + 1) = Product(Power(a, k), a)
    BY <1>1, PowerLaws
  <2> QED
    BY <1>2, <2>1, <2>2, <2>3, <2>4 DEF Square
<1> HIDE DEF e
<1>5. e = {} \/ e = {0}
  BY <1>3, <1>4, Idempotents
<1>6. e # {}
  BY <1>3, ProductNothing
<1> QED
  BY <1>1, <1>5, <1>6 DEF e

\* In a field, and so in the code's, gf_div undoes the product by anything but
\* zero, and a division by zero gives zero (gf.rs:128-144).
THEOREM TheoremDivisionInverts ==
  ASSUME IsField PROVE LadderSpec => []DivisionInverts
<1>1. LadderInv => DivisionInverts
  BY LadderDivides
<1> QED
  BY <1>1, LadderInvInit, LadderInvStep, PTL DEF LadderSpec

-----------------------------------------------------------------------------
(* The field, written with the code's operations.                          *)

LEMMA FieldType ==
  /\ Zero \in Elem /\ One \in Elem
  /\ \A a, b \in Elem : gf_add(a, b) \in Elem
  /\ \A a, b \in Elem : gf_mul(a, b) \in Elem
<1>1. Zero \in Elem /\ One \in Elem
  BY ElemWords DEF Zero, One
<1>2. \A a, b \in Elem : gf_add(a, b) \in Elem
  BY ElemWords DEF gf_add
<1>3. \A a, b \in Elem : gf_mul(a, b) \in Elem
  BY GfMul, ProductBits
<1> QED
  BY <1>1, <1>2, <1>3

LEMMA FieldUnits ==
  \A a \in Elem : /\ gf_add(a, Zero) = a /\ gf_add(Zero, a) = a /\ gf_add(a, a) = Zero
                  /\ gf_mul(a, Zero) = Zero /\ gf_mul(Zero, a) = Zero
                  /\ gf_mul(a, One) = a /\ gf_mul(One, a) = a
<1> SUFFICES ASSUME NEW a \in Elem
             PROVE  /\ gf_add(a, Zero) = a /\ gf_add(Zero, a) = a /\ gf_add(a, a) = Zero
                    /\ gf_mul(a, Zero) = Zero /\ gf_mul(Zero, a) = Zero
                    /\ gf_mul(a, One) = a /\ gf_mul(One, a) = a
  OBVIOUS
<1>1. gf_add(a, Zero) = a /\ gf_add(Zero, a) = a /\ gf_add(a, a) = Zero
  BY XorLaws DEF gf_add, Zero
<1>2. gf_mul(a, Zero) = Zero /\ gf_mul(Zero, a) = Zero
  <2>1. gf_mul(a, Zero) = Product(a, Zero) /\ gf_mul(Zero, a) = Product(Zero, a)
    BY FieldType, GfMul
  <2> QED
    BY <2>1, ProductNothing DEF Zero
<1>3. gf_mul(a, One) = a /\ gf_mul(One, a) = a
  BY FieldType, GfMul, ProductOne DEF One
<1> QED
  BY <1>1, <1>2, <1>3

LEMMA Commutes ==
  ASSUME NEW a \in Elem, NEW b \in Elem
  PROVE  gf_add(a, b) = gf_add(b, a) /\ gf_mul(a, b) = gf_mul(b, a)
BY XorLaws, GfMul, ProductCommutes DEF gf_add

LEMMA AddAssociates ==
  ASSUME NEW a \in Elem, NEW b \in Elem, NEW c \in Elem
  PROVE  gf_add(gf_add(a, b), c) = gf_add(a, gf_add(b, c))
BY XorLaws DEF gf_add

LEMMA MulAssociates ==
  ASSUME NEW a \in Elem, NEW b \in Elem, NEW c \in Elem
  PROVE  gf_mul(gf_mul(a, b), c) = gf_mul(a, gf_mul(b, c))
BY GfMul, ProductBits, ProductAssociates

LEMMA Distributes ==
  ASSUME NEW a \in Elem, NEW b \in Elem, NEW c \in Elem
  PROVE  /\ gf_mul(a, gf_add(b, c)) = gf_add(gf_mul(a, b), gf_mul(a, c))
         /\ gf_mul(gf_add(b, c), a) = gf_add(gf_mul(b, a), gf_mul(c, a))
<1>1. gf_add(b, c) \in Elem
  BY FieldType
<1> QED
  BY <1>1, GfMul, ProductXor DEF gf_add

\* Sums of four in another order.
LEMMA AddSwaps ==
  ASSUME NEW a \in Elem, NEW b \in Elem, NEW c \in Elem, NEW d \in Elem
  PROVE  gf_add(gf_add(a, b), gf_add(c, d)) = gf_add(gf_add(a, c), gf_add(b, d))
BY DEF gf_add, Xor

LEMMA AddCancels ==
  ASSUME NEW a \in Elem, NEW b \in Elem
  PROVE  /\ gf_add(a, b) = Zero <=> a = b
         /\ gf_add(gf_add(a, b), b) = a
BY XorEqual, XorLaws DEF gf_add, Zero, Xor

LEMMA NoZeroDivisors ==
  ASSUME IsField, NEW a \in Elem, NEW b \in Elem, gf_mul(a, b) = Zero
  PROVE  a = Zero \/ b = Zero
<1> SUFFICES ASSUME a # Zero PROVE b = Zero
  OBVIOUS
<1> DEFINE k == TwoTo[Width] - 2
<1>1. k \in Nat /\ TwoTo[Width] - 1 = k + 1
  BY Exponents
<1> HIDE DEF k
<1>2. Power(a, k) \in Elem /\ Product(Power(a, k), a) = {0}
  BY <1>1, PowerLaws DEF IsField, Zero
<1>3. Product(Product(Power(a, k), a), b) = Product(Power(a, k), Product(a, b))
  BY <1>2, ProductAssociates
<1>4. Product(a, b) = {}
  BY GfMul DEF Zero
<1> QED
  BY <1>2, <1>3, <1>4, ProductOne, ProductNothing DEF Zero

LEMMA DivisionUndone ==
  ASSUME IsField, NEW n \in Elem, NEW d \in Elem, d # Zero
  PROVE  gf_div(n, d) \in Elem /\ gf_mul(d, gf_div(n, d)) = n
<1>1. gf_div(n, d) \in Elem /\ Product(gf_div(n, d), d) = n
  BY Division DEF Zero
<1> QED
  BY <1>1, GfMul, ProductCommutes

-----------------------------------------------------------------------------
(* Arrays of field elements and their sums.                                *)

Array(c, n) == \A k \in 0..n - 1 : c[k] \in Elem

\* s runs through the sums of f up to n.
SumsTo(s, f, n) == s[0] = Zero /\ \A k \in 0..n - 1 : s[k + 1] = gf_add(s[k], f[k])

LEMMA GfSumRuns ==
  ASSUME NEW n \in Nat, NEW f, Array(f, n)
  PROVE  \E s : SumsTo(s, f, n) /\ GfSum(f, n) = s[n]
<1> DEFINE step == [i \in 0..n - 1 |-> [v \in Elem |-> gf_add(v, f[i])]]
<1>1. n \in Nat /\ Zero \in Elem
  BY FieldType
<1>2. step \in Steps(n, Elem)
  BY FieldType DEF Steps, Array
<1>3. PICK g : Iterates(g, n, Elem, Zero, step)
  <2> HIDE DEF step
  <2> QED
    BY <1>1, <1>2, Recursion, Zenon
<1>4. g \in [0..n -> Elem] /\ g[0] = Zero
  BY <1>3, Zenon DEF Iterates
<1>5. ASSUME NEW k \in 0..n
      PROVE  g[k] = IF k = 0 THEN Zero ELSE gf_add(g[k - 1], f[k - 1])
  <2>1. CASE k = 0
    BY <1>4, <2>1
  <2>2. CASE k # 0
    <3>1. k - 1 \in 0..n - 1 /\ (k - 1) + 1 = k /\ k - 1 \in 0..n
      BY <2>2
    <3>2. g[(k - 1) + 1] = step[k - 1][g[k - 1]]
      BY <1>3, <3>1, Zenon DEF Iterates
    <3>3. g[k - 1] \in Elem
      BY <1>4, <3>1
    <3>4. step[k - 1][g[k - 1]] = gf_add(g[k - 1], f[k - 1])
      BY <3>1, <3>3
    <3> QED
      BY <2>2, <3>1, <3>2, <3>4
  <2> QED
    BY <2>1, <2>2
<1>6. g = [k \in 0..n |-> IF k = 0 THEN Zero ELSE gf_add(g[k - 1], f[k - 1])]
  <2>1. g = [k \in 0..n |-> g[k]]
    BY <1>4
  <2> QED
    BY <1>5, <2>1, Zenon
<1>7. PICK s : /\ s = [k \in 0..n |-> IF k = 0 THEN Zero ELSE gf_add(s[k - 1], f[k - 1])]
               /\ GfSum(f, n) = s[n]
  BY <1>6, Zenon DEF GfSum
<1>8. ASSUME NEW k \in 0..n PROVE s[k] = IF k = 0 THEN Zero ELSE gf_add(s[k - 1], f[k - 1])
  BY <1>7, Zenon
<1>9. ASSUME NEW i \in 0..n - 1 PROVE s[i + 1] = gf_add(s[i], f[i])
  <2>1. i + 1 \in 0..n /\ i + 1 # 0 /\ (i + 1) - 1 = i
    OBVIOUS
  <2> QED
    BY <1>8, <2>1
<1>10. s[0] = Zero
  BY <1>8
<1> QED
  BY <1>7, <1>9, <1>10, Zenon DEF SumsTo

\* Two arrays that agree below n have the same sums.
LEMMA GfSumSame ==
  ASSUME NEW n \in Nat, NEW f, NEW g,
         \A k \in 0..n - 1 : f[k] = g[k],
         NEW s, NEW t, SumsTo(s, f, n), SumsTo(t, g, n)
  PROVE  s[n] = t[n]
<1> DEFINE S == {k \in Nat : k <= n => s[k] = t[k]}
<1>1. 0 \in S
  BY DEF SumsTo
<1>2. ASSUME NEW k \in Nat, k \in S PROVE k + 1 \in S
  <2> SUFFICES ASSUME k + 1 <= n PROVE s[k + 1] = t[k + 1]
    OBVIOUS
  <2>1. k \in 0..n - 1 /\ s[k] = t[k]
    BY <1>2
  <2> QED
    BY <2>1 DEF SumsTo
<1> HIDE DEF S
<1>3. n \in S
  BY <1>1, <1>2, Induction
<1> QED
  BY <1>3 DEF S

LEMMA GfSumNext ==
  ASSUME NEW n \in Nat, NEW f, Array(f, n + 1)
  PROVE  GfSum(f, 0) = Zero /\ GfSum(f, n + 1) = gf_add(GfSum(f, n), f[n])
<1>1. Array(f, n) /\ Array(f, 0) /\ n + 1 \in Nat
  BY DEF Array
<1>2. PICK s : SumsTo(s, f, n) /\ GfSum(f, n) = s[n]
  BY <1>1, GfSumRuns
<1>3. PICK t : SumsTo(t, f, n + 1) /\ GfSum(f, n + 1) = t[n + 1]
  BY <1>1, GfSumRuns
<1>4. s[n] = t[n]
  <2>1. SumsTo(t, f, n)
    BY <1>3 DEF SumsTo
  <2> QED
    BY <1>2, <2>1, GfSumSame
<1>5. GfSum(f, 0) = Zero
  BY <1>1, GfSumRuns DEF SumsTo
<1> QED
  BY <1>2, <1>3, <1>4, <1>5 DEF SumsTo

LEMMA GfSumEqual ==
  ASSUME NEW n \in Nat, NEW f, NEW g, Array(f, n), \A k \in 0..n - 1 : f[k] = g[k]
  PROVE  GfSum(f, n) = GfSum(g, n)
<1>1. Array(g, n)
  BY DEF Array
<1>2. PICK s : SumsTo(s, f, n) /\ GfSum(f, n) = s[n]
  BY GfSumRuns
<1>3. PICK t : SumsTo(t, g, n) /\ GfSum(g, n) = t[n]
  BY <1>1, GfSumRuns
<1> QED
  BY <1>2, <1>3, GfSumSame

LEMMA GfSumType ==
  ASSUME NEW n \in Nat, NEW f, Array(f, n) PROVE GfSum(f, n) \in Elem
<1> DEFINE S == {k \in Nat : k <= n => GfSum(f, k) \in Elem}
<1>1. 0 \in S
  <2>1. Array(f, 0)
    BY DEF Array
  <2>2. GfSum(f, 0) = Zero
    BY <2>1, GfSumRuns DEF SumsTo
  <2> QED
    BY <2>2, FieldType, FieldUnits
<1>2. ASSUME NEW k \in Nat, k \in S PROVE k + 1 \in S
  <2> SUFFICES ASSUME k + 1 <= n PROVE GfSum(f, k + 1) \in Elem
    OBVIOUS
  <2>1. Array(f, k + 1) /\ f[k] \in Elem /\ GfSum(f, k) \in Elem
    BY <1>2 DEF Array
  <2> QED
    <3>1. GfSum(f, k + 1) = gf_add(GfSum(f, k), f[k])
      BY <2>1, GfSumNext
    <3> QED
      BY <2>1, <3>1, FieldType, FieldUnits
<1> HIDE DEF S
<1>3. n \in S
  BY <1>1, <1>2, Induction
<1> QED
  BY <1>3 DEF S

\* Sums are linear.
LEMMA GfSumLinear ==
  ASSUME NEW n \in Nat, NEW f, NEW g, NEW h, NEW x \in Elem, Array(f, n), Array(g, n),
         \A k \in 0..n - 1 : h[k] = gf_add(gf_mul(f[k], x), g[k])
  PROVE  GfSum(h, n) = gf_add(gf_mul(GfSum(f, n), x), GfSum(g, n))
<1> DEFINE S == {k \in Nat : k <= n =>
                   GfSum(h, k) = gf_add(gf_mul(GfSum(f, k), x), GfSum(g, k))}
<1>0. Array(h, n)
  <2> SUFFICES ASSUME NEW k \in 0..n - 1 PROVE h[k] \in Elem
    BY DEF Array
  <2>1. f[k] \in Elem /\ g[k] \in Elem /\ h[k] = gf_add(gf_mul(f[k], x), g[k])
    BY DEF Array
  <2>2. gf_mul(f[k], x) \in Elem
    BY <2>1, FieldType, FieldUnits
  <2> QED
    BY <2>1, <2>2, FieldType, FieldUnits
<1>1. 0 \in S
  <2>1. Array(f, 0) /\ Array(g, 0) /\ Array(h, 0)
    BY DEF Array
  <2>2. GfSum(f, 0) = Zero /\ GfSum(g, 0) = Zero /\ GfSum(h, 0) = Zero
    BY <2>1, GfSumRuns DEF SumsTo
  <2> QED
    BY <2>2, FieldType, FieldUnits
<1>2. ASSUME NEW k \in Nat, k \in S PROVE k + 1 \in S
  <2> SUFFICES ASSUME k + 1 <= n
               PROVE  GfSum(h, k + 1) = gf_add(gf_mul(GfSum(f, k + 1), x), GfSum(g, k + 1))
    OBVIOUS
  <2> DEFINE F == GfSum(f, k)
             G == GfSum(g, k)
  <2>1. /\ Array(f, k + 1) /\ Array(g, k + 1) /\ Array(h, k + 1) /\ Array(f, k) /\ Array(g, k)
        /\ f[k] \in Elem /\ g[k] \in Elem /\ h[k] = gf_add(gf_mul(f[k], x), g[k])
    BY <1>0 DEF Array
  <2>2. F \in Elem /\ G \in Elem
    BY <2>1, GfSumType
  <2>3. GfSum(h, k) = gf_add(gf_mul(F, x), G)
    BY <1>2
  <2>4. /\ GfSum(h, k + 1) = gf_add(GfSum(h, k), h[k])
        /\ GfSum(f, k + 1) = gf_add(F, f[k])
        /\ GfSum(g, k + 1) = gf_add(G, g[k])
    BY <2>1, GfSumNext
  <2> HIDE DEF F, G
  <2>5. gf_mul(F, x) \in Elem /\ gf_mul(f[k], x) \in Elem
    BY <2>1, <2>2, FieldType, FieldUnits
  <2>6. gf_mul(gf_add(F, f[k]), x) = gf_add(gf_mul(F, x), gf_mul(f[k], x))
    BY <2>1, <2>2, Distributes
  <2>7. gf_add(gf_add(gf_mul(F, x), G), gf_add(gf_mul(f[k], x), g[k]))
          = gf_add(gf_add(gf_mul(F, x), gf_mul(f[k], x)), gf_add(G, g[k]))
    BY <2>1, <2>2, <2>5, AddSwaps
  <2> QED
    BY <2>1, <2>3, <2>4, <2>6, <2>7
<1> HIDE DEF S
<1>3. n \in S
  BY <1>1, <1>2, Induction
<1> QED
  BY <1>3 DEF S

\* A sum with one term.
LEMMA GfSumOne ==
  ASSUME NEW n \in Nat, NEW f, NEW m \in 0..n - 1, Array(f, n),
         \A k \in 0..n - 1 : k # m => f[k] = Zero
  PROVE  GfSum(f, n) = f[m]
<1> DEFINE S == {k \in Nat : k <= n => GfSum(f, k) = IF k > m THEN f[m] ELSE Zero}
<1>1. 0 \in S
  <2>1. Array(f, 0)
    BY DEF Array
  <2>2. GfSum(f, 0) = Zero
    BY <2>1, GfSumRuns DEF SumsTo
  <2> QED
    BY <2>2
<1>2. ASSUME NEW k \in Nat, k \in S PROVE k + 1 \in S
  <2> SUFFICES ASSUME k + 1 <= n
               PROVE  GfSum(f, k + 1) = IF k + 1 > m THEN f[m] ELSE Zero
    OBVIOUS
  <2>1. Array(f, k + 1) /\ f[k] \in Elem /\ f[m] \in Elem /\ k \in 0..n - 1
    BY DEF Array
  <2>2. GfSum(f, k + 1) = gf_add(GfSum(f, k), f[k])
    BY <2>1, GfSumNext
  <2>3. GfSum(f, k) = IF k > m THEN f[m] ELSE Zero
    BY <1>2
  <2>4. CASE k = m
    BY <2>1, <2>2, <2>3, <2>4, FieldType, FieldUnits
  <2>5. CASE k # m
    <3>1. f[k] = Zero
      BY <2>1, <2>5
    <3> QED
      BY <2>1, <2>2, <2>3, <2>5, <3>1, FieldType, FieldUnits
  <2> QED
    BY <2>4, <2>5
<1> HIDE DEF S
<1>3. n \in S
  BY <1>1, <1>2, Induction
<1> QED
  BY <1>3 DEF S

-----------------------------------------------------------------------------
(* Horner's rule.  Rest(c, n, x)[k] is the value at x of the coefficients  *)
(* of c from k up, divided by x^k.                                         *)

IsRest(t, c, n, x) ==
  t[n] = Zero /\ \A k \in 0..n - 1 : t[k] = gf_add(gf_mul(t[k + 1], x), c[k])

Rest(c, n, x) == CHOOSE t : IsRest(t, c, n, x)

LEMMA RestExists ==
  ASSUME NEW n \in Nat, NEW c, Array(c, n), NEW x \in Elem
  PROVE  \E t \in [0..n -> Elem] : IsRest(t, c, n, x)
<1> DEFINE step == [i \in 0..n - 1 |->
                      [v \in Elem |-> gf_add(gf_mul(v, x), c[(n - 1) - i])]]
<1>1. n \in Nat /\ Zero \in Elem
  BY FieldType
<1>2. step \in Steps(n, Elem)
  <2>1. \A i \in 0..n - 1 : c[(n - 1) - i] \in Elem
    BY DEF Array
  <2> QED
    BY <2>1, FieldType DEF Steps
<1>3. PICK g : Iterates(g, n, Elem, Zero, step)
  <2> HIDE DEF step
  <2> QED
    BY <1>1, <1>2, Recursion, Zenon
<1>4. g \in [0..n -> Elem] /\ g[0] = Zero
  BY <1>3, Zenon DEF Iterates
<1> DEFINE t == [k \in 0..n |-> g[n - k]]
<1>5. t \in [0..n -> Elem] /\ t[n] = Zero
  BY <1>4
<1>6. ASSUME NEW k \in 0..n - 1 PROVE t[k] = gf_add(gf_mul(t[k + 1], x), c[k])
  <2>1. /\ (n - 1) - k \in 0..n - 1 /\ ((n - 1) - k) + 1 = n - k /\ (n - 1) - k = n - (k + 1)
        /\ (n - 1) - ((n - 1) - k) = k /\ k \in 0..n /\ k + 1 \in 0..n
        /\ (n - 1) - k \in 0..n
    OBVIOUS
  <2>2. g[((n - 1) - k) + 1] = step[(n - 1) - k][g[(n - 1) - k]]
    BY <1>3, <2>1, Zenon DEF Iterates
  <2>3. g[(n - 1) - k] \in Elem
    BY <1>4, <2>1
  <2>4. step[(n - 1) - k][g[(n - 1) - k]]
          = gf_add(gf_mul(g[(n - 1) - k], x), c[(n - 1) - ((n - 1) - k)])
    BY <2>1, <2>3
  <2>5. t[k] = g[n - k] /\ t[k + 1] = g[n - (k + 1)]
    BY <2>1
  <2> QED
    BY <2>1, <2>2, <2>4, <2>5
<1> HIDE DEF t
<1> QED
  BY <1>5, <1>6 DEF IsRest

\* Descending induction.
LEMMA Descent ==
  ASSUME NEW n \in Nat, NEW S, n \in S, \A k \in 0..n - 1 : k + 1 \in S => k \in S
  PROVE  \A k \in 0..n : k \in S
<1> DEFINE T == {j \in Nat : j <= n => n - j \in S}
<1>1. 0 \in T
  OBVIOUS
<1>2. ASSUME NEW j \in Nat, j \in T PROVE j + 1 \in T
  <2> SUFFICES ASSUME j + 1 <= n PROVE n - (j + 1) \in S
    OBVIOUS
  <2>1. n - j \in S /\ n - (j + 1) \in 0..n - 1 /\ (n - (j + 1)) + 1 = n - j
    BY <1>2
  <2> QED
    BY <2>1
<1>3. \A j \in Nat : j \in T
  <2> HIDE DEF T
  <2> QED
    BY <1>1, <1>2, Induction
<1>4. ASSUME NEW k \in 0..n PROVE k \in S
  <2>1. n - k \in Nat /\ n - k <= n /\ n - (n - k) = k
    OBVIOUS
  <2> QED
    BY <1>3, <2>1
<1> QED
  BY <1>4

\* There is one such tail: whatever computes it computes Rest.
LEMMA RestUnique ==
  ASSUME NEW n \in Nat, NEW c, NEW d, NEW x, \A k \in 0..n - 1 : c[k] = d[k],
         NEW s, NEW t, IsRest(s, c, n, x), IsRest(t, d, n, x)
  PROVE  \A k \in 0..n : s[k] = t[k]
<1> DEFINE S == {k \in 0..n : s[k] = t[k]}
<1>1. n \in S
  BY DEF IsRest
<1>2. ASSUME NEW k \in 0..n - 1, k + 1 \in S PROVE k \in S
  BY <1>2 DEF IsRest
<1> HIDE DEF S
<1>3. \A k \in 0..n : k \in S
  BY <1>1, <1>2, Descent
<1> QED
  BY <1>3 DEF S

LEMMA RestLaws ==
  ASSUME NEW n \in Nat, NEW c, Array(c, n), NEW x \in Elem
  PROVE  /\ IsRest(Rest(c, n, x), c, n, x)
         /\ \A k \in 0..n : Rest(c, n, x)[k] \in Elem
<1>1. PICK t \in [0..n -> Elem] : IsRest(t, c, n, x)
  BY RestExists
<1>2. IsRest(Rest(c, n, x), c, n, x)
  BY <1>1, Zenon DEF Rest
<1>3. \A k \in 0..n : t[k] = Rest(c, n, x)[k]
  BY <1>1, <1>2, RestUnique
<1> QED
  BY <1>1, <1>2, <1>3

LEMMA PolyEval ==
  ASSUME NEW n \in Nat, NEW c, Array(c, n), NEW x \in Elem
  PROVE  poly_eval(c, n, x) = Rest(c, n, x)[0]
<1>1. PICK t \in [0..n -> Elem] : IsRest(t, c, n, x)
  BY RestExists
<1>2. ASSUME NEW i \in 0..n
      PROVE  t[i] = IF i = n THEN Zero ELSE gf_add(gf_mul(t[i + 1], x), c[i])
  BY <1>1 DEF IsRest
<1>3. t = [i \in 0..n |-> IF i = n THEN Zero ELSE gf_add(gf_mul(t[i + 1], x), c[i])]
  <2>1. t = [i \in 0..n |-> t[i]]
    BY <1>1
  <2> QED
    BY <1>2, <2>1, Zenon
<1>4. PICK out : /\ out = [i \in 0..n |-> IF i = n THEN Zero
                                          ELSE gf_add(gf_mul(out[i + 1], x), c[i])]
                 /\ poly_eval(c, n, x) = out[0]
  BY <1>3, Zenon DEF poly_eval
<1>5. ASSUME NEW i \in 0..n
      PROVE  out[i] = IF i = n THEN Zero ELSE gf_add(gf_mul(out[i + 1], x), c[i])
  BY <1>4, Zenon
<1>6. IsRest(out, c, n, x)
  BY <1>5 DEF IsRest
<1>7. out[0] = Rest(c, n, x)[0]
  BY <1>6, RestLaws, RestUnique
<1> QED
  BY <1>4, <1>7

\* Evaluation is linear and looks at the coefficients below n only.
Combines(h, c, m, d, n) == \A k \in 0..n - 1 : h[k] = gf_add(c[k], gf_mul(m, d[k]))

LEMMA RestLinear ==
  ASSUME NEW n \in Nat, NEW c, NEW d, NEW h, Array(c, n), Array(d, n), Array(h, n),
         NEW m \in Elem, NEW x \in Elem, Combines(h, c, m, d, n)
  PROVE  \A k \in 0..n :
           Rest(h, n, x)[k] = gf_add(Rest(c, n, x)[k], gf_mul(m, Rest(d, n, x)[k]))
<1> DEFINE C == Rest(c, n, x)
           D == Rest(d, n, x)
           H == Rest(h, n, x)
           S == {k \in 0..n : H[k] = gf_add(C[k], gf_mul(m, D[k]))}
<1>1. /\ IsRest(C, c, n, x) /\ IsRest(D, d, n, x) /\ IsRest(H, h, n, x)
      /\ \A k \in 0..n : C[k] \in Elem /\ D[k] \in Elem
  BY RestLaws
<1> HIDE DEF C, D, H
<1>2. n \in S
  BY <1>1, FieldType, FieldUnits DEF IsRest
<1>3. ASSUME NEW k \in 0..n - 1, k + 1 \in S PROVE k \in S
  <2> DEFINE u == C[k + 1]
             v == D[k + 1]
  <2>1. /\ H[k] = gf_add(gf_mul(H[k + 1], x), h[k])
        /\ C[k] = gf_add(gf_mul(u, x), c[k])
        /\ D[k] = gf_add(gf_mul(v, x), d[k])
        /\ h[k] = gf_add(c[k], gf_mul(m, d[k]))
        /\ H[k + 1] = gf_add(u, gf_mul(m, v))
    BY <1>1, <1>3 DEF IsRest, Combines
  <2>2. u \in Elem /\ v \in Elem /\ c[k] \in Elem /\ d[k] \in Elem
    BY <1>1 DEF Array
  <2> HIDE DEF u, v
  <2>3. /\ gf_mul(m, v) \in Elem /\ gf_mul(u, x) \in Elem /\ gf_mul(v, x) \in Elem
        /\ gf_mul(m, d[k]) \in Elem /\ gf_mul(gf_mul(m, v), x) \in Elem
    BY <2>2, FieldType
  <2>4. gf_mul(H[k + 1], x) = gf_add(gf_mul(u, x), gf_mul(gf_mul(m, v), x))
    BY <2>1, <2>2, <2>3, Distributes
  <2>5. gf_mul(gf_mul(m, v), x) = gf_mul(m, gf_mul(v, x))
    BY <2>2, MulAssociates
  <2>6. gf_mul(m, D[k]) = gf_add(gf_mul(m, gf_mul(v, x)), gf_mul(m, d[k]))
    BY <2>1, <2>2, <2>3, Distributes
  <2>7. gf_add(gf_add(gf_mul(u, x), gf_mul(m, gf_mul(v, x))), gf_add(c[k], gf_mul(m, d[k])))
          = gf_add(gf_add(gf_mul(u, x), c[k]), gf_add(gf_mul(m, gf_mul(v, x)), gf_mul(m, d[k])))
    BY <2>2, <2>3, <2>5, AddSwaps
  <2>8. H[k] = gf_add(C[k], gf_mul(m, D[k]))
    BY <2>1, <2>4, <2>5, <2>6, <2>7
  <2> QED
    BY <2>8
<1> HIDE DEF S
<1>4. \A k \in 0..n : k \in S
  BY <1>2, <1>3, Descent
<1> QED
  BY <1>4 DEF S, C, D, H

-----------------------------------------------------------------------------
(* The power table of compute_at.                                          *)

Terms(c, n, x) == [k \in 0..n - 1 |-> gf_mul(c[k], Power(x, k))]

LEMMA TermsSum ==
  ASSUME NEW n \in Nat, NEW c, Array(c, n), NEW x \in Elem
  PROVE  GfSum(Terms(c, n, x), n) = Rest(c, n, x)[0]
<1> DEFINE f == Terms(c, n, x)
           T == Rest(c, n, x)
           S == {k \in 0..n : gf_add(GfSum(f, k), gf_mul(T[k], Power(x, k))) = GfSum(f, n)}
<1>1. IsRest(T, c, n, x) /\ \A k \in 0..n : T[k] \in Elem
  BY RestLaws
<1>2. \A k \in 0..n : Power(x, k) \in Elem
  BY PowerLaws
<1>3. \A k \in 0..n - 1 : f[k] = gf_mul(c[k], Power(x, k)) /\ f[k] \in Elem
  BY <1>2, FieldType DEF Terms, Array
<1> HIDE DEF f, T
<1>4. \A k \in 0..n : Array(f, k) /\ GfSum(f, k) \in Elem
  <2> SUFFICES ASSUME NEW k \in 0..n PROVE Array(f, k) /\ GfSum(f, k) \in Elem
    OBVIOUS
  <2>1. Array(f, k)
    BY <1>3 DEF Array
  <2> QED
    BY <2>1, GfSumType
<1>5. n \in S
  BY <1>1, <1>2, <1>4, FieldUnits DEF IsRest
<1>6. ASSUME NEW k \in 0..n - 1, k + 1 \in S PROVE k \in S
  <2> DEFINE p == Power(x, k)
             u == T[k + 1]
  <2>1. /\ GfSum(f, k) \in Elem /\ GfSum(f, k + 1) = gf_add(GfSum(f, k), f[k])
        /\ f[k] = gf_mul(c[k], p) /\ c[k] \in Elem /\ f[k] \in Elem
    <3>1. Array(f, k + 1)
      BY <1>4
    <3> QED
      BY <1>3, <1>4, <3>1, GfSumNext DEF Array
  <2>2. T[k] = gf_add(gf_mul(u, x), c[k]) /\ u \in Elem
    BY <1>1 DEF IsRest
  <2>3. p \in Elem /\ Power(x, k + 1) = gf_mul(p, x)
    <3>1. p \in Elem /\ Power(x, k + 1) = Product(p, x)
      BY PowerLaws
    <3> QED
      BY <3>1, GfMul
  <2>4. gf_add(GfSum(f, k + 1), gf_mul(u, gf_mul(p, x))) = GfSum(f, n)
    BY <1>6, <2>3
  <2> HIDE DEF p, u
  <2>5. gf_mul(T[k], p) = gf_add(gf_mul(gf_mul(u, x), p), gf_mul(c[k], p))
    <3>1. gf_mul(u, x) \in Elem
      BY <2>2, <2>3, FieldType
    <3> QED
      BY <2>1, <2>2, <2>3, <3>1, Distributes
  <2>6. gf_mul(gf_mul(u, x), p) = gf_mul(u, gf_mul(p, x))
    BY <2>2, <2>3, MulAssociates, Commutes
  <2> DEFINE w == gf_mul(u, gf_mul(p, x))
  <2>7. w \in Elem
    BY <2>2, <2>3, FieldType
  <2> HIDE DEF w
  <2>8. gf_add(GfSum(f, k), gf_add(w, f[k])) = gf_add(gf_add(GfSum(f, k), f[k]), w)
    BY <2>1, <2>7, AddAssociates, Commutes
  <2>9. gf_add(GfSum(f, k), gf_mul(T[k], p)) = GfSum(f, n)
    BY <2>1, <2>4, <2>5, <2>6, <2>8 DEF w
  <2> QED
    BY <2>9 DEF p
<1> HIDE DEF S
<1>7. 0 \in S
  BY <1>5, <1>6, Descent
<1>8. GfSum(f, 0) = Zero
  <2>1. Array(f, 0)
    BY DEF Array
  <2> QED
    BY <2>1, GfSumRuns DEF SumsTo
<1>9. Power(x, 0) = One /\ T[0] \in Elem
  BY <1>1, PowerLaws DEF One
<1> QED
  BY <1>7, <1>8, <1>9, FieldUnits DEF S, f, T

LEMMA PowerHalves ==
  ASSUME NEW x \in Elem, NEW i \in Nat, i >= 2
  PROVE  /\ i \div 2 \in Nat /\ (i \div 2) + (i % 2) \in Nat
         /\ i \div 2 < i /\ (i \div 2) + (i % 2) < i
         /\ Power(x, i) = gf_mul(Power(x, i \div 2), Power(x, (i \div 2) + (i % 2)))
<1> DEFINE a == i \div 2
           b == (i \div 2) + (i % 2)
<1>1. a \in Nat /\ b \in Nat /\ a < i /\ b < i /\ a + b = i
  OBVIOUS
<1> HIDE DEF a, b
<1>2. Power(x, a + b) = Product(Power(x, a), Power(x, b))
  BY <1>1, PowerAdd
<1>3. Power(x, i) = gf_mul(Power(x, a), Power(x, b))
  BY <1>1, <1>2, PowerLaws, GfMul
<1> QED
  BY <1>1, <1>3 DEF a, b

LEMMA ComputeAt ==
  ASSUME NEW n \in 0..Cap + 1, NEW c, Array(c, n), NEW x \in Elem
  PROVE  compute_at(c, n, x) = Rest(c, n, x)[0]
<1>0. Cap \in Nat /\ Cap >= 1 /\ n \in Nat
  BY CodecAssumption
<1>1. Power(x, 0) = One /\ Power(x, 1) = x
  <2>1. Power(x, 0) = {0} /\ Power(x, 0 + 1) = Product(Power(x, 0), x)
    BY PowerLaws
  <2> QED
    BY <2>1, ProductOne DEF One
<1> DEFINE P == [i \in 0..Cap |-> Power(x, i)]
<1>2. ASSUME NEW i \in 0..Cap
      PROVE  P[i] = IF i = 0 THEN One ELSE IF i = 1 THEN x ELSE power(P, i, x)
  <2>1. CASE i = 0 \/ i = 1
    BY <1>1, <2>1
  <2>2. CASE i # 0 /\ i # 1
    <3>1. i \in Nat /\ i >= 2
      BY <2>2
    <3>2. i \div 2 \in 0..Cap /\ (i \div 2) + (i % 2) \in 0..Cap
      BY <1>0, <3>1, PowerHalves
    <3>3. Power(x, i) = gf_mul(Power(x, i \div 2), Power(x, (i \div 2) + (i % 2)))
      BY <3>1, PowerHalves
    <3>4. P[i \div 2] = Power(x, i \div 2)
      BY <3>2, Zenon
    <3>5. P[(i \div 2) + (i % 2)] = Power(x, (i \div 2) + (i % 2))
      BY <3>2, Zenon
    <3> HIDE DEF P
    <3>6. power(P, i, x) = Power(x, i)
      BY <3>3, <3>4, <3>5, Zenon DEF power
    <3> QED
      BY <2>2, <3>6 DEF P
  <2> QED
    BY <2>1, <2>2
<1>3. P = [i \in 0..Cap |-> IF i = 0 THEN One ELSE IF i = 1 THEN x ELSE power(P, i, x)]
  <2>1. P = [i \in 0..Cap |-> P[i]]
    OBVIOUS
  <2> HIDE DEF P
  <2> QED
    BY <1>2, <2>1, Zenon
<1> HIDE DEF P
<1> DEFINE powers == CHOOSE p : p = [i \in 0..Cap |-> IF i = 0 THEN One
                                       ELSE IF i = 1 THEN x ELSE power(p, i, x)]
<1>4. /\ powers = [i \in 0..Cap |-> IF i = 0 THEN One
                                      ELSE IF i = 1 THEN x ELSE power(powers, i, x)]
      /\ compute_at(c, n, x) = GfSum([k \in 0..n - 1 |-> gf_mul(c[k], powers[k])], n)
  <2>1. powers = [i \in 0..Cap |-> IF i = 0 THEN One
                                      ELSE IF i = 1 THEN x ELSE power(powers, i, x)]
    BY <1>3, Zenon
  <2>2. compute_at(c, n, x) = GfSum([k \in 0..n - 1 |-> gf_mul(c[k], powers[k])], n)
    BY Zenon DEF compute_at
  <2> QED
    BY <2>1, <2>2
<1> HIDE DEF powers
<1>5. ASSUME NEW i \in 0..Cap
      PROVE  powers[i] = IF i = 0 THEN One ELSE IF i = 1 THEN x ELSE power(powers, i, x)
  BY <1>4, Zenon
<1> DEFINE S == {m \in Nat : \A i \in 0..m : i <= Cap => powers[i] = Power(x, i)}
<1>6. 0 \in S
  BY <1>0, <1>1, <1>5
<1>7. ASSUME NEW m \in Nat, m \in S PROVE m + 1 \in S
  <2> SUFFICES ASSUME m + 1 <= Cap PROVE powers[m + 1] = Power(x, m + 1)
    BY <1>7
  <2>1. CASE m = 0
    BY <1>0, <1>1, <1>5, <2>1
  <2>2. CASE m # 0
    <3> DEFINE i == m + 1
               a == i \div 2
               b == (i \div 2) + (i % 2)
    <3>1. i \in 0..Cap /\ i \in Nat /\ i >= 2
      BY <1>0, <2>2
    <3>2. a \in 0..m /\ b \in 0..m /\ a <= Cap /\ b <= Cap
      BY <1>0, <3>1, PowerHalves
    <3>3. powers[a] = Power(x, a) /\ powers[b] = Power(x, b)
      BY <1>7, <3>2
    <3>4. Power(x, i) = gf_mul(Power(x, a), Power(x, b))
      BY <3>1, PowerHalves
    <3>5. powers[i] = power(powers, i, x)
      BY <1>5, <3>1
    <3>6. power(powers, i, x) = gf_mul(powers[a], powers[b])
      BY Zenon DEF power
    <3> QED
      BY <3>3, <3>4, <3>5, <3>6, Zenon
  <2> QED
    BY <2>1, <2>2
<1>8. \A k \in 0..n - 1 : powers[k] = Power(x, k)
  <2>1. \A m \in Nat : m \in S
    <3> HIDE DEF S
    <3> QED
      BY <1>6, <1>7, Induction
  <2> QED
    BY <1>0, <2>1
<1>9. [k \in 0..n - 1 |-> gf_mul(c[k], powers[k])] = Terms(c, n, x)
  BY <1>8 DEF Terms
<1> QED
  <2>1. compute_at(c, n, x) = GfSum(Terms(c, n, x), n)
    BY <1>4, <1>9, Zenon
  <2> QED
    BY <1>0, <2>1, TermsSum

-----------------------------------------------------------------------------
(* Multiplying by x + d and dividing by x + z.                             *)

\* Scaling a coefficient into the one below it does the same to the tails.
LEMMA RestStep ==
  ASSUME NEW n \in Nat, NEW c, NEW h, Array(c, n + 1), Array(h, n + 1),
         NEW d \in Elem, NEW x \in Elem, h[n] = c[n],
         \A k \in 0..n - 1 : h[k] = gf_add(c[k], gf_mul(c[k + 1], d))
  PROVE  \A k \in 0..n :
           Rest(h, n + 1, x)[k]
             = gf_add(Rest(c, n + 1, x)[k], gf_mul(d, Rest(c, n + 1, x)[k + 1]))
<1> DEFINE g == [k \in 0..n |-> IF k < n THEN c[k + 1] ELSE Zero]
           C == Rest(c, n + 1, x)
           G == Rest(g, n + 1, x)
<1>1. /\ n + 1 \in Nat /\ Array(g, n + 1)
      /\ \A k \in 0..n - 1 : g[k] = c[k + 1] /\ c[k + 1] \in Elem
      /\ g[n] = Zero /\ \A k \in 0..n : c[k] \in Elem /\ g[k] \in Elem
  <2>1. \A k \in 0..n : c[k] \in Elem
    BY DEF Array
  <2>2. Zero \in Elem
    BY FieldType
  <2>3. \A k \in 0..n : g[k] \in Elem
    BY <2>1, <2>2
  <2> QED
    BY <2>1, <2>3 DEF Array
<1> HIDE DEF g
<1>2. \A k \in 0..(n + 1) - 1 : h[k] = gf_add(c[k], gf_mul(d, g[k]))
  <2> SUFFICES ASSUME NEW k \in 0..n PROVE h[k] = gf_add(c[k], gf_mul(d, g[k]))
    OBVIOUS
  <2>1. CASE k = n
    BY <1>1, <2>1, FieldUnits
  <2>2. CASE k # n
    <3>1. k \in 0..n - 1
      BY <2>2
    <3>2. gf_mul(c[k + 1], d) = gf_mul(d, c[k + 1])
      BY <1>1, <3>1, Commutes
    <3> QED
      BY <1>1, <3>1, <3>2
  <2> QED
    BY <2>1, <2>2
<1>3. \A k \in 0..n + 1 : Rest(h, n + 1, x)[k] = gf_add(C[k], gf_mul(d, G[k]))
  <2> DEFINE l == n + 1
  <2>1. /\ l \in Nat /\ Array(c, l) /\ Array(g, l) /\ Array(h, l)
        /\ Combines(h, c, d, g, l)
    BY <1>1, <1>2 DEF Combines
  <2> HIDE DEF l
  <2>2. \A k \in 0..l : Rest(h, l, x)[k] = gf_add(Rest(c, l, x)[k], gf_mul(d, Rest(g, l, x)[k]))
    BY <2>1, RestLinear
  <2> QED
    BY <2>2 DEF l
<1>4. /\ IsRest(C, c, n + 1, x) /\ IsRest(G, g, n + 1, x)
      /\ \A k \in 0..n + 1 : C[k] \in Elem /\ G[k] \in Elem
  BY <1>1, RestLaws
<1> HIDE DEF C, G
<1> DEFINE S == {k \in 0..n : G[k] = C[k + 1]}
<1>5. n \in S
  <2>1. G[n] = gf_add(gf_mul(Zero, x), Zero) /\ C[n + 1] = Zero
    BY <1>1, <1>4 DEF IsRest
  <2> QED
    BY <2>1, FieldType, FieldUnits
<1>6. ASSUME NEW k \in 0..n - 1, k + 1 \in S PROVE k \in S
  <2>1. G[k] = gf_add(gf_mul(G[k + 1], x), g[k])
    BY <1>4 DEF IsRest
  <2>2. C[k + 1] = gf_add(gf_mul(C[(k + 1) + 1], x), c[k + 1])
    BY <1>4 DEF IsRest
  <2>3. G[k + 1] = C[(k + 1) + 1] /\ g[k] = c[k + 1]
    BY <1>1, <1>6
  <2>4. G[k] = C[k + 1]
    BY <2>1, <2>2, <2>3
  <2> QED
    BY <2>4
<1>7. \A k \in 0..n : k \in S
  <2> HIDE DEF S
  <2> QED
    BY <1>5, <1>6, Descent
<1> QED
  BY <1>3, <1>7 DEF C

\* The quotient of c, of degree n, by x + z: the tails of c at z.
Quotient(c, n, z) == [k \in 0..n - 1 |-> Rest(c, n + 1, z)[k + 1]]

LEMMA QuotientType ==
  ASSUME NEW n \in Nat, NEW c, Array(c, n + 1), NEW z \in Elem
  PROVE  Array(Quotient(c, n, z), n)
<1>1. \A k \in 0..n + 1 : Rest(c, n + 1, z)[k] \in Elem
  BY RestLaws
<1> QED
  BY <1>1 DEF Array, Quotient

LEMMA QuotientLaw ==
  ASSUME NEW n \in Nat, NEW c, Array(c, n + 1), NEW z \in Elem, NEW x \in Elem
  PROVE  \A k \in 0..n :
           gf_mul(gf_add(x, z), Rest(Quotient(c, n, z), n, x)[k])
             = gf_add(Rest(c, n + 1, x)[k], Rest(c, n + 1, z)[k])
<1> DEFINE A == Rest(c, n + 1, x)
           B == Rest(c, n + 1, z)
           q == Quotient(c, n, z)
           Q == Rest(q, n, x)
           S == {k \in 0..n : gf_mul(gf_add(x, z), Q[k]) = gf_add(A[k], B[k])}
<1>0. n + 1 \in Nat
  OBVIOUS
<1>1. /\ IsRest(A, c, n + 1, x) /\ IsRest(B, c, n + 1, z)
      /\ \A k \in 0..n + 1 : A[k] \in Elem /\ B[k] \in Elem
  BY <1>0, RestLaws
<1>2. IsRest(Q, q, n, x) /\ \A k \in 0..n : Q[k] \in Elem
  BY QuotientType, RestLaws
<1>3. \A k \in 0..n - 1 : q[k] = B[k + 1]
  BY DEF Quotient
<1> HIDE DEF A, B, q, Q
<1>4. n \in S
  <2>1. Q[n] = Zero /\ A[n + 1] = Zero /\ B[n + 1] = Zero
    BY <1>1, <1>2 DEF IsRest
  <2>2. A[n] = gf_add(gf_mul(A[n + 1], x), c[n]) /\ B[n] = gf_add(gf_mul(B[n + 1], z), c[n])
    BY <1>1 DEF IsRest
  <2>3. A[n] = B[n] /\ A[n] \in Elem
    BY <1>1, <2>1, <2>2, FieldUnits
  <2>4. gf_add(x, z) \in Elem
    BY FieldType
  <2> QED
    BY <2>1, <2>3, <2>4, FieldUnits
<1>5. ASSUME NEW k \in 0..n - 1, k + 1 \in S PROVE k \in S
  <2> DEFINE a == A[k + 1]
             b == B[k + 1]
             w == Q[k + 1]
             s == gf_add(x, z)
  <2>1. /\ A[k] = gf_add(gf_mul(a, x), c[k]) /\ B[k] = gf_add(gf_mul(b, z), c[k])
        /\ Q[k] = gf_add(gf_mul(w, x), b) /\ gf_mul(s, w) = gf_add(a, b)
    BY <1>1, <1>2, <1>3, <1>5 DEF IsRest
  <2>2. a \in Elem /\ b \in Elem /\ w \in Elem /\ s \in Elem /\ c[k] \in Elem
    BY <1>1, <1>2, FieldType DEF Array
  <2> HIDE DEF a, b, w
  <2>3. /\ gf_mul(w, x) \in Elem /\ gf_mul(a, x) \in Elem /\ gf_mul(b, x) \in Elem
        /\ gf_mul(b, z) \in Elem /\ gf_mul(x, b) \in Elem /\ gf_mul(z, b) \in Elem
    BY <2>2, FieldType
  <2>4. gf_mul(s, Q[k]) = gf_add(gf_mul(s, gf_mul(w, x)), gf_mul(s, b))
    BY <2>1, <2>2, <2>3, Distributes
  <2>5. gf_mul(s, gf_mul(w, x)) = gf_mul(gf_add(a, b), x)
    BY <2>1, <2>2, MulAssociates
  <2>6. gf_mul(gf_add(a, b), x) = gf_add(gf_mul(a, x), gf_mul(b, x))
    BY <2>2, Distributes
  <2>7. gf_mul(s, b) = gf_add(gf_mul(b, x), gf_mul(b, z))
    BY <2>2, Distributes, Commutes
  <2> DEFINE ax == gf_mul(a, x)
             bx == gf_mul(b, x)
             bz == gf_mul(b, z)
  <2>8. gf_mul(s, Q[k]) = gf_add(gf_add(ax, bx), gf_add(bx, bz))
    BY <2>4, <2>5, <2>6, <2>7
  <2>9. gf_add(A[k], B[k]) = gf_add(gf_add(ax, c[k]), gf_add(bz, c[k]))
    BY <2>1
  <2>10. gf_add(gf_add(ax, bx), gf_add(bx, bz)) = gf_add(gf_add(ax, c[k]), gf_add(bz, c[k]))
    <3> HIDE DEF ax, bx, bz
    <3> QED
      BY DEF gf_add, Xor
  <2>11. gf_mul(s, Q[k]) = gf_add(A[k], B[k])
    BY <2>8, <2>9, <2>10
  <2> QED
    BY <2>11
<1>6. \A k \in 0..n : k \in S
  <2> HIDE DEF S
  <2> QED
    BY <1>4, <1>5, Descent
<1> QED
  BY <1>6 DEF A, B, q, Q

-----------------------------------------------------------------------------
(* prepare: the product of x + xs[j] over the points, built from the top.  *)

Top(n) == [k \in 0..Cap |-> IF k = n THEN One ELSE Zero]

\* p runs through the arrays of prepare.
Prepares(p, xs, n) ==
  /\ p[0] = Top(n)
  /\ \A i \in 0..n - 1 : p[i + 1] = mult_xdiff_trailing(p[i], n + 1, n - i, xs[i])
  /\ \A i \in 0..n : p[i] \in Poly37

LEMMA MultType ==
  ASSUME NEW c \in Poly37, NEW n \in 0..Cap, NEW i \in 0..n - 1, NEW d \in Elem
  PROVE  mult_xdiff_trailing(c, n + 1, n - i, d) \in Poly37
<1>0. Cap \in Nat
  BY CodecAssumption
<1> DEFINE m == mult_xdiff_trailing(c, n + 1, n - i, d)
<1>1. m = [k \in 0..Cap |-> IF k \in (n - i) - 1..(n + 1) - 2
                              THEN gf_add(c[k], gf_mul(c[k + 1], d)) ELSE c[k]]
  BY DEF mult_xdiff_trailing
<1>2. ASSUME NEW k \in 0..Cap, k \in (n - i) - 1..(n + 1) - 2
      PROVE  gf_add(c[k], gf_mul(c[k + 1], d)) \in Elem
  <2>1. c[k] \in Elem /\ c[k + 1] \in Elem
    BY <1>0, <1>2 DEF Poly37
  <2>2. gf_mul(c[k + 1], d) \in Elem
    BY <2>1, FieldType
  <2> QED
    BY <2>1, <2>2, FieldType
<1>3. \A k \in 0..Cap : c[k] \in Elem
  BY DEF Poly37
<1> QED
  BY <1>1, <1>2, <1>3 DEF Poly37

LEMMA PrepareRuns ==
  ASSUME NEW n \in 0..Cap, NEW xs, Array(xs, n)
  PROVE  \E p : Prepares(p, xs, n) /\ prepare(xs, n) = p[n]
<1> DEFINE top == Top(n)
           step == [i \in 0..n - 1 |->
                      [c \in Poly37 |-> mult_xdiff_trailing(c, n + 1, n - i, xs[i])]]
<1>1. n \in Nat /\ Cap \in Nat /\ top \in Poly37
  BY CodecAssumption, FieldType DEF Top, Poly37
<1>2. step \in Steps(n, Poly37)
  BY MultType DEF Steps, Array
<1>3. PICK g : Iterates(g, n, Poly37, top, step)
  <2> HIDE DEF step, top
  <2> QED
    BY <1>1, <1>2, Recursion, Zenon
<1>4. g \in [0..n -> Poly37] /\ g[0] = Top(n)
  BY <1>3, Zenon DEF Iterates
<1>5. ASSUME NEW k \in 0..n
      PROVE  g[k] = IF k = 0 THEN Top(n)
                    ELSE mult_xdiff_trailing(g[k - 1], n + 1, n - (k - 1), xs[k - 1])
  <2>1. CASE k = 0
    BY <1>4, <2>1
  <2>2. CASE k # 0
    <3>1. k - 1 \in 0..n - 1 /\ (k - 1) + 1 = k /\ k - 1 \in 0..n
      BY <1>1, <2>2
    <3>2. g[(k - 1) + 1] = step[k - 1][g[k - 1]]
      BY <1>3, <3>1, Zenon DEF Iterates
    <3>3. g[k - 1] \in Poly37
      BY <1>4, <3>1
    <3>4. step[k - 1][g[k - 1]] = mult_xdiff_trailing(g[k - 1], n + 1, n - (k - 1), xs[k - 1])
      BY <3>1, <3>3
    <3> QED
      BY <2>2, <3>1, <3>2, <3>4
  <2> QED
    BY <2>1, <2>2
<1>6. g = [k \in 0..n |-> IF k = 0 THEN Top(n)
                          ELSE mult_xdiff_trailing(g[k - 1], n + 1, n - (k - 1), xs[k - 1])]
  <2>1. g = [k \in 0..n |-> g[k]]
    BY <1>4
  <2> QED
    BY <1>5, <2>1, Zenon
<1> DEFINE p == CHOOSE f : f =
                  [i \in 0..n |-> IF i = 0 THEN Top(n)
                     ELSE mult_xdiff_trailing(f[i - 1], n + 1, n - (i - 1), xs[i - 1])]
<1>7. p = [i \in 0..n |-> IF i = 0 THEN Top(n)
                     ELSE mult_xdiff_trailing(p[i - 1], n + 1, n - (i - 1), xs[i - 1])]
  BY <1>6, Zenon
<1>8. prepare(xs, n) = p[n]
  BY Zenon DEF prepare, Top
<1> HIDE DEF p
<1>9. ASSUME NEW k \in 0..n
      PROVE p[k] = IF k = 0 THEN Top(n)
                   ELSE mult_xdiff_trailing(p[k - 1], n + 1, n - (k - 1), xs[k - 1])
  BY <1>7, Zenon
<1>10. p[0] = Top(n)
  BY <1>1, <1>9
<1>11. ASSUME NEW i \in 0..n - 1
       PROVE p[i + 1] = mult_xdiff_trailing(p[i], n + 1, n - i, xs[i])
  <2>1. i + 1 \in 0..n /\ i + 1 # 0 /\ (i + 1) - 1 = i
    BY <1>1
  <2> QED
    BY <1>9, <2>1
<1>12. \A i \in 0..n : p[i] \in Poly37
  <2> DEFINE S == {i \in Nat : i <= n => p[i] \in Poly37}
  <2>1. 0 \in S
    BY <1>1, <1>10
  <2>2. ASSUME NEW i \in Nat, i \in S PROVE i + 1 \in S
    <3> SUFFICES ASSUME i + 1 <= n PROVE p[i + 1] \in Poly37
      OBVIOUS
    <3>1. i \in 0..n - 1 /\ p[i] \in Poly37 /\ xs[i] \in Elem
      BY <1>1, <2>2 DEF Array
    <3> QED
      BY <1>11, <3>1, MultType
  <2>3. \A i \in Nat : i \in S
    <3> HIDE DEF S
    <3> QED
      BY <2>1, <2>2, Induction
  <2> QED
    BY <1>1, <2>3
<1> QED
  BY <1>8, <1>10, <1>11, <1>12, Zenon DEF Prepares

\* Coefficients that no factor has reached are zero, so every step multiplies
\* the whole array.
LEMMA PrepareSteps ==
  ASSUME NEW n \in 0..Cap, NEW xs, Array(xs, n), NEW p, Prepares(p, xs, n)
  PROVE  /\ \A i \in 0..n : Array(p[i], n + 1)
         /\ \A i \in 0..n : \A k \in 0..(n - i) - 1 : p[i][k] = Zero
         /\ p[0][n] = One
         /\ \A i \in 0..n - 1 :
              /\ p[i + 1][n] = p[i][n]
              /\ \A k \in 0..n - 1 : p[i + 1][k] = gf_add(p[i][k], gf_mul(p[i][k + 1], xs[i]))
<1>0. Cap \in Nat /\ n \in Nat
  BY CodecAssumption
<1>1. \A i \in 0..n : \A k \in 0..n : p[i][k] \in Elem
  BY <1>0 DEF Prepares, Poly37
<1>2. ASSUME NEW i \in 0..n - 1, NEW k \in 0..n
      PROVE  p[i + 1][k] = IF k >= (n - i) - 1 /\ k < n
                             THEN gf_add(p[i][k], gf_mul(p[i][k + 1], xs[i])) ELSE p[i][k]
  <2>1. p[i + 1] = mult_xdiff_trailing(p[i], n + 1, n - i, xs[i])
    BY DEF Prepares
  <2>2. p[i + 1][k] = IF k \in (n - i) - 1..(n + 1) - 2
                      THEN gf_add(p[i][k], gf_mul(p[i][k + 1], xs[i])) ELSE p[i][k]
    BY <1>0, <2>1 DEF mult_xdiff_trailing
  <2> QED
    BY <1>0, <2>2
<1> DEFINE Low(i) == \A k \in 0..(n - i) - 1 : p[i][k] = Zero
           S == {i \in Nat : i <= n => Low(i)}
<1>3. 0 \in S
  <2>1. p[0] = Top(n)
    BY DEF Prepares
  <2>2. \A k \in 0..n - 1 : p[0][k] = Zero
    BY <1>0, <2>1 DEF Top
  <2> QED
    BY <1>0, <2>2
<1>4. ASSUME NEW i \in Nat, i \in S PROVE i + 1 \in S
  <2> SUFFICES ASSUME i + 1 <= n, NEW k \in 0..(n - (i + 1)) - 1 PROVE p[i + 1][k] = Zero
    OBVIOUS
  <2>1. i \in 0..n - 1 /\ k \in 0..n /\ ~(k >= (n - i) - 1) /\ k \in 0..(n - i) - 1
    BY <1>0
  <2>2. p[i][k] = Zero
    BY <1>0, <1>4, <2>1
  <2> QED
    BY <1>2, <2>1, <2>2
<1>5. \A i \in 0..n : Low(i)
  <2>1. \A i \in Nat : i \in S
    <3> HIDE DEF S
    <3> QED
      BY <1>3, <1>4, Induction
  <2> QED
    BY <1>0, <2>1
<1>6. ASSUME NEW i \in 0..n - 1, NEW k \in 0..n - 1
      PROVE  p[i + 1][k] = gf_add(p[i][k], gf_mul(p[i][k + 1], xs[i]))
  <2>1. CASE k >= (n - i) - 1
    BY <1>0, <1>2, <2>1
  <2>2. CASE ~(k >= (n - i) - 1)
    <3>1. k \in 0..(n - i) - 1 /\ k + 1 \in 0..(n - i) - 1 /\ i \in 0..n /\ k \in 0..n
      BY <1>0, <2>2
    <3>2. p[i][k] = Zero /\ p[i][k + 1] = Zero
      BY <1>5, <3>1
    <3>3. p[i + 1][k] = p[i][k]
      BY <1>2, <2>2, <3>1
    <3>4. xs[i] \in Elem
      BY DEF Array
    <3> QED
      BY <3>2, <3>3, <3>4, FieldType, FieldUnits
  <2> QED
    BY <2>1, <2>2
<1>7. \A i \in 0..n - 1 : p[i + 1][n] = p[i][n]
  BY <1>0, <1>2
<1>8. p[0][n] = One
  BY <1>0 DEF Prepares, Top
<1>9. \A i \in 0..n : Array(p[i], n + 1)
  BY <1>0, <1>1 DEF Array
<1> QED
  BY <1>5, <1>6, <1>7, <1>8, <1>9

-----------------------------------------------------------------------------
(* The product and its derivative at a point, one factor after another.    *)

Prod(p, n, z, i)  == Rest(p[i], n + 1, z)[n - i]
Deriv(p, n, z, i) == Rest(Quotient(p[i], n, z), n, z)[n - i]

LEMMA DiagonalType ==
  ASSUME NEW n \in 0..Cap, NEW xs, Array(xs, n), NEW p, Prepares(p, xs, n), NEW z \in Elem
  PROVE  \A i \in 0..n : Prod(p, n, z, i) \in Elem /\ Deriv(p, n, z, i) \in Elem
<1>0. Cap \in Nat /\ n \in Nat /\ n + 1 \in Nat
  BY CodecAssumption
<1> SUFFICES ASSUME NEW i \in 0..n
             PROVE  Prod(p, n, z, i) \in Elem /\ Deriv(p, n, z, i) \in Elem
  OBVIOUS
<1>1. Array(p[i], n + 1)
  BY PrepareSteps
<1>2. Array(Quotient(p[i], n, z), n)
  BY <1>0, <1>1, QuotientType
<1>3. n - i \in 0..n /\ n - i \in 0..n + 1
  BY <1>0
<1>4. Rest(p[i], n + 1, z)[n - i] \in Elem
  BY <1>0, <1>1, <1>3, RestLaws
<1>5. Rest(Quotient(p[i], n, z), n, z)[n - i] \in Elem
  BY <1>0, <1>2, <1>3, RestLaws
<1> QED
  BY <1>4, <1>5 DEF Prod, Deriv

LEMMA ProdSteps ==
  ASSUME NEW n \in 0..Cap, NEW xs, Array(xs, n), NEW p, Prepares(p, xs, n), NEW z \in Elem
  PROVE  /\ Prod(p, n, z, 0) = One
         /\ \A i \in 0..n - 1 :
              Prod(p, n, z, i + 1) = gf_mul(gf_add(z, xs[i]), Prod(p, n, z, i))
<1>0. Cap \in Nat /\ n \in Nat /\ n + 1 \in Nat
  BY CodecAssumption
<1>1. Prod(p, n, z, 0) = One
  <2> DEFINE T == Rest(p[0], n + 1, z)
  <2>1. Array(p[0], n + 1) /\ p[0][n] = One
    BY <1>0, PrepareSteps
  <2>2. IsRest(T, p[0], n + 1, z)
    BY <1>0, <2>1, RestLaws
  <2> HIDE DEF T
  <2>3. T[n] = gf_add(gf_mul(T[n + 1], z), p[0][n]) /\ T[n + 1] = Zero
    BY <1>0, <2>2 DEF IsRest
  <2>4. T[n] = One
    BY <2>1, <2>3, FieldType, FieldUnits
  <2> QED
    BY <1>0, <2>4 DEF T, Prod
<1>2. ASSUME NEW i \in 0..n - 1
      PROVE  Prod(p, n, z, i + 1) = gf_mul(gf_add(z, xs[i]), Prod(p, n, z, i))
  <2> DEFINE T == Rest(p[i], n + 1, z)
             U == Rest(p[i + 1], n + 1, z)
             k == (n - i) - 1
  <2>1. /\ Array(p[i], n + 1) /\ Array(p[i + 1], n + 1) /\ p[i + 1][n] = p[i][n]
        /\ \A l \in 0..n - 1 : p[i + 1][l] = gf_add(p[i][l], gf_mul(p[i][l + 1], xs[i]))
        /\ \A l \in 0..(n - i) - 1 : p[i][l] = Zero
    <3>1. i \in 0..n /\ i + 1 \in 0..n
      BY <1>0
    <3> QED
      BY <3>1, PrepareSteps
  <2>2. xs[i] \in Elem /\ k \in 0..n - 1 /\ k + 1 = n - i /\ k = n - (i + 1) /\ k \in 0..n
        /\ k \in 0..(n - i) - 1 /\ k + 1 \in 0..n + 1 /\ k \in 0..(n + 1) - 1
    BY <1>0 DEF Array
  <2>3. IsRest(T, p[i], n + 1, z) /\ \A l \in 0..n + 1 : T[l] \in Elem
    BY <1>0, <2>1, RestLaws
  <2>4. U[k] = gf_add(T[k], gf_mul(xs[i], T[k + 1]))
    <3>1. \A l \in 0..n : U[l] = gf_add(T[l], gf_mul(xs[i], T[l + 1]))
      BY <1>0, <2>1, <2>2, RestStep
    <3> HIDE DEF T, U
    <3> QED
      BY <2>2, <3>1
  <2>5. Prod(p, n, z, i) = T[k + 1] /\ Prod(p, n, z, i + 1) = U[k]
    BY <2>2 DEF Prod
  <2> HIDE DEF T, U, k
  <2>6. T[k] = gf_add(gf_mul(T[k + 1], z), p[i][k]) /\ p[i][k] = Zero /\ T[k + 1] \in Elem
    BY <2>1, <2>2, <2>3 DEF IsRest
  <2>7. T[k] = gf_mul(z, T[k + 1])
    <3>1. gf_mul(T[k + 1], z) \in Elem
      BY <2>6, FieldType
    <3> QED
      BY <2>6, <3>1, FieldUnits, Commutes
  <2>8. gf_mul(gf_add(z, xs[i]), T[k + 1]) = gf_add(gf_mul(z, T[k + 1]), gf_mul(xs[i], T[k + 1]))
    BY <2>2, <2>6, Distributes
  <2> QED
    BY <2>4, <2>5, <2>7, <2>8
<1> QED
  BY <1>1, <1>2

LEMMA DerivSteps ==
  ASSUME NEW n \in 0..Cap, NEW xs, Array(xs, n), NEW p, Prepares(p, xs, n), NEW z \in Elem
  PROVE  /\ Deriv(p, n, z, 0) = Zero
         /\ \A i \in 0..n - 1 :
              Deriv(p, n, z, i + 1) = gf_add(Prod(p, n, z, i),
                                             gf_mul(gf_add(z, xs[i]), Deriv(p, n, z, i)))
<1>0. Cap \in Nat /\ n \in Nat /\ n + 1 \in Nat
  BY CodecAssumption
<1>1. Deriv(p, n, z, 0) = Zero
  <2>1. Array(p[0], n + 1)
    BY <1>0, PrepareSteps
  <2>2. Array(Quotient(p[0], n, z), n)
    BY <1>0, <2>1, QuotientType
  <2>3. IsRest(Rest(Quotient(p[0], n, z), n, z), Quotient(p[0], n, z), n, z)
    BY <1>0, <2>2, RestLaws
  <2> QED
    BY <1>0, <2>3 DEF IsRest, Deriv
<1>2. ASSUME NEW i \in 0..n - 1
      PROVE  Deriv(p, n, z, i + 1) = gf_add(Prod(p, n, z, i),
                                            gf_mul(gf_add(z, xs[i]), Deriv(p, n, z, i)))
  <2> DEFINE T == Rest(p[i], n + 1, z)
             U == Rest(p[i + 1], n + 1, z)
             q == Quotient(p[i], n, z)
             r == Quotient(p[i + 1], n, z)
             Q == Rest(q, n, z)
             R == Rest(r, n, z)
             k == (n - i) - 1
             l == n - 1
  <2>0. xs[i] \in Elem /\ k \in 0..n - 1 /\ k + 1 = n - i /\ k = n - (i + 1) /\ k \in 0..n
        /\ k + 1 \in 0..n + 1 /\ k + 1 \in 0..n
        /\ l \in Nat /\ l + 1 = n /\ k \in 0..l
    BY <1>0 DEF Array
  <2>1. /\ Array(p[i], n + 1) /\ Array(p[i + 1], n + 1) /\ p[i + 1][n] = p[i][n]
        /\ \A m \in 0..n - 1 : p[i + 1][m] = gf_add(p[i][m], gf_mul(p[i][m + 1], xs[i]))
    <3>1. i \in 0..n /\ i + 1 \in 0..n
      BY <1>0
    <3> QED
      BY <3>1, PrepareSteps
  <2>2. \A m \in 0..n : U[m] = gf_add(T[m], gf_mul(xs[i], T[m + 1]))
    BY <1>0, <2>0, <2>1, RestStep
  <2>3. IsRest(T, p[i], n + 1, z) /\ \A m \in 0..n + 1 : T[m] \in Elem
    BY <1>0, <2>1, RestLaws
  <2>4. Array(q, n) /\ Array(r, n)
    BY <1>0, <2>1, QuotientType
  <2>5. IsRest(Q, q, n, z) /\ \A m \in 0..n : Q[m] \in Elem
    BY <1>0, <2>4, RestLaws
  <2>6. \A m \in 0..n - 1 : q[m] = T[m + 1] /\ r[m] = U[m + 1]
    BY DEF Quotient
  <2>7. Prod(p, n, z, i) = T[k + 1] /\ Deriv(p, n, z, i) = Q[k + 1] /\ Deriv(p, n, z, i + 1) = R[k]
    BY <2>0 DEF Prod, Deriv
  <2> HIDE DEF T, U, q, r, k, l
  <2>8. r[l] = q[l]
    <3>1. l \in 0..n - 1 /\ l + 1 \in 0..n /\ l + 1 \in 0..n + 1
      BY <2>0
    <3>2. r[l] = gf_add(T[l + 1], gf_mul(xs[i], T[(l + 1) + 1])) /\ q[l] = T[l + 1]
      BY <2>2, <2>6, <3>1
    <3>3. T[(l + 1) + 1] = Zero /\ T[l + 1] \in Elem
      BY <2>0, <2>3, <3>1 DEF IsRest
    <3> QED
      BY <2>0, <3>2, <3>3, FieldUnits
  <2>9. ASSUME NEW m \in 0..l - 1 PROVE r[m] = gf_add(q[m], gf_mul(q[m + 1], xs[i]))
    <3>1. m \in 0..n - 1 /\ m + 1 \in 0..n - 1 /\ m + 1 \in 0..n /\ (m + 1) + 1 \in 0..n + 1
      BY <2>0
    <3>2. r[m] = gf_add(T[m + 1], gf_mul(xs[i], T[(m + 1) + 1]))
      BY <2>2, <2>6, <3>1
    <3>3. q[m] = T[m + 1] /\ q[m + 1] = T[(m + 1) + 1] /\ q[m + 1] \in Elem
      BY <2>3, <2>6, <3>1
    <3> QED
      BY <2>0, <3>2, <3>3, Commutes
  <2>10. R[k] = gf_add(Q[k], gf_mul(xs[i], Q[k + 1]))
    <3>1. \A m \in 0..l : Rest(r, l + 1, z)[m]
                            = gf_add(Rest(q, l + 1, z)[m], gf_mul(xs[i], Rest(q, l + 1, z)[m + 1]))
      <4>1. Array(q, l + 1) /\ Array(r, l + 1)
        BY <2>0, <2>4
      <4> QED
        BY <2>0, <2>8, <2>9, <4>1, RestStep
    <3> QED
      BY <2>0, <3>1
  <2> HIDE DEF Q, R
  <2>11. Q[k] = gf_add(gf_mul(Q[k + 1], z), T[k + 1]) /\ Q[k + 1] \in Elem /\ T[k + 1] \in Elem
    BY <2>0, <2>3, <2>5, <2>6 DEF IsRest
  <2> DEFINE a == gf_mul(z, Q[k + 1])
             b == gf_mul(xs[i], Q[k + 1])
             t == T[k + 1]
  <2>12. a \in Elem /\ b \in Elem /\ t \in Elem /\ gf_mul(Q[k + 1], z) = a
    BY <2>0, <2>11, FieldType, Commutes
  <2>13. gf_mul(gf_add(z, xs[i]), Q[k + 1]) = gf_add(a, b)
    BY <2>0, <2>11, Distributes
  <2>14. Q[k] = gf_add(a, t) /\ R[k] = gf_add(gf_add(a, t), b)
    BY <2>10, <2>11, <2>12
  <2>15. gf_add(gf_add(a, t), b) = gf_add(t, gf_add(a, b))
    <3> HIDE DEF a, b, t
    <3> QED
      BY <2>12, Commutes, AddAssociates
  <2>16. R[k] = gf_add(t, gf_add(a, b))
    BY <2>14, <2>15
  <2> QED
    BY <2>7, <2>13, <2>16
<1> QED
  BY <1>1, <1>2

-----------------------------------------------------------------------------
(* denominator: the value of the derivative at a point.                    *)

\* d runs through the products of denominator.
Distances(d, xs, n, m) ==
  /\ d[0] = One
  /\ \A j \in 0..n : d[j] \in Elem
  /\ \A j \in 0..n - 1 :
       d[j + 1] = IF xs[m] # xs[j] THEN gf_mul(d[j], gf_add(xs[m], xs[j])) ELSE d[j]

LEMMA DenominatorRuns ==
  ASSUME NEW n \in Nat, NEW xs, Array(xs, n), NEW m \in 0..n - 1
  PROVE  \E d : Distances(d, xs, n, m) /\ denominator(xs, n, m) = d[n]
<1> DEFINE one  == One
           next(v, j) == IF xs[m] # xs[j] THEN gf_mul(v, gf_add(xs[m], xs[j])) ELSE v
           step == [j \in 0..n - 1 |-> [v \in Elem |-> next(v, j)]]
<1>1. n \in Nat /\ one \in Elem
  BY FieldType
<1>2. ASSUME NEW j \in 0..n - 1, NEW v \in Elem PROVE next(v, j) \in Elem
  <2>1. xs[m] \in Elem /\ xs[j] \in Elem
    BY DEF Array
  <2>2. gf_add(xs[m], xs[j]) \in Elem
    BY <2>1, FieldType
  <2>3. gf_mul(v, gf_add(xs[m], xs[j])) \in Elem
    BY <2>2, FieldType
  <2> QED
    BY <2>3
<1>3. step \in Steps(n, Elem)
  <2> HIDE DEF next
  <2> QED
    BY <1>2 DEF Steps
<1>4. PICK g : Iterates(g, n, Elem, one, step)
  <2> HIDE DEF step, one
  <2> QED
    BY <1>1, <1>3, Recursion, Zenon
<1>5. g \in [0..n -> Elem] /\ g[0] = One
  BY <1>4, Zenon DEF Iterates
<1>6. ASSUME NEW k \in 0..n
      PROVE  g[k] = IF k = 0 THEN One
                    ELSE IF xs[m] # xs[k - 1] THEN gf_mul(g[k - 1], gf_add(xs[m], xs[k - 1]))
                    ELSE g[k - 1]
  <2>1. CASE k = 0
    BY <1>5, <2>1
  <2>2. CASE k # 0
    <3>1. k - 1 \in 0..n - 1 /\ (k - 1) + 1 = k /\ k - 1 \in 0..n
      BY <1>1, <2>2
    <3>2. g[(k - 1) + 1] = step[k - 1][g[k - 1]]
      BY <1>4, <3>1, Zenon DEF Iterates
    <3>3. g[k - 1] \in Elem
      BY <1>5, <3>1
    <3>4. step[k - 1][g[k - 1]] = next(g[k - 1], k - 1)
      <4> HIDE DEF next
      <4> QED
        BY <3>1, <3>3
    <3> QED
      BY <2>2, <3>1, <3>2, <3>4
  <2> QED
    BY <2>1, <2>2
<1>7. g = [k \in 0..n |-> IF k = 0 THEN One
                    ELSE IF xs[m] # xs[k - 1] THEN gf_mul(g[k - 1], gf_add(xs[m], xs[k - 1]))
                    ELSE g[k - 1]]
  <2>1. g = [k \in 0..n |-> g[k]]
    BY <1>5
  <2> QED
    BY <1>6, <2>1, Zenon
<1>8. PICK d : /\ d = [k \in 0..n |-> IF k = 0 THEN One
                    ELSE IF xs[m] # xs[k - 1] THEN gf_mul(d[k - 1], gf_add(xs[m], xs[k - 1]))
                    ELSE d[k - 1]]
               /\ denominator(xs, n, m) = d[n]
  BY <1>7, Zenon DEF denominator
<1>9. ASSUME NEW k \in 0..n
      PROVE  d[k] = IF k = 0 THEN One
                    ELSE IF xs[m] # xs[k - 1] THEN gf_mul(d[k - 1], gf_add(xs[m], xs[k - 1]))
                    ELSE d[k - 1]
  BY <1>8, Zenon
<1>10. d[0] = One
  BY <1>1, <1>9
<1>11. ASSUME NEW j \in 0..n - 1 PROVE d[j + 1] = next(d[j], j)
  <2>1. j + 1 \in 0..n /\ j + 1 # 0 /\ (j + 1) - 1 = j
    BY <1>1
  <2> QED
    BY <1>9, <2>1
<1>12. \A j \in 0..n : d[j] \in Elem
  <2> DEFINE S == {j \in Nat : j <= n => d[j] \in Elem}
  <2>1. 0 \in S
    BY <1>1, <1>10
  <2>2. ASSUME NEW j \in Nat, j \in S PROVE j + 1 \in S
    <3> SUFFICES ASSUME j + 1 <= n PROVE d[j + 1] \in Elem
      OBVIOUS
    <3>1. j \in 0..n - 1 /\ d[j] \in Elem
      BY <1>1, <2>2
    <3> HIDE DEF next
    <3> QED
      BY <1>2, <1>11, <3>1
  <2>3. \A j \in Nat : j \in S
    <3> HIDE DEF S
    <3> QED
      BY <2>1, <2>2, Induction
  <2> QED
    BY <1>1, <2>3
<1> QED
  BY <1>8, <1>10, <1>11, <1>12, Zenon DEF Distances

\* The points are pairwise different.
Distinct(xs, n) == \A i, j \in 0..n - 1 : xs[i] = xs[j] => i = j

LEMMA DenominatorNonzero ==
  ASSUME IsField, NEW n \in Nat, NEW xs, Array(xs, n), NEW m \in 0..n - 1
  PROVE  denominator(xs, n, m) \in Elem \ {Zero}
<1>1. PICK d : Distances(d, xs, n, m) /\ denominator(xs, n, m) = d[n]
  BY DenominatorRuns
<1> DEFINE S == {j \in Nat : j <= n => d[j] # Zero}
<1>2. 0 \in S
  BY <1>1 DEF Distances, One, Zero
<1>3. ASSUME NEW j \in Nat, j \in S PROVE j + 1 \in S
  <2> SUFFICES ASSUME j + 1 <= n, d[j + 1] = Zero PROVE FALSE
    OBVIOUS
  <2>1. j \in 0..n - 1 /\ j \in 0..n /\ d[j] # Zero
    BY <1>3
  <2>2. /\ d[j + 1] = IF xs[m] # xs[j] THEN gf_mul(d[j], gf_add(xs[m], xs[j])) ELSE d[j]
        /\ d[j] \in Elem
    BY <1>1, <2>1 DEF Distances
  <2>3. xs[m] # xs[j] /\ gf_mul(d[j], gf_add(xs[m], xs[j])) = Zero
    BY <2>1, <2>2
  <2>4. xs[m] \in Elem /\ xs[j] \in Elem
    BY <2>1 DEF Array
  <2>5. gf_add(xs[m], xs[j]) \in Elem
    BY <2>4, FieldType
  <2>6. gf_add(xs[m], xs[j]) = Zero
    BY <2>1, <2>2, <2>3, <2>5, NoZeroDivisors
  <2> QED
    BY <2>3, <2>4, <2>6, AddCancels
<1>4. \A j \in Nat : j \in S
  <2> HIDE DEF S
  <2> QED
    BY <1>2, <1>3, Induction
<1>5. d[n] # Zero /\ d[n] \in Elem
  BY <1>1, <1>4 DEF Distances
<1> QED
  BY <1>1, <1>5

\* prepare vanishes at each of its points, and what is left of it there when
\* that point's own factor is divided out is the denominator.
LEMMA PrepareAtPoint ==
  ASSUME NEW n \in 0..Cap, NEW xs, Array(xs, n), Distinct(xs, n), NEW m \in 0..n - 1
  PROVE  /\ Array(prepare(xs, n), n + 1)
         /\ Rest(prepare(xs, n), n + 1, xs[m])[0] = Zero
         /\ Rest(Quotient(prepare(xs, n), n, xs[m]), n, xs[m])[0] = denominator(xs, n, m)
<1>0. Cap \in Nat /\ n \in Nat /\ xs[m] \in Elem /\ m \in Nat
  BY CodecAssumption DEF Array
<1>1. PICK p : Prepares(p, xs, n) /\ prepare(xs, n) = p[n]
  BY PrepareRuns
<1>2. PICK d : Distances(d, xs, n, m) /\ denominator(xs, n, m) = d[n]
  BY <1>0, DenominatorRuns
<1> DEFINE z == xs[m]
           T(i) == Prod(p, n, z, i)
           D(i) == Deriv(p, n, z, i)
<1>3. \A i \in 0..n : T(i) \in Elem /\ D(i) \in Elem
  BY <1>0, <1>1, DiagonalType
<1>4. T(0) = One /\ \A i \in 0..n - 1 : T(i + 1) = gf_mul(gf_add(z, xs[i]), T(i))
  BY <1>0, <1>1, ProdSteps
<1>5. \A i \in 0..n - 1 : D(i + 1) = gf_add(T(i), gf_mul(gf_add(z, xs[i]), D(i)))
  BY <1>0, <1>1, DerivSteps
<1> HIDE DEF T, D
<1> DEFINE S == {i \in Nat : i <= n => /\ i <= m => T(i) = d[i]
                                       /\ i > m => T(i) = Zero /\ D(i) = d[i]}
<1>6. 0 \in S
  BY <1>0, <1>2, <1>4 DEF Distances
<1>7. ASSUME NEW i \in Nat, i \in S PROVE i + 1 \in S
  <2> SUFFICES ASSUME i + 1 <= n
               PROVE  /\ i + 1 <= m => T(i + 1) = d[i + 1]
                      /\ i + 1 > m => T(i + 1) = Zero /\ D(i + 1) = d[i + 1]
    OBVIOUS
  <2>1. i \in 0..n - 1 /\ i \in 0..n /\ xs[i] \in Elem
    BY <1>0 DEF Array
  <2>2. /\ T(i + 1) = gf_mul(gf_add(z, xs[i]), T(i))
        /\ D(i + 1) = gf_add(T(i), gf_mul(gf_add(z, xs[i]), D(i)))
        /\ T(i) \in Elem /\ D(i) \in Elem
    BY <1>3, <1>4, <1>5, <2>1
  <2>3. /\ i # m => d[i + 1] = gf_mul(d[i], gf_add(z, xs[i]))
        /\ i = m => d[i + 1] = d[i]
        /\ d[i] \in Elem
    <3>1. /\ d[i + 1] = IF xs[m] # xs[i] THEN gf_mul(d[i], gf_add(xs[m], xs[i])) ELSE d[i]
          /\ d[i] \in Elem
      BY <1>2, <2>1 DEF Distances
    <3>2. i # m => xs[m] # xs[i]
      BY <2>1 DEF Distinct
    <3> QED
      BY <3>1, <3>2
  <2>4. gf_add(z, xs[i]) \in Elem
    BY <1>0, <2>1, FieldType
  <2>5. gf_mul(gf_add(z, xs[i]), d[i]) = gf_mul(d[i], gf_add(z, xs[i]))
    BY <2>3, <2>4, Commutes
  <2>6. CASE i < m
    <3>1. T(i) = d[i] /\ i # m /\ ~(i + 1 > m)
      BY <1>0, <1>7, <2>1, <2>6
    <3> QED
      BY <2>2, <2>3, <2>5, <3>1
  <2>7. CASE i = m
    <3>1. gf_add(z, xs[i]) = Zero /\ T(i) = d[i] /\ ~(i + 1 <= m)
      BY <1>0, <1>7, <2>1, <2>7, FieldUnits
    <3>2. T(i + 1) = Zero /\ D(i + 1) = T(i)
      BY <2>2, <3>1, FieldUnits
    <3> QED
      BY <2>3, <2>7, <3>1, <3>2
  <2>8. CASE i > m
    <3>1. T(i) = Zero /\ D(i) = d[i] /\ i # m /\ ~(i + 1 <= m)
      BY <1>0, <1>7, <2>1, <2>8
    <3>2. T(i + 1) = Zero
      BY <2>2, <2>4, <3>1, FieldUnits
    <3>3. gf_mul(gf_add(z, xs[i]), D(i)) \in Elem
      BY <2>2, <2>4, FieldType
    <3>4. D(i + 1) = gf_mul(gf_add(z, xs[i]), D(i))
      BY <2>2, <3>1, <3>3, FieldUnits
    <3> QED
      BY <2>3, <2>5, <3>1, <3>2, <3>4
  <2> QED
    BY <1>0, <2>6, <2>7, <2>8
<1>8. T(n) = Zero /\ D(n) = d[n]
  <2>1. \A i \in Nat : i \in S
    <3> HIDE DEF S
    <3> QED
      BY <1>6, <1>7, Induction
  <2> QED
    BY <1>0, <2>1
<1>9. n - n = 0 /\ n \in 0..n
  BY <1>0
<1>10. T(n) = Rest(p[n], n + 1, z)[0] /\ D(n) = Rest(Quotient(p[n], n, z), n, z)[0]
  BY <1>9 DEF T, D, Prod, Deriv
<1>11. Array(p[n], n + 1)
  BY <1>0, <1>1, <1>9, PrepareSteps
<1> QED
  BY <1>1, <1>2, <1>8, <1>10, <1>11

-----------------------------------------------------------------------------
(* complete and lagrange_interpolate: sums of scaled quotients.            *)

Scale(xs, ys, n, i) == gf_div(ys[i], denominator(xs, n, i))

LEMMA CompleteRuns ==
  ASSUME NEW n \in 0..Cap, NEW c, Array(c, n + 1), NEW xs, Array(xs, n), NEW ys,
         NEW i \in 0..n - 1
  PROVE  \A k \in 0..n - 1 :
           complete(c, xs, ys, n, i)[k + 1]
             = gf_mul(Quotient(c, n, xs[i])[k], Scale(xs, ys, n, i))
<1>0. Cap \in Nat /\ n \in Nat /\ n + 1 \in Nat /\ xs[i] \in Elem
  BY CodecAssumption DEF Array
<1> DEFINE z == xs[i]
           T == Rest(c, n + 1, z)
           s == Scale(xs, ys, n, i)
<1>1. IsRest(T, c, n + 1, z) /\ \A k \in 0..n + 1 : T[k] \in Elem
  BY <1>0, RestLaws
<1>2. \A k \in 0..n - 1 : Quotient(c, n, z)[k] = T[k + 1]
  BY DEF Quotient
<1> HIDE DEF T
<1>3. ASSUME NEW k \in 0..n
      PROVE  T[k] = IF k = n THEN c[n] ELSE gf_add(c[k], gf_mul(T[k + 1], z))
  <2>1. k \in 0..(n + 1) - 1 /\ k + 1 \in 0..n + 1
    BY <1>0
  <2>2. T[k] = gf_add(gf_mul(T[k + 1], z), c[k]) /\ T[n + 1] = Zero
    BY <1>1, <2>1 DEF IsRest
  <2>3. c[k] \in Elem /\ T[k + 1] \in Elem
    BY <1>1, <2>1 DEF Array
  <2>4. gf_mul(T[k + 1], z) \in Elem
    BY <1>0, <2>3, FieldType
  <2>5. CASE k = n
    BY <1>0, <2>2, <2>3, <2>5, FieldUnits
  <2>6. CASE k # n
    BY <2>2, <2>3, <2>4, <2>6, Commutes
  <2> QED
    BY <2>5, <2>6
<1> DEFINE R == [k \in 0..n |-> T[k]]
<1>4. R = [k \in 0..n |-> IF k = n THEN c[n] ELSE gf_add(c[k], gf_mul(R[k + 1], xs[i]))]
  <2>1. ASSUME NEW k \in 0..n
        PROVE  R[k] = IF k = n THEN c[n] ELSE gf_add(c[k], gf_mul(R[k + 1], z))
    <3>1. CASE k = n
      BY <1>3, <3>1
    <3>2. CASE k # n
      <4>1. k + 1 \in 0..n
        BY <1>0, <3>2
      <4> QED
        BY <1>3, <3>2, <4>1
    <3> QED
      BY <3>1, <3>2
  <2>2. R = [k \in 0..n |-> R[k]]
    OBVIOUS
  <2> HIDE DEF R
  <2> QED
    BY <2>1, <2>2, Zenon
<1> HIDE DEF R
<1> DEFINE q == CHOOSE f : f =
                  [k \in 0..n |-> IF k = n THEN c[n]
                                  ELSE gf_add(c[k], gf_mul(f[k + 1], xs[i]))]
<1>5. q = [k \in 0..n |-> IF k = n THEN c[n] ELSE gf_add(c[k], gf_mul(q[k + 1], xs[i]))]
  BY <1>4, Zenon
<1>6. complete(c, xs, ys, n, i) =
        [k \in 0..Cap |-> CASE k = 0      -> q[0]
                            [] k \in 1..n -> gf_mul(q[k], s)
                            [] OTHER      -> c[k]]
  BY Zenon DEF complete, Scale
<1> HIDE DEF q, s
<1>7. ASSUME NEW k \in 0..n
      PROVE  q[k] = IF k = n THEN c[n] ELSE gf_add(c[k], gf_mul(q[k + 1], z))
  BY <1>5, Zenon
<1> DEFINE S == {k \in 0..n : q[k] = T[k]}
<1>8. n \in S
  BY <1>0, <1>3, <1>7
<1>9. ASSUME NEW k \in 0..n - 1, k + 1 \in S PROVE k \in S
  <2>1. k \in 0..n /\ k # n
    BY <1>0
  <2> QED
    BY <1>3, <1>7, <1>9, <2>1
<1>10. \A k \in 0..n : k \in S
  <2> HIDE DEF S
  <2> QED
    BY <1>0, <1>8, <1>9, Descent
<1> SUFFICES ASSUME NEW k \in 0..n - 1
             PROVE  complete(c, xs, ys, n, i)[k + 1] = gf_mul(Quotient(c, n, z)[k], s)
  BY DEF s
<1>11. k + 1 \in 0..Cap /\ k + 1 # 0 /\ k + 1 \in 1..n /\ k + 1 \in 0..n
  BY <1>0
<1>12. complete(c, xs, ys, n, i)[k + 1] = gf_mul(q[k + 1], s)
  BY <1>6, <1>11
<1>13. q[k + 1] = T[k + 1]
  BY <1>10, <1>11
<1> QED
  BY <1>2, <1>12, <1>13

\* The value at x of the i-th scaled quotient, its coefficients from k up.
Part(xs, ys, n, x, k) ==
  [i \in 0..n - 1 |->
    gf_mul(Rest(Quotient(prepare(xs, n), n, xs[i]), n, x)[k], Scale(xs, ys, n, i))]

LEMMA PrepareType ==
  ASSUME NEW n \in 0..Cap, NEW xs, Array(xs, n)
  PROVE  prepare(xs, n) \in Poly37 /\ Array(prepare(xs, n), n + 1)
<1>0. Cap \in Nat /\ n \in 0..n
  BY CodecAssumption
<1>1. PICK p : Prepares(p, xs, n) /\ prepare(xs, n) = p[n]
  BY PrepareRuns
<1>2. p[n] \in Poly37
  BY <1>0, <1>1 DEF Prepares
<1> QED
  BY <1>0, <1>1, <1>2 DEF Poly37, Array

LEMMA ScaleType ==
  ASSUME NEW n \in Nat, NEW xs, Array(xs, n), NEW ys, Array(ys, n)
  PROVE  \A i \in 0..n - 1 : Scale(xs, ys, n, i) \in Elem
<1> SUFFICES ASSUME NEW i \in 0..n - 1 PROVE Scale(xs, ys, n, i) \in Elem
  OBVIOUS
<1>1. PICK d : Distances(d, xs, n, i) /\ denominator(xs, n, i) = d[n]
  BY DenominatorRuns
<1>2. denominator(xs, n, i) \in Elem /\ ys[i] \in Elem
  BY <1>1 DEF Array, Distances
<1> QED
  BY <1>2, Division DEF Scale

LEMMA ScaleLaw ==
  ASSUME IsField, NEW n \in Nat, NEW xs, Array(xs, n), NEW ys, Array(ys, n)
  PROVE  \A i \in 0..n - 1 : gf_mul(denominator(xs, n, i), Scale(xs, ys, n, i)) = ys[i]
<1> SUFFICES ASSUME NEW i \in 0..n - 1
             PROVE  gf_mul(denominator(xs, n, i), Scale(xs, ys, n, i)) = ys[i]
  OBVIOUS
<1>1. denominator(xs, n, i) \in Elem /\ denominator(xs, n, i) # Zero
  BY DenominatorNonzero
<1>2. ys[i] \in Elem
  BY DEF Array
<1> QED
  BY <1>1, <1>2, DivisionUndone DEF Scale

LEMMA LagrangeCoefficients ==
  ASSUME NEW n \in 0..Cap, NEW xs, Array(xs, n), NEW ys, Array(ys, n)
  PROVE  /\ lagrange_interpolate(xs, ys, n) \in Poly37
         /\ \A k \in 0..n - 1 :
              lagrange_interpolate(xs, ys, n)[k] =
                GfSum([i \in 0..n - 1 |->
                        gf_mul(Quotient(prepare(xs, n), n, xs[i])[k], Scale(xs, ys, n, i))], n)
<1>0. Cap \in Nat /\ n \in Nat /\ Array(prepare(xs, n), n + 1)
  BY CodecAssumption, PrepareType
<1> DEFINE c  == prepare(xs, n)
           L  == lagrange_interpolate(xs, ys, n)
           W(k) == [i \in 0..n - 1 |-> complete(c, xs, ys, n, i)[k + 1]]
           V(k) == [i \in 0..n - 1 |-> gf_mul(Quotient(c, n, xs[i])[k], Scale(xs, ys, n, i))]
<1>1. L = [k \in 0..Cap |-> IF k < n THEN GfSum(W(k), n) ELSE Zero]
  <2>1. ASSUME NEW k
        PROVE  [i \in 0..n - 1 |-> [j \in 0..n - 1 |-> complete(c, xs, ys, n, j)][i][k + 1]] = W(k)
    OBVIOUS
  <2>2. L = [k \in 0..Cap |-> IF k < n
               THEN GfSum([i \in 0..n - 1 |->
                            [j \in 0..n - 1 |-> complete(c, xs, ys, n, j)][i][k + 1]], n)
               ELSE Zero]
    BY Zenon DEF lagrange_interpolate
  <2> HIDE DEF W, c, L
  <2> QED
    BY <2>1, <2>2, Zenon
<1>2. ASSUME NEW k \in 0..n - 1 PROVE W(k) = V(k)
  <2>1. \A i \in 0..n - 1 : complete(c, xs, ys, n, i)[k + 1]
                              = gf_mul(Quotient(c, n, xs[i])[k], Scale(xs, ys, n, i))
    BY <1>0, CompleteRuns
  <2> QED
    BY <2>1
<1>3. ASSUME NEW k \in 0..n - 1 PROVE Array(V(k), n)
  <2> SUFFICES ASSUME NEW i \in 0..n - 1 PROVE V(k)[i] \in Elem
    BY DEF Array
  <2>1. xs[i] \in Elem
    BY DEF Array
  <2>2. Array(Quotient(c, n, xs[i]), n)
    BY <1>0, <2>1, QuotientType
  <2>3. Quotient(c, n, xs[i])[k] \in Elem /\ Scale(xs, ys, n, i) \in Elem
    BY <1>0, <2>2, ScaleType DEF Array
  <2>4. gf_mul(Quotient(c, n, xs[i])[k], Scale(xs, ys, n, i)) \in Elem
    BY <2>3, FieldType
  <2> QED
    BY <2>4
<1> HIDE DEF W, V, L
<1>4. ASSUME NEW k \in 0..n - 1 PROVE L[k] = GfSum(V(k), n)
  <2>1. k \in 0..Cap /\ k < n
    BY <1>0
  <2>2. L[k] = GfSum(W(k), n)
    BY <1>1, <2>1
  <2> QED
    BY <1>2, <2>2
<1>5. L \in Poly37
  <2>1. ASSUME NEW k \in 0..Cap PROVE (IF k < n THEN GfSum(W(k), n) ELSE Zero) \in Elem
    <3>1. CASE k < n
      <4>1. k \in 0..n - 1
        BY <1>0, <3>1
      <4>2. GfSum(V(k), n) \in Elem
        BY <1>0, <1>3, <4>1, GfSumType
      <4> QED
        BY <1>2, <3>1, <4>1, <4>2
    <3>2. CASE ~(k < n)
      BY <3>2, FieldType
    <3> QED
      BY <3>1, <3>2
  <2> QED
    BY <1>1, <2>1 DEF Poly37
<1> QED
  BY <1>4, <1>5 DEF V, L

LEMMA PartType ==
  ASSUME NEW n \in 0..Cap, NEW xs, Array(xs, n), NEW ys, Array(ys, n), NEW x \in Elem
  PROVE  \A k \in 0..n : Array(Part(xs, ys, n, x, k), n)
<1>0. n \in Nat /\ Array(prepare(xs, n), n + 1)
  BY CodecAssumption, PrepareType
<1> SUFFICES ASSUME NEW k \in 0..n, NEW i \in 0..n - 1
             PROVE  Part(xs, ys, n, x, k)[i] \in Elem
  BY DEF Array
<1>1. xs[i] \in Elem
  BY DEF Array
<1>2. Array(Quotient(prepare(xs, n), n, xs[i]), n)
  BY <1>0, <1>1, QuotientType
<1>3. Rest(Quotient(prepare(xs, n), n, xs[i]), n, x)[k] \in Elem
  BY <1>0, <1>2, RestLaws
<1>4. Scale(xs, ys, n, i) \in Elem
  BY <1>0, ScaleType
<1> QED
  BY <1>3, <1>4, FieldType DEF Part

LEMMA LagrangeRests ==
  ASSUME NEW n \in 0..Cap, NEW xs, Array(xs, n), NEW ys, Array(ys, n), NEW x \in Elem
  PROVE  \A k \in 0..n : Rest(lagrange_interpolate(xs, ys, n), n, x)[k]
                           = GfSum(Part(xs, ys, n, x, k), n)
<1> DEFINE c == prepare(xs, n)
           L == lagrange_interpolate(xs, ys, n)
           T == Rest(L, n, x)
           P(k) == Part(xs, ys, n, x, k)
           V(k) == [i \in 0..n - 1 |-> gf_mul(Quotient(c, n, xs[i])[k], Scale(xs, ys, n, i))]
<1>0. Cap \in Nat /\ n \in Nat /\ Array(c, n + 1)
  BY CodecAssumption, PrepareType
<1>1. Array(L, n) /\ \A k \in 0..n - 1 : L[k] = GfSum(V(k), n)
  <2>1. L \in Poly37 /\ \A k \in 0..n - 1 : L[k] = GfSum(V(k), n)
    BY LagrangeCoefficients
  <2> HIDE DEF L, V
  <2> QED
    BY <1>0, <2>1 DEF Poly37, Array
<1>2. IsRest(T, L, n, x)
  BY <1>0, <1>1, RestLaws
<1>3. \A k \in 0..n : Array(P(k), n)
  BY PartType
<1>4. ASSUME NEW i \in 0..n - 1
      PROVE  /\ P(n)[i] = Zero
             /\ \A k \in 0..n - 1 : /\ P(k)[i] = gf_add(gf_mul(P(k + 1)[i], x), V(k)[i])
                                    /\ V(k)[i] \in Elem
  <2> DEFINE q == Quotient(c, n, xs[i])
             Q == Rest(q, n, x)
             s == Scale(xs, ys, n, i)
  <2>1. s \in Elem
    BY <1>0, ScaleType
  <2>2. Array(q, n)
    <3>1. xs[i] \in Elem
      BY DEF Array
    <3> QED
      BY <1>0, <3>1, QuotientType
  <2>3. IsRest(Q, q, n, x) /\ \A k \in 0..n : Q[k] \in Elem
    BY <1>0, <2>2, RestLaws
  <2>4. \A k \in 0..n : P(k)[i] = gf_mul(Q[k], s)
    BY DEF Part
  <2>5. \A k \in 0..n - 1 : V(k)[i] = gf_mul(q[k], s)
    OBVIOUS
  <2> HIDE DEF P, V, q, Q, s
  <2>6. P(n)[i] = Zero
    BY <1>0, <2>1, <2>3, <2>4, FieldUnits DEF IsRest
  <2>7. ASSUME NEW k \in 0..n - 1
        PROVE  /\ P(k)[i] = gf_add(gf_mul(P(k + 1)[i], x), V(k)[i])
               /\ V(k)[i] \in Elem
    <3>1. k \in 0..n /\ k + 1 \in 0..n
      BY <1>0
    <3>2. Q[k] = gf_add(gf_mul(Q[k + 1], x), q[k]) /\ Q[k + 1] \in Elem /\ q[k] \in Elem
      BY <2>2, <2>3, <3>1 DEF IsRest, Array
    <3>3. gf_mul(Q[k + 1], x) \in Elem /\ gf_mul(q[k], s) \in Elem
      BY <2>1, <3>2, FieldType
    <3>4. gf_mul(Q[k], s) = gf_add(gf_mul(gf_mul(Q[k + 1], x), s), gf_mul(q[k], s))
      BY <2>1, <3>2, <3>3, Distributes
    <3>5. gf_mul(gf_mul(Q[k + 1], x), s) = gf_mul(gf_mul(Q[k + 1], s), x)
      BY <2>1, <3>2, MulAssociates, Commutes
    <3> QED
      BY <2>4, <2>5, <3>1, <3>3, <3>4, <3>5
  <2> QED
    BY <2>6, <2>7
<1> HIDE DEF P, V, L, T, c
<1> DEFINE S == {k \in 0..n : T[k] = GfSum(P(k), n)}
<1>5. n \in S
  <2>1. GfSum(P(n), n) = Zero
    <3>1. CASE n = 0
      BY <1>3, <3>1, GfSumRuns DEF SumsTo
    <3>2. CASE n # 0
      <4>1. 0 \in 0..n - 1 /\ n \in 0..n
        BY <1>0, <3>2
      <4>2. Array(P(n), n) /\ \A k \in 0..n - 1 : P(n)[k] = Zero
        BY <1>3, <1>4, <4>1
      <4>3. GfSum(P(n), n) = P(n)[0]
        BY <1>0, <4>1, <4>2, GfSumOne
      <4> QED
        BY <4>1, <4>2, <4>3
    <3> QED
      BY <3>1, <3>2
  <2> QED
    BY <1>0, <1>2, <2>1 DEF IsRest
<1>6. ASSUME NEW k \in 0..n - 1, k + 1 \in S PROVE k \in S
  <2>1. k \in 0..n /\ k + 1 \in 0..n
    BY <1>0
  <2>2. /\ Array(P(k + 1), n) /\ Array(V(k), n)
        /\ \A i \in 0..n - 1 : P(k)[i] = gf_add(gf_mul(P(k + 1)[i], x), V(k)[i])
    BY <1>3, <1>4, <2>1 DEF Array
  <2>3. GfSum(P(k), n) = gf_add(gf_mul(GfSum(P(k + 1), n), x), GfSum(V(k), n))
    BY <1>0, <2>2, GfSumLinear
  <2>4. T[k] = gf_add(gf_mul(T[k + 1], x), L[k]) /\ T[k + 1] = GfSum(P(k + 1), n)
    BY <1>2, <1>6 DEF IsRest
  <2>5. L[k] = GfSum(V(k), n)
    BY <1>1
  <2>6. T[k] = GfSum(P(k), n)
    BY <2>3, <2>4, <2>5
  <2> QED
    BY <2>1, <2>6
<1>7. \A k \in 0..n : k \in S
  <2> HIDE DEF S
  <2> QED
    BY <1>0, <1>5, <1>6, Descent
<1> QED
  BY <1>7 DEF P, T, L

\* The interpolant passes through its points.
LEMMA LagrangeAtPoint ==
  ASSUME IsField, NEW n \in 0..Cap, NEW xs, Array(xs, n), Distinct(xs, n),
         NEW ys, Array(ys, n), NEW m \in 0..n - 1
  PROVE  Rest(lagrange_interpolate(xs, ys, n), n, xs[m])[0] = ys[m]
<1> DEFINE c == prepare(xs, n)
           x == xs[m]
           f == Part(xs, ys, n, x, 0)
<1>0. Cap \in Nat /\ n \in Nat /\ x \in Elem /\ 0 \in 0..n
  BY CodecAssumption DEF Array
<1>1. Rest(lagrange_interpolate(xs, ys, n), n, x)[0] = GfSum(f, n)
  BY <1>0, LagrangeRests
<1>2. Array(f, n)
  BY <1>0, PartType
<1>3. ASSUME NEW i \in 0..n - 1, i # m PROVE f[i] = Zero
  <2> DEFINE t == Rest(Quotient(c, n, xs[i]), n, x)[0]
  <2>1. xs[i] \in Elem /\ xs[i] # x
    BY <1>3 DEF Array, Distinct
  <2>2. /\ Array(c, n + 1)
        /\ Rest(c, n + 1, x)[0] = Zero
        /\ Rest(c, n + 1, xs[i])[0] = Zero
    BY PrepareAtPoint
  <2>3. gf_mul(gf_add(x, xs[i]), t) = gf_add(Rest(c, n + 1, x)[0], Rest(c, n + 1, xs[i])[0])
    BY <1>0, <2>1, <2>2, QuotientLaw
  <2>4. t \in Elem
    <3>1. Array(Quotient(c, n, xs[i]), n)
      BY <1>0, <2>1, <2>2, QuotientType
    <3> QED
      BY <1>0, <3>1, RestLaws
  <2>5. Scale(xs, ys, n, i) \in Elem /\ f[i] = gf_mul(t, Scale(xs, ys, n, i))
    BY <1>0, ScaleType DEF Part
  <2> HIDE DEF t, c, f, x
  <2>6. gf_add(x, xs[i]) \in Elem /\ gf_add(x, xs[i]) # Zero
    BY <1>0, <2>1, FieldType, AddCancels
  <2>7. gf_mul(gf_add(x, xs[i]), t) = Zero
    BY <2>2, <2>3, FieldType, FieldUnits
  <2>8. t = Zero
    BY <2>4, <2>6, <2>7, NoZeroDivisors
  <2> QED
    BY <2>5, <2>8, FieldUnits
<1>4. f[m] = ys[m]
  <2>1. Rest(Quotient(c, n, x), n, x)[0] = denominator(xs, n, m)
    BY PrepareAtPoint
  <2>2. gf_mul(denominator(xs, n, m), Scale(xs, ys, n, m)) = ys[m]
    BY <1>0, ScaleLaw
  <2>3. f[m] = gf_mul(Rest(Quotient(c, n, x), n, x)[0], Scale(xs, ys, n, m))
    BY DEF Part
  <2> QED
    BY <2>1, <2>2, <2>3
<1>5. GfSum(f, n) = f[m]
  <2> HIDE DEF f
  <2> QED
    BY <1>0, <1>2, <1>3, GfSumOne
<1> QED
  BY <1>1, <1>4, <1>5

-----------------------------------------------------------------------------
(* A polynomial with as many roots as coefficients is zero everywhere.     *)

Vanishes(n) ==
  \A c, xs :
    Array(c, n) /\ Array(xs, n) /\ Distinct(xs, n)
    /\ (\A i \in 0..n - 1 : Rest(c, n, xs[i])[0] = Zero)
      => \A x \in Elem : Rest(c, n, x)[0] = Zero

LEMMA Roots ==
  ASSUME IsField PROVE \A n \in Nat : Vanishes(n)
<1> DEFINE S == {n \in Nat : Vanishes(n)}
<1>1. 0 \in S
  <2> SUFFICES ASSUME NEW c, Array(c, 0), NEW x \in Elem PROVE Rest(c, 0, x)[0] = Zero
    BY DEF Vanishes
  <2> QED
    BY RestLaws DEF IsRest
<1>2. ASSUME NEW n \in Nat, n \in S PROVE n + 1 \in S
  <2> SUFFICES ASSUME NEW c, NEW xs, Array(c, n + 1), Array(xs, n + 1), Distinct(xs, n + 1),
                      \A i \in 0..(n + 1) - 1 : Rest(c, n + 1, xs[i])[0] = Zero,
                      NEW x \in Elem
               PROVE  Rest(c, n + 1, x)[0] = Zero
    BY DEF Vanishes
  <2> DEFINE z == xs[n]
             q == Quotient(c, n, z)
  <2>0. n + 1 \in Nat /\ 0 \in 0..n /\ 0 \in 0..n + 1
    OBVIOUS
  <2>1. z \in Elem /\ Array(xs, n) /\ Distinct(xs, n) /\ Rest(c, n + 1, z)[0] = Zero
    BY DEF Array, Distinct
  <2>2. Array(q, n)
    BY <2>1, QuotientType
  <2>3. ASSUME NEW y \in Elem
        PROVE  /\ Rest(q, n, y)[0] \in Elem /\ Rest(c, n + 1, y)[0] \in Elem
               /\ gf_mul(gf_add(y, z), Rest(q, n, y)[0]) = Rest(c, n + 1, y)[0]
    <3>1. Rest(q, n, y)[0] \in Elem /\ Rest(c, n + 1, y)[0] \in Elem
      BY <2>0, <2>2, RestLaws
    <3>2. gf_mul(gf_add(y, z), Rest(q, n, y)[0])
            = gf_add(Rest(c, n + 1, y)[0], Rest(c, n + 1, z)[0])
      BY <2>0, <2>1, QuotientLaw
    <3> QED
      BY <2>1, <3>1, <3>2, FieldUnits
  <2> HIDE DEF q
  <2>4. ASSUME NEW i \in 0..n - 1 PROVE Rest(q, n, xs[i])[0] = Zero
    <3>1. xs[i] \in Elem /\ xs[i] # z /\ Rest(c, n + 1, xs[i])[0] = Zero
      BY DEF Array, Distinct
    <3>2. gf_add(xs[i], z) \in Elem /\ gf_add(xs[i], z) # Zero
      BY <2>1, <3>1, FieldType, AddCancels
    <3> QED
      BY <2>3, <3>1, <3>2, NoZeroDivisors
  <2>5. Rest(q, n, x)[0] = Zero
    <3>1. Vanishes(n)
      BY <1>2
    <3> QED
      BY <2>1, <2>2, <2>4, <3>1, Zenon DEF Vanishes
  <2>6. gf_add(x, z) \in Elem
    BY <2>1, FieldType
  <2> QED
    BY <2>3, <2>5, <2>6, FieldUnits
<1>3. \A n \in Nat : n \in S
  <2> HIDE DEF S
  <2> QED
    BY <1>1, <1>2, Induction
<1> QED
  BY <1>3

\* Two polynomials that agree at as many points as they have coefficients
\* agree everywhere.
LEMMA Agree ==
  ASSUME IsField, NEW n \in Nat, NEW c, NEW d, Array(c, n), Array(d, n),
         NEW xs, Array(xs, n), Distinct(xs, n),
         \A i \in 0..n - 1 : Rest(c, n, xs[i])[0] = Rest(d, n, xs[i])[0]
  PROVE  \A x \in Elem : Rest(c, n, x)[0] = Rest(d, n, x)[0]
<1> DEFINE h == [k \in 0..n - 1 |-> gf_add(c[k], gf_mul(One, d[k]))]
<1>1. Array(h, n) /\ Combines(h, c, One, d, n) /\ One \in Elem
  <2>1. \A k \in 0..n - 1 : c[k] \in Elem /\ d[k] \in Elem
    BY DEF Array
  <2>2. \A k \in 0..n - 1 : gf_mul(One, d[k]) \in Elem
    BY <2>1, FieldType
  <2>3. \A k \in 0..n - 1 : gf_add(c[k], gf_mul(One, d[k])) \in Elem
    BY <2>1, <2>2, FieldType
  <2> QED
    BY <2>3, FieldType DEF Array, Combines
<1> HIDE DEF h
<1>2. ASSUME NEW x \in Elem
      PROVE  /\ Rest(h, n, x)[0] = gf_add(Rest(c, n, x)[0], Rest(d, n, x)[0])
             /\ Rest(c, n, x)[0] \in Elem /\ Rest(d, n, x)[0] \in Elem
  <2>0. 0 \in 0..n
    OBVIOUS
  <2>1. Rest(c, n, x)[0] \in Elem /\ Rest(d, n, x)[0] \in Elem
    BY <2>0, RestLaws
  <2>2. Rest(h, n, x)[0] = gf_add(Rest(c, n, x)[0], gf_mul(One, Rest(d, n, x)[0]))
    BY <1>1, <2>0, RestLinear
  <2> QED
    BY <2>1, <2>2, FieldUnits
<1>3. \A i \in 0..n - 1 : Rest(h, n, xs[i])[0] = Zero
  <2> SUFFICES ASSUME NEW i \in 0..n - 1 PROVE Rest(h, n, xs[i])[0] = Zero
    OBVIOUS
  <2>1. xs[i] \in Elem
    BY DEF Array
  <2> QED
    BY <1>2, <2>1, FieldUnits
<1>4. \A x \in Elem : Rest(h, n, x)[0] = Zero
  <2>1. Vanishes(n)
    BY Roots
  <2> QED
    BY <1>1, <1>3, <2>1, Zenon DEF Vanishes
<1> SUFFICES ASSUME NEW x \in Elem PROVE Rest(c, n, x)[0] = Rest(d, n, x)[0]
  OBVIOUS
<1> QED
  BY <1>2, <1>4, AddCancels

\* With one disagreement among the points they disagree everywhere else.
LEMMA Disagree ==
  ASSUME IsField, NEW n \in Nat, NEW c, NEW d, Array(c, n), Array(d, n),
         NEW xs, Array(xs, n), Distinct(xs, n), NEW m \in 0..n - 1,
         \A i \in 0..n - 1 : i # m => Rest(c, n, xs[i])[0] = Rest(d, n, xs[i])[0],
         Rest(c, n, xs[m])[0] # Rest(d, n, xs[m])[0],
         NEW x \in Elem, \A i \in 0..n - 1 : x # xs[i]
  PROVE  Rest(c, n, x)[0] # Rest(d, n, x)[0]
<1> SUFFICES ASSUME Rest(c, n, x)[0] = Rest(d, n, x)[0] PROVE FALSE
  OBVIOUS
<1> DEFINE ws == [i \in 0..n - 1 |-> IF i = m THEN x ELSE xs[i]]
<1>1. Array(ws, n) /\ Distinct(ws, n)
  BY DEF Array, Distinct
<1>2. \A i \in 0..n - 1 : Rest(c, n, ws[i])[0] = Rest(d, n, ws[i])[0]
  OBVIOUS
<1> HIDE DEF ws
<1>3. \A y \in Elem : Rest(c, n, y)[0] = Rest(d, n, y)[0]
  BY <1>1, <1>2, Agree
<1>4. xs[m] \in Elem
  BY DEF Array
<1> QED
  BY <1>3, <1>4

-----------------------------------------------------------------------------
(* The points held and the interpolant kept for them.                      *)

CodecInv ==
  /\ msg \in Poly36
  /\ held \in Seq([x : Elem, y : Elem]) /\ Len(held) <= N
  /\ \A i, j \in 1..Len(held) : held[i].x = held[j].x => i = j
  /\ poly = Interpolant(held)

LEMMA CodecInvInit == Init => CodecInv
<1> SUFFICES ASSUME Init PROVE CodecInv
  OBVIOUS
<1>1. N \in Nat /\ N >= 1
  BY CodecAssumption
<1>2. held \in Seq([x : Elem, y : Elem]) /\ Len(held) = 0
  BY DEF Init
<1>3. 1..Len(held) = {}
  BY <1>2
<1>4. msg \in Poly36 /\ poly = Interpolant(held)
  BY DEF Init
<1> QED
  BY <1>1, <1>2, <1>3, <1>4 DEF CodecInv

LEMMA CodecInvStep == CodecInv /\ [Next]_vars => CodecInv'
<1> SUFFICES ASSUME CodecInv, [Next]_vars PROVE CodecInv'
  OBVIOUS
<1>1. CASE UNCHANGED vars
  BY <1>1 DEF vars, CodecInv, Interpolant, Xs, Ys, prepare, complete
<1>2. ASSUME NEW a \in Elem, NEW b \in Elem, Receive([x |-> a, y |-> b]) PROVE CodecInv'
  <2> DEFINE p == [x |-> a, y |-> b]
             n == Len(held)
  <2>1. /\ N \in Nat /\ n \in Nat /\ p \in [x : Elem, y : Elem] /\ p.x = a
        /\ held \in Seq([x : Elem, y : Elem])
    BY CodecAssumption DEF CodecInv
  <2>2. /\ n < N /\ a \notin HeldX /\ held' = Append(held, p)
        /\ poly' = Interpolant(Append(held, p)) /\ msg' = msg
    BY <1>2 DEF Receive
  <2> HIDE DEF p
  <2>3. /\ held' \in Seq([x : Elem, y : Elem]) /\ Len(held') = n + 1
        /\ \A i \in 1..n : held'[i] = held[i]
        /\ held'[n + 1] = p
    BY <2>1, <2>2
  <2>4. \A i \in 1..n : held[i].x # a
    BY <2>2 DEF HeldX
  <2> HIDE DEF n
  <2>5. ASSUME NEW i \in 1..n + 1, NEW j \in 1..n + 1, held'[i].x = held'[j].x PROVE i = j
    <3>1. \A k \in 1..n + 1 : k = n + 1 \/ k \in 1..n
      BY <2>1
    <3>2. CASE i = n + 1 /\ j = n + 1
      BY <3>2
    <3>3. CASE i = n + 1 /\ j \in 1..n
      BY <2>1, <2>3, <2>4, <2>5, <3>3
    <3>4. CASE i \in 1..n /\ j = n + 1
      BY <2>1, <2>3, <2>4, <2>5, <3>4
    <3>5. CASE i \in 1..n /\ j \in 1..n
      BY <2>3, <2>5, <3>5 DEF CodecInv, n
    <3> QED
      BY <3>1, <3>2, <3>3, <3>4, <3>5
  <2>6. Len(held') <= N
    BY <2>1, <2>2, <2>3
  <2>7. poly' = Interpolant(held') /\ msg' \in Poly36
    BY <2>2 DEF CodecInv
  <2>8. poly' = Interpolant(held)'
    BY <2>7 DEF Interpolant, Xs, Ys
  <2> QED
    BY <2>3, <2>5, <2>6, <2>7, <2>8 DEF CodecInv
<1> QED
  BY <1>1, <1>2 DEF Next

\* What the kernel is given: two arrays of as many points, pairwise different.
LEMMA HeldArrays ==
  ASSUME CodecInv
  PROVE  /\ Len(held) \in 0..N /\ Len(held) \in 0..Cap /\ N \in 0..Cap /\ N \in 0..Cap + 1
         /\ Array(Xs(held), Len(held)) /\ Array(Ys(held), Len(held))
         /\ Distinct(Xs(held), Len(held))
         /\ \A i \in 0..Len(held) - 1 : /\ i + 1 \in 1..Len(held)
                                        /\ Xs(held)[i] = held[i + 1].x
                                        /\ Ys(held)[i] = held[i + 1].y
         /\ \A k \in 1..Len(held) : k - 1 \in 0..Len(held) - 1 /\ (k - 1) + 1 = k
         /\ Array(msg, N) /\ msg \in Poly36
         /\ poly = lagrange_interpolate(Xs(held), Ys(held), Len(held)) /\ poly \in Poly37
         /\ Array(poly, N) /\ Array(poly, Len(held))
<1> DEFINE n == Len(held)
<1>1. /\ Cap \in Nat /\ N \in Nat /\ N <= Cap /\ n \in Nat /\ n <= N
      /\ held \in Seq([x : Elem, y : Elem])
  BY CodecAssumption DEF CodecInv
<1>2. \A k \in 1..n : held[k] \in [x : Elem, y : Elem]
  <2> DEFINE P == [x : Elem, y : Elem]
  <2>1. held \in Seq(P)
    BY <1>1
  <2> HIDE DEF P
  <2>2. \A k \in 1..Len(held) : held[k] \in P
    BY <2>1
  <2> QED
    BY <2>2 DEF P
<1>3. \A k \in 1..n : held[k].x \in Elem /\ held[k].y \in Elem
  BY <1>2
<1> HIDE DEF n
<1>4. \A i \in 0..n - 1 : i + 1 \in 1..n /\ i \in 0..Cap - 1 /\ i < n
  BY <1>1
<1>5. \A i \in 0..n - 1 : Xs(held)[i] = held[i + 1].x /\ Ys(held)[i] = held[i + 1].y
  BY <1>4 DEF Xs, Ys, n
<1>6. Array(Xs(held), n) /\ Array(Ys(held), n)
  BY <1>3, <1>4, <1>5 DEF Array
<1>7. Distinct(Xs(held), n)
  <2> SUFFICES ASSUME NEW i \in 0..n - 1, NEW j \in 0..n - 1, Xs(held)[i] = Xs(held)[j]
               PROVE  i = j
    BY DEF Distinct
  <2>1. held[i + 1].x = held[j + 1].x
    BY <1>5
  <2>2. i + 1 = j + 1
    BY <1>4, <2>1 DEF CodecInv, n
  <2> QED
    BY <1>1, <2>2
<1>8. poly = lagrange_interpolate(Xs(held), Ys(held), n)
  BY DEF CodecInv, Interpolant, n
<1>9. n \in 0..Cap /\ n \in 0..N /\ N \in 0..Cap /\ N \in 0..Cap + 1
  BY <1>1
<1>10. poly \in Poly37
  BY <1>6, <1>8, <1>9, LagrangeCoefficients
<1>11. Array(poly, N) /\ Array(poly, n) /\ Array(msg, N) /\ msg \in Poly36
  <2>1. msg \in Poly36
    BY DEF CodecInv
  <2> QED
    BY <1>1, <1>10, <2>1 DEF Poly36, Poly37, Array
<1>12. \A k \in 1..n : k - 1 \in 0..n - 1 /\ (k - 1) + 1 = k
  BY <1>1
<1> QED
  BY <1>4, <1>5, <1>6, <1>7, <1>8, <1>9, <1>10, <1>11, <1>12 DEF n

\* What is decoded, and what was encoded, as tails.
LEMMA DecodedIsRest ==
  ASSUME CodecInv, NEW x \in Elem
  PROVE  /\ Decoded(x) = Rest(poly, Len(held), x)[0]
         /\ poly_eval(msg, N, x) = Rest(msg, N, x)[0]
<1>1. /\ Len(held) \in 0..Cap + 1 /\ Len(held) \in Nat /\ N \in Nat
      /\ Array(poly, Len(held)) /\ Array(msg, N)
  BY HeldArrays, CodecAssumption
<1> QED
  BY <1>1, ComputeAt, PolyEval DEF Decoded

LEMMA CodecInterpolates == IsField /\ CodecInv => Interpolates
<1> SUFFICES ASSUME IsField, CodecInv, NEW k \in 1..Len(held)
             PROVE  decode_value_at(Xs(held), Ys(held), Len(held), held[k].x) = held[k].y
  BY DEF Interpolates
<1> DEFINE n == Len(held)
           xs == Xs(held)
           ys == Ys(held)
<1>1. /\ n \in 0..Cap /\ Array(xs, n) /\ Array(ys, n) /\ Distinct(xs, n)
      /\ k - 1 \in 0..n - 1 /\ xs[k - 1] = held[k].x /\ ys[k - 1] = held[k].y
      /\ poly = lagrange_interpolate(xs, ys, n)
  <2>1. k - 1 \in 0..n - 1 /\ (k - 1) + 1 = k
    BY HeldArrays
  <2>2. xs[k - 1] = held[(k - 1) + 1].x /\ ys[k - 1] = held[(k - 1) + 1].y
    BY <2>1, HeldArrays
  <2> QED
    BY <2>1, <2>2, HeldArrays
<1>2. xs[k - 1] \in Elem
  BY <1>1 DEF Array
<1>3. decode_value_at(xs, ys, n, xs[k - 1]) = Decoded(xs[k - 1])
  BY <1>1, Zenon DEF decode_value_at, Decoded
<1>4. Decoded(xs[k - 1]) = Rest(poly, n, xs[k - 1])[0]
  BY <1>2, DecodedIsRest
<1>5. Rest(poly, n, xs[k - 1])[0] = ys[k - 1]
  BY <1>1, LagrangeAtPoint
<1> QED
  BY <1>1, <1>3, <1>4, <1>5

\* A point held is genuine exactly when message and interpolant agree there.
LEMMA GenuineMeansAgree ==
  ASSUME IsField, CodecInv, NEW i \in 0..Len(held) - 1
  PROVE  i + 1 \notin Corrupt
           <=> Rest(poly, Len(held), Xs(held)[i])[0] = Rest(msg, N, Xs(held)[i])[0]
<1> DEFINE n == Len(held)
           xs == Xs(held)
           ys == Ys(held)
<1>1. /\ n \in 0..Cap /\ Array(xs, n) /\ Array(ys, n) /\ Distinct(xs, n)
      /\ i + 1 \in 1..n /\ xs[i] = held[i + 1].x /\ ys[i] = held[i + 1].y
      /\ poly = lagrange_interpolate(xs, ys, n)
  BY HeldArrays
<1>2. xs[i] \in Elem
  BY <1>1 DEF Array
<1>3. Rest(poly, n, xs[i])[0] = ys[i]
  BY <1>1, LagrangeAtPoint
<1>4. poly_eval(msg, N, xs[i]) = Rest(msg, N, xs[i])[0]
  BY <1>2, DecodedIsRest
<1>5. i + 1 \notin Corrupt <=> ys[i] = poly_eval(msg, N, xs[i])
  BY <1>1 DEF Corrupt, Genuine
<1> QED
  BY <1>3, <1>4, <1>5

LEMMA CodecDecodes == IsField /\ CodecInv => Decodes
<1> SUFFICES ASSUME IsField, CodecInv, Len(held) = N, Corrupt = {}, NEW x \in Elem
             PROVE  Decoded(x) = poly_eval(msg, N, x)
  BY DEF Decodes
<1>1. /\ N \in Nat /\ Array(Xs(held), N) /\ Distinct(Xs(held), N)
      /\ Array(poly, N) /\ Array(msg, N)
  BY HeldArrays, CodecAssumption
<1>2. \A i \in 0..N - 1 : Rest(poly, N, Xs(held)[i])[0] = Rest(msg, N, Xs(held)[i])[0]
  BY GenuineMeansAgree
<1>3. Rest(poly, N, x)[0] = Rest(msg, N, x)[0]
  BY <1>1, <1>2, Agree
<1> QED
  BY <1>3, DecodedIsRest

LEMMA CodecDamageSpreads == IsField /\ CodecInv => DamageSpreads
<1> SUFFICES ASSUME IsField, CodecInv, Len(held) = N, Cardinality(Corrupt) = 1,
                    NEW x \in Elem \ HeldX
             PROVE  Decoded(x) # poly_eval(msg, N, x)
  BY DEF DamageSpreads
<1>1. /\ N \in Nat /\ Array(Xs(held), N) /\ Distinct(Xs(held), N)
      /\ Array(poly, N) /\ Array(msg, N)
  BY HeldArrays, CodecAssumption
<1>2. PICK k : Corrupt = {k}
  <2>1. IsFiniteSet(Corrupt)
    <3>1. Corrupt \subseteq 1..N
      BY DEF Corrupt
    <3>2. IsFiniteSet(1..N)
      BY <1>1, FS_Interval
    <3> QED
      BY <3>1, <3>2, FS_Subset
  <2> QED
    BY <2>1, FS_Singleton
<1>3. k \in 1..Len(held)
  BY <1>2 DEF Corrupt
<1> DEFINE m == k - 1
<1>4. m \in 0..N - 1 /\ m + 1 = k
  BY <1>3, HeldArrays
<1> HIDE DEF m
<1>5. ASSUME NEW i \in 0..N - 1, i # m
      PROVE  Rest(poly, N, Xs(held)[i])[0] = Rest(msg, N, Xs(held)[i])[0]
  <2>1. i + 1 \notin Corrupt
    BY <1>2, <1>4, <1>5
  <2> QED
    BY <2>1, GenuineMeansAgree
<1>6. Rest(poly, N, Xs(held)[m])[0] # Rest(msg, N, Xs(held)[m])[0]
  BY <1>2, <1>4, GenuineMeansAgree
<1>7. \A i \in 0..N - 1 : x # Xs(held)[i]
  BY HeldArrays DEF HeldX
<1>8. Rest(poly, N, x)[0] # Rest(msg, N, x)[0]
  BY <1>1, <1>4, <1>5, <1>6, <1>7, Disagree
<1> QED
  BY <1>8, DecodedIsRest

LEMMA CodecEvaluatorsAgree == CodecInv => EvaluatorsAgree
<1> SUFFICES ASSUME CodecInv, NEW x \in Elem
             PROVE  LET n == Len(held)
                        p == prepare(Xs(held), n)
                    IN  /\ compute_at(poly, n, x) = poly_eval(poly, n, x)
                        /\ compute_at(p, n + 1, x) = poly_eval(p, n + 1, x)
  BY DEF EvaluatorsAgree
<1> DEFINE n == Len(held)
           p == prepare(Xs(held), n)
<1>1. /\ n \in 0..Cap /\ n \in 0..Cap + 1 /\ n \in Nat
      /\ n + 1 \in 0..Cap + 1 /\ n + 1 \in Nat
      /\ Array(poly, n) /\ Array(Xs(held), n)
  BY HeldArrays, CodecAssumption
<1>2. Array(p, n + 1)
  BY <1>1, PrepareType
<1> HIDE DEF n, p
<1>3. compute_at(poly, n, x) = poly_eval(poly, n, x)
  BY <1>1, ComputeAt, PolyEval
<1>4. compute_at(p, n + 1, x) = poly_eval(p, n + 1, x)
  BY <1>1, <1>2, ComputeAt, PolyEval
<1> QED
  BY <1>3, <1>4 DEF n, p

LEMMA CodecEncodingLinear == CodecInv => EncodingLinear
<1> SUFFICES ASSUME CodecInv, NEW x \in Elem, NEW m \in Elem
             PROVE  poly_eval(poly_add(msg, poly_scale(poly, m)), N, x)
                      = gf_add(poly_eval(msg, N, x), gf_mul(m, poly_eval(poly, N, x)))
  BY DEF EncodingLinear
<1> DEFINE h == poly_add(msg, poly_scale(poly, m))
<1>1. N \in Nat /\ N <= Cap /\ Cap \in Nat /\ Array(msg, N) /\ Array(poly, N) /\ 0 \in 0..N
  BY HeldArrays, CodecAssumption
<1>2. ASSUME NEW k \in 0..N - 1
      PROVE  h[k] = gf_add(msg[k], gf_mul(m, poly[k])) /\ h[k] \in Elem
  <2>1. k \in 0..Cap - 1 /\ msg[k] \in Elem /\ poly[k] \in Elem
    BY <1>1 DEF Array
  <2>2. poly_scale(poly, m)[k] = gf_mul(poly[k], m)
    BY <2>1 DEF poly_scale
  <2>3. h[k] = gf_add(msg[k], poly_scale(poly, m)[k])
    BY <2>1 DEF poly_add
  <2>4. gf_mul(poly[k], m) = gf_mul(m, poly[k]) /\ gf_mul(m, poly[k]) \in Elem
    BY <2>1, Commutes, FieldType
  <2> QED
    BY <2>1, <2>2, <2>3, <2>4, FieldType
<1> HIDE DEF h
<1>3. Array(h, N) /\ Combines(h, msg, m, poly, N)
  BY <1>2 DEF Array, Combines
<1>4. Rest(h, N, x)[0] = gf_add(Rest(msg, N, x)[0], gf_mul(m, Rest(poly, N, x)[0]))
  BY <1>1, <1>3, RestLinear
<1>5. /\ poly_eval(h, N, x) = Rest(h, N, x)[0]
      /\ poly_eval(msg, N, x) = Rest(msg, N, x)[0]
      /\ poly_eval(poly, N, x) = Rest(poly, N, x)[0]
  BY <1>1, <1>3, PolyEval
<1> QED
  BY <1>4, <1>5 DEF h

-----------------------------------------------------------------------------
(* The theorems.  Those about decoding need the coefficients to be a       *)
(* field, which CodeIsField proves of the code's polynomial.               *)

\* The interpolant kept is the one of the points held, which are pairwise
\* different and fit the kernel's arrays (gf.rs:299-332).
THEOREM TheoremCodecInv == Spec => []CodecInv
BY CodecInvInit, CodecInvStep, PTL DEF Spec

\* Whatever the values, what is decoded passes through every point held: any
\* number of points, in any order, corrupt or not (gf.rs:299-332, :361-373).
THEOREM TheoremInterpolates ==
  ASSUME IsField PROVE Spec => []Interpolates
<1>1. CodecInv => Interpolates
  BY CodecInterpolates
<1> QED
  BY <1>1, CodecInvInit, CodecInvStep, PTL DEF Spec

\* N genuine points, whichever they are, give the message back at every index
\* (gf.rs:361-373).
THEOREM TheoremDecodes ==
  ASSUME IsField PROVE Spec => []Decodes
<1>1. CodecInv => Decodes
  BY CodecDecodes
<1> QED
  BY <1>1, CodecInvInit, CodecInvStep, PTL DEF Spec

\* One corrupt point among N spoils the value at every index not held
\* (gf.rs:361-373).
THEOREM TheoremDamageSpreads ==
  ASSUME IsField PROVE Spec => []DamageSpreads
<1>1. CodecInv => DamageSpreads
  BY CodecDamageSpreads
<1> QED
  BY <1>1, CodecInvInit, CodecInvStep, PTL DEF Spec

\* The decoder's power table gives what the encoder's Horner rule gives
\* (gf.rs:158-174, :334-359).
THEOREM TheoremEvaluatorsAgree == Spec => []EvaluatorsAgree
BY CodecInvInit, CodecInvStep, CodecEvaluatorsAgree, PTL DEF Spec

\* poly_add and poly_scale commute with evaluation (gf.rs:176-204).
THEOREM TheoremEncodingLinear == Spec => []EncodingLinear
BY CodecInvInit, CodecInvStep, CodecEncodingLinear, PTL DEF Spec
=============================================================================
