--------------------------- MODULE Hashing_proofs ----------------------------
(***************************************************************************)
(* The hashing of demos/rust/crypto/sha256.rs and the MACs of              *)
(* demos/rust/spqr/authenticator.rs, for every length and every buffer.    *)
(***************************************************************************)
EXTENDS Authenticator, SequenceTheorems, FiniteSetTheorems, WellFoundedInduction, TLAPS

LEMMA LeastElement ==
  ASSUME NEW T \in SUBSET Nat, T # {}
  PROVE  \E x \in T : \A y \in T : x <= y
<1> DEFINE R == {p \in Nat \X Nat : p[1] < p[2]}
<1>1. IsWellFoundedOn(R, Nat)
  BY NatLessThanWellFounded, Zenon DEF OpToRel
<1> HIDE DEF R
<1>2. PICK x \in T : \A y \in T : ~(<<y, x>> \in R)
  BY <1>1, WFMin, Zenon
<1>3. \A y \in T : x <= y
  <2> TAKE y \in T
  <2>1. x \in Nat /\ y \in Nat
    OBVIOUS
  <2>2. <<y, x>> \notin R
    BY <1>2
  <2>3. <<y, x>> \in R <=> y < x
    BY <2>1 DEF R
  <2> QED
    BY <2>1, <2>2, <2>3
<1> QED
  BY <1>2, <1>3

LEMMA Induction ==
  ASSUME NEW S, 0 \in S, \A n \in Nat : n \in S => n + 1 \in S
  PROVE  \A n \in Nat : n \in S
<1> SUFFICES ASSUME NEW m \in Nat, m \notin S PROVE FALSE
  OBVIOUS
<1>1. PICK x \in Nat \ S : \A y \in Nat \ S : x <= y
  <2>1. Nat \ S \in SUBSET Nat /\ Nat \ S # {}
    OBVIOUS
  <2> QED
    BY <2>1, LeastElement
<1>2. x # 0 /\ x - 1 \in Nat /\ x = (x - 1) + 1
  BY <1>1
<1>3. x - 1 \notin S
  BY <1>2, <1>1
<1> QED
  BY <1>1, <1>2, <1>3

-----------------------------------------------------------------------------
(* The bytes of a buffer: a fold over its pieces.                          *)

Pieces(P) == \A p \in P : p = Piece(p.v, p.n) /\ p.n \in Nat \ {0}

\* A buffer without empty pieces, as every caller of the code's hashes has.
Buffer(s) == \E P : Pieces(P) /\ s \in Seq(P)

\* g[k] is the number of bytes of the first k pieces of s.
Sums(g, s) == /\ g[0] = 0
              /\ \A k \in 0..Len(s) : g[k] \in Nat
              /\ \A k \in 0..Len(s) - 1 : g[k + 1] = g[k] + s[k + 1].n

Last1(t) == CHOOSE x \in t : \A y \in t : x >= y

\* f is the fold of the lengths of s over the sets of indices up to m.
Folds1(f, s, m) ==
  f = [t \in SUBSET (1..m) |-> IF t = {} THEN 0 ELSE f[t \ {Last1(t)}] + s[Last1(t)].n]

LEMMA LastIsLast ==
  ASSUME NEW m \in Nat, NEW t \in SUBSET (1..m + 1), m + 1 \in t PROVE Last1(t) = m + 1
<1>1. \A y \in t : m + 1 >= y
  OBVIOUS
<1>2. Last1(t) \in t /\ \A y \in t : Last1(t) >= y
  BY <1>1, Zenon DEF Last1
<1>3. Last1(t) \in 1..m + 1
  BY <1>2
<1> QED
  BY <1>1, <1>2, <1>3

LEMMA FoldExists ==
  ASSUME NEW P, Pieces(P), NEW s \in Seq(P)
  PROVE  \E f : Folds1(f, s, Len(s))
<1> DEFINE Good(m) == \E f \in [SUBSET (1..m) -> Nat] : Folds1(f, s, m)
           S == {m \in Nat : m <= Len(s) => Good(m)}
<1>1. 0 \in S
  <2> DEFINE f == [t \in SUBSET (1..0) |-> 0]
  <2>1. 1..0 = {} /\ \A t \in SUBSET (1..0) : t = {}
    OBVIOUS
  <2>2. f \in [SUBSET (1..0) -> Nat] /\ Folds1(f, s, 0)
    BY <2>1 DEF Folds1
  <2> HIDE DEF f
  <2>3. Good(0)
    BY <2>2
  <2> HIDE DEF Good
  <2> QED
    BY <2>3
<1>2. ASSUME NEW m \in Nat, m \in S PROVE m + 1 \in S
  <2> SUFFICES ASSUME m + 1 <= Len(s), Good(m) PROVE Good(m + 1)
    <3> HIDE DEF Good
    <3> QED
      BY <1>2
  <2>1. PICK f \in [SUBSET (1..m) -> Nat] : Folds1(f, s, m)
    OBVIOUS
  <2>2. s[m + 1].n \in Nat
    <3>1. m + 1 \in 1..Len(s)
      OBVIOUS
    <3> QED
      BY <3>1, ElementOfSeq DEF Pieces
  <2> DEFINE e == [t \in SUBSET (1..m + 1) |->
                     IF m + 1 \in t THEN f[t \ {m + 1}] + s[m + 1].n ELSE f[t]]
  <2>3. \A t \in SUBSET (1..m + 1) : t \ {m + 1} \in SUBSET (1..m)
                                     /\ (m + 1 \notin t => t \in SUBSET (1..m))
    OBVIOUS
  <2>4. e \in [SUBSET (1..m + 1) -> Nat]
    BY <2>2, <2>3
  <2>5. ASSUME NEW t \in SUBSET (1..m + 1)
        PROVE  e[t] = IF t = {} THEN 0 ELSE e[t \ {Last1(t)}] + s[Last1(t)].n
    <3>1. CASE m + 1 \in t
      <4>1. Last1(t) = m + 1 /\ t # {}
        BY <3>1, LastIsLast
      <4>2. e[t] = f[t \ {m + 1}] + s[m + 1].n
        BY <3>1
      <4>3. e[t \ {m + 1}] = f[t \ {m + 1}]
        BY <2>3
      <4> QED
        BY <4>1, <4>2, <4>3
    <3>2. CASE m + 1 \notin t
      <4>1. t \in SUBSET (1..m) /\ e[t] = f[t]
        BY <2>3, <3>2
      <4>2. f[t] = IF t = {} THEN 0 ELSE f[t \ {Last1(t)}] + s[Last1(t)].n
        BY <2>1, <4>1, Zenon DEF Folds1
      <4>3. e[t \ {Last1(t)}] = f[t \ {Last1(t)}]
        <5>1. t \ {Last1(t)} \in SUBSET (1..m + 1) /\ m + 1 \notin t \ {Last1(t)}
          BY <3>2
        <5> QED
          BY <5>1
      <4> QED
        BY <4>1, <4>2, <4>3
    <3> QED
      BY <3>1, <3>2
  <2>6. e = [t \in SUBSET (1..m + 1) |-> e[t]]
    OBVIOUS
  <2> HIDE DEF e
  <2>7. Folds1(e, s, m + 1)
    BY <2>5, <2>6, Zenon DEF Folds1
  <2> QED
    BY <2>4, <2>7
<1>3. Good(Len(s))
  <2>1. \A m \in Nat : m \in S
    <3> HIDE DEF S
    <3> QED
      BY <1>1, <1>2, Induction
  <2>2. Len(s) \in Nat
    OBVIOUS
  <2> HIDE DEF Good
  <2> QED
    BY <2>1, <2>2
<1> QED
  BY <1>3

LEMMA BytesRuns ==
  ASSUME NEW P, Pieces(P), NEW s \in Seq(P)
  PROVE  \E g : Sums(g, s) /\ Bytes(s) = g[Len(s)]
<1> DEFINE l == Len(s)
<1>0. l \in Nat /\ DOMAIN s = 1..l
  OBVIOUS
<1> HIDE DEF l
<1>1. PICK h : Folds1(h, s, l)
  BY FoldExists DEF l
<1> DEFINE F == CHOOSE f : f = [t \in SUBSET (DOMAIN s) |->
                                  IF t = {} THEN 0
                                  ELSE f[t \ {Last1(t)}] + s[Last1(t)].n]
<1>2. F = [t \in SUBSET (DOMAIN s) |->
             IF t = {} THEN 0 ELSE F[t \ {Last1(t)}] + s[Last1(t)].n]
  <2>1. h = [t \in SUBSET (DOMAIN s) |->
               IF t = {} THEN 0 ELSE h[t \ {Last1(t)}] + s[Last1(t)].n]
    BY <1>0, <1>1, Zenon DEF Folds1
  <2> QED
    BY <2>1, Zenon
<1>3. Bytes(s) = F[DOMAIN s]
  BY Zenon DEF Bytes, FoldLeft, MapThenFoldSet, Max, Last1
<1> HIDE DEF F
<1>4. ASSUME NEW t \in SUBSET (1..l)
      PROVE  F[t] = IF t = {} THEN 0 ELSE F[t \ {Last1(t)}] + s[Last1(t)].n
  BY <1>0, <1>2, Zenon
<1> DEFINE g == [k \in 0..l |-> F[1..k]]
<1>5. g[0] = 0
  <2>1. g[0] = F[1..0] /\ 1..0 = {} /\ {} \in SUBSET (1..l)
    BY <1>0
  <2> QED
    BY <1>4, <2>1
<1>6. ASSUME NEW k \in 0..l - 1 PROVE g[k + 1] = g[k] + s[k + 1].n
  <2>1. /\ k \in Nat /\ k + 1 \in 0..l /\ k \in 0..l
        /\ 1..k + 1 \in SUBSET (1..l) /\ 1..k + 1 # {} /\ k + 1 \in 1..k + 1
        /\ (1..k + 1) \ {k + 1} = 1..k
    <3>1. k \in Nat /\ k + 1 \in 0..l /\ k \in 0..l /\ k + 1 \in 1..k + 1 /\ k + 1 <= l
      BY <1>0
    <3>2. \A y \in 1..k + 1 : y \in 1..l
      BY <1>0, <3>1
    <3>3. (1..k + 1) \ {k + 1} = 1..k
      BY <3>1
    <3> QED
      BY <3>1, <3>2, <3>3
  <2>2. Last1(1..k + 1) = k + 1
    BY <2>1, LastIsLast
  <2>3. F[1..k + 1] = F[1..k] + s[k + 1].n
    BY <1>4, <2>1, <2>2
  <2> QED
    BY <2>1, <2>3
<1>7. g[l] = Bytes(s)
  BY <1>0, <1>3
<1> HIDE DEF g
<1> DEFINE S == {k \in Nat : k <= l => g[k] \in Nat}
<1>8. 0 \in S
  BY <1>5
<1>9. ASSUME NEW k \in Nat, k \in S PROVE k + 1 \in S
  <2> SUFFICES ASSUME k + 1 <= l PROVE g[k + 1] \in Nat
    OBVIOUS
  <2>1. k + 1 \in 1..Len(s) /\ k \in 0..l - 1 /\ g[k] \in Nat
    BY <1>0, <1>9 DEF l
  <2>2. s[k + 1].n \in Nat
    BY <2>1, ElementOfSeq DEF Pieces
  <2> QED
    BY <1>6, <2>1, <2>2
<1>10. \A k \in Nat : k \in S
  <2> HIDE DEF S
  <2> QED
    BY <1>8, <1>9, Induction
<1>11. \A k \in 0..l : g[k] \in Nat
  BY <1>0, <1>10
<1> QED
  BY <1>5, <1>6, <1>7, <1>11 DEF Sums, l

LEMMA SumsAgree ==
  ASSUME NEW P, NEW s \in Seq(P), NEW g, NEW h, Sums(g, s), Sums(h, s)
  PROVE  \A k \in 0..Len(s) : g[k] = h[k]
<1> DEFINE S == {k \in Nat : k <= Len(s) => g[k] = h[k]}
<1>1. 0 \in S
  BY DEF Sums
<1>2. ASSUME NEW k \in Nat, k \in S PROVE k + 1 \in S
  <2> SUFFICES ASSUME k + 1 <= Len(s) PROVE g[k + 1] = h[k + 1]
    OBVIOUS
  <2>1. k \in 0..Len(s) - 1 /\ g[k] = h[k]
    BY <1>2
  <2> QED
    BY <2>1 DEF Sums
<1>3. \A k \in Nat : k \in S
  <2> HIDE DEF S
  <2> QED
    BY <1>1, <1>2, Induction
<1> QED
  BY <1>3

LEMMA BytesAre ==
  ASSUME NEW P, Pieces(P), NEW s \in Seq(P), NEW g, Sums(g, s)
  PROVE  Bytes(s) = g[Len(s)] /\ Bytes(s) \in Nat
<1>1. PICK h : Sums(h, s) /\ Bytes(s) = h[Len(s)]
  BY BytesRuns
<1>2. Len(s) \in 0..Len(s)
  OBVIOUS
<1>3. g[Len(s)] = h[Len(s)]
  BY <1>1, <1>2, SumsAgree
<1> QED
  BY <1>1, <1>2, <1>3 DEF Sums

LEMMA SumsOfPrefix ==
  ASSUME NEW P, Pieces(P), NEW s \in Seq(P), NEW g, Sums(g, s), NEW k \in 0..Len(s)
  PROVE  Bytes(SubSeq(s, 1, k)) = g[k]
<1> DEFINE t == SubSeq(s, 1, k)
<1>1. /\ t \in Seq(P) /\ Len(t) = k /\ k \in Nat /\ k <= Len(s)
      /\ \A i \in 1..k : t[i] = s[i]
  OBVIOUS
<1> HIDE DEF t
<1>2. Sums(g, t)
  <2>1. \A i \in 0..k : g[i] \in Nat
    BY <1>1 DEF Sums
  <2>2. ASSUME NEW i \in 0..k - 1 PROVE g[i + 1] = g[i] + t[i + 1].n
    <3>1. i \in 0..Len(s) - 1 /\ t[i + 1] = s[i + 1]
      BY <1>1
    <3> QED
      BY <3>1 DEF Sums
  <2> QED
    BY <1>1, <2>1, <2>2 DEF Sums
<1> QED
  BY <1>1, <1>2, BytesAre DEF t

LEMMA SumsIncrease ==
  ASSUME NEW P, Pieces(P), NEW s \in Seq(P), NEW g, Sums(g, s)
  PROVE  \A j \in 0..Len(s) : \A i \in 0..Len(s) : i < j => g[i] < g[j]
<1> DEFINE S == {k \in Nat : k <= Len(s) => \A i \in 0..Len(s) : i < k => g[i] < g[k]}
<1>1. 0 \in S
  OBVIOUS
<1>2. ASSUME NEW k \in Nat, k \in S PROVE k + 1 \in S
  <2> SUFFICES ASSUME k + 1 <= Len(s), NEW i \in 0..Len(s), i < k + 1 PROVE g[i] < g[k + 1]
    OBVIOUS
  <2>1. /\ k \in 0..Len(s) - 1 /\ k \in 0..Len(s) /\ k + 1 \in 1..Len(s)
        /\ \A x \in 0..Len(s) : x < k => g[x] < g[k]
    BY <1>2
  <2>2. s[k + 1].n \in Nat \ {0}
    BY <2>1, ElementOfSeq DEF Pieces
  <2>3. g[k + 1] = g[k] + s[k + 1].n /\ g[k] \in Nat /\ g[i] \in Nat
    BY <2>1 DEF Sums
  <2>4. i = k \/ g[i] < g[k]
    BY <2>1
  <2> QED
    BY <2>2, <2>3, <2>4
<1>3. \A k \in Nat : k \in S
  <2> HIDE DEF S
  <2> QED
    BY <1>1, <1>2, Induction
<1> QED
  BY <1>3

\* Buffers one after the other.
LEMMA BytesOfBoth ==
  ASSUME NEW s, NEW t, Buffer(s), Buffer(t)
  PROVE  Buffer(s \o t) /\ Bytes(s \o t) = Bytes(s) + Bytes(t)
<1>1. PICK P : Pieces(P) /\ s \in Seq(P)
  BY DEF Buffer
<1>2. PICK Q : Pieces(Q) /\ t \in Seq(Q)
  BY DEF Buffer
<1> DEFINE R == P \cup Q
           l == Len(s)
           m == Len(t)
           u == s \o t
<1>3. Pieces(R)
  BY <1>1, <1>2 DEF Pieces
<1>4. s \in Seq(R) /\ t \in Seq(R)
  BY <1>1, <1>2
<1>5. /\ u \in Seq(R) /\ Len(u) = l + m /\ l \in Nat /\ m \in Nat
      /\ \A i \in 1..l : u[i] = s[i]
      /\ \A i \in 1..m : u[l + i] = t[i]
  <2> HIDE DEF R
  <2> QED
    BY <1>4
<1>6. PICK g : Sums(g, s)
  BY <1>1, BytesRuns
<1>7. PICK h : Sums(h, t)
  BY <1>2, BytesRuns
<1>8. Bytes(s) = g[l] /\ Bytes(t) = h[m] /\ g[l] \in Nat /\ h[m] \in Nat
  BY <1>1, <1>2, <1>6, <1>7, BytesAre
<1> HIDE DEF R, l, m, u
<1> DEFINE f == [k \in 0..l + m |-> IF k <= l THEN g[k] ELSE g[l] + h[k - l]]
<1>9. Sums(f, u)
  <2>1. f[0] = 0
    BY <1>5, <1>6 DEF Sums
  <2>2. ASSUME NEW k \in 0..l + m PROVE f[k] \in Nat
    <3>1. CASE k <= l
      BY <1>5, <1>6, <3>1 DEF Sums, l
    <3>2. CASE ~(k <= l)
      <4>1. k - l \in 0..m
        BY <1>5, <3>2
      <4>2. h[k - l] \in Nat
        BY <1>7, <4>1 DEF Sums, m
      <4> QED
        BY <1>8, <3>2, <4>2
    <3> QED
      BY <3>1, <3>2
  <2>3. ASSUME NEW k \in 0..(l + m) - 1 PROVE f[k + 1] = f[k] + u[k + 1].n
    <3>0. k \in Nat /\ k \in 0..l + m /\ k + 1 \in 0..l + m
      BY <1>5
    <3>1. CASE k + 1 <= l
      <4>1. k \in 0..l - 1 /\ u[k + 1] = s[k + 1]
        BY <1>5, <3>1
      <4>2. g[k + 1] = g[k] + s[k + 1].n
        BY <1>6, <4>1 DEF Sums, l
      <4> QED
        BY <1>5, <3>0, <3>1, <4>1, <4>2
    <3>2. CASE ~(k + 1 <= l)
      <4>1. k - l \in 0..m - 1 /\ (k - l) + 1 \in 1..m /\ k + 1 = l + ((k - l) + 1)
            /\ (k + 1) - l = (k - l) + 1
        BY <1>5, <3>0, <3>2
      <4>2. u[k + 1] = t[(k - l) + 1]
        BY <1>5, <4>1
      <4>3. h[(k - l) + 1] = h[k - l] + t[(k - l) + 1].n /\ h[k - l] \in Nat /\ h[(k - l) + 1] \in Nat
        BY <1>5, <1>7, <4>1 DEF Sums, m
      <4>4. f[k + 1] = g[l] + h[(k - l) + 1]
        BY <3>0, <3>2, <4>1
      <4>5. f[k] = g[l] + h[k - l]
        <5>1. CASE k = l
          <6>1. h[0] = 0 /\ k - l = 0 /\ f[k] = g[k]
            BY <1>5, <1>7, <3>0, <5>1 DEF Sums
          <6> QED
            BY <1>8, <5>1, <6>1
        <5>2. CASE k # l
          BY <1>5, <3>0, <3>2, <5>2
        <5> QED
          BY <5>1, <5>2
      <4>6. t[(k - l) + 1].n \in Nat
        BY <1>2, <4>1, ElementOfSeq DEF Pieces, m
      <4> HIDE DEF f
      <4> QED
        BY <1>8, <4>2, <4>3, <4>4, <4>5, <4>6
    <3> QED
      BY <3>1, <3>2
  <2> HIDE DEF f
  <2> QED
    BY <1>5, <2>1, <2>2, <2>3 DEF Sums
<1>10. f[l + m] = Bytes(s) + Bytes(t)
  <2>1. CASE m = 0
    <3>1. h[m] = 0 /\ f[l + m] = g[l]
      BY <1>5, <1>7, <2>1 DEF Sums
    <3> QED
      BY <1>8, <3>1
  <2>2. CASE m # 0
    <3>1. ~(l + m <= l) /\ (l + m) - l = m /\ l + m \in 0..l + m
      BY <1>5, <2>2
    <3> QED
      BY <1>8, <3>1
  <2> QED
    BY <2>1, <2>2
<1> HIDE DEF f
<1>11. Bytes(u) = f[l + m]
  BY <1>3, <1>5, <1>9, BytesAre
<1> QED
  BY <1>3, <1>5, <1>10, <1>11 DEF Buffer, u

LEMMA BytesOfOne ==
  ASSUME NEW v, NEW n \in Nat \ {0}
  PROVE  Buffer(<<Piece(v, n)>>) /\ Bytes(<<Piece(v, n)>>) = n
<1> DEFINE p == Piece(v, n)
           P == {p}
           s == <<p>>
           g == [k \in 0..1 |-> IF k = 0 THEN 0 ELSE n]
<1>1. p.n = n /\ p = Piece(p.v, p.n)
  BY DEF Piece
<1> HIDE DEF p
<1>2. Pieces(P) /\ s \in Seq(P) /\ Len(s) = 1 /\ s[1] = p
  BY <1>1 DEF Pieces
<1>3. Sums(g, s)
  BY <1>1, <1>2 DEF Sums
<1>4. Bytes(s) = g[1]
  <2> HIDE DEF g, P, s
  <2> QED
    BY <1>2, <1>3, BytesAre
<1> QED
  BY <1>2, <1>4 DEF Buffer, p

\* The first len bytes of a buffer are len bytes, and all of it when there are
\* that many.
LEMMA TakeExact ==
  ASSUME NEW s, Buffer(s), NEW len \in Nat
  PROVE  /\ Buffer(Take(s, len)) /\ Bytes(Take(s, len)) = len
         /\ Bytes(s) = len => Take(s, len) = s
<1>1. PICK P : Pieces(P) /\ s \in Seq(P)
  BY DEF Buffer
<1>2. PICK g : Sums(g, s) /\ Bytes(s) = g[Len(s)]
  BY <1>1, BytesRuns
<1> DEFINE l == Len(s)
           from(i) == Bytes(SubSeq(s, 1, i - 1))
           kept == {j \in DOMAIN s : from(j) < len}
           part == [i \in kept |->
                      Piece(s[i].v, IF from(i) + s[i].n <= len THEN s[i].n ELSE len - from(i))]
<1>3. Take(s, len) = IF Bytes(s) < len THEN s \o Zeros(len - Bytes(s)) ELSE part
  BY Zenon DEF Take
<1>4. Bytes(s) \in Nat /\ l \in Nat /\ DOMAIN s = 1..l
  BY <1>1, <1>2, BytesAre
<1>5. ASSUME NEW i \in 1..l
      PROVE  /\ from(i) = g[i - 1] /\ g[i - 1] \in Nat /\ g[i] \in Nat
             /\ g[i] = g[i - 1] + s[i].n /\ s[i] \in P /\ s[i].n \in Nat \ {0}
  <2>1. i - 1 \in 0..l - 1 /\ i - 1 \in 0..l /\ i \in 0..l /\ (i - 1) + 1 = i
    BY <1>4
  <2>2. from(i) = g[i - 1]
    BY <1>1, <1>2, <2>1, SumsOfPrefix
  <2>3. g[i] = g[i - 1] + s[i].n /\ g[i - 1] \in Nat /\ g[i] \in Nat
    BY <1>2, <2>1 DEF Sums
  <2>4. s[i] \in P /\ s[i].n \in Nat \ {0}
    BY <1>1, ElementOfSeq DEF Pieces
  <2> QED
    BY <2>2, <2>3, <2>4
<1> HIDE DEF from
<1>6. \A j \in 0..l : \A i \in 0..l : i < j => g[i] < g[j]
  BY <1>1, <1>2, SumsIncrease
<1> HIDE DEF part, kept
<1>7. CASE Bytes(s) < len
  <2>1. len - Bytes(s) \in Nat \ {0}
    BY <1>4, <1>7
  <2>2. Buffer(Zeros(len - Bytes(s))) /\ Bytes(Zeros(len - Bytes(s))) = len - Bytes(s)
    <3>1. Zeros(len - Bytes(s)) = <<Piece(Zero, len - Bytes(s))>>
      BY <2>1 DEF Zeros
    <3> QED
      BY <2>1, <3>1, BytesOfOne
  <2>3. Buffer(s \o Zeros(len - Bytes(s)))
        /\ Bytes(s \o Zeros(len - Bytes(s))) = Bytes(s) + (len - Bytes(s))
    BY <2>2, BytesOfBoth
  <2>4. Bytes(s) + (len - Bytes(s)) = len /\ Bytes(s) # len
    BY <1>4, <1>7
  <2>5. Take(s, len) = s \o Zeros(len - Bytes(s))
    BY <1>3, <1>7, Zenon
  <2>6. Buffer(Take(s, len))
    BY <2>3, <2>5, Zenon
  <2>7. Bytes(Take(s, len)) = Bytes(s) + (len - Bytes(s))
    BY <2>3, <2>5, Zenon
  <2>8. Bytes(Take(s, len)) = len
    BY <2>4, <2>7, Zenon
  <2> QED
    BY <2>4, <2>6, <2>8, Zenon
<1>8. CASE ~(Bytes(s) < len) /\ len = 0
  <2>1. kept = {}
    BY <1>4, <1>5, <1>8 DEF kept
  <2>2. part = <<>>
    <3>1. DOMAIN part = {} /\ part = [i \in {} |-> part[i]]
      BY <2>1 DEF part
    <3> QED
      BY <3>1
  <2>3. Bytes(<<>>) = 0 /\ Buffer(<<>>)
    <3>1. Pieces({}) /\ <<>> \in Seq({}) /\ Len(<<>>) = 0
      BY DEF Pieces
    <3>2. Sums([k \in {0} |-> 0], <<>>)
      BY <3>1 DEF Sums
    <3>3. Bytes(<<>>) = [k \in {0} |-> 0][0]
      <4> DEFINE z == [k \in {0} |-> 0]
      <4> HIDE DEF z
      <4> QED
        BY <3>1, <3>2, BytesAre DEF z
    <3> QED
      BY <3>1, <3>3 DEF Buffer
  <2>4. Bytes(s) = 0 => s = <<>>
    <3> SUFFICES ASSUME Bytes(s) = 0, l # 0 PROVE FALSE
      BY <1>1, <1>4
    <3>1. 0 \in 0..l /\ l \in 0..l /\ 0 < l
      BY <1>4
    <3>2. g[0] < g[l] /\ g[0] = 0
      BY <1>2, <1>6, <3>1 DEF Sums
    <3> QED
      BY <1>2, <3>2
  <2> QED
    BY <1>3, <1>8, <2>2, <2>3, <2>4
<1>9. CASE ~(Bytes(s) < len) /\ len # 0
  <2> DEFINE T == {j \in 1..l : g[j] >= len}
  <2>1. l \in T /\ T \in SUBSET Nat
    <3>1. l # 0
      BY <1>2, <1>4, <1>9 DEF Sums
    <3> QED
      BY <1>2, <1>4, <1>9, <3>1
  <2>2. PICK k \in T : \A j \in T : k <= j
    BY <2>1, LeastElement
  <2>3. k \in 1..l /\ k \in Nat /\ g[k] >= len
    BY <1>4, <2>2
  <2>4. \A j \in 1..k - 1 : g[j] < len
    <3> TAKE j \in 1..k - 1
    <3>1. j \in 1..l /\ ~(k <= j)
      BY <1>4, <2>3
    <3>2. g[j] \in Nat /\ j \notin T
      BY <1>5, <2>2, <3>1
    <3> QED
      BY <3>1, <3>2
  <2>5. g[k - 1] < len
    <3>1. CASE k = 1
      BY <1>2, <1>9, <3>1 DEF Sums
    <3>2. CASE k # 1
      BY <2>3, <2>4, <3>2
    <3> QED
      BY <3>1, <3>2
  <2>6. kept = 1..k
    <3>1. ASSUME NEW j \in 1..l PROVE g[j - 1] < len <=> j <= k
      <4>1. CASE j = 1
        BY <1>2, <1>9, <2>3, <4>1 DEF Sums
      <4>2. CASE j # 1 /\ j <= k
        <5>1. j - 1 \in 1..k - 1
          BY <2>3, <4>2
        <5> QED
          BY <2>4, <4>2, <5>1
      <4>3. CASE j > k
        <5>1. k = j - 1 \/ g[k] < g[j - 1]
          BY <1>4, <1>6, <2>3, <4>3
        <5>2. g[j - 1] \in Nat /\ g[k] \in Nat
          BY <1>5, <2>3
        <5> QED
          BY <2>3, <4>3, <5>1, <5>2
      <4> QED
        BY <2>3, <4>1, <4>2, <4>3
    <3>2. \A j \in 1..l : j \in kept <=> g[j - 1] < len
      BY <1>4, <1>5 DEF kept
    <3> QED
      BY <1>4, <2>3, <3>1, <3>2 DEF kept
  <2> DEFINE w == len - g[k - 1]
             p == Piece(s[k].v, w)
             Q == P \cup {p}
  <2>7. w \in Nat \ {0} /\ w <= s[k].n
    BY <1>5, <2>3, <2>5
  <2>8. ASSUME NEW i \in 1..k - 1 PROVE part[i] = s[i]
    <3>1. i \in 1..l /\ i \in kept /\ g[i] < len
      BY <2>3, <2>4, <2>6
    <3>2. from(i) + s[i].n <= len
      BY <1>5, <3>1
    <3>3. part[i] = Piece(s[i].v, s[i].n)
      BY <3>1, <3>2 DEF part
    <3> QED
      BY <1>1, <1>5, <3>1, <3>3 DEF Pieces
  <2>9. part[k] = p
    <3>1. k \in kept /\ from(k) = g[k - 1] /\ g[k] = g[k - 1] + s[k].n
      BY <1>5, <2>3, <2>6
    <3>2. from(k) + s[k].n <= len => s[k].n = w
      BY <1>5, <2>3, <3>1
    <3> QED
      BY <3>1, <3>2 DEF part
  <2>10. Pieces(Q)
    BY <1>1, <2>7 DEF Pieces, Piece
  <2> HIDE DEF T, p, w
  <2>11. part \in Seq(Q) /\ Len(part) = k
    <3>1. DOMAIN part = 1..k /\ part = [i \in 1..k |-> part[i]]
      BY <2>6 DEF part
    <3>2. \A i \in 1..k : part[i] \in Q
      <4> TAKE i \in 1..k
      <4>1. CASE i = k
        BY <2>9, <4>1
      <4>2. CASE i # k
        <5>1. i \in 1..k - 1 /\ i \in 1..l
          BY <2>3, <4>2
        <5> QED
          BY <1>5, <2>8, <5>1
      <4> QED
        BY <4>1, <4>2
    <3> HIDE DEF Q
    <3> QED
      BY <2>3, <3>1, <3>2
  <2> DEFINE h == [i \in 0..k |-> IF i = k THEN len ELSE g[i]]
  <2>12. Sums(h, part)
    <3>1. h[0] = 0
      BY <1>2, <2>3 DEF Sums
    <3>2. ASSUME NEW i \in 0..k PROVE h[i] \in Nat
      <4>1. i \in 0..l
        BY <2>3
      <4> QED
        BY <1>2, <4>1 DEF Sums
    <3>3. ASSUME NEW i \in 0..k - 1 PROVE h[i + 1] = h[i] + part[i + 1].n
      <4>1. h[i] = g[i] /\ i \in 0..k
        BY <2>3
      <4>2. CASE i + 1 = k
        <5>1. h[i + 1] = len /\ i = k - 1
          BY <2>3, <4>2
        <5>2. part[i + 1].n = w
          BY <2>9, <4>2 DEF p, Piece
        <5>3. g[k - 1] \in Nat
          BY <1>5, <2>3
        <5> HIDE DEF h
        <5> QED
          BY <4>1, <5>1, <5>2, <5>3 DEF w
      <4>3. CASE i + 1 # k
        <5>1. i + 1 \in 1..k - 1 /\ i + 1 \in 1..l /\ i + 1 \in 0..k /\ (i + 1) - 1 = i
          BY <2>3, <4>3
        <5>2. h[i + 1] = g[i + 1]
          BY <4>3, <5>1
        <5>3. part[i + 1] = s[i + 1] /\ g[i + 1] = g[i] + s[i + 1].n
          BY <1>5, <2>8, <5>1
        <5> HIDE DEF h
        <5> QED
          BY <4>1, <5>2, <5>3
      <4> QED
        BY <4>2, <4>3
    <3> HIDE DEF h
    <3> QED
      BY <2>11, <3>1, <3>2, <3>3 DEF Sums
  <2>13. h[k] = len
    BY <2>3
  <2> HIDE DEF h, Q
  <2>14. Bytes(part) = len /\ Buffer(part)
    BY <2>10, <2>11, <2>12, <2>13, BytesAre DEF Buffer
  <2>15. Bytes(s) = len => part = s
    <3> SUFFICES ASSUME Bytes(s) = len PROVE part = s
      OBVIOUS
    <3>1. k = l
      <4>1. k \in 0..l /\ l \in 0..l /\ (k < l => g[k] < g[l])
        BY <1>4, <1>6, <2>3
      <4>2. g[l] = len /\ g[k] \in Nat
        BY <1>2, <1>5, <2>3
      <4>3. ~(k < l)
        BY <2>3, <4>1, <4>2
      <4>4. k \in Nat /\ k <= l /\ l \in Nat
        BY <1>4, <4>1
      <4> HIDE DEF l
      <4> QED
        BY <4>3, <4>4
    <3>2. p = s[k]
      <4>1. g[l] = g[l - 1] + s[l].n /\ g[l] = len /\ g[l - 1] \in Nat /\ s[l].n \in Nat /\ s[l] \in P
        BY <1>2, <1>5, <2>3, <3>1
      <4>2. w = s[k].n
        BY <3>1, <4>1 DEF w
      <4> QED
        BY <1>1, <3>1, <4>1, <4>2 DEF p, Pieces
    <3>3. \A i \in 1..l : part[i] = s[i]
      <4> TAKE i \in 1..l
      <4>1. i = k \/ i \in 1..k - 1
        BY <2>3, <3>1
      <4> QED
        BY <2>8, <2>9, <3>2, <4>1
    <3>4. part \in Seq(Q) /\ s \in Seq(P)
      BY <1>1, <2>11
    <3> QED
      BY <2>11, <3>1, <3>3, <3>4, SeqEqual
  <2> QED
    BY <1>3, <1>9, <2>14, <2>15
<1> QED
  BY <1>7, <1>8, <1>9

-----------------------------------------------------------------------------
(* The MACs.  Equal digests are digests of the same bytes, and every hash  *)
(* the code takes covers its whole buffer, so equal MACs have the same key *)
(* and cover the same bytes.                                               *)

LEMMA ShaTells ==
  ASSUME NEW d, NEW e, NEW m, NEW n, sha256(d, m) = sha256(e, n)
  PROVE  Take(d, m) = Take(e, n)
<1>1. sha256(d, m)[1].v = <<"SHA", Take(d, m)>> /\ sha256(e, n)[1].v = <<"SHA", Take(e, n)>>
  BY DEF sha256, Piece
<1>2. <<"SHA", Take(d, m)>> = <<"SHA", Take(e, n)>>
  BY <1>1, Zenon
<1> QED
  BY <1>2

LEMMA ShaDigest ==
  ASSUME NEW d, NEW m
  PROVE  Buffer(sha256(d, m)) /\ Bytes(sha256(d, m)) = 32
<1>1. DigestLen = 32 /\ 32 \in Nat \ {0}
  BY DEF DigestLen
<1> QED
  BY <1>1, BytesOfOne DEF sha256

\* Two pieces one after the other.
LEMMA TwoPieces ==
  ASSUME NEW p, NEW q
  PROVE  <<p>> \o <<q>> = <<p, q>>
<1> DEFINE S == {p, q}
           a == <<p>>
           b == <<q>>
           c == <<p, q>>
<1>1. /\ a \in Seq(S) /\ Len(a) = 1 /\ a[1] = p
      /\ b \in Seq(S) /\ Len(b) = 1 /\ b[1] = q
      /\ c \in Seq(S) /\ Len(c) = 2 /\ c[1] = p /\ c[2] = q
  OBVIOUS
<1> HIDE DEF S, a, b, c
<1>2. a \o b \in Seq(S) /\ Len(a \o b) = 2 /\ (a \o b)[1] = p /\ (a \o b)[2] = q
  <2>1. /\ a \o b \in Seq(S) /\ Len(a \o b) = Len(a) + Len(b)
        /\ \A i \in 1..Len(a) + Len(b) :
             (a \o b)[i] = IF i <= Len(a) THEN a[i] ELSE b[i - Len(a)]
    BY <1>1, ConcatProperties, Zenon
  <2> QED
    BY <1>1, <2>1
<1>3. \A i \in 1..2 : (a \o b)[i] = c[i]
  BY <1>1, <1>2
<1>4. a \o b = c
  BY <1>1, <1>2, <1>3, SeqEqual
<1> QED
  BY <1>4 DEF a, b, c

LEMMA BytesOfTwo ==
  ASSUME NEW v, NEW w, NEW m \in Nat \ {0}, NEW n \in Nat \ {0}
  PROVE  /\ Buffer(<<Piece(v, m), Piece(w, n)>>)
         /\ Bytes(<<Piece(v, m), Piece(w, n)>>) = m + n
<1> DEFINE p == Piece(v, m)
           q == Piece(w, n)
<1>1. Buffer(<<p>>) /\ Bytes(<<p>>) = m /\ Buffer(<<q>>) /\ Bytes(<<q>>) = n
  BY BytesOfOne
<1> HIDE DEF p, q
<1>2. <<p>> \o <<q>> = <<p, q>>
  BY TwoPieces
<1>3. Buffer(<<p>> \o <<q>>) /\ Bytes(<<p>> \o <<q>>) = Bytes(<<p>>) + Bytes(<<q>>)
  BY <1>1, BytesOfBoth, Zenon
<1>4. Bytes(<<p>>) + Bytes(<<q>>) = m + n
  BY <1>1
<1> QED
  BY <1>2, <1>3, <1>4, Zenon DEF p, q

LEMMA KeyPad ==
  ASSUME NEW k, NEW pad
  PROVE  Buffer(key_pad_block(k, pad)) /\ Bytes(key_pad_block(k, pad)) = 64
<1>1. 32 \in Nat \ {0} /\ 32 + 32 = 64
  OBVIOUS
<1>2. Buffer(key_pad_block(k, pad)) /\ Bytes(key_pad_block(k, pad)) = 32 + 32
  BY <1>1, BytesOfTwo DEF key_pad_block
<1> QED
  BY <1>1, <1>2

SameAfterTwo(p, q, s, o, r, t) == <<p, q>> \o s = <<o, r>> \o t

LEMMA TwoPiecesCancel ==
  ASSUME NEW s, NEW t, Buffer(s), Buffer(t), NEW a, NEW b, NEW c, NEW d,
         SameAfterTwo(a, c, s, b, d, t)
  PROVE  a = b /\ c = d /\ s = t
<1>1. PICK P : Pieces(P) /\ s \in Seq(P)
  BY DEF Buffer
<1>2. PICK Q : Pieces(Q) /\ t \in Seq(Q)
  BY DEF Buffer
<1> DEFINE R == (P \cup Q) \cup {a, b, c, d}
           u == <<a, c>> \o s
           v == <<b, d>> \o t
<1>3. u = v
  BY DEF SameAfterTwo
<1>4. s \in Seq(R) /\ t \in Seq(R) /\ a \in R /\ b \in R /\ c \in R /\ d \in R
  BY <1>1, <1>2
<1> HIDE DEF R
<1>5. /\ Len(u) = 2 + Len(s) /\ Len(v) = 2 + Len(t) /\ Len(s) \in Nat /\ Len(t) \in Nat
      /\ u[1] = a /\ v[1] = b /\ u[2] = c /\ v[2] = d
      /\ \A i \in 1..Len(s) : u[i + 2] = s[i]
      /\ \A i \in 1..Len(t) : v[i + 2] = t[i]
  BY <1>4
<1> HIDE DEF u, v
<1>6. Len(s) = Len(t) /\ a = b /\ c = d
  BY <1>3, <1>5
<1>7. s = t
  BY <1>3, <1>4, <1>5, <1>6, SeqEqual
<1> QED
  BY <1>6, <1>7

SameBlocks(k, l, pad, s, t) == key_pad_block(k, pad) \o s = key_pad_block(l, pad) \o t

LEMMA BlocksCancel ==
  ASSUME NEW s, NEW t, Buffer(s), Buffer(t), NEW k, NEW l, NEW pad, SameBlocks(k, l, pad, s, t)
  PROVE  k = l /\ s = t
<1> DEFINE a == Piece(<<"KEYPAD", k, pad>>, 32)
           b == Piece(<<"KEYPAD", l, pad>>, 32)
           c == Piece(<<"PAD", pad>>, 32)
<1>1. SameAfterTwo(a, c, s, b, c, t)
  BY DEF SameAfterTwo, SameBlocks, key_pad_block
<1>2. a.v = <<"KEYPAD", k, pad>> /\ b.v = <<"KEYPAD", l, pad>>
  BY DEF Piece
<1> HIDE DEF a, b, c
<1>3. a = b /\ s = t
  BY <1>1, TwoPiecesCancel
<1>4. <<"KEYPAD", k, pad>> = <<"KEYPAD", l, pad>>
  BY <1>2, <1>3, Zenon
<1> QED
  BY <1>3, <1>4

LEMMA TakeBlocks ==
  ASSUME NEW d, Buffer(d), NEW key, NEW pad
  PROVE  Take(key_pad_block(key, pad) \o d, 64 + Bytes(d)) = key_pad_block(key, pad) \o d
<1> DEFINE u == key_pad_block(key, pad) \o d
<1>1. Buffer(u) /\ Bytes(u) = 64 + Bytes(d)
  BY KeyPad, BytesOfBoth
<1>2. Bytes(d) \in Nat
  <2>1. PICK P : Pieces(P) /\ d \in Seq(P)
    BY DEF Buffer
  <2>2. PICK g : Sums(g, d)
    BY <2>1, BytesRuns
  <2> QED
    BY <2>1, <2>2, BytesAre
<1> HIDE DEF u
<1>3. 64 + Bytes(d) \in Nat
  BY <1>2
<1> QED
  BY <1>1, <1>3, TakeExact DEF u

\* Equal MACs have one key and cover the same bytes of as long a message
\* (sha256.rs:305-319).
THEOREM HmacTells ==
  ASSUME NEW x, NEW y, Buffer(x), Buffer(y), NEW m \in Nat, NEW n \in Nat, NEW k, NEW l,
         hmac_sha256_var(k, x, m) = hmac_sha256_var(l, y, n)
  PROVE  k = l /\ m = n /\ Take(x, m) = Take(y, n)
<1> DEFINE inner(key, msg, len) ==
             sha256(key_pad_block(key, 54) \o Take(msg, len), BlockLen + len)
<1>0. BlockLen = 64 /\ DigestLen = 32
  BY DEF BlockLen, DigestLen
<1>2. ASSUME NEW key, NEW msg, NEW len
      PROVE  hmac_sha256_var(key, msg, len)
               = sha256(key_pad_block(key, 92) \o inner(key, msg, len), BlockLen + DigestLen)
  BY DEF hmac_sha256_var
<1>3. Buffer(inner(k, x, m)) /\ Bytes(inner(k, x, m)) = 32
      /\ Buffer(inner(l, y, n)) /\ Bytes(inner(l, y, n)) = 32
  BY ShaDigest
<1>4. inner(k, x, m) = inner(l, y, n) => Take(key_pad_block(k, 54) \o Take(x, m), BlockLen + m)
                                           = Take(key_pad_block(l, 54) \o Take(y, n), BlockLen + n)
  BY ShaTells
<1> HIDE DEF inner
<1>5. Take(key_pad_block(k, 92) \o inner(k, x, m), BlockLen + DigestLen)
        = Take(key_pad_block(l, 92) \o inner(l, y, n), BlockLen + DigestLen)
  BY <1>2, ShaTells
<1>6. key_pad_block(k, 92) \o inner(k, x, m) = key_pad_block(l, 92) \o inner(l, y, n)
  <2>1. BlockLen + DigestLen = 64 + Bytes(inner(k, x, m))
        /\ BlockLen + DigestLen = 64 + Bytes(inner(l, y, n))
    BY <1>0, <1>3, Zenon
  <2>2. Take(key_pad_block(k, 92) \o inner(k, x, m), BlockLen + DigestLen)
          = key_pad_block(k, 92) \o inner(k, x, m)
    <3>1. Take(key_pad_block(k, 92) \o inner(k, x, m), 64 + Bytes(inner(k, x, m)))
            = key_pad_block(k, 92) \o inner(k, x, m)
      BY <1>3, TakeBlocks
    <3> QED
      BY <2>1, <3>1
  <2>3. Take(key_pad_block(l, 92) \o inner(l, y, n), BlockLen + DigestLen)
          = key_pad_block(l, 92) \o inner(l, y, n)
    <3>1. Take(key_pad_block(l, 92) \o inner(l, y, n), 64 + Bytes(inner(l, y, n)))
            = key_pad_block(l, 92) \o inner(l, y, n)
      BY <1>3, TakeBlocks
    <3> QED
      BY <2>1, <3>1
  <2> QED
    BY <1>5, <2>2, <2>3
<1>7. k = l /\ inner(k, x, m) = inner(l, y, n)
  <2>1. SameBlocks(k, l, 92, inner(k, x, m), inner(l, y, n))
    BY <1>6 DEF SameBlocks
  <2> QED
    BY <1>3, <2>1, BlocksCancel
<1>8. /\ Buffer(Take(x, m)) /\ Bytes(Take(x, m)) = m
      /\ Buffer(Take(y, n)) /\ Bytes(Take(y, n)) = n
  BY TakeExact
<1>9. key_pad_block(k, 54) \o Take(x, m) = key_pad_block(l, 54) \o Take(y, n)
  <2>1. BlockLen + m = 64 + Bytes(Take(x, m)) /\ BlockLen + n = 64 + Bytes(Take(y, n))
    BY <1>0, <1>8, Zenon
  <2>2. Take(key_pad_block(k, 54) \o Take(x, m), BlockLen + m) = key_pad_block(k, 54) \o Take(x, m)
    BY <1>8, <2>1, TakeBlocks, Zenon
  <2>3. Take(key_pad_block(l, 54) \o Take(y, n), BlockLen + n) = key_pad_block(l, 54) \o Take(y, n)
    BY <1>8, <2>1, TakeBlocks, Zenon
  <2> QED
    BY <1>4, <1>7, <2>2, <2>3, Zenon
<1>10. Take(x, m) = Take(y, n)
  <2>1. SameBlocks(k, l, 54, Take(x, m), Take(y, n))
    BY <1>9 DEF SameBlocks
  <2> QED
    BY <1>8, <2>1, BlocksCancel
<1> QED
  BY <1>7, <1>8, <1>10, Zenon

-----------------------------------------------------------------------------
(* The padding of sha256 for every length that fits its buffer.            *)

Octet == 0..255
Data == [0..(HASH_CAP - 1) -> Octet]

LEMMA BlocksBounds ==
  ASSUME NEW len, Hashable(len)
  PROVE  /\ nblocks(len) \in Nat /\ nblocks(len) >= 1
         /\ total(len) = 64 * nblocks(len)
         /\ len + 9 <= total(len) /\ total(len) < len + 9 + 64
         /\ total(len) <= HASH_CAP
BY DEF Hashable, nblocks, total, HASH_CAP

LEMMA PaddedAt ==
  ASSUME NEW data, NEW len, NEW i \in 0..(HASH_CAP - 1)
  PROVE  padded(data, len)[i] =
           IF i \in (total(len) - 8)..(total(len) - 1) THEN length_byte(len, i - (total(len) - 8))
           ELSE IF i = len THEN 128
           ELSE IF i \in 0..(len - 1) THEN data[i] ELSE 0
BY Zenon DEF padded

\* Every offset sha256 writes or reads lies inside its scratch buffer.
LEMMA OffsetsInside ==
  ASSUME NEW len, Hashable(len)
  PROVE  /\ len \in 0..(HASH_CAP - 1)
         /\ \A k \in 0..7 : total(len) - 8 + k \in 0..(HASH_CAP - 1)
         /\ \A b \in 0..(nblocks(len) - 1), j \in 0..63 :
              64 * b + j \in 0..(HASH_CAP - 1) /\ 64 * b + j < total(len)
<1>1. /\ nblocks(len) \in Nat /\ nblocks(len) >= 1 /\ total(len) = 64 * nblocks(len)
      /\ len + 9 <= total(len) /\ total(len) <= HASH_CAP /\ len \in Nat
  BY BlocksBounds DEF Hashable
<1>2. \A b \in 0..(nblocks(len) - 1), j \in 0..63 :
        64 * b + j \in Nat /\ 64 * b + j < total(len)
  BY <1>1
<1>3. total(len) \in Nat /\ \A x \in Nat : x < total(len) => x \in 0..(HASH_CAP - 1)
  BY <1>1 DEF HASH_CAP
<1>4. \A k \in 0..7 : total(len) - 8 + k \in Nat /\ total(len) - 8 + k < total(len)
  BY <1>1, <1>3
<1>5. len \in Nat /\ len < total(len)
  BY <1>1, <1>3
<1> QED BY <1>2, <1>3, <1>4, <1>5

\* The length field holds the number of bits, for every length that fits: its
\* bytes 6 and 7 are the two digits of 8 * len to base 256, the others 0.
LEMMA LengthBytes ==
  ASSUME NEW len, Hashable(len)
  PROVE  /\ \A k \in 0..5 : length_byte(len, k) = 0
         /\ length_byte(len, 6) = (len * 8) \div 256 /\ length_byte(len, 6) \in 0..255
         /\ length_byte(len, 7) = (len * 8) % 256 /\ length_byte(len, 7) \in 0..255
<1>1. len \in Nat /\ len * 8 < 65536
  BY SMT DEF Hashable, HASH_CAP
<1>2. \A k \in 0..3 : length_byte(len, k) = 0
  BY SMT DEF length_byte
<1>3. length_byte(len, 4) = 0 /\ length_byte(len, 5) = 0
  BY <1>1, SMT DEF length_byte
<1>4. /\ length_byte(len, 6) = ((len * 8) \div 256) % 256
      /\ length_byte(len, 7) = ((len * 8) \div 1) % 256
  BY SMT DEF length_byte
<1>5. \A x \in Nat : x < 65536 => /\ x \div 256 \in 0..255 /\ (x \div 256) % 256 = x \div 256
                                  /\ x \div 1 = x /\ x % 256 \in 0..255
  BY SMT
<1>6. \A k \in 0..5 : k \in 0..3 \/ k = 4 \/ k = 5
  OBVIOUS
<1>7. len * 8 \in Nat
  BY <1>1, SMT
<1> QED BY <1>1, <1>2, <1>3, <1>4, <1>5, <1>6, <1>7, SMT

\* The length field of the padded buffer holds the number of bits.
LEMMA LengthIsRight ==
  ASSUME NEW data, NEW len, Hashable(len)
  PROVE  LengthRight(data, len)
<1> DEFINE buf == padded(data, len)
           t == total(len)
<1>1. t \in Nat /\ len \in Nat /\ t >= 9
  BY BlocksBounds, SMT DEF Hashable
<1>2. ASSUME NEW i \in 0..(HASH_CAP - 1), i \in (t - 8)..(t - 1)
      PROVE  buf[i] = length_byte(len, i - (t - 8))
  BY <1>2, PaddedAt, SMT
<1>3. \A k \in 0..7 : t - 8 + k \in 0..(HASH_CAP - 1)
  BY OffsetsInside
<1> HIDE DEF buf, t
<1>4. ASSUME NEW k \in 0..7
      PROVE  buf[t - 8 + k] = length_byte(len, k)
  <2>1. t - 8 + k \in (t - 8)..(t - 1) /\ (t - 8 + k) - (t - 8) = k
    BY <1>1, SMT
  <2> QED BY <1>2, <1>3, <2>1, Zenon
<1>5. ASSUME NEW i \in (t - 8)..(t - 1)
      PROVE  i - (t - 8) \in 0..7 /\ buf[i] = length_byte(len, i - (t - 8))
  <2>1. i - (t - 8) \in 0..7 /\ t - 8 + (i - (t - 8)) = i
    BY <1>1, SMT
  <2> QED BY <1>4, <2>1, SMT
<1>6. ASSUME NEW i \in (t - 8)..(t - 5)
      PROVE  buf[i] = 0
  <2>1. i \in (t - 8)..(t - 1) /\ i - (t - 8) \in 0..5
    BY <1>1, SMT
  <2> QED BY <1>5, <2>1, LengthBytes, SMT
<1>7. ASSUME NEW k \in 0..7
      PROVE  length_byte(len, k) \in 0..255
  <2>1. k \in 0..5 \/ k = 6 \/ k = 7
    BY SMT
  <2> QED BY <2>1, LengthBytes, SMT
<1>8. ASSUME NEW i \in (t - 4)..(t - 1)
      PROVE  buf[i] \in 0..255
  <2>1. i \in (t - 8)..(t - 1)
    BY <1>1, SMT
  <2> QED BY <1>5, <1>7, <2>1, SMT
<1>9. BitLength(buf, t) = 8 * len
  <2>1. t - 8 + 4 = t - 4 /\ t - 8 + 5 = t - 3 /\ t - 8 + 6 = t - 2 /\ t - 8 + 7 = t - 1
    BY <1>1, SMT
  <2>2. /\ buf[t - 4] = 0 /\ buf[t - 3] = 0
        /\ buf[t - 2] = (len * 8) \div 256 /\ buf[t - 1] = (len * 8) % 256
    <3>1. /\ buf[t - 8 + 4] = length_byte(len, 4) /\ buf[t - 8 + 5] = length_byte(len, 5)
          /\ buf[t - 8 + 6] = length_byte(len, 6) /\ buf[t - 8 + 7] = length_byte(len, 7)
      BY <1>4, SMT
    <3> QED BY <2>1, <3>1, LengthBytes, SMT
  <2>3. /\ 256 * ((len * 8) \div 256) + ((len * 8) % 256) = 8 * len
        /\ (len * 8) \div 256 \in Nat
    BY <1>1, SMT
  <2> QED BY <2>2, <2>3, SMT DEF BitLength
<1> QED BY <1>6, <1>8, <1>9 DEF LengthRight, buf, t

\* The padding is the one of FIPS 180-4 at every length that fits: neither the
\* mark nor the length field overwrites data or the other, and the length field
\* holds the number of bits.
THEOREM PaddingIsRight ==
  ASSUME NEW data, NEW len, Hashable(len)
  PROVE  PaddingRight(data, len)
<1>1. /\ nblocks(len) \in Nat /\ total(len) = 64 * nblocks(len) /\ len \in Nat
      /\ len + 9 <= total(len) /\ total(len) < len + 9 + 64 /\ total(len) <= 2048
  BY BlocksBounds DEF Hashable, HASH_CAP
<1>2. total(len) % 64 = 0
  BY <1>1
<1>3. ASSUME NEW i \in 0..(total(len) - 9)
      PROVE  padded(data, len)[i] = IF i = len THEN 128
                                    ELSE IF i \in 0..(len - 1) THEN data[i] ELSE 0
  <2>1. i \in 0..(HASH_CAP - 1) /\ i \notin (total(len) - 8)..(total(len) - 1)
    BY <1>1 DEF HASH_CAP
  <2> QED BY <2>1, PaddedAt
<1>4. /\ padded(data, len)[len] = 128
      /\ \A i \in 0..(len - 1) : padded(data, len)[i] = data[i]
      /\ \A i \in (len + 1)..(total(len) - 9) : padded(data, len)[i] = 0
  BY <1>1, <1>3
<1>5. LengthRight(data, len)
  BY LengthIsRight
<1> QED BY <1>1, <1>2, <1>4, <1>5 DEF PaddingRight, HASH_CAP

\* The last two bytes of the length field tell all lengths apart.
LEMMA LengthBytesTell ==
  ASSUME NEW m, NEW n, Hashable(m), Hashable(n),
         length_byte(m, 6) = length_byte(n, 6), length_byte(m, 7) = length_byte(n, 7)
  PROVE  m = n
<1>1. /\ m \in Nat /\ n \in Nat /\ m * 8 < 65536 /\ n * 8 < 65536
      /\ ((m * 8) \div 256) % 256 = ((n * 8) \div 256) % 256
      /\ (m * 8) % 256 = (n * 8) % 256
  BY DEF Hashable, HASH_CAP, length_byte
<1>2. \A x \in Nat : x < 65536 => (x \div 256) % 256 = x \div 256 /\ x = 256 * (x \div 256) + (x % 256)
  OBVIOUS
<1>3. m * 8 = n * 8
  BY <1>1, <1>2
<1> QED BY <1>1, <1>3

LEMMA BytesOfBlocks ==
  ASSUME NEW data, NEW len, Hashable(len), NEW i \in 0..(total(len) - 1)
  PROVE  absorbed(data, len)[i \div 64][i % 64] = padded(data, len)[i]
<1>1. /\ nblocks(len) \in Nat /\ total(len) = 64 * nblocks(len) /\ i \in Nat
  BY BlocksBounds
<1>2. /\ i \div 64 \in 0..(nblocks(len) - 1) /\ i % 64 \in 0..63
      /\ 64 * (i \div 64) + (i % 64) = i
  BY <1>1
<1> QED BY <1>2 DEF absorbed, extract_block

\* Different messages, of one length or two, never absorb the same blocks: a
\* collision of sha256 would be a collision of the compression function.
THEOREM PaddingInjective ==
  ASSUME NEW m, NEW n, Hashable(m), Hashable(n), NEW d, NEW e,
         absorbed(d, m) = absorbed(e, n)
  PROVE  m = n /\ \A i \in 0..(m - 1) : d[i] = e[i]
<1>1. /\ nblocks(m) \in Nat /\ nblocks(n) \in Nat /\ nblocks(m) >= 1 /\ nblocks(n) >= 1
      /\ total(m) = 64 * nblocks(m) /\ total(n) = 64 * nblocks(n)
      /\ m + 9 <= total(m) /\ total(m) <= 2048 /\ total(n) <= 2048 /\ m \in Nat
  BY BlocksBounds DEF Hashable, HASH_CAP
<1>2. nblocks(m) = nblocks(n)
  <2>1. 0..(nblocks(m) - 1) = 0..(nblocks(n) - 1)
    <3>1. /\ DOMAIN absorbed(d, m) = 0..(nblocks(m) - 1)
          /\ DOMAIN absorbed(e, n) = 0..(nblocks(n) - 1)
      BY DEF absorbed
    <3> QED BY <3>1
  <2>2. nblocks(m) - 1 \in 0..(nblocks(n) - 1) /\ nblocks(n) - 1 \in 0..(nblocks(m) - 1)
    BY <1>1, <2>1
  <2> QED BY <1>1, <2>2
<1>3. \A i \in 0..(total(m) - 1) : padded(d, m)[i] = padded(e, n)[i]
  BY <1>1, <1>2, BytesOfBlocks
<1>4. \A k \in {6, 7} : length_byte(m, k) = length_byte(n, k)
  <2>1. \A k \in {6, 7} : /\ padded(d, m)[total(m) - 8 + k] = length_byte(m, k)
                          /\ padded(e, n)[total(m) - 8 + k] = length_byte(n, k)
    <3>1. ASSUME NEW k \in {6, 7}
          PROVE  /\ padded(d, m)[total(m) - 8 + k] = length_byte(m, k)
                 /\ padded(e, n)[total(n) - 8 + k] = length_byte(n, k)
      <4> DEFINE x == total(m) - 8 + k
                 y == total(n) - 8 + k
      <4>1. /\ x \in (total(m) - 8)..(total(m) - 1) /\ x - (total(m) - 8) = k
            /\ y \in (total(n) - 8)..(total(n) - 1) /\ y - (total(n) - 8) = k
        BY <1>1
      <4>2. x \in 0..(HASH_CAP - 1) /\ y \in 0..(HASH_CAP - 1)
        BY <1>1, <1>2 DEF HASH_CAP
      <4> HIDE DEF x, y
      <4>3. padded(d, m)[x] = length_byte(m, k) /\ padded(e, n)[y] = length_byte(n, k)
        BY <4>1, <4>2, PaddedAt
      <4> QED BY <4>3 DEF x, y
    <3>2. total(n) = total(m)
      BY <1>1, <1>2
    <3> QED BY <3>1, <3>2
  <2>2. \A k \in {6, 7} : total(m) - 8 + k \in 0..(total(m) - 1)
    BY <1>1
  <2> QED BY <1>3, <2>1, <2>2
<1>5. m = n
  BY <1>4, LengthBytesTell
<1>6. ASSUME NEW i \in 0..(m - 1)
      PROVE  d[i] = e[i]
  <2>1. padded(d, m)[i] = d[i] /\ padded(e, n)[i] = e[i]
    BY <1>5, PaddingIsRight DEF PaddingRight
  <2>2. i \in 0..(total(m) - 1)
    BY <1>1
  <2> QED BY <1>3, <2>1, <2>2
<1> QED BY <1>5, <1>6

\* The message buffers of HMAC, HKDF, the chain step and the authenticator keep
\* every hash within the buffer of sha256: inner hash 64 + msglen, outer 96, and
\* the largest T-message 32 + 256 + 1.
THEOREM CallersFit ==
  /\ \A msglen \in 0..HMAC_MSG_CAP : Hashable(BlockLen + msglen)
  /\ Hashable(BlockLen + DigestLen)
  /\ \A infolen \in 0..HKDF_INFO_CAP : DigestLen + infolen + 1 \in 0..HMAC_MSG_CAP
BY DEF Hashable, HASH_CAP, HMAC_MSG_CAP, HKDF_INFO_CAP, BlockLen, DigestLen

-----------------------------------------------------------------------------
(* The comparison of MACs decides equality, for every pair of MACs.        *)

\* inz is 0 for zero and 1 for every other byte: the negation in 16 bits leaves
\* bit 8 set unless the byte is zero (authenticator.rs:192-196).
THEOREM InzExact == \A v \in 0..255 : inz(v) = (IF v = 0 THEN 0 ELSE 1)
<1> SUFFICES ASSUME NEW v \in 0..255 PROVE inz(v) = (IF v = 0 THEN 0 ELSE 1)
  OBVIOUS
<1> DEFINE negated == ((65535 - v) + 1) % 65536
<1>1. v \div 256 = 0
  OBVIOUS
<1>2. CASE v = 0
  <2>1. negated = 0
    BY <1>2
  <2> QED  BY <1>1, <1>2, <2>1 DEF inz
<1>3. CASE v # 0
  <2>1. negated = 65536 - v
    BY <1>3
  <2>2. negated \div 256 = 255
    BY <1>3, <2>1
  <2> QED  BY <1>1, <1>3, <2>2 DEF inz
<1> QED  BY <1>2, <1>3

\* The value of a byte fits 8 bits and is zero only when no bit is set.
LEMMA ValueOfByte == \A s \in Byte8 : Value(s) \in 0..255 /\ (Value(s) = 0 <=> s = {})
<1> SUFFICES ASSUME NEW s \in Byte8
             PROVE Value(s) \in 0..255 /\ (Value(s) = 0 <=> s = {})
  OBVIOUS
<1>1. \A b \in 0..7 : Bit(s, b) \in 0..1 /\ (Bit(s, b) = 0 <=> b \notin s)
  BY DEF Bit
<1>2. s = {} <=> \A b \in 0..7 : b \notin s
  BY Zenon DEF Byte8
<1>3. s = {} <=> \A b \in 0..7 : Bit(s, b) = 0
  BY Zenon, <1>1, <1>2
<1>4. /\ Bit(s, 0) \in 0..1 /\ Bit(s, 1) \in 0..1 /\ Bit(s, 2) \in 0..1 /\ Bit(s, 3) \in 0..1
      /\ Bit(s, 4) \in 0..1 /\ Bit(s, 5) \in 0..1 /\ Bit(s, 6) \in 0..1 /\ Bit(s, 7) \in 0..1
  BY <1>1
<1>5. (\A b \in 0..7 : Bit(s, b) = 0) <=>
        /\ Bit(s, 0) = 0 /\ Bit(s, 1) = 0 /\ Bit(s, 2) = 0 /\ Bit(s, 3) = 0
        /\ Bit(s, 4) = 0 /\ Bit(s, 5) = 0 /\ Bit(s, 6) = 0 /\ Bit(s, 7) = 0
  OBVIOUS
<1> QED  BY <1>3, <1>4, <1>5 DEF Value

\* The verifiers accept a MAC exactly when all of its 32 bytes are those that
\* were computed: no two differences cancel and no byte is left out
\* (authenticator.rs:205-213).
THEOREM CompareExact ==
  ASSUME NEW lhs \in [0..(MACSIZE - 1) -> Byte8], NEW rhs \in [0..(MACSIZE - 1) -> Byte8]
  PROVE  compare(lhs, rhs) \in {0, 1} /\ (compare(lhs, rhs) = 0 <=> lhs = rhs)
<1> DEFINE r == UNION {ByteXor(lhs[i], rhs[i]) : i \in 0..(MACSIZE - 1)}
<1>1. \A i \in 0..(MACSIZE - 1) :
        ByteXor(lhs[i], rhs[i]) \in Byte8 /\ (ByteXor(lhs[i], rhs[i]) = {} <=> lhs[i] = rhs[i])
  <2> TAKE i \in 0..(MACSIZE - 1)
  <2>1. lhs[i] \in Byte8 /\ rhs[i] \in Byte8
    OBVIOUS
  <2> QED  BY <2>1 DEF ByteXor, Byte8
<1>0. \A x : x \in r <=> \E i \in 0..(MACSIZE - 1) : x \in ByteXor(lhs[i], rhs[i])
  OBVIOUS
<1> HIDE DEF r
<1>2. r \in Byte8
  <2>1. \A x \in r : x \in 0..7
    BY <1>0, <1>1 DEF Byte8
  <2> QED  BY <2>1 DEF Byte8
<1>3. r = {} <=> \A i \in 0..(MACSIZE - 1) : lhs[i] = rhs[i]
  <2>1. r = {} <=> \A x : x \notin r
    BY Zenon
  <2>2. (\A x : x \notin r) <=> \A i \in 0..(MACSIZE - 1) : ByteXor(lhs[i], rhs[i]) = {}
    BY Zenon, <1>0
  <2> QED  BY Zenon, <1>1, <2>1, <2>2
<1>4. lhs = rhs <=> \A i \in 0..(MACSIZE - 1) : lhs[i] = rhs[i]
  <2>1. lhs = [i \in 0..(MACSIZE - 1) |-> lhs[i]] /\ rhs = [i \in 0..(MACSIZE - 1) |-> rhs[i]]
    BY Zenon
  <2> QED  BY Zenon, <2>1
<1>5. compare(lhs, rhs) = inz(Value(r))
  BY Zenon DEF compare, r
<1>6. Value(r) \in 0..255 /\ (Value(r) = 0 <=> r = {})
  BY <1>2, ValueOfByte
<1>7. inz(Value(r)) = (IF Value(r) = 0 THEN 0 ELSE 1)
  BY Zenon, <1>6, InzExact
<1> QED  BY <1>3, <1>4, <1>5, <1>6, <1>7
=============================================================================
