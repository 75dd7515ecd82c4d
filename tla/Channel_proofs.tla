--------------------------- MODULE Channel_proofs ----------------------------
(***************************************************************************)
(* Channel for every number of steps, messages and damaged copies, every   *)
(* set of lengths and every width of the counter.                          *)
(*                                                                         *)
(* The state holds the last chain key of a party only, so the invariant    *)
(* says that there is a history: the states the chain has been through,    *)
(* from the one derived from the handshake on.  Two keys of one history    *)
(* are equal only if the keys they come of are, down to the first.         *)
(*                                                                         *)
(* Three parts: that keys differ and only what was sealed is opened; that  *)
(* what came of a key is out of reach without one of the keys behind it;   *)
(* that all that was hashed on the way fits the buffer.                    *)
(***************************************************************************)
EXTENDS Channel, Hashing_proofs

Key(b) == Buffer(b) /\ Bytes(b) = 32

\* v is a MAC taken over n bytes.
Covers(v, n) == \E k, x : Buffer(x) /\ v = hmac_sha256_var(k, x, n)

SameMac(k, x, m, l, y, n) == hmac_sha256_var(k, x, m) = hmac_sha256_var(l, y, n)

LEMMA MacTells ==
  ASSUME NEW x, NEW y, Buffer(x), Buffer(y), NEW m \in Nat, NEW n \in Nat, NEW k, NEW l,
         SameMac(k, x, m, l, y, n)
  PROVE  k = l /\ m = n /\ Take(x, m) = Take(y, n)
BY HmacTells DEF SameMac

LEMMA MacIsKey ==
  ASSUME NEW k, NEW x, NEW n
  PROVE  Key(hmac_sha256_var(k, x, n))
BY ShaDigest DEF hmac_sha256_var, Key

LEMMA CoversOne ==
  ASSUME NEW v, NEW m \in Nat, NEW n \in Nat, Covers(v, m), Covers(v, n)
  PROVE  m = n
<1>1. PICK k, x : Buffer(x) /\ v = hmac_sha256_var(k, x, m)
  BY DEF Covers
<1>2. PICK l, y : Buffer(y) /\ v = hmac_sha256_var(l, y, n)
  BY DEF Covers
<1>3. SameMac(k, x, m, l, y, n)
  BY <1>1, <1>2 DEF SameMac
<1> QED
  BY <1>1, <1>2, <1>3, MacTells

LEMMA BytesNat == ASSUME NEW s, Buffer(s) PROVE Bytes(s) \in Nat
<1>1. PICK P : Pieces(P) /\ s \in Seq(P)
  BY DEF Buffer
<1>2. PICK g : Sums(g, s)
  BY <1>1, BytesRuns
<1> QED
  BY <1>1, <1>2, BytesAre

LEMMA OneByte == \A b : Buffer(Byte(b)) /\ Bytes(Byte(b)) = 1
BY BytesOfOne DEF Byte

-----------------------------------------------------------------------------
(* One step of the chain.                                                  *)

Info(ctr) == <<Piece(<<"CTR", (ctr + 1) % U32>>, 4), Piece(CHAIN_NEXT_LABEL, 31)>>
Prk(next) == hkdf_extract(Zeros(32), next, 32)

LEMMA InfoBuffer == \A ctr : Buffer(Info(ctr)) /\ Bytes(Info(ctr)) = 35
<1> TAKE ctr
<1>1. Buffer(Info(ctr)) /\ Bytes(Info(ctr)) = 4 + 31
  BY BytesOfTwo DEF Info
<1> QED
  BY <1>1

LEMMA StepIs ==
  ASSUME NEW next, NEW ctr
  PROVE  /\ spqr_chain_next(next, ctr).next = T1(Prk(next), Info(ctr), 35)
         /\ spqr_chain_next(next, ctr).out
              = Tn(Prk(next), T1(Prk(next), Info(ctr), 35), Info(ctr), 35, 2)
         /\ spqr_chain_next(next, ctr).ctr = (ctr + 1) % U32
<1> DEFINE g == hkdf_expand_64(Prk(next), Info(ctr), 35)
<1>1. spqr_chain_next(next, ctr) = [ctr |-> (ctr + 1) % U32, next |-> g[1], out |-> g[2]]
  BY DEF spqr_chain_next, Prk, Info
<1>2. /\ g[1] = T1(Prk(next), Info(ctr), 35)
      /\ g[2] = Tn(Prk(next), T1(Prk(next), Info(ctr), 35), Info(ctr), 35, 2)
  BY DEF hkdf_expand_64
<1> HIDE DEF g
<1> QED
  BY <1>1, <1>2

\* The blocks of an expansion are MACs under the pseudo-random key over so
\* many bytes.
LEMMA BlocksCover ==
  ASSUME NEW prk, NEW info, Buffer(info), NEW prev, Buffer(prev), NEW len \in Nat, NEW ctr
  PROVE  /\ Buffer(hkdf_t1_msg(info, len, 1)) /\ Buffer(hkdf_tn_msg(prev, info, len, ctr))
         /\ Covers(T1(prk, info, len), len + 1)
         /\ Covers(Tn(prk, prev, info, len, ctr), (32 + len) + 1)
<1>1. Buffer(Take(info, len))
  BY TakeExact
<1>2. Buffer(Take(info, len) \o Byte(1)) /\ Buffer(prev \o Take(info, len))
  BY <1>1, OneByte, BytesOfBoth
<1>3. Buffer((prev \o Take(info, len)) \o Byte(ctr))
  BY <1>2, OneByte, BytesOfBoth
<1> QED
  BY <1>2, <1>3 DEF Covers, T1, Tn, hkdf_t1_msg, hkdf_tn_msg

SameStep(x, c, y, d) ==
  \/ spqr_chain_next(x, c).next = spqr_chain_next(y, d).next
  \/ spqr_chain_next(x, c).out = spqr_chain_next(y, d).out

\* A step that comes to the same key was taken from the same key.
LEMMA StepBack ==
  ASSUME NEW x, NEW y, Key(x), Key(y), NEW c, NEW d, SameStep(x, c, y, d)
  PROVE  x = y
<1> DEFINE t == T1(Prk(x), Info(c), 35)
           u == T1(Prk(y), Info(d), 35)
<1>1. 35 \in Nat /\ 32 \in Nat /\ 36 \in Nat /\ 68 \in Nat
  OBVIOUS
<1>2. Key(t) /\ Key(u)
  BY MacIsKey DEF T1
<1>3. /\ Buffer(hkdf_t1_msg(Info(c), 35, 1)) /\ Buffer(hkdf_t1_msg(Info(d), 35, 1))
      /\ Buffer(hkdf_tn_msg(t, Info(c), 35, 2)) /\ Buffer(hkdf_tn_msg(u, Info(d), 35, 2))
  <2> HIDE DEF t, u
  <2> QED
    BY <1>1, <1>2, InfoBuffer, BlocksCover DEF Key
<1>4. Prk(x) = Prk(y)
  <2>1. CASE t = u
    <3>1. SameMac(Prk(x), hkdf_t1_msg(Info(c), 35, 1), 35 + 1,
                  Prk(y), hkdf_t1_msg(Info(d), 35, 1), 35 + 1)
      BY <2>1 DEF SameMac, T1
    <3> QED
      BY <1>3, <3>1, MacTells
  <2>2. CASE Tn(Prk(x), t, Info(c), 35, 2) = Tn(Prk(y), u, Info(d), 35, 2)
    <3>1. SameMac(Prk(x), hkdf_tn_msg(t, Info(c), 35, 2), 32 + 35 + 1,
                  Prk(y), hkdf_tn_msg(u, Info(d), 35, 2), 32 + 35 + 1)
      BY <2>2 DEF SameMac, Tn
    <3> HIDE DEF t, u
    <3> QED
      BY <1>3, <3>1, MacTells
  <2> QED
    BY <2>1, <2>2, StepIs DEF SameStep
<1>5. SameMac(Zeros(32), x, 32, Zeros(32), y, 32)
  BY <1>4 DEF Prk, hkdf_extract, SameMac
<1>6. Take(x, 32) = Take(y, 32)
  BY <1>5, MacTells DEF Key
<1>7. Take(x, 32) = x /\ Take(y, 32) = y
  BY <1>1, TakeExact DEF Key
<1> QED
  BY <1>6, <1>7

LEMMA StepKeys ==
  ASSUME NEW x, NEW c
  PROVE  /\ Key(spqr_chain_next(x, c).next) /\ Covers(spqr_chain_next(x, c).next, 36)
         /\ Key(spqr_chain_next(x, c).out) /\ Covers(spqr_chain_next(x, c).out, 68)
<1> DEFINE t == T1(Prk(x), Info(c), 35)
           u == Tn(Prk(x), t, Info(c), 35, 2)
<1>1. Key(t) /\ Key(u)
  BY MacIsKey DEF T1, Tn
<1>2. Covers(t, 35 + 1) /\ Covers(u, (32 + 35) + 1)
  <2>1. 35 \in Nat /\ Buffer(Info(c)) /\ Buffer(t)
    BY <1>1, InfoBuffer DEF Key
  <2>2. Covers(t, 35 + 1)
    BY <2>1, BlocksCover
  <2> HIDE DEF t
  <2>3. Covers(u, (32 + 35) + 1)
    BY <2>1, BlocksCover
  <2> QED
    BY <2>2, <2>3
<1>3. spqr_chain_next(x, c).next = t /\ spqr_chain_next(x, c).out = u
  BY StepIs
<1> HIDE DEF t, u
<1>4. Covers(t, 36) /\ Covers(u, 68)
  BY <1>2
<1> QED
  BY <1>1, <1>3, <1>4

-----------------------------------------------------------------------------
(* The keys of the derivation.                                             *)

SameLast(s, a, t, b) == s \o Byte(a) = t \o Byte(b)

LEMMA LastByteTells ==
  ASSUME NEW s, NEW t, Buffer(s), Buffer(t), NEW a, NEW b, SameLast(s, a, t, b)
  PROVE  a = b
<1>1. PICK P : Pieces(P) /\ s \in Seq(P)
  BY DEF Buffer
<1>2. PICK Q : Pieces(Q) /\ t \in Seq(Q)
  BY DEF Buffer
<1> DEFINE p == Piece(<<"BYTE", a>>, 1)
           q == Piece(<<"BYTE", b>>, 1)
           R == (P \cup Q) \cup {p, q}
           u == s \o <<p>>
           v == t \o <<q>>
<1>3. u = v
  BY DEF SameLast, Byte
<1>4. p.v = <<"BYTE", a>> /\ q.v = <<"BYTE", b>>
  BY DEF Piece
<1> HIDE DEF p, q
<1>5. s \in Seq(R) /\ t \in Seq(R) /\ p \in R /\ q \in R
  BY <1>1, <1>2
<1> HIDE DEF R
<1>6. /\ Len(u) = Len(s) + 1 /\ Len(v) = Len(t) + 1 /\ Len(s) \in Nat /\ Len(t) \in Nat
      /\ u[Len(s) + 1] = p /\ v[Len(t) + 1] = q
  BY <1>5
<1> HIDE DEF u, v
<1>7. p = q
  BY <1>3, <1>6
<1>8. <<"BYTE", a>> = <<"BYTE", b>>
  BY <1>4, <1>7, Zenon
<1> QED
  BY <1>8

Prk0 == hkdf_extract(Zeros(32), Secret, SecretLen)

LEMMA DerivedIs ==
  /\ Derived[1] = T1(Prk0, Label, 46)
  /\ Derived[2] = Tn(Prk0, Derived[1], Label, 46, 2)
  /\ Derived[3] = Tn(Prk0, Derived[2], Label, 46, 3)
BY DEF Derived, hkdf_expand_96, Prk0

LEMMA LabelBuffer == Buffer(Label) /\ Bytes(Label) = 46 /\ Take(Label, 46) = Label
<1>1. Buffer(Label) /\ Bytes(Label) = 46
  BY BytesOfOne DEF Label
<1> QED
  BY <1>1, TakeExact

LEMMA DerivedKeys ==
  /\ Key(Derived[1]) /\ Covers(Derived[1], 47)
  /\ Key(Derived[2]) /\ Covers(Derived[2], 79)
  /\ Key(Derived[3]) /\ Covers(Derived[3], 79)
  /\ Derived[2] # Derived[3]
<1> DEFINE a == Derived[1]
           b == Derived[2]
           c == Derived[3]
<1>0. a = T1(Prk0, Label, 46) /\ b = Tn(Prk0, a, Label, 46, 2) /\ c = Tn(Prk0, b, Label, 46, 3)
  BY DerivedIs
<1> HIDE DEF a, b, c
<1>1. Key(a) /\ Key(b) /\ Key(c)
  BY <1>0, MacIsKey DEF T1, Tn
<1>2. /\ Covers(a, 46 + 1) /\ Covers(b, (32 + 46) + 1) /\ Covers(c, (32 + 46) + 1)
      /\ Buffer(hkdf_tn_msg(a, Label, 46, 2)) /\ Buffer(hkdf_tn_msg(b, Label, 46, 3))
  <2>1. 46 \in Nat /\ Buffer(Label) /\ Buffer(a) /\ Buffer(b)
    BY <1>1, LabelBuffer DEF Key
  <2>2. Covers(a, 46 + 1)
    BY <1>0, <2>1, BlocksCover
  <2>3. Covers(b, (32 + 46) + 1) /\ Buffer(hkdf_tn_msg(a, Label, 46, 2))
    BY <1>0, <2>1, BlocksCover
  <2>4. Covers(c, (32 + 46) + 1) /\ Buffer(hkdf_tn_msg(b, Label, 46, 3))
    BY <1>0, <2>1, BlocksCover
  <2> QED
    BY <2>2, <2>3, <2>4
<1>3. Covers(a, 47) /\ Covers(b, 79) /\ Covers(c, 79)
  BY <1>2
<1>4. ASSUME b = c PROVE FALSE
  <2> DEFINE s == a \o Label
             t == b \o Label
             x == s \o Byte(2)
             y == t \o Byte(3)
  <2>1. hkdf_tn_msg(a, Label, 46, 2) = x /\ hkdf_tn_msg(b, Label, 46, 3) = y
    BY LabelBuffer DEF hkdf_tn_msg
  <2>2. SameMac(Prk0, x, (32 + 46) + 1, Prk0, y, (32 + 46) + 1)
    BY <1>0, <1>4, <2>1 DEF SameMac, Tn
  <2>3. /\ Buffer(s) /\ Bytes(s) = 32 + 46 /\ Buffer(t) /\ Bytes(t) = 32 + 46
    BY <1>1, LabelBuffer, BytesOfBoth DEF Key
  <2>4. SameLast(s, 2, t, 3) <=> x = y
    BY DEF SameLast
  <2> HIDE DEF s, t
  <2>5. Buffer(x) /\ Bytes(x) = (32 + 46) + 1 /\ Buffer(y) /\ Bytes(y) = (32 + 46) + 1
    BY <2>3, OneByte, BytesOfBoth
  <2> DEFINE n == (32 + 46) + 1
  <2>6. n \in Nat
    OBVIOUS
  <2> HIDE DEF x, y, n
  <2>7. SameMac(Prk0, x, n, Prk0, y, n) /\ Bytes(x) = n /\ Bytes(y) = n
    BY <2>2, <2>5 DEF n
  <2>8. Take(x, n) = Take(y, n)
    BY <2>5, <2>6, <2>7, MacTells
  <2>9. Take(x, n) = x /\ Take(y, n) = y
    BY <2>5, <2>6, <2>7, TakeExact
  <2>10. 2 = 3
    BY <2>3, <2>4, <2>8, <2>9, LastByteTells
  <2> QED
    BY <2>10
<1> QED
  BY <1>1, <1>3, <1>4 DEF a, b, c

-----------------------------------------------------------------------------
(* The history of a chain.                                                 *)

After(x) == [next |-> spqr_chain_next(x.next, x.ctr).next,
             ctr  |-> spqr_chain_next(x.next, x.ctr).ctr]
OutOf(x) == spqr_chain_next(x.next, x.ctr).out

\* The states of a chain that has handed out the keys o, the first derived from
\* the handshake.
History(h, o) ==
  /\ h[0] = [next |-> Derived[2], ctr |-> 0]
  /\ \A i \in 0..Len(o) - 1 : h[i + 1] = After(h[i]) /\ o[i + 1] = OutOf(h[i])

LEMMA HistoryKeys ==
  ASSUME NEW P, NEW o \in Seq(P), NEW h, History(h, o)
  PROVE  /\ \A i \in 0..Len(o) : Key(h[i].next)
         /\ \A i \in 1..Len(o) : Covers(h[i].next, 36)
         /\ \A i \in 1..Len(o) : Key(o[i]) /\ Covers(o[i], 68)
<1>1. Key(h[0].next)
  BY DerivedKeys DEF History
<1>2. ASSUME NEW i \in 1..Len(o)
      PROVE  /\ Key(h[i].next) /\ Covers(h[i].next, 36)
             /\ Key(o[i]) /\ Covers(o[i], 68)
  <2>1. i - 1 \in 0..Len(o) - 1 /\ (i - 1) + 1 = i
    OBVIOUS
  <2>2. h[i] = After(h[i - 1]) /\ o[i] = OutOf(h[i - 1])
    BY <2>1 DEF History
  <2>3. h[i].next = spqr_chain_next(h[i - 1].next, h[i - 1].ctr).next
        /\ o[i] = spqr_chain_next(h[i - 1].next, h[i - 1].ctr).out
    BY <2>2 DEF After, OutOf
  <2> QED
    BY <2>3, StepKeys
<1>3. \A i \in 0..Len(o) : i = 0 \/ i \in 1..Len(o)
  OBVIOUS
<1> QED
  BY <1>1, <1>2, <1>3

\* No chain key comes back: a repetition could be followed down to the key of
\* the handshake, which covers more bytes than any other.
LEMMA ChainKeysDiffer ==
  ASSUME NEW P, NEW o \in Seq(P), NEW h, History(h, o)
  PROVE  \A i, j \in 0..Len(o) : i < j => h[i].next # h[j].next
<1> DEFINE S == {i \in Nat : \A j \in 0..Len(o) : i < j => h[i].next # h[j].next}
<1>1. 0 \in S
  <2> SUFFICES ASSUME NEW j \in 0..Len(o), 0 < j, h[0].next = h[j].next PROVE FALSE
    OBVIOUS
  <2>1. Covers(h[j].next, 36)
    BY HistoryKeys
  <2>2. Covers(h[0].next, 79)
    BY DerivedKeys DEF History
  <2> QED
    BY <2>1, <2>2, CoversOne
<1>2. ASSUME NEW i \in Nat, i \in S PROVE i + 1 \in S
  <2> SUFFICES ASSUME NEW j \in 0..Len(o), i + 1 < j, h[i + 1].next = h[j].next PROVE FALSE
    OBVIOUS
  <2>1. /\ j - 1 \in 0..Len(o) - 1 /\ j - 1 \in 0..Len(o) /\ (j - 1) + 1 = j
        /\ i \in 0..Len(o) - 1 /\ i \in 0..Len(o) /\ i < j - 1
    OBVIOUS
  <2>2. h[i + 1] = After(h[i]) /\ h[j] = After(h[j - 1])
    BY <2>1 DEF History
  <2>3. SameStep(h[i].next, h[i].ctr, h[j - 1].next, h[j - 1].ctr)
    BY <2>2 DEF After, SameStep
  <2>4. Key(h[i].next) /\ Key(h[j - 1].next)
    BY <2>1, HistoryKeys
  <2>5. h[i].next = h[j - 1].next
    BY <2>3, <2>4, StepBack
  <2>6. h[i].next # h[j - 1].next
    BY <1>2, <2>1
  <2> QED
    BY <2>5, <2>6
<1>3. \A i \in Nat : i \in S
  <2> HIDE DEF S
  <2> QED
    BY <1>1, <1>2, Induction
<1> QED
  BY <1>3

LEMMA OutputKeysDiffer ==
  ASSUME NEW P, NEW o \in Seq(P), NEW h, History(h, o)
  PROVE  \A i, j \in 1..Len(o) : i < j => o[i] # o[j]
<1> SUFFICES ASSUME NEW i \in 1..Len(o), NEW j \in 1..Len(o), i < j, o[i] = o[j] PROVE FALSE
  OBVIOUS
<1>1. /\ i - 1 \in 0..Len(o) - 1 /\ i - 1 \in 0..Len(o) /\ (i - 1) + 1 = i
      /\ j - 1 \in 0..Len(o) - 1 /\ j - 1 \in 0..Len(o) /\ (j - 1) + 1 = j
      /\ i - 1 < j - 1
  OBVIOUS
<1>2. o[i] = OutOf(h[i - 1]) /\ o[j] = OutOf(h[j - 1])
  BY <1>1 DEF History
<1>3. SameStep(h[i - 1].next, h[i - 1].ctr, h[j - 1].next, h[j - 1].ctr)
  BY <1>2 DEF OutOf, SameStep
<1>4. Key(h[i - 1].next) /\ Key(h[j - 1].next)
  BY <1>1, HistoryKeys
<1>5. h[i - 1].next = h[j - 1].next
  BY <1>3, <1>4, StepBack
<1>6. h[i - 1].next # h[j - 1].next
  BY <1>1, ChainKeysDiffer
<1> QED
  BY <1>5, <1>6

-----------------------------------------------------------------------------
(* No key of a chain comes back.                                           *)

LEMMA AllDifferent ==
  ASSUME NEW P, NEW u \in Seq(P), \A i, j \in 1..Len(u) : i < j => u[i] # u[j]
  PROVE  Cardinality(ToSet(u)) = Len(u)
<1> DEFINE n == Len(u)
           T == ToSet(u)
<1>1. n \in Nat /\ DOMAIN u = 1..n /\ u \in [1..n -> P]
  OBVIOUS
<1>2. T = {u[i] : i \in 1..n}
  BY <1>1 DEF ToSet
<1>3. \A i, j \in 1..n : u[i] = u[j] => i = j
  BY <1>1
<1> HIDE DEF n, T
<1>4. u \in Surjection(1..n, T) /\ u \in Injection(1..n, T)
  <2>1. u \in [1..n -> T] /\ \A t \in T : \E s \in 1..n : u[s] = t
    BY <1>1, <1>2
  <2> QED
    BY <2>1, <1>3 DEF Surjection, Injection, IsInjective
<1>5. IsFiniteSet(1..n) /\ Cardinality(1..n) = n
  BY <1>1, FS_Interval
<1>6. Cardinality(T) = Cardinality(1..n)
  BY <1>4, <1>5, FS_Surjection
<1> QED
  BY <1>5, <1>6 DEF n, T

\* One party's chain has a history that ends in the state it holds.
Recorded(c, o) ==
  /\ \E P : o \in Seq(P)
  /\ \E h : History(h, o) /\ c = h[Len(o)]

HistoryInv == /\ DOMAIN chain = Party /\ DOMAIN out = Party
              /\ \A p \in Party : Recorded(chain[p], out[p])

LEMMA RecordedInit == Recorded([next |-> Derived[2], ctr |-> 0], <<>>)
<1> DEFINE h == [i \in {0} |-> [next |-> Derived[2], ctr |-> 0]]
<1>1. Len(<<>>) = 0 /\ 0..Len(<<>>) - 1 = {} /\ <<>> \in Seq({})
  OBVIOUS
<1>2. h[0] = [next |-> Derived[2], ctr |-> 0]
  OBVIOUS
<1> HIDE DEF h
<1>3. History(h, <<>>)
  BY <1>1, <1>2 DEF History
<1> QED
  BY <1>1, <1>2, <1>3 DEF Recorded

\* A history goes on with every step.
LEMMA HistoryStep ==
  ASSUME NEW P, NEW o \in Seq(P), NEW h, History(h, o), NEW c, c = h[Len(o)]
  PROVE  /\ \E R : Append(o, OutOf(c)) \in Seq(R)
         /\ Len(Append(o, OutOf(c))) = Len(o) + 1
         /\ \E g : /\ History(g, Append(o, OutOf(c))) /\ g[Len(o) + 1] = After(c)
                  /\ \A i \in 0..Len(o) : g[i] = h[i]
<1> DEFINE n == Len(o)
           u == Append(o, OutOf(c))
           g == [i \in 0..n + 1 |-> IF i = n + 1 THEN After(c) ELSE h[i]]
           Q == P \cup {OutOf(c)}
<1>3. n \in Nat /\ o \in Seq(Q)
  OBVIOUS
<1>4. /\ u \in Seq(Q) /\ Len(u) = n + 1 /\ u[n + 1] = OutOf(c)
      /\ \A i \in 1..n : u[i] = o[i]
  <2>1. OutOf(c) \in Q
    OBVIOUS
  <2> HIDE DEF Q
  <2> QED
    BY <1>3, <2>1
<1>5. /\ g[n + 1] = After(c) /\ \A i \in 0..n : g[i] = h[i]
  BY <1>3
<1>6. /\ h[0] = [next |-> Derived[2], ctr |-> 0]
      /\ \A i \in 0..n - 1 : h[i + 1] = After(h[i]) /\ o[i + 1] = OutOf(h[i])
      /\ c = h[n]
  BY DEF History
<1> HIDE DEF u, g, n
<1>7. g[0] = [next |-> Derived[2], ctr |-> 0]
  <2>1. 0 \in 0..n
    BY <1>3
  <2> QED
    BY <2>1, <1>5, <1>6
<1>8. ASSUME NEW i \in 0..(n + 1) - 1
      PROVE  g[i + 1] = After(g[i]) /\ u[i + 1] = OutOf(g[i])
  <2>1. CASE i = n
    <3>1. n \in 0..n
      BY <1>3
    <3> QED
      BY <2>1, <3>1, <1>4, <1>5, <1>6
  <2>2. CASE i # n
    <3>1. i \in 0..n - 1 /\ i \in 0..n /\ i + 1 \in 0..n /\ i + 1 \in 1..n
      BY <1>3, <2>2
    <3> QED
      BY <3>1, <1>4, <1>5, <1>6
  <2> QED
    BY <2>1, <2>2
<1>9. History(g, u)
  BY <1>4, <1>7, <1>8 DEF History
<1> QED
  BY <1>4, <1>5, <1>9 DEF u, n

LEMMA RecordedStep ==
  ASSUME NEW c, NEW o, Recorded(c, o)
  PROVE  Recorded(After(c), Append(o, OutOf(c)))
<1>1. PICK P : o \in Seq(P)
  BY DEF Recorded
<1>2. PICK h : History(h, o) /\ c = h[Len(o)]
  BY DEF Recorded
<1> QED
  BY <1>1, <1>2, HistoryStep DEF Recorded

LEMMA HistoryInitially == Init => HistoryInv
<1> SUFFICES ASSUME Init PROVE HistoryInv
  OBVIOUS
<1>1. /\ DOMAIN chain = Party /\ DOMAIN out = Party
      /\ \A p \in Party : chain[p] = [next |-> Derived[2], ctr |-> 0] /\ out[p] = <<>>
  BY DEF Init
<1> QED
  BY <1>1, RecordedInit DEF HistoryInv

LEMMA HistoryKept == HistoryInv /\ [Next]_vars => HistoryInv'
<1> SUFFICES ASSUME HistoryInv, [Next]_vars PROVE HistoryInv'
  OBVIOUS
<1>1. CASE UNCHANGED <<chain, out>>
  BY <1>1 DEF HistoryInv
<1>2. ASSUME NEW p \in Party, Step(p) PROVE HistoryInv'
  <2>1. /\ chain' = [chain EXCEPT ![p] = After(chain[p])]
        /\ out' = [out EXCEPT ![p] = Append(out[p], OutOf(chain[p]))]
    BY <1>2 DEF Step, After, OutOf
  <2>2. DOMAIN chain = Party /\ DOMAIN out = Party /\ Recorded(chain[p], out[p])
    BY DEF HistoryInv
  <2>3. chain'[p] = After(chain[p]) /\ out'[p] = Append(out[p], OutOf(chain[p]))
    BY <2>1, <2>2
  <2>4. \A q \in Party : q # p => chain'[q] = chain[q] /\ out'[q] = out[q]
    BY <2>1, <2>2
  <2>5. DOMAIN chain' = Party /\ DOMAIN out' = Party
    BY <2>1, <2>2
  <2>6. Recorded(chain'[p], out'[p])
    BY <2>2, <2>3, RecordedStep
  <2>7. ASSUME NEW q \in Party PROVE Recorded(chain'[q], out'[q])
    BY <2>4, <2>6 DEF HistoryInv
  <2> QED
    BY <2>5, <2>7 DEF HistoryInv
<1>3. ASSUME NEW len \in Lens, Seal(len) PROVE UNCHANGED <<chain, out>>
  BY <1>3 DEF Seal
<1>4. ASSUME NEW m \in net, Damage(m) PROVE UNCHANGED <<chain, out>>
  BY <1>4 DEF Damage
<1>5. ASSUME NEW m \in net, NEW i \in DOMAIN out["R"], Open(m, i)
      PROVE  UNCHANGED <<chain, out>>
  BY <1>5 DEF Open
<1> QED
  BY <1>1, <1>2, <1>3, <1>4, <1>5 DEF Next, vars

\* The chain keys stepped past, in the order of that history.
Trail(c, o, s) ==
  /\ \E P : o \in Seq(P)
  /\ \E Q : s \in Seq(Q)
  /\ Len(s) = Len(o)
  /\ \E h : /\ History(h, o) /\ c = h[Len(o)]
            /\ \A i \in 1..Len(o) : s[i] = h[i - 1].next

TrailInv ==
  /\ DOMAIN chain = Party /\ DOMAIN out = Party /\ DOMAIN spent = Party
  /\ \A p \in Party : Trail(chain[p], out[p], spent[p])

LEMMA TrailInit == Trail([next |-> Derived[2], ctr |-> 0], <<>>, <<>>)
<1>1. Recorded([next |-> Derived[2], ctr |-> 0], <<>>)
  BY RecordedInit
<1>2. Len(<<>>) = 0 /\ 1..0 = {} /\ <<>> \in Seq({})
  OBVIOUS
<1> QED
  BY <1>1, <1>2 DEF Recorded, Trail

LEMMA TrailStep ==
  ASSUME NEW c, NEW o, NEW s, Trail(c, o, s)
  PROVE  Trail(After(c), Append(o, OutOf(c)), Append(s, c.next))
<1>1. PICK P : o \in Seq(P)
  BY DEF Trail
<1>2. PICK Q : s \in Seq(Q)
  BY DEF Trail
<1>3. PICK h : /\ History(h, o) /\ c = h[Len(o)]
               /\ \A i \in 1..Len(o) : s[i] = h[i - 1].next
  BY DEF Trail
<1> DEFINE u == Append(o, OutOf(c))
           t == Append(s, c.next)
           n == Len(o)
           R == Q \cup {c.next}
<1>4. n \in Nat /\ Len(s) = n
  BY <1>1 DEF Trail
<1>5. /\ \E A : u \in Seq(A)
      /\ Len(u) = n + 1
      /\ \E g : History(g, u) /\ g[n + 1] = After(c) /\ \A i \in 0..n : g[i] = h[i]
  BY <1>1, <1>3, HistoryStep
<1>6. PICK g : History(g, u) /\ g[n + 1] = After(c) /\ \A i \in 0..n : g[i] = h[i]
  BY <1>5
<1>7. /\ t \in Seq(R) /\ Len(t) = n + 1 /\ t[n + 1] = c.next
      /\ \A i \in 1..n : t[i] = s[i]
  <2>1. s \in Seq(R) /\ c.next \in R
    BY <1>2
  <2> HIDE DEF R
  <2> QED
    BY <1>4, <2>1
<1> HIDE DEF u, t, n
<1>8. ASSUME NEW i \in 1..n + 1 PROVE t[i] = g[i - 1].next
  <2>1. i - 1 \in 0..n
    BY <1>4
  <2>2. g[i - 1] = h[i - 1]
    BY <1>6, <2>1
  <2>3. CASE i = n + 1
    <3>1. i - 1 = n
      BY <1>4, <2>3
    <3> QED
      BY <2>2, <2>3, <3>1, <1>3, <1>7 DEF n
  <2>4. CASE i # n + 1
    <3>1. i \in 1..n
      BY <1>4, <2>4
    <3> QED
      BY <2>2, <3>1, <1>3, <1>7 DEF n
  <2> QED
    BY <2>3, <2>4
<1> QED
  BY <1>5, <1>6, <1>7, <1>8 DEF Trail, u, t

LEMMA TrailInitially == Init => TrailInv
<1> SUFFICES ASSUME Init PROVE TrailInv
  OBVIOUS
<1>1. /\ DOMAIN chain = Party /\ DOMAIN out = Party /\ DOMAIN spent = Party
      /\ \A p \in Party : /\ chain[p] = [next |-> Derived[2], ctr |-> 0]
                          /\ out[p] = <<>> /\ spent[p] = <<>>
  BY DEF Init
<1> QED
  BY <1>1, TrailInit DEF TrailInv

LEMMA TrailKept == TrailInv /\ [Next]_vars => TrailInv'
<1> SUFFICES ASSUME TrailInv, [Next]_vars PROVE TrailInv'
  OBVIOUS
<1>1. CASE UNCHANGED <<chain, out, spent>>
  BY <1>1 DEF TrailInv
<1>2. ASSUME NEW p \in Party, Step(p) PROVE TrailInv'
  <2>1. /\ chain' = [chain EXCEPT ![p] = After(chain[p])]
        /\ out' = [out EXCEPT ![p] = Append(out[p], OutOf(chain[p]))]
        /\ spent' = [spent EXCEPT ![p] = Append(spent[p], chain[p].next)]
    BY <1>2 DEF Step, After, OutOf
  <2>2. /\ DOMAIN chain = Party /\ DOMAIN out = Party /\ DOMAIN spent = Party
        /\ Trail(chain[p], out[p], spent[p])
    BY DEF TrailInv
  <2>3. /\ chain'[p] = After(chain[p]) /\ out'[p] = Append(out[p], OutOf(chain[p]))
        /\ spent'[p] = Append(spent[p], chain[p].next)
    BY <2>1, <2>2
  <2>4. \A q \in Party : q # p => /\ chain'[q] = chain[q] /\ out'[q] = out[q]
                                  /\ spent'[q] = spent[q]
    BY <2>1, <2>2
  <2>5. DOMAIN chain' = Party /\ DOMAIN out' = Party /\ DOMAIN spent' = Party
    BY <2>1, <2>2
  <2>6. Trail(chain'[p], out'[p], spent'[p])
    BY <2>2, <2>3, TrailStep
  <2>7. ASSUME NEW q \in Party PROVE Trail(chain'[q], out'[q], spent'[q])
    BY <2>4, <2>6 DEF TrailInv
  <2> QED
    BY <2>5, <2>7 DEF TrailInv
<1>3. ASSUME NEW len \in Lens, Seal(len) PROVE UNCHANGED <<chain, out, spent>>
  BY <1>3 DEF Seal
<1>4. ASSUME NEW m \in net, Damage(m) PROVE UNCHANGED <<chain, out, spent>>
  BY <1>4 DEF Damage
<1>5. ASSUME NEW m \in net, NEW i \in DOMAIN out["R"], Open(m, i)
      PROVE  UNCHANGED <<chain, out, spent>>
  BY <1>5 DEF Open
<1> QED
  BY <1>1, <1>2, <1>3, <1>4, <1>5 DEF Next, vars

\* Two sequences one after the other, neither with a repetition and with
\* nothing in common, have no repetition.
NoRepeat(u) == \A i, j \in 1..Len(u) : i < j => u[i] # u[j]

LEMMA BothDifferent ==
  ASSUME NEW P, NEW u \in Seq(P), NEW v \in Seq(P), NoRepeat(u), NoRepeat(v),
         \A i \in 1..Len(u), j \in 1..Len(v) : u[i] # v[j]
  PROVE  /\ u \o v \in Seq(P) /\ Len(u \o v) = Len(u) + Len(v) /\ NoRepeat(u \o v)
         /\ \A i \in 1..Len(u) + Len(v) : \/ \E k \in 1..Len(u) : (u \o v)[i] = u[k]
                                          \/ \E k \in 1..Len(v) : (u \o v)[i] = v[k]
<1> DEFINE w == u \o v
           m == Len(u)
           n == Len(v)
<1>1. m \in Nat /\ n \in Nat
  OBVIOUS
<1>2. /\ w \in Seq(P) /\ Len(w) = m + n
      /\ \A i \in 1..m + n : w[i] = IF i <= m THEN u[i] ELSE v[i - m]
  BY ConcatProperties
<1> HIDE DEF w, m, n
<1>3. ASSUME NEW i \in 1..m + n
      PROVE  (i \in 1..m /\ w[i] = u[i]) \/ (i > m /\ i - m \in 1..n /\ w[i] = v[i - m])
  <2>1. CASE i <= m
    BY <1>1, <1>2, <2>1
  <2>2. CASE ~(i <= m)
    <3>1. i > m /\ i - m \in 1..n
      BY <1>1, <2>2
    <3> QED
      BY <1>2, <2>2, <3>1
  <2> QED
    BY <2>1, <2>2
<1>4. ASSUME NEW i \in 1..m + n, NEW j \in 1..m + n, i < j PROVE w[i] # w[j]
  <2>1. CASE i \in 1..m /\ j \in 1..m /\ w[i] = u[i] /\ w[j] = u[j]
    BY <1>4, <2>1 DEF NoRepeat, m
  <2>2. CASE i \in 1..m /\ w[i] = u[i] /\ j - m \in 1..n /\ w[j] = v[j - m]
    BY <2>2 DEF m, n
  <2>3. CASE i - m \in 1..n /\ w[i] = v[i - m] /\ j - m \in 1..n /\ w[j] = v[j - m]
    <3>1. i - m < j - m
      BY <1>1, <1>4
    <3> QED
      BY <2>3, <3>1 DEF NoRepeat, n
  <2>4. ~(i > m /\ j \in 1..m)
    BY <1>1, <1>4
  <2> QED
    BY <1>3, <2>1, <2>2, <2>3, <2>4
<1>5. NoRepeat(w)
  BY <1>2, <1>4 DEF NoRepeat
<1> QED
  BY <1>2, <1>3, <1>5 DEF w, m, n

\* The keys of a chain, the keys handed out and the other keys of the derivation
\* are told apart by what they cover: 36 or 79 bytes, 68, 47, 79.
LEMMA UsedDiffer ==
  ASSUME NEW c, NEW o, NEW s, Trail(c, o, s)
  PROVE  LET u == Append(s, c.next) \o o \o <<Derived[1], Derived[3]>>
         IN  Cardinality(ToSet(u)) = Len(u)
<1>1. PICK P : o \in Seq(P)
  BY DEF Trail
<1>2. PICK R : s \in Seq(R)
  BY DEF Trail
<1>3. PICK h : /\ History(h, o) /\ c = h[Len(o)]
               /\ \A i \in 1..Len(o) : s[i] = h[i - 1].next
  BY DEF Trail
<1> DEFINE n == Len(o)
           a == Derived[1]
           d == Derived[3]
           k == c.next
           x == Append(s, k)
           t == <<a, d>>
           Q == (P \cup R) \cup {a, d, k}
           u == x \o o \o t
<1>4. n \in Nat /\ Len(s) = n
  BY <1>1 DEF Trail
<1>5. /\ \A i \in 1..n : Covers(o[i], 68)
      /\ \A i, j \in 1..n : i < j => o[i] # o[j]
  BY <1>1, <1>3, HistoryKeys, OutputKeysDiffer
<1>6. /\ x \in Seq(Q) /\ Len(x) = n + 1 /\ x[n + 1] = k /\ \A i \in 1..n : x[i] = s[i]
      /\ t \in Seq(Q) /\ Len(t) = 2 /\ t[1] = a /\ t[2] = d
      /\ o \in Seq(Q)
  <2>1. s \in Seq(Q) /\ k \in Q /\ a \in Q /\ d \in Q /\ o \in Seq(Q)
    BY <1>1, <1>2
  <2> HIDE DEF Q, k, a, d
  <2> QED
    BY <1>4, <2>1
<1>7. ASSUME NEW i \in 1..n + 1 PROVE x[i] = h[i - 1].next /\ i - 1 \in 0..n
  <2> HIDE DEF x
  <2>1. CASE i = n + 1
    <3>1. i - 1 = n /\ i - 1 \in 0..n
      BY <1>4, <2>1
    <3> QED
      BY <2>1, <3>1, <1>3, <1>6
  <2>2. CASE i # n + 1
    <3>1. i \in 1..n /\ i - 1 \in 0..n
      BY <1>4, <2>2
    <3> QED
      BY <3>1, <1>3, <1>6
  <2> QED
    BY <2>1, <2>2
<1>8. \A i \in 0..n : h[i].next = Derived[2] \/ Covers(h[i].next, 36)
  <2>1. h[0].next = Derived[2]
    BY <1>3 DEF History
  <2>2. \A i \in 1..n : Covers(h[i].next, 36)
    BY <1>1, <1>3, HistoryKeys
  <2>3. \A i \in 0..n : i = 0 \/ i \in 1..n
    BY <1>4
  <2> QED
    BY <2>1, <2>2, <2>3
<1>9. \A i, j \in 0..n : i < j => h[i].next # h[j].next
  BY <1>1, <1>3, ChainKeysDiffer
<1>10. Covers(a, 47) /\ Covers(d, 79) /\ Covers(Derived[2], 79) /\ Derived[2] # d
  BY DerivedKeys
<1> HIDE DEF x, t, a, d, k, Q, n
<1> DEFINE N == {36, 47, 68, 79}
<1>11. \A v : \A y, z \in N : Covers(v, y) /\ Covers(v, z) => y = z
  <2> N \in SUBSET Nat
    OBVIOUS
  <2> HIDE DEF N
  <2> QED
    BY CoversOne
<1>12. NoRepeat(x)
  <2> SUFFICES ASSUME NEW i \in 1..n + 1, NEW j \in 1..n + 1, i < j PROVE x[i] # x[j]
    BY <1>6 DEF NoRepeat
  <2>1. i - 1 < j - 1
    BY <1>4
  <2> QED
    BY <2>1, <1>7, <1>9
<1>13. \A i \in 1..n + 1 : x[i] = Derived[2] \/ Covers(x[i], 36)
  BY <1>7, <1>8
<1>14. \A i \in 1..n + 1 : x[i] # a /\ x[i] # d /\ \A j \in 1..n : x[i] # o[j]
  BY <1>5, <1>10, <1>11, <1>13
<1>15. a # d /\ \A j \in 1..n : o[j] # a /\ o[j] # d
  BY <1>5, <1>10, <1>11
<1> DEFINE w == x \o o
<1>16. /\ w \in Seq(Q) /\ Len(w) = (n + 1) + n /\ NoRepeat(w)
       /\ \A i \in 1..(n + 1) + n : \/ \E l \in 1..n + 1 : w[i] = x[l]
                                    \/ \E l \in 1..n : w[i] = o[l]
  <2>1. NoRepeat(o) /\ Len(o) = n
    BY <1>5 DEF NoRepeat, n
  <2>2. \A i \in 1..Len(x), j \in 1..Len(o) : x[i] # o[j]
    BY <2>1, <1>6, <1>14
  <2>3. /\ w \in Seq(Q) /\ Len(w) = Len(x) + Len(o) /\ NoRepeat(w)
        /\ \A i \in 1..Len(x) + Len(o) : \/ \E l \in 1..Len(x) : w[i] = x[l]
                                         \/ \E l \in 1..Len(o) : w[i] = o[l]
    <3> HIDE DEF w
    <3>1. x \in Seq(Q) /\ o \in Seq(Q) /\ NoRepeat(x) /\ NoRepeat(o)
      BY <2>1, <1>6, <1>12
    <3>2. /\ x \o o \in Seq(Q) /\ Len(x \o o) = Len(x) + Len(o) /\ NoRepeat(x \o o)
          /\ \A i \in 1..Len(x) + Len(o) : \/ \E l \in 1..Len(x) : (x \o o)[i] = x[l]
                                           \/ \E l \in 1..Len(o) : (x \o o)[i] = o[l]
      BY <3>1, <2>2, BothDifferent
    <3> QED
      BY <3>2, Zenon DEF w
  <2>4. Len(x) = n + 1 /\ Len(o) = n
    BY <2>1, <1>6
  <2> HIDE DEF w
  <2> QED
    BY <2>3, <2>4
<1>17. NoRepeat(t)
  <2>1. \A i, j \in 1..2 : i < j => i = 1 /\ j = 2
    OBVIOUS
  <2> QED
    BY <2>1, <1>6, <1>15 DEF NoRepeat
<1> HIDE DEF w
<1>18. \A i \in 1..(n + 1) + n : w[i] # a /\ w[i] # d
  BY <1>14, <1>15, <1>16
<1>19. \A i \in 1..Len(w), j \in 1..Len(t) : w[i] # t[j]
  <2>1. \A j \in 1..2 : j = 1 \/ j = 2
    OBVIOUS
  <2> QED
    BY <2>1, <1>6, <1>16, <1>18
<1>20. u \in Seq(Q) /\ NoRepeat(u)
  <2>1. w \o t \in Seq(Q) /\ NoRepeat(w \o t)
    BY <1>6, <1>16, <1>17, <1>19, BothDifferent
  <2> QED
    BY <2>1 DEF w
<1> HIDE DEF u
<1>21. Cardinality(ToSet(u)) = Len(u)
  BY <1>20, AllDifferent DEF NoRepeat
<1> QED
  BY <1>21 DEF u, x, t, a, d, k

\* No chain key and no output key of either party's chain is used twice, nor is
\* one of the keys the handshake derived next to it, however long the chain runs
\* and however often its counter wraps (sha256.rs spqr_chain_next).
THEOREM TheoremKeysNeverRepeat == Spec => []KeysNeverRepeat
<1>1. Spec => []TrailInv
  BY TrailInitially, TrailKept, PTL DEF Spec
<1>2. TrailInv => KeysNeverRepeat
  BY UsedDiffer DEF TrailInv, KeysNeverRepeat
<1> QED
  BY <1>1, <1>2, PTL

-----------------------------------------------------------------------------
(* Texts and ciphertexts.                                                  *)

LEMMA SameSizes ==
  ASSUME NEW P, Pieces(P), NEW s \in Seq(P), NEW Q, Pieces(Q), NEW t \in Seq(Q),
         Len(t) = Len(s), \A i \in 1..Len(s) : t[i].n = s[i].n
  PROVE  Buffer(t) /\ Bytes(t) = Bytes(s)
<1>1. PICK g : Sums(g, s) /\ Bytes(s) = g[Len(s)]
  BY BytesRuns
<1>2. \A k \in 0..Len(s) - 1 : k + 1 \in 1..Len(s)
  OBVIOUS
<1>3. Sums(g, t)
  BY <1>1, <1>2 DEF Sums
<1> QED
  BY <1>1, <1>3, BytesAre DEF Buffer

\* The first bytes of two buffers one after the other.
LEMMA TakeFirst ==
  ASSUME NEW s, NEW t, Buffer(s), Buffer(t)
  PROVE  Take(s \o t, Bytes(s)) = s
<1>1. PICK P : Pieces(P) /\ s \in Seq(P)
  BY DEF Buffer
<1>2. PICK Q : Pieces(Q) /\ t \in Seq(Q)
  BY DEF Buffer
<1> DEFINE R == P \cup Q
           u == s \o t
           l == Len(s)
           n == Bytes(s)
           from(i) == Bytes(SubSeq(u, 1, i - 1))
           kept == {j \in DOMAIN u : from(j) < n}
           part == [i \in kept |->
                      Piece(u[i].v, IF from(i) + u[i].n <= n THEN u[i].n ELSE n - from(i))]
<1>3. Pieces(R) /\ s \in Seq(R) /\ t \in Seq(R)
  BY <1>1, <1>2 DEF Pieces
<1> HIDE DEF R
<1>4. /\ u \in Seq(R) /\ Len(u) = l + Len(t) /\ \A i \in 1..l : u[i] = s[i]
      /\ l \in Nat /\ Len(t) \in Nat /\ DOMAIN u = 1..Len(u) /\ DOMAIN s = 1..l
  <2>1. /\ u \in Seq(R) /\ Len(u) = l + Len(t) 
        /\ \A i \in 1..l + Len(t) : u[i] = IF i <= l THEN s[i] ELSE t[i - l]
    BY <1>3, ConcatProperties, Zenon
  <2>2. l \in Nat /\ Len(t) \in Nat /\ DOMAIN s = 1..l
    BY <1>3
  <2> HIDE DEF u, l
  <2>3. DOMAIN u = 1..Len(u)
    BY <2>1
  <2> QED
    BY <2>1, <2>2, <2>3
<1>5. Bytes(u) = n + Bytes(t) /\ n \in Nat /\ Bytes(t) \in Nat
  BY BytesOfBoth, BytesNat
<1> HIDE DEF u, n
<1>6. PICK g : Sums(g, u)
  BY <1>3, <1>4, BytesRuns
<1>7. n = g[l]
  <2>1. Sums(g, s)
    <3>1. \A k \in 0..l : k \in 0..Len(u) /\ g[k] \in Nat
      BY <1>4, <1>6 DEF Sums
    <3>2. \A k \in 0..l - 1 : k \in 0..Len(u) - 1 /\ u[k + 1] = s[k + 1]
      BY <1>4
    <3> QED
      BY <1>6, <3>1, <3>2 DEF Sums
  <2> QED
    BY <1>1, <2>1, BytesAre DEF n
<1>8. ASSUME NEW i \in 1..Len(u)
      PROVE  /\ from(i) = g[i - 1] /\ g[i - 1] \in Nat /\ g[i] = g[i - 1] + u[i].n
             /\ u[i] = Piece(u[i].v, u[i].n) /\ u[i].n \in Nat \ {0}
  <2>1. i - 1 \in 0..Len(u) - 1 /\ i - 1 \in 0..Len(u) /\ (i - 1) + 1 = i
    BY <1>4
  <2>2. from(i) = g[i - 1]
    BY <1>3, <1>4, <1>6, <2>1, SumsOfPrefix
  <2>3. g[i] = g[i - 1] + u[i].n /\ g[i - 1] \in Nat
    BY <1>6, <2>1 DEF Sums
  <2>4. u[i] \in R
    BY <1>4, ElementOfSeq
  <2> QED
    BY <1>3, <2>2, <2>3, <2>4 DEF Pieces
<1>9. Take(u, n) = part
  <2>1. Take(u, n) = IF Bytes(u) < n THEN u \o Zeros(n - Bytes(u)) ELSE part
    BY Zenon DEF Take
  <2>2. ~(Bytes(u) < n)
    BY <1>5
  <2> QED
    BY <2>1, <2>2, Zenon
<1> HIDE DEF from
<1>10. \A j \in 0..Len(u) : \A i \in 0..Len(u) : i < j => g[i] < g[j]
  BY <1>3, <1>4, <1>6, SumsIncrease
<1> HIDE DEF l
<1>11. \A i \in 1..Len(u) : from(i) < n <=> i <= l
  <2> TAKE i \in 1..Len(u)
  <2>1. i - 1 \in 0..Len(u) /\ l \in 0..Len(u) /\ i \in 0..Len(u)
    BY <1>4
  <2>2. g[i - 1] \in Nat /\ g[l] \in Nat
    BY <1>6, <2>1 DEF Sums
  <2>3. i <= l => g[i - 1] < g[l]
    BY <1>4, <1>10, <2>1
  <2>4. l < i => g[l] <= g[i - 1]
    <3>1. CASE l = i - 1
      BY <3>1, <2>2
    <3>2. CASE l < i - 1
      BY <3>2, <1>10, <2>1, <2>2
    <3> QED
      BY <3>1, <3>2, <1>4
  <2> QED
    BY <1>4, <1>7, <1>8, <2>2, <2>3, <2>4
<1>12. kept = 1..l
  BY <1>4, <1>11
<1>13. ASSUME NEW i \in 1..l
       PROVE  Piece(u[i].v, IF from(i) + u[i].n <= n THEN u[i].n ELSE n - from(i)) = s[i]
  <2>1. i \in 1..Len(u) /\ i \in 0..Len(u) /\ l \in 0..Len(u)
    BY <1>4
  <2>2. g[i] <= g[l]
    <3>1. g[i] \in Nat /\ g[l] \in Nat
      BY <1>6, <2>1 DEF Sums
    <3>2. i = l \/ i < l
      BY <1>4
    <3>3. i < l => g[i] < g[l]
      BY <1>10, <2>1
    <3> QED
      BY <3>1, <3>2, <3>3
  <2>3. from(i) + u[i].n <= n
    BY <1>7, <1>8, <2>1, <2>2
  <2> QED
    BY <1>4, <1>8, <2>1, <2>3
<1>14. part = [i \in 1..l |-> s[i]]
  BY <1>12, <1>13, Zenon
<1>15. s = [i \in 1..l |-> s[i]]
  BY <1>1, <1>4 DEF l
<1> QED
  BY <1>9, <1>14, <1>15 DEF u, n

LEMMA XorKeeps ==
  ASSUME NEW s, Buffer(s), NEW ks
  PROVE  Buffer(XorWith(s, ks)) /\ Bytes(XorWith(s, ks)) = Bytes(s)
<1>1. PICK P : Pieces(P) /\ s \in Seq(P)
  BY DEF Buffer
<1> DEFINE mark(i) == IF s[i].v[1] = "XOR" /\ s[i].v[3] = ks
                      THEN s[i].v[2] ELSE <<"XOR", s[i].v, ks>>
           Q == {Piece(mark(i), s[i].n) : i \in 1..Len(s)}
           t == [i \in 1..Len(s) |-> Piece(mark(i), s[i].n)]
<1>2. Len(s) \in Nat /\ DOMAIN s = 1..Len(s) /\ \A i \in 1..Len(s) : s[i].n \in Nat \ {0}
  BY <1>1, ElementOfSeq DEF Pieces
<1>3. XorWith(s, ks) = t
  <2>1. \A i \in 1..Len(s) :
          (IF s[i].v[1] = "XOR" /\ s[i].v[3] = ks
           THEN Piece(s[i].v[2], s[i].n) ELSE Piece(<<"XOR", s[i].v, ks>>, s[i].n))
            = Piece(mark(i), s[i].n)
    BY Zenon
  <2> HIDE DEF mark
  <2> QED
    BY <1>2, <2>1, Zenon DEF XorWith
<1> HIDE DEF mark
<1>4. Pieces(Q)
  BY <1>2 DEF Pieces, Piece
<1>5. t \in Seq(Q) /\ Len(t) = Len(s)
  <2>1. \A i \in 1..Len(s) : Piece(mark(i), s[i].n) \in Q
    OBVIOUS
  <2> HIDE DEF Q
  <2> QED
    BY <1>2, <2>1
<1>6. \A i \in 1..Len(s) : t[i].n = s[i].n
  BY DEF Piece
<1> HIDE DEF t, Q
<1> QED
  BY <1>1, <1>3, <1>4, <1>5, <1>6, SameSizes

\* The texts carry no keystream, and what is encrypted is decrypted.
LEMMA TextBack ==
  ASSUME NEW i, NEW n \in 0..HMAC_MSG_CAP, NEW ks
  PROVE  /\ Buffer(Take(Text(i), n)) /\ Bytes(Take(Text(i), n)) = n
         /\ XorWith(XorWith(Take(Text(i), n), ks), ks) = Take(Text(i), n)
         /\ \A j \in DOMAIN XorWith(Take(Text(i), n), ks) :
              XorWith(Take(Text(i), n), ks)[j].v[1] = "XOR"
<1> DEFINE x == Text(i)
           t == Take(x, n)
           from(j) == Bytes(SubSeq(x, 1, j - 1))
           size(j) == IF from(j) + x[j].n <= n THEN x[j].n ELSE n - from(j)
           kept == {j \in DOMAIN x : from(j) < n}
<1>1. HMAC_MSG_CAP \in Nat \ {0}
  BY DEF HMAC_MSG_CAP
<1>2. Buffer(x) /\ Bytes(x) = HMAC_MSG_CAP /\ n \in Nat
  BY <1>1, BytesOfOne DEF Text
<1>3. Buffer(t) /\ Bytes(t) = n
  BY <1>2, TakeExact
<1>4. DOMAIN x = {1} /\ x[1].v = <<"TEXT", i>>
  BY DEF Text, Piece
<1>5. t = [j \in kept |-> Piece(x[j].v, size(j))]
  <2>1. t = IF Bytes(x) < n THEN x \o Zeros(n - Bytes(x))
            ELSE [j \in kept |-> Piece(x[j].v, size(j))]
    BY Zenon DEF Take
  <2>2. ~(Bytes(x) < n)
    BY <1>1, <1>2
  <2> QED
    BY <2>1, <2>2, Zenon
<1>6. \A j \in kept : x[j].v = <<"TEXT", i>>
  BY <1>4
<1> HIDE DEF x, size, from
<1> DEFINE p(j) == Piece(<<"TEXT", i>>, size(j))
           q(j) == Piece(<<"XOR", <<"TEXT", i>>, ks>>, size(j))
<1>7. t = [j \in kept |-> p(j)]
  BY <1>5, <1>6, Zenon
<1>8. \A j : p(j).v = <<"TEXT", i>> /\ p(j).n = size(j)
  BY DEF Piece
<1>9. \A j : /\ q(j).v = <<"XOR", <<"TEXT", i>>, ks>> /\ q(j).n = size(j)
             /\ q(j).v[1] = "XOR" /\ q(j).v[2] = <<"TEXT", i>> /\ q(j).v[3] = ks
  BY DEF Piece
<1>10. <<"TEXT", i>>[1] # "XOR"
  OBVIOUS
<1> HIDE DEF t, kept
<1>11. XorWith(t, ks) = [j \in kept |-> q(j)]
  <2>1. DOMAIN t = kept /\ \A j \in kept : t[j] = p(j)
    BY <1>7
  <2>2. \A j \in kept : t[j].v = <<"TEXT", i>> /\ t[j].n = size(j) /\ t[j].v[1] # "XOR"
    BY <2>1, <1>8, <1>10
  <2> QED
    BY <2>1, <2>2, Zenon DEF XorWith
<1>12. \A j \in DOMAIN XorWith(t, ks) : XorWith(t, ks)[j].v[1] = "XOR"
  <2>1. DOMAIN XorWith(t, ks) = kept /\ \A j \in kept : XorWith(t, ks)[j] = q(j)
    BY <1>11
  <2> QED
    BY <1>9, <2>1
<1>13. XorWith(XorWith(t, ks), ks) = [j \in kept |-> p(j)]
  <2> DEFINE u == XorWith(t, ks)
  <2> HIDE DEF u
  <2>1. DOMAIN u = kept /\ \A j \in kept : u[j] = q(j)
    BY <1>11 DEF u
  <2>2. \A j \in kept : /\ u[j].v[1] = "XOR" /\ u[j].v[3] = ks
                        /\ u[j].v[2] = <<"TEXT", i>> /\ u[j].n = size(j)
    BY <2>1, <1>9
  <2>3. XorWith(u, ks) = [j \in kept |-> p(j)]
    BY <2>1, <2>2, Zenon DEF XorWith
  <2> QED
    BY <2>3 DEF u
<1> QED
  BY <1>3, <1>7, <1>12, <1>13 DEF t, x

LEMMA ZerosBuffer == \A n \in Nat : Buffer(Zeros(n))
<1> TAKE n \in Nat
<1>1. CASE n = 0
  <2>1. Pieces({}) /\ <<>> \in Seq({})
    BY DEF Pieces
  <2> QED
    BY <1>1, <2>1 DEF Zeros, Buffer
<1>2. CASE n # 0
  <2>1. n \in Nat \ {0}
    BY <1>2
  <2> QED
    BY <1>2, <2>1, BytesOfOne DEF Zeros
<1> QED
  BY <1>1, <1>2

\* What is sent: the length, the encrypted text up to it, and an unflipped tag.
SentAs(m, i, n, k) ==
  /\ m = [c |-> m.c, len |-> n, tag |-> m.tag]
  /\ m.tag = [of |-> hmac_sha256_var(mac_key(k), m.c, n), flips |-> Intact]
  /\ Buffer(m.c)
  /\ Take(m.c, n) = XorWith(Take(Text(i), n), keystream(k))

LEMMA MessageIs ==
  ASSUME NEW i, NEW n \in 0..HMAC_MSG_CAP, NEW k
  PROVE  SentAs(Message(i, n, k), i, n, k)
<1> DEFINE x == XorWith(Take(Text(i), n), keystream(k))
           z == Zeros(HMAC_MSG_CAP - n)
           m == Message(i, n, k)
           w == x \o z
<1>1. /\ m = [c |-> m.c, len |-> n, tag |-> m.tag] /\ m.c = w
      /\ m.tag = [of |-> hmac_sha256_var(mac_key(k), w, n), flips |-> Intact]
  <2> DEFINE e == etm_encrypt_var(keystream(k), Text(i), n, mac_key(k))
  <2>1. e.c = w /\ e.tag = [of |-> hmac_sha256_var(mac_key(k), w, n), flips |-> Intact]
    BY DEF etm_encrypt_var
  <2>2. m = [c |-> e.c, len |-> n, tag |-> e.tag]
    BY DEF Message
  <2> HIDE DEF e, w, m
  <2> QED
    BY <2>1, <2>2
<1>2. HMAC_MSG_CAP - n \in Nat
  BY DEF HMAC_MSG_CAP
<1>3. Buffer(x) /\ Bytes(x) = n
  BY TextBack, XorKeeps
<1>4. Buffer(z)
  BY <1>2, ZerosBuffer
<1> HIDE DEF x, z, m
<1>5. Buffer(w) /\ Take(w, n) = x
  BY <1>3, <1>4, BytesOfBoth, TakeFirst
<1> HIDE DEF w
<1> QED
  BY <1>1, <1>5 DEF m, x, SentAs

Flips == [0..(TAG_LEN - 1) -> SUBSET (0..7)]

\* A message opens when its MAC is the one the tag was made of and no bit of
\* the tag was changed.
LEMMA OpensIs ==
  ASSUME NEW c, NEW n, NEW tag, tag.flips \in Flips, NEW ks, NEW mk
  PROVE  /\ etm_decrypt_var(c, n, tag, ks, mk).ok
              <=> tag.of = hmac_sha256_var(mk, c, n) /\ tag.flips = Intact
         /\ etm_decrypt_var(c, n, tag, ks, mk).ok
              => etm_decrypt_var(c, n, tag, ks, mk).m = XorWith(Take(c, n), ks)
<1> DEFINE mac == hmac_sha256_var(mk, c, n)
           d == Differences(mac, tag)
           r == etm_decrypt_var(c, n, tag, ks, mk)
           N == 0..(TAG_LEN - 1)
<1>0. 0 \in N
  BY DEF TAG_LEN
<1>1. r = IF Accumulated(d) # {} THEN [ok |-> FALSE, m |-> NoMessage]
          ELSE [ok |-> TRUE, m |-> XorWith(Take(c, n), ks)]
  BY Zenon DEF etm_decrypt_var
<1>2. DOMAIN d = N /\ \A k \in N : d[k] = IF tag.of = mac THEN tag.flips[k] ELSE {0}
  BY Zenon DEF Differences
<1>3. tag.flips = Intact <=> \A k \in N : tag.flips[k] = {}
  <2>1. DOMAIN Intact = N /\ \A k \in N : Intact[k] = {}
    BY DEF Intact
  <2>2. tag.flips = [k \in N |-> tag.flips[k]]
    BY DEF Flips
  <2>3. Intact = [k \in N |-> Intact[k]]
    BY DEF Intact
  <2> HIDE DEF N
  <2>4. ASSUME \A k \in N : tag.flips[k] = {} PROVE tag.flips = Intact
    <3>1. \A k \in N : tag.flips[k] = Intact[k]
      BY <2>1, <2>4
    <3> QED
      BY <2>2, <2>3, <3>1, Zenon
  <2> QED
    BY <2>1, <2>4
<1>4. Accumulated(d) = {} <=> \A k \in N : d[k] = {}
  BY <1>2 DEF Accumulated
<1> HIDE DEF d, mac, N
<1>5. Accumulated(d) = {} <=> tag.of = mac /\ tag.flips = Intact
  BY <1>0, <1>2, <1>3, <1>4
<1>6. Accumulated(d) = {} => r.ok = TRUE /\ r.m = XorWith(Take(c, n), ks)
  BY <1>1
<1>7. Accumulated(d) # {} => r.ok = FALSE
  BY <1>1
<1> HIDE DEF r
<1>8. r.ok <=> tag.of = mac /\ tag.flips = Intact
  BY <1>5, <1>6, <1>7
<1>9. r.ok => r.m = XorWith(Take(c, n), ks)
  BY <1>6, <1>7
<1> QED
  BY <1>8, <1>9 DEF r, mac

LEMMA MacKeyTells ==
  ASSUME NEW k, NEW l, mac_key(k) = mac_key(l)
  PROVE  k = l
<1> DEFINE a == Piece(<<"MACKEY", k>>, 32)
           b == Piece(<<"MACKEY", l>>, 32)
<1>1. <<a>> = <<b>>
  BY DEF mac_key
<1>2. a.v = <<"MACKEY", k>> /\ b.v = <<"MACKEY", l>>
  BY DEF Piece
<1> HIDE DEF a, b
<1>3. a = b
  BY <1>1
<1>4. <<"MACKEY", k>> = <<"MACKEY", l>>
  BY <1>2, <1>3, Zenon
<1> QED
  BY <1>4

-----------------------------------------------------------------------------
(* The two chains.                                                         *)

LEMMA ChainsAgree ==
  ASSUME NEW c, NEW o, Recorded(c, o), NEW d, NEW u, Recorded(d, u)
  PROVE  \A i \in 1..Len(o) : i \in 1..Len(u) => o[i] = u[i]
<1>1. PICK P : o \in Seq(P)
  BY DEF Recorded
<1>2. PICK Q : u \in Seq(Q)
  BY DEF Recorded
<1>3. PICK g : History(g, o)
  BY DEF Recorded
<1>4. PICK h : History(h, u)
  BY DEF Recorded
<1> DEFINE S == {i \in Nat : i <= Len(o) /\ i <= Len(u) => g[i] = h[i]}
<1>5. 0 \in S
  BY <1>3, <1>4 DEF History
<1>6. ASSUME NEW i \in Nat, i \in S PROVE i + 1 \in S
  <2> SUFFICES ASSUME i + 1 <= Len(o), i + 1 <= Len(u) PROVE g[i + 1] = h[i + 1]
    OBVIOUS
  <2>1. i \in 0..Len(o) - 1 /\ i \in 0..Len(u) - 1 /\ g[i] = h[i]
    BY <1>1, <1>2, <1>6
  <2> QED
    BY <2>1, <1>3, <1>4 DEF History
<1>7. \A i \in Nat : i \in S
  <2> HIDE DEF S
  <2> QED
    BY <1>5, <1>6, Induction
<1> TAKE i \in 1..Len(o)
<1> SUFFICES ASSUME i \in 1..Len(u) PROVE o[i] = u[i]
  OBVIOUS
<1>8. /\ i - 1 \in 0..Len(o) - 1 /\ i - 1 \in 0..Len(u) - 1 /\ (i - 1) + 1 = i
      /\ i - 1 \in Nat /\ i - 1 <= Len(o) /\ i - 1 <= Len(u)
  BY <1>1, <1>2
<1>9. g[i - 1] = h[i - 1]
  BY <1>7, <1>8
<1>10. o[i] = OutOf(g[i - 1]) /\ u[i] = OutOf(h[i - 1])
  BY <1>3, <1>4, <1>8 DEF History
<1> QED
  BY <1>9, <1>10

\* A key the two have in common has the same place in both chains.
LEMMA SamePlace ==
  ASSUME NEW c, NEW o, Recorded(c, o), NEW d, NEW u, Recorded(d, u),
         NEW i \in 1..Len(o), NEW j \in 1..Len(u), o[i] = u[j]
  PROVE  i = j
<1>1. PICK P : o \in Seq(P)
  BY DEF Recorded
<1>2. PICK Q : u \in Seq(Q)
  BY DEF Recorded
<1>3. PICK g : History(g, o)
  BY DEF Recorded
<1>4. PICK h : History(h, u)
  BY DEF Recorded
<1>5. ASSUME i < j PROVE FALSE
  <2>1. i \in 1..Len(u)
    BY <1>2, <1>5
  <2>2. o[i] = u[i]
    BY <2>1, ChainsAgree
  <2>3. u[i] # u[j]
    BY <1>2, <1>4, <1>5, <2>1, OutputKeysDiffer
  <2> QED
    BY <2>2, <2>3
<1>6. ASSUME j < i PROVE FALSE
  <2>1. j \in 1..Len(o)
    BY <1>1, <1>6
  <2>2. o[j] = u[j]
    BY <2>1, ChainsAgree
  <2>3. o[j] # o[i]
    BY <1>1, <1>3, <1>6, <2>1, OutputKeysDiffer
  <2> QED
    BY <2>2, <2>3
<1> QED
  BY <1>5, <1>6

-----------------------------------------------------------------------------
(* What the network and the receiver hold.                                 *)

WellFormed(m) ==
  /\ m = [c |-> m.c, len |-> m.len, tag |-> m.tag]
  /\ m.tag = [of |-> m.tag.of, flips |-> m.tag.flips]
  /\ Buffer(m.c) /\ m.len \in Lens /\ m.tag.flips \in Flips

\* A message in the network has a tag made of some MAC that was taken.
Tagged(m, lens, keys) ==
  \E j \in 1..Len(lens) : m.tag.of = Message(j, lens[j], keys[j]).tag.of

SealInv ==
  /\ sealed \in Seq(Lens) /\ Len(sealed) <= Len(out["S"])
  /\ \A m \in net : WellFormed(m) /\ Tagged(m, sealed, out["S"])
  /\ \A o \in opened : /\ o.key \in 1..Len(sealed)
                       /\ o.text = Take(Text(o.key), sealed[o.key])

IInv == HistoryInv /\ SealInv

LEMMA LensNat == \A n \in Lens : n \in 0..HMAC_MSG_CAP /\ n \in Nat
BY BoundsAssumption DEF HMAC_MSG_CAP

LEMMA IntactFlips == Intact \in Flips
<1>1. Intact = [k \in 0..(TAG_LEN - 1) |-> {}] /\ {} \in SUBSET (0..7)
  BY DEF Intact
<1> QED
  BY <1>1 DEF Flips

LEMMA NewMessage ==
  ASSUME NEW lens, NEW n \in Lens, NEW keys, lens \in Seq(Lens),
         NEW i, i = Len(lens) + 1
  PROVE  /\ WellFormed(Message(i, n, keys[i]))
         /\ Tagged(Message(i, n, keys[i]), Append(lens, n), keys)
<1> DEFINE m == Message(i, n, keys[i])
           l == Append(lens, n)
<1>1. /\ m = [c |-> m.c, len |-> n, tag |-> m.tag] /\ Buffer(m.c)
      /\ m.tag = [of |-> hmac_sha256_var(mac_key(keys[i]), m.c, n), flips |-> Intact]
  <2>1. SentAs(m, i, n, keys[i])
    BY LensNat, MessageIs
  <2> HIDE DEF m
  <2> QED
    BY <2>1 DEF SentAs
<1>2. Len(l) = i /\ i \in 1..Len(l) /\ l[i] = n
  OBVIOUS
<1>3. m.tag.of = Message(i, l[i], keys[i]).tag.of
  BY <1>2
<1>4. Tagged(m, l, keys)
  BY <1>2, <1>3 DEF Tagged
<1> HIDE DEF m
<1>5. m.len = n /\ m.tag.flips = Intact /\ m.tag = [of |-> m.tag.of, flips |-> m.tag.flips]
  BY <1>1
<1>6. WellFormed(m)
  BY <1>1, <1>5, IntactFlips DEF WellFormed
<1> QED
  BY <1>4, <1>6 DEF m

LEMMA TaggedKept ==
  ASSUME NEW m, NEW lens \in Seq(Lens), NEW keys, Tagged(m, lens, keys),
         NEW lens2 \in Seq(Lens), Len(lens) <= Len(lens2), NEW keys2,
         \A i \in 1..Len(lens) : lens2[i] = lens[i] /\ keys2[i] = keys[i]
  PROVE  Tagged(m, lens2, keys2)
<1>1. PICK j \in 1..Len(lens) : m.tag.of = Message(j, lens[j], keys[j]).tag.of
  BY DEF Tagged
<1>2. j \in 1..Len(lens2) /\ lens2[j] = lens[j] /\ keys2[j] = keys[j]
  OBVIOUS
<1> QED
  BY <1>1, <1>2 DEF Tagged

LEMMA OtherBytes ==
  ASSUME NEW c, Buffer(c), NEW w
  PROVE  Buffer([c EXCEPT ![1].v = w])
<1>1. PICK P : Pieces(P) /\ c \in Seq(P)
  BY DEF Buffer
<1> DEFINE d == [c EXCEPT ![1].v = w]
<1>2. CASE Len(c) = 0
  <2>1. DOMAIN c = {} /\ c = <<>>
    BY <1>1, <1>2
  <2>2. d = c
    <3>1. d = [i \in DOMAIN c |-> d[i]] /\ c = [i \in DOMAIN c |-> c[i]]
      BY <1>1
    <3> QED
      BY <2>1, <3>1
  <2> QED
    BY <2>2
<1>3. CASE Len(c) # 0
  <2>1. 1 \in 1..Len(c) /\ DOMAIN c = 1..Len(c)
    BY <1>1, <1>3
  <2>2. c[1] = Piece(c[1].v, c[1].n) /\ c[1].n \in Nat \ {0}
    BY <1>1, <2>1, ElementOfSeq DEF Pieces
  <2> DEFINE e == Piece(w, c[1].n)
             Q == P \cup {e}
  <2>3. [c[1] EXCEPT !.v = w] = e
    BY <2>2 DEF Piece
  <2>4. d = [c EXCEPT ![1] = e]
    <3>1. d = [c EXCEPT ![1] = [c[1] EXCEPT !.v = w]]
      OBVIOUS
    <3> QED
      BY <2>3, <3>1
  <2>5. Pieces(Q)
    <3>1. e = Piece(e.v, e.n) /\ e.n \in Nat \ {0}
      BY <2>2 DEF Piece
    <3> HIDE DEF e
    <3> QED
      BY <1>1, <3>1 DEF Pieces
  <2>6. c \in Seq(Q) /\ e \in Q
    BY <1>1
  <2> HIDE DEF Q, d, e
  <2>7. d \in Seq(Q)
    BY <2>1, <2>4, <2>6, ExceptSeq
  <2> QED
    BY <2>5, <2>7 DEF Buffer, d
<1> QED
  BY <1>2, <1>3

\* A damaged copy is a message of the same form, and its tag is of some MAC.
LEMMA DamageKeeps ==
  ASSUME SealInv, NEW m \in net, NEW d \in Damages(m)
  PROVE  WellFormed(d) /\ Tagged(d, sealed, out["S"])
<1> DEFINE c == m.c
           n == m.len
           t == m.tag.of
           f == m.tag.flips
<1>1. WellFormed(m) /\ Tagged(m, sealed, out["S"])
  BY DEF SealInv
<1>2. /\ m = [c |-> c, len |-> n, tag |-> m.tag] /\ m.tag = [of |-> t, flips |-> f]
      /\ Buffer(c) /\ n \in Lens /\ f \in Flips
  BY <1>1 DEF WellFormed
<1>3. m = [c |-> c, len |-> n, tag |-> [of |-> t, flips |-> f]]
  <2> HIDE DEF c, n, t, f
  <2> QED
    BY <1>2
<1> HIDE DEF c, n, t, f
<1> DEFINE made(b, l, x, y) == [c |-> b, len |-> l, tag |-> [of |-> x, flips |-> y]]
<1>4. ASSUME NEW b, NEW l \in Lens, NEW x, NEW y \in Flips, Buffer(b), d = made(b, l, x, y),
             \E j \in 1..Len(sealed) : x = Message(j, sealed[j], out["S"][j]).tag.of
      PROVE  WellFormed(d) /\ Tagged(d, sealed, out["S"])
  <2>1. /\ d.c = b /\ d.len = l /\ d.tag.of = x /\ d.tag.flips = y
        /\ d.tag = [of |-> x, flips |-> y] /\ d = [c |-> d.c, len |-> d.len, tag |-> d.tag]
    BY <1>4
  <2>2. WellFormed(d)
    BY <1>4, <2>1 DEF WellFormed
  <2>3. Tagged(d, sealed, out["S"])
    BY <1>4, <2>1, Zenon DEF Tagged
  <2> QED
    BY <2>2, <2>3
<1>5. \E j \in 1..Len(sealed) : t = Message(j, sealed[j], out["S"][j]).tag.of
  BY <1>1 DEF Tagged, t
<1>6. CASE d \in {[m EXCEPT !.len = l] : l \in Lens}
  <2>1. PICK l \in Lens : d = [m EXCEPT !.len = l]
    BY <1>6
  <2>2. d = made(c, l, t, f)
    BY <1>3, <2>1
  <2> QED
    BY <1>2, <1>4, <1>5, <2>2
<1>7. CASE d = [m EXCEPT !.c[1].v = <<"FLIPPED", m.c[1].v>>]
  <2> DEFINE b == [c EXCEPT ![1].v = <<"FLIPPED", m.c[1].v>>]
  <2>1. d = [m EXCEPT !.c = [m.c EXCEPT ![1].v = <<"FLIPPED", m.c[1].v>>]]
    BY <1>7
  <2>2. d = [m EXCEPT !.c = b]
    BY <2>1 DEF c
  <2>3. Buffer(b)
    BY <1>2, OtherBytes
  <2> HIDE DEF b
  <2>4. d = made(b, n, t, f)
    BY <1>3, <2>2
  <2> QED
    BY <1>2, <1>4, <1>5, <2>3, <2>4
<1>8. CASE d \in {[m EXCEPT !.tag.of = o.tag.of] : o \in net}
  <2>1. PICK o \in net : d = [m EXCEPT !.tag.of = o.tag.of]
    BY <1>8
  <2>2. \E j \in 1..Len(sealed) : o.tag.of = Message(j, sealed[j], out["S"][j]).tag.of
    BY DEF SealInv, Tagged
  <2>3. d = made(c, n, o.tag.of, f)
    <3> DEFINE x == o.tag.of
    <3>1. d = [m EXCEPT !.tag.of = x]
      BY <2>1
    <3> HIDE DEF x
    <3>2. d = made(c, n, x, f)
      BY <1>3, <3>1
    <3> QED
      BY <3>2 DEF x
  <2> QED
    BY <1>2, <1>4, <2>2, <2>3
<1>9. CASE d \in {[m EXCEPT !.tag.flips = [Intact EXCEPT ![0] = a, ![TAG_LEN - 1] = b]] :
                    a, b \in {{}, {7}}}
  <2>1. PICK a \in {{}, {7}}, b \in {{}, {7}} :
          d = [m EXCEPT !.tag.flips = [Intact EXCEPT ![0] = a, ![TAG_LEN - 1] = b]]
    BY <1>9
  <2> DEFINE y == [Intact EXCEPT ![0] = a, ![TAG_LEN - 1] = b]
  <2>2. y \in Flips
    <3> DEFINE N == 0..(TAG_LEN - 1)
               B == SUBSET (0..7)
    <3>1. a \in B /\ b \in B /\ Intact \in [N -> B]
      BY IntactFlips DEF Flips
    <3> HIDE DEF N, B
    <3>2. y \in [N -> B]
      BY <3>1
    <3> QED
      BY <3>2 DEF Flips, N, B
  <2>3. d = [m EXCEPT !.tag.flips = y]
    BY <2>1
  <2> HIDE DEF y
  <2>4. d = made(c, n, t, y)
    BY <1>3, <2>3
  <2> QED
    BY <1>2, <1>4, <1>5, <2>2, <2>4
<1> QED
  BY <1>6, <1>7, <1>8, <1>9 DEF Damages

\* What opens under R's i-th key is message i, at its full length.
LEMMA OpenedIs ==
  ASSUME HistoryInv, SealInv, NEW m \in net, NEW q \in Party, NEW i \in DOMAIN out[q],
         etm_decrypt_var(m.c, m.len, m.tag, keystream(out[q][i]), mac_key(out[q][i])).ok
  PROVE  /\ i \in 1..Len(sealed) /\ m.len = sealed[i] /\ out[q][i] = out["S"][i]
         /\ m.tag = Message(i, sealed[i], out["S"][i]).tag
         /\ Take(m.c, m.len) = Take(Message(i, sealed[i], out["S"][i]).c, sealed[i])
<1> DEFINE k == out[q][i]
           o == out["S"]
<1>1. Recorded(chain["S"], o) /\ Recorded(chain[q], out[q])
  BY DEF HistoryInv, Party
<1>2. PICK P : o \in Seq(P)
  BY <1>1 DEF Recorded
<1>3. i \in 1..Len(out[q])
  <2>1. PICK Q : out[q] \in Seq(Q)
    BY <1>1 DEF Recorded
  <2> QED
    BY <2>1
<1>4. WellFormed(m) /\ Tagged(m, sealed, o) /\ sealed \in Seq(Lens) /\ Len(sealed) <= Len(o)
  BY DEF SealInv
<1>5. PICK j \in 1..Len(sealed) : m.tag.of = Message(j, sealed[j], o[j]).tag.of
  BY <1>4 DEF Tagged
<1>6. j \in 1..Len(o) /\ sealed[j] \in Lens
  BY <1>2, <1>4
<1> HIDE DEF o, k
<1> DEFINE s == Message(j, sealed[j], o[j])
<1>7. /\ s.tag = [of |-> hmac_sha256_var(mac_key(o[j]), s.c, sealed[j]), flips |-> Intact]
      /\ Buffer(s.c)
  <2>1. sealed[j] \in 0..HMAC_MSG_CAP
    BY <1>6, LensNat
  <2>2. SentAs(s, j, sealed[j], o[j])
    BY <2>1, MessageIs
  <2> HIDE DEF s
  <2> QED
    BY <2>2 DEF SentAs
<1>8. m.tag.of = s.tag.of
  BY <1>5
<1> HIDE DEF s
<1>9. m.tag.of = hmac_sha256_var(mac_key(k), m.c, m.len) /\ m.tag.flips = Intact
  <2>1. m.tag.flips \in Flips
    BY <1>4 DEF WellFormed
  <2>2. etm_decrypt_var(m.c, m.len, m.tag, keystream(k), mac_key(k)).ok
    BY DEF k
  <2> QED
    BY <2>1, <2>2, OpensIs
<1>10. SameMac(mac_key(k), m.c, m.len, mac_key(o[j]), s.c, sealed[j])
  BY <1>7, <1>8, <1>9 DEF SameMac
<1>11. mac_key(k) = mac_key(o[j]) /\ m.len = sealed[j] /\ Take(m.c, m.len) = Take(s.c, sealed[j])
  <2>1. Buffer(m.c) /\ m.len \in Nat /\ sealed[j] \in Nat
    BY <1>4, <1>6, LensNat DEF WellFormed
  <2> QED
    BY <1>7, <1>10, <2>1, MacTells
<1>12. k = o[j]
  BY <1>11, MacKeyTells
<1>13. i = j
  BY <1>1, <1>3, <1>6, <1>12, SamePlace DEF k
<1>14. m.tag = s.tag
  BY <1>4, <1>7, <1>8, <1>9 DEF WellFormed
<1> QED
  BY <1>11, <1>12, <1>13, <1>14 DEF k, o, s

LEMMA SealInitially == Init => SealInv
<1> SUFFICES ASSUME Init PROVE SealInv
  OBVIOUS
<1>1. sealed = <<>> /\ net = {} /\ opened = {} /\ out["S"] = <<>>
  BY DEF Init, Party
<1> QED
  BY <1>1 DEF SealInv

LEMMA SealKept == HistoryInv /\ SealInv /\ [Next]_vars => SealInv'
<1> SUFFICES ASSUME HistoryInv, SealInv, [Next]_vars PROVE SealInv'
  OBVIOUS
<1>1. CASE UNCHANGED vars
  BY <1>1 DEF vars, SealInv
<1>2. ASSUME NEW p \in Party, Step(p) PROVE SealInv'
  <2> DEFINE o == out["S"]
  <2>1. PICK P : o \in Seq(P)
    BY DEF HistoryInv, Recorded, Party
  <2>2. UNCHANGED <<sealed, net, opened>>
    BY <1>2 DEF Step
  <2>3. Len(o) <= Len(o') /\ Len(o') \in Nat /\ \A i \in 1..Len(o) : o'[i] = o[i]
    <3>1. CASE p = "S"
      <4>1. out' = [out EXCEPT !["S"] = Append(o, OutOf(chain["S"]))]
        BY <1>2, <3>1 DEF Step, OutOf
      <4>2. o' = Append(o, OutOf(chain["S"]))
        BY <4>1 DEF HistoryInv, Party
      <4> DEFINE e == OutOf(chain["S"])
                 Q == P \cup {e}
                 u == Append(o, e)
      <4>3. o \in Seq(Q) /\ e \in Q
        BY <2>1
      <4> HIDE DEF e, Q, o
      <4>4. Len(u) = Len(o) + 1 /\ Len(o) \in Nat /\ \A i \in 1..Len(o) : u[i] = o[i]
        BY <4>3
      <4>5. o' = u
        BY <4>2 DEF e, o
      <4> QED
        BY <4>4, <4>5
    <3>2. CASE p # "S"
      <4>1. o' = o
        BY <1>2, <3>2 DEF Step, HistoryInv, Party
      <4>2. Len(o) \in Nat
        BY <2>1
      <4> QED
        BY <4>1, <4>2
    <3> QED
      BY <3>1, <3>2
  <2>4. sealed \in Seq(Lens) /\ Len(sealed) <= Len(o) /\ Len(sealed) \in Nat /\ Len(o) \in Nat
    BY <2>1 DEF SealInv
  <2>5. Len(sealed) <= Len(o') /\ \A i \in 1..Len(sealed) : o'[i] = o[i]
    BY <2>3, <2>4
  <2>6. ASSUME NEW m \in net PROVE Tagged(m, sealed, o')
    <3>1. Tagged(m, sealed, o)
      BY DEF SealInv
    <3> HIDE DEF o
    <3>2. Len(sealed) <= Len(sealed)
      BY <2>4
    <3> QED
      BY <2>4, <2>5, <3>1, <3>2, TaggedKept
  <2> QED
    BY <2>2, <2>5, <2>6 DEF SealInv
<1>3. ASSUME NEW n \in Lens, Seal(n) PROVE SealInv'
  <2> DEFINE o == out["S"]
             i == Len(sealed) + 1
             l == Append(sealed, n)
             m == Message(i, n, o[i])
  <2>1. sealed \in Seq(Lens) /\ Len(sealed) < Len(o) /\ sealed' = l
    BY <1>3 DEF Seal, SealInv
  <2>2. net' = net \cup {m} /\ UNCHANGED <<chain, out, opened>>
    BY <1>3 DEF Seal
  <2>3. WellFormed(m) /\ Tagged(m, l, o)
    BY <2>1, NewMessage
  <2>4. /\ l \in Seq(Lens) /\ Len(l) = Len(sealed) + 1 /\ Len(sealed) <= Len(l)
        /\ \A j \in 1..Len(sealed) : l[j] = sealed[j] /\ j \in 1..Len(l)
        /\ Len(l) <= Len(o)
    <3>1. Len(o) \in Nat
      <4>1. PICK P : o \in Seq(P)
        BY DEF HistoryInv, Recorded, Party
      <4> QED
        BY <4>1
    <3> HIDE DEF o
    <3> QED
      BY <2>1, <3>1
  <2>5. ASSUME NEW x \in net PROVE WellFormed(x) /\ Tagged(x, l, o)
    <3>1. WellFormed(x) /\ Tagged(x, sealed, o)
      BY DEF SealInv
    <3> HIDE DEF o, l
    <3> QED
      BY <2>1, <2>4, <3>1, TaggedKept
  <2>6. ASSUME NEW x \in opened
        PROVE  x.key \in 1..Len(l) /\ x.text = Take(Text(x.key), l[x.key])
    <3>1. x.key \in 1..Len(sealed) /\ x.text = Take(Text(x.key), sealed[x.key])
      BY DEF SealInv
    <3> HIDE DEF l
    <3> QED
      BY <2>4, <3>1
  <2> HIDE DEF m, l
  <2>7. \A x \in net' : WellFormed(x) /\ Tagged(x, l, o)
    BY <2>2, <2>3, <2>5
  <2> QED
    BY <2>1, <2>2, <2>4, <2>6, <2>7 DEF SealInv
<1>4. ASSUME NEW m \in net, Damage(m) PROVE SealInv'
  <2>1. PICK d \in Damages(m) : net' = net \cup {d}
    BY <1>4 DEF Damage
  <2>2. UNCHANGED <<chain, out, sealed, opened>>
    BY <1>4 DEF Damage
  <2>3. WellFormed(d) /\ Tagged(d, sealed, out["S"])
    BY DamageKeeps
  <2> QED
    BY <2>1, <2>2, <2>3 DEF SealInv
<1>5. ASSUME NEW m \in net, NEW i \in DOMAIN out["R"], Open(m, i) PROVE SealInv'
  <2> DEFINE k == out["R"][i]
             r == etm_decrypt_var(m.c, m.len, m.tag, keystream(k), mac_key(k))
             s == Message(i, sealed[i], out["S"][i])
  <2>1. /\ r.ok /\ opened' = opened \cup {[key |-> i, text |-> r.m]}
        /\ UNCHANGED <<chain, out, sealed, net>>
    BY <1>5 DEF Open
  <2>2. /\ i \in 1..Len(sealed) /\ m.len = sealed[i] /\ k = out["S"][i]
        /\ Take(m.c, m.len) = Take(s.c, sealed[i])
    BY <2>1, OpenedIs DEF Party
  <2>3. r.m = XorWith(Take(m.c, m.len), keystream(k))
    <3>1. m.tag.flips \in Flips
      BY DEF SealInv, WellFormed
    <3> QED
      BY <2>1, <3>1, OpensIs
  <2>4. sealed[i] \in Lens
    BY <2>2 DEF SealInv
  <2>5. Take(s.c, sealed[i]) = XorWith(Take(Text(i), sealed[i]), keystream(k))
    <3>1. sealed[i] \in 0..HMAC_MSG_CAP
      BY <2>4, LensNat
    <3>2. SentAs(s, i, sealed[i], out["S"][i])
      BY <3>1, MessageIs
    <3> HIDE DEF s, k
    <3> QED
      BY <3>2, <2>2 DEF SentAs
  <2>6. r.m = Take(Text(i), sealed[i])
    <3>1. sealed[i] \in 0..HMAC_MSG_CAP
      BY <2>4, LensNat
    <3>2. XorWith(XorWith(Take(Text(i), sealed[i]), keystream(k)), keystream(k))
            = Take(Text(i), sealed[i])
      BY <3>1, TextBack
    <3> HIDE DEF r, s, k
    <3> QED
      BY <2>2, <2>3, <2>5, <3>2
  <2> HIDE DEF r, k, s
  <2> QED
    BY <2>1, <2>2, <2>6 DEF SealInv
<1> QED
  BY <1>1, <1>2, <1>3, <1>4, <1>5 DEF Next

\* Whatever the network loses, repeats, reorders or damages, what the receiver
\* accepts under a key is the message sealed under it, and a message opens
\* exactly when length, ciphertext up to it and tag are those that were sealed
\* (sha256.rs etm_encrypt_var, etm_decrypt_var).
THEOREM TheoremOpensExactly == Spec => []OpensExactlyWhatWasSealed
<1>1. Init => IInv
  BY HistoryInitially, SealInitially DEF IInv
<1>2. IInv /\ [Next]_vars => IInv'
  BY HistoryKept, SealKept DEF IInv
<1>3. IInv => OpensExactlyWhatWasSealed
  <2> SUFFICES ASSUME HistoryInv, SealInv PROVE OpensExactlyWhatWasSealed
    BY DEF IInv
  <2>1. DOMAIN sealed = 1..Len(sealed)
    BY DEF SealInv
  <2>2. ASSUME NEW m \in net, NEW i \in DOMAIN sealed
        PROVE  LET k == out["S"][i]
                   s == Message(i, sealed[i], k)
               IN etm_decrypt_var(m.c, m.len, m.tag, keystream(k), mac_key(k)).ok
                    <=> m.len = s.len /\ m.tag = s.tag /\ Take(m.c, m.len) = Take(s.c, s.len)
    <3> DEFINE k == out["S"][i]
               s == Message(i, sealed[i], k)
               ok == etm_decrypt_var(m.c, m.len, m.tag, keystream(k), mac_key(k)).ok
    <3>1. i \in DOMAIN out["S"] /\ sealed[i] \in Lens /\ "S" \in Party
      <4>1. PICK P : out["S"] \in Seq(P)
        BY DEF HistoryInv, Recorded, Party
      <4> QED
        BY <2>1, <4>1 DEF SealInv, Party
    <3>2. SentAs(s, i, sealed[i], k)
      BY <3>1, LensNat, MessageIs
    <3>3. ok => /\ m.len = sealed[i] /\ m.tag = s.tag
                /\ Take(m.c, m.len) = Take(s.c, sealed[i])
      BY <3>1, OpenedIs
    <3>4. m.tag.flips \in Flips
      BY DEF SealInv, WellFormed
    <3>5. ok <=> m.tag.of = hmac_sha256_var(mac_key(k), m.c, m.len) /\ m.tag.flips = Intact
      BY <3>4, OpensIs
    <3> HIDE DEF k, s, ok
    <3>6. /\ s.len = sealed[i] /\ s.tag.flips = Intact
          /\ s.tag.of = hmac_sha256_var(mac_key(k), s.c, sealed[i])
      BY <3>2 DEF SentAs
    <3>7. ASSUME m.len = s.len, m.tag = s.tag, Take(m.c, m.len) = Take(s.c, s.len)
          PROVE  ok
      <4>1. hmac_sha256_var(mac_key(k), m.c, m.len) = hmac_sha256_var(mac_key(k), s.c, s.len)
        BY <3>7, Zenon DEF hmac_sha256_var
      <4> QED
        BY <3>5, <3>6, <3>7, <4>1
    <3>8. ok <=> m.len = s.len /\ m.tag = s.tag /\ Take(m.c, m.len) = Take(s.c, s.len)
      BY <3>3, <3>6, <3>7
    <3> QED
      BY <3>8 DEF k, s, ok
  <2>3. \A o \in opened : /\ o.key \in DOMAIN sealed
                          /\ o.text = Take(Text(o.key), sealed[o.key])
    BY <2>1 DEF SealInv
  <2> QED
    BY <2>2, <2>3, Zenon DEF OpensExactlyWhatWasSealed
<1>4. Spec => []IInv
  BY <1>1, <1>2, PTL DEF Spec
<1> QED
  BY <1>3, <1>4, PTL

-----------------------------------------------------------------------------
(* What a MAC is made of.                                                  *)

Inner(k, d) == <<"SHA", key_pad_block(k, 54) \o d>>
Outer(k, d) == <<"SHA", key_pad_block(k, 92) \o <<Piece(Inner(k, d), 32)>>>>

LEMMA MacTerm ==
  ASSUME NEW k, NEW x, Buffer(x), NEW n \in Nat
  PROVE  hmac_sha256_var(k, x, n) = <<Piece(Outer(k, Take(x, n)), 32)>>
<1> DEFINE d == Take(x, n)
           id == sha256(key_pad_block(k, 54) \o d, BlockLen + n)
<1>1. BlockLen = 64 /\ DigestLen = 32
  BY DEF BlockLen, DigestLen
<1>2. Buffer(d) /\ Bytes(d) = n
  BY TakeExact
<1>3. hmac_sha256_var(k, x, n) = sha256(key_pad_block(k, 92) \o id, BlockLen + DigestLen)
  BY DEF hmac_sha256_var
<1> HIDE DEF d
<1>4. Take(key_pad_block(k, 54) \o d, 64 + n) = key_pad_block(k, 54) \o d
  BY <1>2, TakeBlocks
<1>5. id = <<Piece(Inner(k, d), 32)>>
  BY <1>1, <1>4 DEF sha256, Inner
<1>6. Buffer(id) /\ Bytes(id) = 32
  BY <1>5, BytesOfOne
<1> HIDE DEF id
<1>7. Take(key_pad_block(k, 92) \o id, 64 + 32) = key_pad_block(k, 92) \o id
  BY <1>6, TakeBlocks
<1>8. hmac_sha256_var(k, x, n) = <<Piece(<<"SHA", key_pad_block(k, 92) \o id>>, 32)>>
  BY <1>1, <1>3, <1>7 DEF sha256
<1> QED
  BY <1>5, <1>8 DEF Outer, d

IsPadded(s, k, pad, d) == s = key_pad_block(k, pad) \o d

PaddedPieces(s, k, pad, d) ==
  /\ Len(d) \in Nat /\ DOMAIN d = 1..Len(d) /\ DOMAIN s = 1..Len(d) + 2
  /\ s[1] = Piece(<<"KEYPAD", k, pad>>, 32) /\ s[2] = Piece(<<"PAD", pad>>, 32)
  /\ \A i \in 1..Len(d) : s[i + 2] = d[i]

LEMMA PadPieces ==
  ASSUME NEW k, NEW pad, NEW d, Buffer(d), NEW s, IsPadded(s, k, pad, d)
  PROVE  PaddedPieces(s, k, pad, d)
<1> DEFINE a == Piece(<<"KEYPAD", k, pad>>, 32)
           c == Piece(<<"PAD", pad>>, 32)
           b == <<a, c>>
<1>1. PICK P : d \in Seq(P)
  BY DEF Buffer
<1> DEFINE R == P \cup {a, c}
<1>2. s = b \o d
  BY DEF key_pad_block, IsPadded
<1> HIDE DEF a, c
<1>3. /\ b \in Seq(R) /\ d \in Seq(R) /\ Len(b) = 2 /\ b[1] = a /\ b[2] = c
      /\ Len(d) \in Nat /\ DOMAIN d = 1..Len(d)
  BY <1>1
<1> HIDE DEF b, R
<1>4. /\ s \in Seq(R) /\ Len(s) = Len(b) + Len(d)
      /\ \A i \in 1..Len(b) + Len(d) : s[i] = IF i <= Len(b) THEN b[i] ELSE d[i - Len(b)]
  <2> DEFINE u == b \o d
  <2>1. /\ u \in Seq(R) /\ Len(u) = Len(b) + Len(d)
        /\ \A i \in 1..Len(b) + Len(d) : u[i] = IF i <= Len(b) THEN b[i] ELSE d[i - Len(b)]
    BY <1>3, ConcatProperties, Zenon
  <2>2. s = u
    BY <1>2
  <2> HIDE DEF u
  <2> QED
    BY <2>1, <2>2
<1>5. DOMAIN s = 1..Len(d) + 2
  BY <1>3, <1>4
<1>6. s[1] = a /\ s[2] = c
  BY <1>3, <1>4
<1>7. \A i \in 1..Len(d) : s[i + 2] = d[i]
  BY <1>3, <1>4
<1> QED
  BY <1>3, <1>5, <1>6, <1>7 DEF a, c, PaddedPieces

-----------------------------------------------------------------------------
(* What cannot be worked out.                                              *)

Mentions(t, H) == \E i \in DOMAIN t : t[i].v \in H

\* Whatever is in H is the secret or made of something in H.
Shut(H) == \A v \in H : \/ v = <<"SECRET">>
                        \/ v[1] \in {"SHA", "KEYPAD"} /\ Mentions(v[2], H)

LEMMA DepthNat == MaxDepth \in Nat
BY BoundsAssumption DEF MaxDepth

Learns(w, m, from, terms) ==
  w = [n \in 0..m |-> IF n = 0 THEN from ELSE Learnt(w[n - 1], terms)]

LEMMA KnownExists ==
  ASSUME NEW from, NEW terms
  PROVE  \A m \in Nat : \E w : Learns(w, m, from, terms)
<1> DEFINE G(v) == Learnt(v, terms)
           Good(m) == \E w : w = [n \in 0..m |-> IF n = 0 THEN from ELSE G(w[n - 1])]
           S == {m \in Nat : Good(m)}
<1> HIDE DEF G
<1>1. 0 \in S
  <2> DEFINE w == [n \in 0..0 |-> from]
  <2>1. w = [n \in 0..0 |-> IF n = 0 THEN from ELSE G(w[n - 1])]
    OBVIOUS
  <2> HIDE DEF w
  <2>2. Good(0)
    BY <2>1, Zenon
  <2> QED
    BY <2>2
<1>2. ASSUME NEW m \in Nat, m \in S PROVE m + 1 \in S
  <2>1. PICK w : w = [n \in 0..m |-> IF n = 0 THEN from ELSE G(w[n - 1])]
    BY <1>2
  <2> DEFINE u == [n \in 0..m + 1 |-> IF n = m + 1 THEN G(w[m]) ELSE w[n]]
  <2>2. ASSUME NEW n \in 0..m + 1 PROVE u[n] = IF n = 0 THEN from ELSE G(u[n - 1])
    <3>1. CASE n = 0
      <4>1. 0 \in 0..m /\ u[0] = w[0] /\ w[0] = from
        BY <2>1
      <4> QED
        BY <3>1, <4>1
    <3>2. CASE n \in 1..m
      <4>1. /\ n - 1 \in 0..m /\ n \in 0..m /\ n - 1 # m + 1 /\ n # m + 1 /\ n # 0
            /\ n - 1 \in 0..m + 1
        BY <3>2
      <4>2. u[n] = w[n] /\ u[n - 1] = w[n - 1]
        BY <4>1
      <4>3. w[n] = G(w[n - 1])
        BY <2>1, <4>1
      <4> QED
        BY <4>1, <4>2, <4>3
    <3>3. CASE n = m + 1
      <4>1. /\ n - 1 = m /\ m \in 0..m + 1 /\ m # m + 1 /\ n # 0
        BY <3>3
      <4>2. u[n] = G(w[m]) /\ u[n - 1] = w[m]
        BY <3>3, <4>1
      <4> QED
        BY <4>1, <4>2
    <3> QED
      BY <3>1, <3>2, <3>3
  <2>3. u = [n \in 0..m + 1 |-> u[n]]
    OBVIOUS
  <2> HIDE DEF u
  <2>4. u = [n \in 0..m + 1 |-> IF n = 0 THEN from ELSE G(u[n - 1])]
    BY <2>2, <2>3, Zenon
  <2>5. Good(m + 1)
    BY <2>4, Zenon
  <2> QED
    BY <2>5
<1>3. \A m \in Nat : m \in S
  <2> HIDE DEF S
  <2> QED
    BY <1>1, <1>2, Induction
<1>4. ASSUME NEW m \in Nat PROVE \E w : Learns(w, m, from, terms)
  <2>1. PICK w : w = [n \in 0..m |-> IF n = 0 THEN from ELSE G(w[n - 1])]
    BY <1>3
  <2>2. Learns(w, m, from, terms)
    BY <2>1, Zenon DEF G, Learns
  <2> QED
    BY <2>2
<1> QED
  BY <1>4

LEMMA KnownRuns ==
  ASSUME NEW from, NEW t
  PROVE  \E terms, w : /\ w[0] = from
                       /\ \A n \in 0..MaxDepth - 1 : w[n + 1] = Learnt(w[n], terms)
                       /\ Known(from, t) <=> t \in w[MaxDepth]
<1> DEFINE terms == Within({t})
           F == CHOOSE w : w = [n \in 0..MaxDepth |-> IF n = 0 THEN from
                                                      ELSE Learnt(w[n - 1], terms)]
<1>1. Known(from, t) <=> t \in F[MaxDepth]
  BY Zenon DEF Known
<1> HIDE DEF terms
<1>2. F = [n \in 0..MaxDepth |-> IF n = 0 THEN from ELSE Learnt(F[n - 1], terms)]
  <2>1. PICK w : Learns(w, MaxDepth, from, terms)
    BY DepthNat, KnownExists
  <2> QED
    BY <2>1, Zenon DEF Learns
<1> HIDE DEF F
<1>3. 0 \in 0..MaxDepth /\ F[0] = from
  <2>1. 0 \in 0..MaxDepth
    BY DepthNat
  <2> QED
    BY <1>2, <2>1
<1>4. ASSUME NEW n \in 0..MaxDepth - 1 PROVE F[n + 1] = Learnt(F[n], terms)
  <2>1. n + 1 \in 0..MaxDepth /\ n + 1 # 0 /\ (n + 1) - 1 = n
    BY DepthNat
  <2> QED
    BY <1>2, <2>1
<1> QED
  BY <1>1, <1>3, <1>4

\* What mentions something shut away cannot be worked out from what does not.
LEMMA StaysUnknown ==
  ASSUME NEW H, Shut(H), NEW from, \A s \in from : ~Mentions(s, H),
         NEW t, Mentions(t, H)
  PROVE  ~Known(from, t)
<1>1. PICK terms, w : /\ w[0] = from
                      /\ \A n \in 0..MaxDepth - 1 : w[n + 1] = Learnt(w[n], terms)
                      /\ Known(from, t) <=> t \in w[MaxDepth]
  BY KnownRuns
<1> DEFINE S == {n \in Nat : n <= MaxDepth => \A s \in w[n] : ~Mentions(s, H)}
<1>2. 0 \in S
  BY <1>1
<1>3. ASSUME NEW n \in Nat, n \in S PROVE n + 1 \in S
  <2> SUFFICES ASSUME n + 1 <= MaxDepth, NEW s \in w[n + 1], Mentions(s, H) PROVE FALSE
    OBVIOUS
  <2>1. n \in 0..MaxDepth - 1 /\ n <= MaxDepth
    BY DepthNat
  <2>2. \A u \in w[n] : ~Mentions(u, H)
    BY <1>3, <2>1
  <2>3. s \in Learnt(w[n], terms)
    BY <1>1, <2>1
  <2>4. PICK i \in DOMAIN s : s[i].v \in H
    BY DEF Mentions
  <2>5. \/ <<s[i]>> \in w[n]
        \/ s[i].v[1] \in {"SHA", "KEYPAD"} /\ s[i].v[2] \in w[n]
        \/ s[i].v[1] \notin {"SHA", "KEYPAD", "SECRET"}
    BY <2>2, <2>3, Zenon DEF Learnt
  <2>6. \/ s[i].v[1] = "SECRET"
        \/ s[i].v[1] \in {"SHA", "KEYPAD"} /\ Mentions(s[i].v[2], H)
    BY <2>4 DEF Shut
  <2>7. CASE <<s[i]>> \in w[n]
    <3> DEFINE p == s[i]
               u == <<p>>
    <3>1. p.v \in H
      BY <2>4
    <3> HIDE DEF p
    <3>2. 1 \in DOMAIN u /\ u[1].v \in H
      BY <3>1
    <3>3. u \in w[n]
      BY <2>7 DEF p
    <3> HIDE DEF u
    <3> QED
      BY <2>2, <3>2, <3>3 DEF Mentions
  <2>8. CASE s[i].v[1] \in {"SHA", "KEYPAD"} /\ s[i].v[2] \in w[n]
    BY <2>2, <2>6, <2>8
  <2> QED
    BY <2>5, <2>6, <2>7, <2>8
<1>4. \A n \in Nat : n \in S
  <2> HIDE DEF S
  <2> QED
    BY <1>2, <1>3, Induction
<1>5. MaxDepth \in S /\ MaxDepth <= MaxDepth
  BY <1>4, DepthNat
<1> QED
  BY <1>1, <1>5

-----------------------------------------------------------------------------
(* The chain only runs forwards.                                           *)

\* A MAC: what it is made of, one level down.
MacOf(t, k, d) == Buffer(d) /\ t = <<Piece(Outer(k, d), 32)>>

\* The keys behind the j-th output key, down to the secret, and that key.
Behind(h, o, j) == {Prk0, o[j]} \cup {h[i].next : i \in 0..j - 1}
                     \cup {Prk(h[i].next) : i \in 0..j - 1}

\* What can be worked out only with one of them.
Lost(h, o, j) == {<<"SECRET">>, Inner(Zeros(32), Secret)}
                   \cup {k[1].v : k \in Behind(h, o, j)}
                   \cup {<<"KEYPAD", k, pad>> : k \in Behind(h, o, j), pad \in {54, 92}}
                   \cup {Inner(Zeros(32), h[i].next) : i \in 0..j - 1}

LEMMA CoversMac ==
  ASSUME NEW t, NEW n \in Nat, Covers(t, n)
  PROVE  \E k, d : MacOf(t, k, d)
<1>1. PICK k, x : Buffer(x) /\ t = hmac_sha256_var(k, x, n)
  BY DEF Covers
<1>2. Buffer(Take(x, n)) /\ t = <<Piece(Outer(k, Take(x, n)), 32)>>
  BY <1>1, MacTerm, TakeExact
<1> QED
  BY <1>2 DEF MacOf

LEMMA MacPieces ==
  ASSUME NEW t, NEW k, NEW d, MacOf(t, k, d)
  PROVE  /\ DOMAIN t = {1} /\ t = <<t[1]>> /\ t[1] = Piece(t[1].v, 32)
         /\ t[1].v = Outer(k, d)
<1> DEFINE p == Piece(Outer(k, d), 32)
<1>1. t = <<p>>
  BY DEF MacOf
<1>2. p.v = Outer(k, d) /\ p = Piece(p.v, 32)
  BY DEF Piece
<1> HIDE DEF p
<1>3. DOMAIN t = {1} /\ t[1] = p
  BY <1>1
<1> QED
  BY <1>1, <1>2, <1>3

LEMMA OuterParts ==
  ASSUME NEW k, NEW d, NEW H
  PROVE  /\ Outer(k, d)[1] = "SHA"
         /\ <<"KEYPAD", k, 92>> \in H => Mentions(Outer(k, d)[2], H)
         /\ Inner(k, d) \in H => Mentions(Outer(k, d)[2], H)
<1> DEFINE q == Piece(Inner(k, d), 32)
           id == <<q>>
           s == key_pad_block(k, 92) \o id
<1>1. Outer(k, d)[1] = "SHA" /\ Outer(k, d)[2] = s
  BY DEF Outer
<1>2. Buffer(id)
  BY BytesOfOne
<1>3. q.v = Inner(k, d)
  BY DEF Piece
<1> HIDE DEF q
<1>4. Len(id) = 1 /\ id[1] = q
  OBVIOUS
<1> HIDE DEF id, s
<1>5. /\ DOMAIN s = 1..Len(id) + 2 /\ s[1] = Piece(<<"KEYPAD", k, 92>>, 32)
      /\ \A i \in 1..Len(id) : s[i + 2] = id[i]
  <2>1. IsPadded(s, k, 92, id)
    BY DEF s, IsPadded
  <2>2. PaddedPieces(s, k, 92, id)
    BY <1>2, <2>1, PadPieces
  <2> QED
    BY <2>2 DEF PaddedPieces
<1>6. 1 \in DOMAIN s /\ 3 \in DOMAIN s /\ s[3] = q
  <2>1. 1 \in 1..Len(id) /\ 1 + 2 = 3 /\ 1..Len(id) + 2 = 1..3
    BY <1>4
  <2> QED
    BY <1>4, <1>5, <2>1
<1>7. s[1].v = <<"KEYPAD", k, 92>>
  BY <1>5 DEF Piece
<1> QED
  BY <1>1, <1>3, <1>6, <1>7 DEF Mentions

LEMMA InnerParts ==
  ASSUME NEW k, NEW d, Buffer(d), NEW H
  PROVE  /\ Inner(k, d)[1] = "SHA"
         /\ Mentions(d, H) => Mentions(Inner(k, d)[2], H)
<1> DEFINE s == key_pad_block(k, 54) \o d
<1>1. Inner(k, d)[1] = "SHA" /\ Inner(k, d)[2] = s
  BY DEF Inner
<1> HIDE DEF s
<1>2. /\ DOMAIN s = 1..Len(d) + 2 /\ \A i \in 1..Len(d) : s[i + 2] = d[i]
      /\ Len(d) \in Nat /\ DOMAIN d = 1..Len(d)
  <2>1. IsPadded(s, k, 54, d)
    BY DEF s, IsPadded
  <2>2. PaddedPieces(s, k, 54, d)
    BY <2>1, PadPieces
  <2> QED
    BY <2>2 DEF PaddedPieces
<1>3. \A i \in 1..Len(d) : i + 2 \in 1..Len(d) + 2
  BY <1>2
<1> QED
  BY <1>1, <1>2, <1>3 DEF Mentions

LEMMA SecretBuffer == /\ Buffer(Secret) /\ Bytes(Secret) = SecretLen /\ SecretLen \in Nat
                      /\ Take(Secret, SecretLen) = Secret
                      /\ DOMAIN Secret = {1} /\ Secret[1].v = <<"SECRET">>
<1>1. Buffer(Secret) /\ Bytes(Secret) = SecretLen /\ SecretLen \in Nat
  BY SecretAssumption, BytesOfOne DEF Secret
<1>2. DOMAIN Secret = {1} /\ Secret[1].v = <<"SECRET">>
  BY DEF Secret, Piece
<1> QED
  BY <1>1, <1>2, TakeExact

\* Every key behind an output key is a MAC under another of them, or over one.
LEMMA BehindMade ==
  ASSUME NEW P, NEW o \in Seq(P), NEW h, History(h, o), NEW j \in 1..Len(o),
         NEW t \in Behind(h, o, j)
  PROVE  \E k, d : /\ MacOf(t, k, d)
                   /\ k \in Behind(h, o, j) \/ Inner(k, d) \in Lost(h, o, j)
<1> DEFINE B == Behind(h, o, j)
           H == Lost(h, o, j)
<1>1. ASSUME NEW k \in B, NEW x, Buffer(x), NEW n \in Nat, t = hmac_sha256_var(k, x, n)
      PROVE  \E l, d : MacOf(t, l, d) /\ l \in B
  BY <1>1, MacTerm, TakeExact DEF MacOf
<1>2. CASE t = Prk0
  <2>1. t = hmac_sha256_var(Zeros(32), Secret, SecretLen)
    BY <1>2 DEF Prk0, hkdf_extract
  <2>2. MacOf(t, Zeros(32), Secret)
    BY <2>1, SecretBuffer, MacTerm DEF MacOf
  <2>3. Inner(Zeros(32), Secret) \in H
    BY DEF Lost
  <2> QED
    BY <2>2, <2>3
<1>3. ASSUME NEW i \in 0..j - 1, t = Prk(h[i].next)
      PROVE  \E k, d : MacOf(t, k, d) /\ Inner(k, d) \in H
  <2>1. Key(h[i].next)
    BY HistoryKeys
  <2>2. Take(h[i].next, 32) = h[i].next
    BY <2>1, TakeExact DEF Key
  <2>3. MacOf(t, Zeros(32), h[i].next)
    BY <1>3, <2>1, <2>2, MacTerm DEF MacOf, Key, Prk, hkdf_extract
  <2>4. Inner(Zeros(32), h[i].next) \in H
    BY DEF Lost
  <2> QED
    BY <2>3, <2>4
<1>4. ASSUME NEW i \in 0..Len(o) - 1, i \in 0..j - 1,
             t = spqr_chain_next(h[i].next, h[i].ctr).next
               \/ t = spqr_chain_next(h[i].next, h[i].ctr).out
      PROVE  \E k, d : MacOf(t, k, d) /\ k \in B
  <2> DEFINE prk == Prk(h[i].next)
             info == Info(h[i].ctr)
             t1 == T1(prk, info, 35)
  <2>1. prk \in B
    BY <1>4 DEF Behind
  <2>2. t = t1 \/ t = Tn(prk, t1, info, 35, 2)
    BY <1>4, StepIs
  <2>3. Buffer(info) /\ Buffer(t1) /\ 35 \in Nat
    BY InfoBuffer, MacIsKey DEF T1, Key
  <2> HIDE DEF B, prk, info
  <2>4. Buffer(hkdf_t1_msg(info, 35, 1)) /\ Buffer(hkdf_tn_msg(t1, info, 35, 2))
    BY <2>3, BlocksCover
  <2>5. t = hmac_sha256_var(prk, hkdf_t1_msg(info, 35, 1), 35 + 1)
        \/ t = hmac_sha256_var(prk, hkdf_tn_msg(t1, info, 35, 2), 32 + 35 + 1)
    BY <2>2 DEF T1, Tn
  <2> QED
    BY <1>1, <2>1, <2>4, <2>5
<1>5. CASE t = o[j]
  <2>1. j - 1 \in 0..Len(o) - 1 /\ j - 1 \in 0..j - 1 /\ (j - 1) + 1 = j
    OBVIOUS
  <2>2. t = spqr_chain_next(h[j - 1].next, h[j - 1].ctr).out
    BY <1>5, <2>1 DEF History, OutOf
  <2> QED
    BY <1>4, <2>1, <2>2
<1>6. ASSUME NEW i \in 0..j - 1, t = h[i].next
      PROVE  \E k, d : MacOf(t, k, d) /\ k \in B
  <2>1. CASE i = 0
    <3>1. t = Tn(Prk0, Derived[1], Label, 46, 2)
      BY <1>6, <2>1, DerivedIs DEF History
    <3>2. 46 \in Nat /\ Buffer(Derived[1])
      BY DerivedKeys DEF Key
    <3>3. Buffer(hkdf_tn_msg(Derived[1], Label, 46, 2))
      BY <3>2, LabelBuffer, BlocksCover
    <3>4. Prk0 \in B
      BY DEF Behind
    <3>5. t = hmac_sha256_var(Prk0, hkdf_tn_msg(Derived[1], Label, 46, 2), 32 + 46 + 1)
      BY <3>1 DEF Tn
    <3> QED
      BY <1>1, <3>3, <3>4, <3>5
  <2>2. CASE i # 0
    <3>1. i - 1 \in 0..Len(o) - 1 /\ i - 1 \in 0..j - 1 /\ (i - 1) + 1 = i
      BY <2>2
    <3>2. h[i] = After(h[i - 1])
      BY <3>1 DEF History
    <3>3. t = spqr_chain_next(h[i - 1].next, h[i - 1].ctr).next
      BY <1>6, <3>2 DEF After
    <3> QED
      BY <1>4, <3>1, <3>3
  <2> QED
    BY <2>1, <2>2
<1> QED
  BY <1>2, <1>3, <1>5, <1>6 DEF Behind

LEMMA LostShut ==
  ASSUME NEW P, NEW o \in Seq(P), NEW h, History(h, o), NEW j \in 1..Len(o)
  PROVE  Shut(Lost(h, o, j))
<1> DEFINE B == Behind(h, o, j)
           H == Lost(h, o, j)
           Safe(v) == v[1] \in {"SHA", "KEYPAD"} /\ Mentions(v[2], H)
<1>1. ASSUME NEW k \in B PROVE Mentions(k, H)
  <2>1. PICK l, d : MacOf(k, l, d)
    BY BehindMade
  <2>2. 1 \in DOMAIN k
    BY <2>1, MacPieces
  <2>3. k[1].v \in H
    BY DEF Lost
  <2> QED
    BY <2>2, <2>3 DEF Mentions
<1>2. ASSUME NEW k \in B PROVE Safe(k[1].v)
  <2>1. PICK l, d : MacOf(k, l, d) /\ (l \in B \/ Inner(l, d) \in H)
    BY BehindMade
  <2>2. k[1].v = Outer(l, d)
    BY <2>1, MacPieces
  <2>3. l \in B => <<"KEYPAD", l, 92>> \in H
    BY DEF Lost
  <2> HIDE DEF B, H
  <2> QED
    BY <2>1, <2>2, <2>3, OuterParts
<1>3. ASSUME NEW k \in B, NEW pad PROVE Safe(<<"KEYPAD", k, pad>>)
  <2> HIDE DEF B, H
  <2>1. <<"KEYPAD", k, pad>>[1] = "KEYPAD" /\ <<"KEYPAD", k, pad>>[2] = k
    OBVIOUS
  <2> QED
    BY <1>1, <2>1
<1>4. ASSUME NEW i \in 0..j - 1 PROVE Safe(Inner(Zeros(32), h[i].next))
  <2>1. h[i].next \in B
    BY DEF Behind
  <2>2. Buffer(h[i].next)
    BY HistoryKeys DEF Key
  <2>3. Mentions(h[i].next, H)
    BY <1>1, <2>1
  <2> HIDE DEF B, H
  <2> QED
    BY <2>2, <2>3, InnerParts
<1>5. Safe(Inner(Zeros(32), Secret))
  <2>1. Mentions(Secret, H)
    <3>1. <<"SECRET">> \in H
      BY DEF Lost
    <3> HIDE DEF H
    <3> QED
      BY <3>1, SecretBuffer DEF Mentions
  <2> HIDE DEF B, H
  <2> QED
    BY <2>1, SecretBuffer, InnerParts
<1>6. ASSUME NEW v \in H PROVE v = <<"SECRET">> \/ Safe(v)
  <2>1. \/ v = <<"SECRET">> \/ v = Inner(Zeros(32), Secret)
        \/ \E k \in B : v = k[1].v
        \/ \E k \in B, pad \in {54, 92} : v = <<"KEYPAD", k, pad>>
        \/ \E i \in 0..j - 1 : v = Inner(Zeros(32), h[i].next)
    BY DEF Lost
  <2> HIDE DEF Safe, B, H
  <2> QED
    BY <2>1, <1>2, <1>3, <1>4, <1>5
<1> QED
  BY <1>6 DEF Shut

\* A MAC that is none of the keys behind the output key does not mention them.
LEMMA OthersKept ==
  ASSUME NEW P, NEW o \in Seq(P), NEW h, History(h, o), NEW j \in 1..Len(o),
         NEW t, NEW n \in Nat, Covers(t, n), t \notin Behind(h, o, j)
  PROVE  ~Mentions(t, Lost(h, o, j))
<1> DEFINE B == Behind(h, o, j)
           H == Lost(h, o, j)
<1>1. PICK k, d : MacOf(t, k, d)
  BY CoversMac
<1> DEFINE v == Outer(k, d)
<1>2. DOMAIN t = {1} /\ t = <<t[1]>> /\ t[1] = Piece(t[1].v, 32) /\ t[1].v = v
  BY <1>1, MacPieces
<1>3. v[1] = "SHA"
  BY OuterParts
<1>4. v # <<"SECRET">>
  BY <1>3
<1>5. ASSUME NEW l, NEW pad PROVE v # <<"KEYPAD", l, pad>>
  BY <1>3
<1>6. ASSUME NEW l \in B PROVE v # l[1].v
  <2>1. PICK m, e : MacOf(l, m, e)
    BY BehindMade
  <2>2. l = <<l[1]>> /\ l[1] = Piece(l[1].v, 32)
    BY <2>1, MacPieces
  <2>3. ASSUME v = l[1].v PROVE FALSE
    <3>1. t[1] = l[1]
      BY <1>2, <2>2, <2>3, Zenon
    <3>2. t = l
      BY <1>2, <2>2, <3>1, Zenon
    <3> QED
      BY <3>2
  <2> QED
    BY <2>3
<1>7. ASSUME NEW x, Buffer(x) PROVE v # Inner(Zeros(32), x)
  <2> DEFINE id == <<Piece(Inner(k, d), 32)>>
             s == key_pad_block(k, 92) \o id
             z == Zeros(32)
             u == key_pad_block(z, 54) \o x
  <2>1. v[2] = s /\ Inner(z, x)[2] = u
    BY DEF Outer, Inner
  <2>2. Buffer(id)
    BY BytesOfOne
  <2>3. IsPadded(s, k, 92, id) /\ IsPadded(u, z, 54, x)
    BY DEF IsPadded
  <2> HIDE DEF s, u, id, v, z
  <2>4. PaddedPieces(s, k, 92, id) /\ PaddedPieces(u, z, 54, x)
    BY <1>7, <2>2, <2>3, PadPieces
  <2>5. s[1] = Piece(<<"KEYPAD", k, 92>>, 32) /\ u[1] = Piece(<<"KEYPAD", z, 54>>, 32)
    BY <2>4 DEF PaddedPieces
  <2>6. s[1].v = <<"KEYPAD", k, 92>> /\ u[1].v = <<"KEYPAD", z, 54>>
    BY <2>5 DEF Piece
  <2>7. s[1].v[3] = 92 /\ u[1].v[3] = 54
    BY <2>6
  <2>8. s # u
    BY <2>7
  <2> QED
    BY <2>1, <2>8 DEF z
<1>8. \A i \in 0..j - 1 : Buffer(h[i].next)
  BY HistoryKeys DEF Key
<1> HIDE DEF v, B
<1>9. v \notin H
  <2> SUFFICES ASSUME v \in H PROVE FALSE
    OBVIOUS
  <2>1. \/ v = <<"SECRET">> \/ v = Inner(Zeros(32), Secret)
        \/ \E l \in B : v = l[1].v
        \/ \E l \in B, pad \in {54, 92} : v = <<"KEYPAD", l, pad>>
        \/ \E i \in 0..j - 1 : v = Inner(Zeros(32), h[i].next)
    BY DEF Lost, B
  <2> QED
    BY <2>1, <1>4, <1>5, <1>6, <1>7, <1>8, SecretBuffer
<1> QED
  BY <1>2, <1>9 DEF Mentions

\* One history for both chains: each party is somewhere on it.
LEMMA OneHistory ==
  ASSUME NEW c, NEW o, Recorded(c, o), NEW d, NEW u, Recorded(d, u), Len(u) <= Len(o)
  PROVE  \E h : /\ History(h, o) /\ c = h[Len(o)] /\ d = h[Len(u)]
                /\ \A i \in 1..Len(u) : i \in 1..Len(o) /\ u[i] = o[i]
<1>1. PICK P : o \in Seq(P)
  BY DEF Recorded
<1>2. PICK Q : u \in Seq(Q)
  BY DEF Recorded
<1>3. PICK h : History(h, o) /\ c = h[Len(o)]
  BY DEF Recorded
<1>4. PICK g : History(g, u) /\ d = g[Len(u)]
  BY DEF Recorded
<1> DEFINE S == {i \in Nat : i <= Len(u) => h[i] = g[i]}
<1>5. 0 \in S
  BY <1>3, <1>4 DEF History
<1>6. ASSUME NEW i \in Nat, i \in S PROVE i + 1 \in S
  <2> SUFFICES ASSUME i + 1 <= Len(u) PROVE h[i + 1] = g[i + 1]
    OBVIOUS
  <2>1. i \in 0..Len(o) - 1 /\ i \in 0..Len(u) - 1 /\ h[i] = g[i]
    BY <1>1, <1>2, <1>6
  <2> QED
    BY <2>1, <1>3, <1>4 DEF History
<1>7. \A i \in Nat : i \in S
  <2> HIDE DEF S
  <2> QED
    BY <1>5, <1>6, Induction
<1>8. Len(u) \in Nat /\ Len(u) <= Len(u) /\ \A i \in 1..Len(u) : i \in 1..Len(o)
  BY <1>1, <1>2
<1>9. h[Len(u)] = g[Len(u)]
  BY <1>7, <1>8
<1>10. \A i \in 1..Len(u) : u[i] = o[i]
  BY <1>8, ChainsAgree
<1> QED
  BY <1>3, <1>4, <1>8, <1>9, <1>10

\* What a party holds that has handed out o and is in state c, but for its j-th
\* output key.
Holds(c, o, j) == {c.next} \cup {o[i] : i \in DOMAIN o \ {j}}

Apart(x, held) ==
  \E H : Shut(H) /\ Mentions(x, H) /\ \A t \in held : ~Mentions(t, H)

\* An output key both have moved past is apart from everything else they hold.
LEMMA ShutAway ==
  ASSUME NEW c, NEW o, Recorded(c, o), NEW d, NEW u, Recorded(d, u), Len(u) <= Len(o),
         NEW j \in 1..Len(u)
  PROVE  /\ u[j] = o[j]
         /\ Apart(o[j], Holds(c, o, j) \cup Holds(d, u, j) \cup {Derived[1], Derived[3]})
<1>1. PICK P : o \in Seq(P)
  BY DEF Recorded
<1>2. PICK Q : u \in Seq(Q)
  BY DEF Recorded
<1>3. PICK h : /\ History(h, o) /\ c = h[Len(o)] /\ d = h[Len(u)]
               /\ \A i \in 1..Len(u) : i \in 1..Len(o) /\ u[i] = o[i]
  BY OneHistory
<1> DEFINE B == Behind(h, o, j)
           H == Lost(h, o, j)
<1>4. /\ j \in 1..Len(o) /\ Len(o) \in Nat /\ Len(u) \in Nat
      /\ DOMAIN o = 1..Len(o) /\ DOMAIN u = 1..Len(u)
  BY <1>1, <1>2, <1>3
<1>5. /\ \A i \in 0..j - 1 : i \in 0..Len(o) /\ (i = 0 \/ i \in 1..Len(o))
      /\ 0 \in 0..Len(o) /\ Len(o) \in 1..Len(o) /\ Len(u) \in 1..Len(o)
  BY <1>4
<1>6. Covers(Prk0, SecretLen)
  BY SecretBuffer DEF Covers, Prk0, hkdf_extract
<1>7. \A i \in 0..Len(o) : Covers(Prk(h[i].next), 32)
  BY <1>1, <1>3, HistoryKeys DEF Covers, Prk, hkdf_extract, Key
<1>8. /\ \A i \in 1..Len(o) : Covers(h[i].next, 36) /\ Covers(o[i], 68)
      /\ \A i, k \in 0..Len(o) : i < k => h[i].next # h[k].next
      /\ \A i, k \in 1..Len(o) : i < k => o[i] # o[k]
  BY <1>1, <1>3, HistoryKeys, ChainKeysDiffer, OutputKeysDiffer
<1>9. h[0].next = Derived[2] /\ Covers(Derived[2], 79) /\ Derived[2] # Derived[3]
      /\ Covers(Derived[1], 47) /\ Covers(Derived[3], 79)
  BY <1>3, DerivedKeys DEF History
<1>0. SecretLen \in Nat /\ SecretLen > 79
  BY SecretAssumption
<1> DEFINE N == {32, 36, 47, 68, 79, SecretLen}
<1>10. \A v : \A x, y \in N : Covers(v, x) /\ Covers(v, y) => x = y
  <2> N \in SUBSET Nat
    BY <1>0
  <2> HIDE DEF N
  <2> QED
    BY CoversOne
<1> DEFINE Kind(t) ==
      \/ Covers(t, SecretLen)
      \/ Covers(t, 32)
      \/ t = o[j] /\ Covers(t, 68)
      \/ t = Derived[2] /\ Covers(t, 79)
      \/ \E i \in 0..j - 1 : t = h[i].next /\ i \in 1..Len(o) /\ Covers(t, 36)
<1>11. ASSUME NEW t \in B PROVE Kind(t)
  <2>1. CASE t = Prk0
    <3>1. Covers(t, SecretLen)
      BY <2>1, <1>6
    <3> QED
      BY <3>1
  <2>2. CASE t = o[j]
    <3>1. Covers(o[j], 68)
      BY <1>4, <1>8
    <3> QED
      BY <2>2, <3>1, Zenon
  <2>3. ASSUME NEW i \in 0..j - 1, t = h[i].next
        PROVE  \/ t = Derived[2] /\ Covers(t, 79)
               \/ \E k \in 0..j - 1 : t = h[k].next /\ k \in 1..Len(o) /\ Covers(t, 36)
    BY <2>3, <1>5, <1>8, <1>9
  <2>4. ASSUME NEW i \in 0..j - 1, t = Prk(h[i].next) PROVE Covers(t, 32)
    BY <2>4, <1>5, <1>7
  <2>5. \/ t = Prk0 \/ t = o[j] \/ \E i \in 0..j - 1 : t = h[i].next
        \/ \E i \in 0..j - 1 : t = Prk(h[i].next)
    BY Zenon DEF Behind
  <2>6. ASSUME NEW i \in 0..j - 1, t = h[i].next PROVE Kind(t)
    BY <2>3, <2>6
  <2>7. ASSUME NEW i \in 0..j - 1, t = Prk(h[i].next) PROVE Kind(t)
    BY <2>4, <2>7
  <2> HIDE DEF Kind
  <2> QED
    BY <2>1, <2>2, <2>5, <2>6, <2>7, Zenon
<1> HIDE DEF B
<1>12. Derived[1] \notin B /\ Derived[3] \notin B
  BY <1>0, <1>9, <1>10, <1>11
<1>13. ASSUME NEW k \in 1..Len(o), k # j PROVE o[k] \notin B
  <2>1. o[k] # o[j]
    BY <1>4, <1>8, <1>13
  <2> QED
    BY <2>1, <1>0, <1>8, <1>10, <1>11
<1>14. ASSUME NEW k \in 1..Len(o), j <= k PROVE h[k].next \notin B
  <2>1. ASSUME NEW i \in 0..j - 1 PROVE h[i].next # h[k].next
    <3>1. i < k /\ k \in 0..Len(o)
      BY <1>4, <1>14
    <3> QED
      BY <3>1, <1>5, <1>8
  <2> QED
    BY <2>1, <1>0, <1>8, <1>10, <1>11
<1>15. ASSUME NEW t, NEW n \in N, Covers(t, n), t \notin B PROVE ~Mentions(t, H)
  <2>1. n \in Nat
    BY <1>0
  <2> HIDE DEF H, N
  <2> QED
    BY <1>1, <1>3, <1>4, <1>15, <2>1, OthersKept DEF H, B
<1>16. ~Mentions(Derived[1], H) /\ ~Mentions(Derived[3], H)
  BY <1>9, <1>12, <1>15
<1>17. \A k \in 1..Len(o) : k # j => ~Mentions(o[k], H)
  BY <1>8, <1>13, <1>15
<1>18. ~Mentions(c.next, H) /\ ~Mentions(d.next, H)
  <2>1. j <= Len(o) /\ j <= Len(u)
    BY <1>4
  <2> QED
    BY <2>1, <1>3, <1>5, <1>8, <1>14, <1>15
<1>19. Shut(H)
  BY <1>1, <1>3, <1>4, LostShut
<1>20. Mentions(o[j], H)
  <2>1. 1 \in DOMAIN o[j]
    <3>1. \E k, e : MacOf(o[j], k, e)
      BY <1>4, <1>8, CoversMac
    <3> QED
      BY <3>1, MacPieces
  <2>2. o[j][1].v \in H
    BY DEF Lost, Behind
  <2> QED
    BY <2>1, <2>2 DEF Mentions
<1> HIDE DEF H
<1>21. u[j] = o[j]
  BY <1>3
<1>22. \A t \in Holds(c, o, j) \cup Holds(d, u, j) \cup {Derived[1], Derived[3]} : ~Mentions(t, H)
  BY <1>3, <1>4, <1>16, <1>17, <1>18 DEF Holds
<1> QED
  BY <1>19, <1>20, <1>21, <1>22 DEF Apart

\* An output key both parties have moved past stays out of reach of whoever
\* learns everything else they hold, however long the chain is
\* (sha256.rs spqr_chain_next).
THEOREM TheoremForwardSecret == Spec => []ForwardSecret
<1>1. Spec => []HistoryInv
  BY HistoryInitially, HistoryKept, PTL DEF Spec
<1>2. HistoryInv => ForwardSecret
  <2> SUFFICES ASSUME HistoryInv, NEW j \in 1..MaxSteps,
                      \A p \in Party : j <= Len(out[p]),
                      NEW from,
                      from = (UNION {Holds(chain[p], out[p], j) : p \in Party})
                               \cup {Derived[1], Derived[3]}
               PROVE  ~Known(from, out["S"][j])
    BY Zenon DEF ForwardSecret, Holds
  <2>1. "S" \in Party /\ "R" \in Party /\ Party = {"S", "R"}
    BY DEF Party
  <2>2. Recorded(chain["S"], out["S"]) /\ Recorded(chain["R"], out["R"])
    BY <2>1 DEF HistoryInv
  <2>3. Len(out["S"]) \in Nat /\ Len(out["R"]) \in Nat
    BY <2>2 DEF Recorded
  <2>4. j \in 1..Len(out["S"]) /\ j \in 1..Len(out["R"])
    BY <2>1, <2>3
  <2>5. from = Holds(chain["S"], out["S"], j) \cup Holds(chain["R"], out["R"], j)
                 \cup {Derived[1], Derived[3]}
    <3>1. UNION {Holds(chain[p], out[p], j) : p \in Party}
            = Holds(chain["S"], out["S"], j) \cup Holds(chain["R"], out["R"], j)
      BY <2>1, Zenon
    <3> QED
      BY <3>1
  <2>6. Apart(out["S"][j], from)
    <3>1. CASE Len(out["R"]) <= Len(out["S"])
      <4>1. Apart(out["S"][j], Holds(chain["S"], out["S"], j) \cup Holds(chain["R"], out["R"], j)
                                 \cup {Derived[1], Derived[3]})
        BY <3>1, <2>2, <2>4, ShutAway
      <4> QED
        BY <4>1, <2>5
    <3>2. CASE Len(out["S"]) <= Len(out["R"])
      <4>1. out["S"][j] = out["R"][j]
        BY <2>2, <2>4, ChainsAgree
      <4>2. from = Holds(chain["R"], out["R"], j) \cup Holds(chain["S"], out["S"], j)
                     \cup {Derived[1], Derived[3]}
        BY <2>5
      <4>3. Apart(out["R"][j], Holds(chain["R"], out["R"], j) \cup Holds(chain["S"], out["S"], j)
                                 \cup {Derived[1], Derived[3]})
        BY <3>2, <2>2, <2>4, ShutAway
      <4> QED
        BY <4>1, <4>2, <4>3
    <3> QED
      BY <3>1, <3>2, <2>3
  <2> QED
    BY <2>6, StaysUnknown DEF Apart
<1> QED
  BY <1>1, <1>2, PTL

-----------------------------------------------------------------------------
(* What a buffer was hashed from, digest by digest, fits sha256.           *)

Hashes(n) == Hashable(n) /\ n > 0

Digests(t) == \A i \in DOMAIN t : t[i].v[1] = "SHA" => Hashes(Bytes(t[i].v[2]))

\* All the digests of W, and all of what they and the padded keys are made of.
Closed(W) == \A t \in W : Digests(t) /\ Inside(t) \subseteq W

Fits(t) == \E W : t \in W /\ Closed(W)

LEMMA FitsDown ==
  ASSUME NEW t, Fits(t)
  PROVE  Digests(t) /\ \A s \in Inside(t) : Fits(s)
<1>1. PICK W : t \in W /\ Closed(W)
  BY DEF Fits
<1>2. Digests(t) /\ Inside(t) \subseteq W
  BY <1>1 DEF Closed
<1> QED
  BY <1>1, <1>2 DEF Fits

LEMMA FitsUp ==
  ASSUME NEW t, Digests(t), \A s \in Inside(t) : Fits(s)
  PROVE  Fits(t)
<1> DEFINE world(s) == CHOOSE W : s \in W /\ Closed(W)
           V == {t} \cup UNION {world(s) : s \in Inside(t)}
<1>1. ASSUME NEW s \in Inside(t) PROVE s \in world(s) /\ Closed(world(s))
  <2>1. \E W : s \in W /\ Closed(W)
    BY <1>1 DEF Fits
  <2> QED
    BY <2>1, Zenon
<1> HIDE DEF world
<1>2. Inside(t) \subseteq V
  BY <1>1
<1>3. ASSUME NEW s \in V PROVE Digests(s) /\ Inside(s) \subseteq V
  <2>1. CASE s = t
    BY <1>2, <2>1
  <2>2. ASSUME NEW u \in Inside(t), s \in world(u)
        PROVE  Digests(s) /\ Inside(s) \subseteq V
    <3>1. Digests(s) /\ Inside(s) \subseteq world(u)
      BY <1>1, <2>2, Zenon DEF Closed
    <3>2. world(u) \subseteq V
      OBVIOUS
    <3> QED
      BY <3>1, <3>2
  <2>3. s = t \/ \E u \in Inside(t) : s \in world(u)
    OBVIOUS
  <2> QED
    BY <2>1, <2>2, <2>3, Zenon
<1>4. t \in V
  OBVIOUS
<1> HIDE DEF V
<1> QED
  BY <1>3, <1>4, Zenon DEF Fits, Closed

Downs(w, m, terms) ==
  w = [n \in 0..m |-> IF n = 0 THEN terms ELSE Deeper(w[n - 1])]

LEMMA DownExists ==
  ASSUME NEW terms
  PROVE  \A m \in Nat : \E w : Downs(w, m, terms)
<1> DEFINE Good(m) == \E w : w = [n \in 0..m |-> IF n = 0 THEN terms ELSE Deeper(w[n - 1])]
           S == {m \in Nat : Good(m)}
<1>1. 0 \in S
  <2> DEFINE w == [n \in 0..0 |-> terms]
  <2>1. w = [n \in 0..0 |-> IF n = 0 THEN terms ELSE Deeper(w[n - 1])]
    OBVIOUS
  <2> HIDE DEF w
  <2>2. Good(0)
    BY <2>1, Zenon
  <2> QED
    BY <2>2
<1>2. ASSUME NEW m \in Nat, m \in S PROVE m + 1 \in S
  <2>1. PICK w : w = [n \in 0..m |-> IF n = 0 THEN terms ELSE Deeper(w[n - 1])]
    BY <1>2
  <2> DEFINE u == [n \in 0..m + 1 |-> IF n = m + 1 THEN Deeper(w[m]) ELSE w[n]]
  <2>2. ASSUME NEW n \in 0..m + 1 PROVE u[n] = IF n = 0 THEN terms ELSE Deeper(u[n - 1])
    <3>1. CASE n = 0
      <4>1. 0 \in 0..m /\ u[0] = w[0] /\ w[0] = terms
        BY <2>1
      <4> QED
        BY <3>1, <4>1
    <3>2. CASE n \in 1..m
      <4>1. /\ n - 1 \in 0..m /\ n \in 0..m /\ n - 1 # m + 1 /\ n # m + 1 /\ n # 0
            /\ n - 1 \in 0..m + 1
        BY <3>2
      <4>2. u[n] = w[n] /\ u[n - 1] = w[n - 1]
        BY <4>1
      <4>3. w[n] = Deeper(w[n - 1])
        BY <2>1, <4>1
      <4> QED
        BY <4>1, <4>2, <4>3
    <3>3. CASE n = m + 1
      <4>1. /\ n - 1 = m /\ m \in 0..m + 1 /\ m # m + 1 /\ n # 0
        BY <3>3
      <4>2. u[n] = Deeper(w[m]) /\ u[n - 1] = w[m]
        BY <3>3, <4>1
      <4> QED
        BY <4>1, <4>2
    <3> QED
      BY <3>1, <3>2, <3>3
  <2>3. u = [n \in 0..m + 1 |-> u[n]]
    OBVIOUS
  <2> HIDE DEF u
  <2>4. u = [n \in 0..m + 1 |-> IF n = 0 THEN terms ELSE Deeper(u[n - 1])]
    BY <2>2, <2>3, Zenon
  <2>5. Good(m + 1)
    BY <2>4, Zenon
  <2> QED
    BY <2>5
<1>3. \A m \in Nat : m \in S
  <2> HIDE DEF S
  <2> QED
    BY <1>1, <1>2, Induction
<1> QED
  BY <1>3 DEF Downs

\* Whatever lies within terms that fit, fits.
LEMMA WithinFits ==
  ASSUME NEW terms, \A t \in terms : Fits(t)
  PROVE  \A t \in Within(terms) : Fits(t)
<1> DEFINE F == CHOOSE w : w = [n \in 0..MaxDepth |-> IF n = 0 THEN terms
                                                      ELSE Deeper(w[n - 1])]
<1>1. Within(terms) = F[MaxDepth]
  BY Zenon DEF Within
<1>2. F = [n \in 0..MaxDepth |-> IF n = 0 THEN terms ELSE Deeper(F[n - 1])]
  <2>1. PICK w : Downs(w, MaxDepth, terms)
    BY DepthNat, DownExists
  <2> QED
    BY <2>1, Zenon DEF Downs
<1> HIDE DEF F
<1> DEFINE S == {n \in Nat : n <= MaxDepth => \A t \in F[n] : Fits(t)}
<1>3. 0 \in S
  <2>1. 0 \in 0..MaxDepth
    BY DepthNat
  <2>2. F[0] = terms
    BY <1>2, <2>1
  <2> QED
    BY <2>2
<1>4. ASSUME NEW n \in Nat, n \in S PROVE n + 1 \in S
  <2> SUFFICES ASSUME n + 1 <= MaxDepth, NEW t \in F[n + 1] PROVE Fits(t)
    OBVIOUS
  <2>1. n + 1 \in 0..MaxDepth /\ n + 1 # 0 /\ (n + 1) - 1 = n /\ n <= MaxDepth
    BY DepthNat
  <2>2. F[n + 1] = Deeper(F[n])
    BY <1>2, <2>1
  <2>3. t \in F[n] \/ \E s \in F[n] : t \in Inside(s)
    BY <2>2 DEF Deeper
  <2>4. \A s \in F[n] : Fits(s)
    BY <1>4, <2>1
  <2> QED
    BY <2>3, <2>4, FitsDown
<1>5. \A n \in Nat : n \in S
  <2> HIDE DEF S
  <2> QED
    BY <1>3, <1>4, Induction
<1>6. MaxDepth \in S /\ MaxDepth <= MaxDepth
  BY <1>5, DepthNat
<1> QED
  BY <1>1, <1>6

LEMMA FitsPlain ==
  ASSUME NEW t, \A i \in DOMAIN t : t[i].v[1] \notin {"SHA", "KEYPAD"}
  PROVE  Fits(t)
<1>1. Inside(t) = {} /\ Digests(t)
  BY DEF Inside, Digests
<1> QED
  BY <1>1, FitsUp

\* The pieces of two buffers one after the other.
LEMMA PiecesOfBoth ==
  ASSUME NEW a, NEW b, Buffer(a), Buffer(b), NEW i \in DOMAIN (a \o b)
  PROVE  (\E k \in DOMAIN a : (a \o b)[i] = a[k]) \/ (\E k \in DOMAIN b : (a \o b)[i] = b[k])
<1>1. PICK P : a \in Seq(P)
  BY DEF Buffer
<1>2. PICK Q : b \in Seq(Q)
  BY DEF Buffer
<1> DEFINE R == P \cup Q
<1>3. a \in Seq(R) /\ b \in Seq(R)
  BY <1>1, <1>2
<1> HIDE DEF R
<1>4. /\ a \o b \in Seq(R) /\ Len(a \o b) = Len(a) + Len(b)
      /\ \A k \in 1..Len(a) + Len(b) :
           (a \o b)[k] = IF k <= Len(a) THEN a[k] ELSE b[k - Len(a)]
  BY <1>3, ConcatProperties, Zenon
<1> DEFINE u == a \o b
<1>5. /\ u \in Seq(R) /\ Len(u) = Len(a) + Len(b) /\ i \in DOMAIN u
      /\ \A k \in 1..Len(a) + Len(b) : u[k] = IF k <= Len(a) THEN a[k] ELSE b[k - Len(a)]
  BY <1>4
<1> HIDE DEF u
<1>6. /\ i \in 1..Len(a) + Len(b) /\ DOMAIN a = 1..Len(a) /\ DOMAIN b = 1..Len(b)
      /\ Len(a) \in Nat /\ Len(b) \in Nat
  BY <1>3, <1>5
<1>7. CASE i <= Len(a)
  <2>1. i \in DOMAIN a /\ u[i] = a[i]
    BY <1>5, <1>6, <1>7
  <2> QED
    BY <2>1 DEF u
<1>8. CASE ~(i <= Len(a))
  <2>1. i - Len(a) \in DOMAIN b /\ u[i] = b[i - Len(a)]
    BY <1>5, <1>6, <1>8
  <2> QED
    BY <2>1 DEF u
<1> QED
  BY <1>7, <1>8

LEMMA FitsBoth ==
  ASSUME NEW a, NEW b, Buffer(a), Buffer(b), Fits(a), Fits(b)
  PROVE  Fits(a \o b)
<1> DEFINE u == a \o b
<1>1. ASSUME NEW i \in DOMAIN u
      PROVE  (\E k \in DOMAIN a : u[i] = a[k]) \/ (\E k \in DOMAIN b : u[i] = b[k])
  BY <1>1, PiecesOfBoth
<1> HIDE DEF u
<1>2. /\ Digests(a) /\ \A s \in Inside(a) : Fits(s)
      /\ Digests(b) /\ \A s \in Inside(b) : Fits(s)
  BY FitsDown
<1>3. Digests(u)
  BY <1>1, <1>2 DEF Digests
<1>4. ASSUME NEW s \in Inside(u) PROVE s \in Inside(a) \/ s \in Inside(b)
  BY <1>1, <1>4 DEF Inside
<1>5. Fits(u)
  BY <1>2, <1>3, <1>4, FitsUp
<1> QED
  BY <1>5 DEF u

LEMMA FitsKeyPad ==
  ASSUME NEW k, NEW pad, Fits(k)
  PROVE  Fits(key_pad_block(k, pad))
<1> DEFINE p == Piece(<<"KEYPAD", k, pad>>, 32)
           q == Piece(<<"PAD", pad>>, 32)
           t == <<p, q>>
<1>1. /\ p.v[1] = "KEYPAD" /\ p.v[2] = k /\ q.v[1] = "PAD"
  BY DEF Piece
<1> HIDE DEF p, q
<1>2. DOMAIN t = {1, 2} /\ t[1] = p /\ t[2] = q
  OBVIOUS
<1> HIDE DEF t
<1>3. Digests(t) /\ \A s \in Inside(t) : s = k
  BY <1>1, <1>2 DEF Digests, Inside
<1>4. Fits(t)
  BY <1>3, FitsUp
<1> QED
  BY <1>4 DEF t, p, q, key_pad_block

LEMMA FitsDigest ==
  ASSUME NEW s, Fits(s), Hashes(Bytes(s))
  PROVE  Fits(<<Piece(<<"SHA", s>>, 32)>>)
<1> DEFINE p == Piece(<<"SHA", s>>, 32)
           t == <<p>>
<1>1. p.v[1] = "SHA" /\ p.v[2] = s
  BY DEF Piece
<1> HIDE DEF p
<1>2. DOMAIN t = {1} /\ t[1] = p
  OBVIOUS
<1> HIDE DEF t
<1>3. Digests(t) /\ \A u \in Inside(t) : u = s
  BY <1>1, <1>2 DEF Digests, Inside
<1>4. Fits(t)
  BY <1>3, FitsUp
<1> QED
  BY <1>4 DEF t, p

LEMMA FitsBlocks ==
  ASSUME NEW k, NEW pad, NEW d, Fits(k), Buffer(d), Fits(d), NEW n \in 0..HMAC_MSG_CAP,
         Bytes(d) = n
  PROVE  Fits(<<Piece(<<"SHA", key_pad_block(k, pad) \o d>>, 32)>>)
<1> DEFINE b == key_pad_block(k, pad)
           s == b \o d
<1>1. Buffer(b) /\ Bytes(b) = 64 /\ Fits(b)
  BY KeyPad, FitsKeyPad
<1> HIDE DEF b
<1>2. Fits(s) /\ Bytes(s) = 64 + n
  BY <1>1, FitsBoth, BytesOfBoth
<1>3. Hashes(64 + n)
  <2>1. Hashable(BlockLen + n)
    BY CallersFit
  <2>2. BlockLen = 64
    BY DEF BlockLen
  <2>3. 64 + n > 0
    BY DEF HMAC_MSG_CAP
  <2> QED
    BY <2>1, <2>2, <2>3 DEF Hashes
<1> HIDE DEF s
<1>4. Fits(<<Piece(<<"SHA", s>>, 32)>>)
  BY <1>2, <1>3, FitsDigest
<1> QED
  BY <1>4 DEF s, b

\* The MAC of what fits, fits.
LEMMA FitsMac ==
  ASSUME NEW k, NEW x, NEW n \in 0..HMAC_MSG_CAP, Buffer(x), Fits(k), Fits(Take(x, n))
  PROVE  Fits(hmac_sha256_var(k, x, n))
<1> DEFINE d == Take(x, n)
           id == <<Piece(Inner(k, d), 32)>>
<1>1. n \in Nat /\ 32 \in 0..HMAC_MSG_CAP
  BY DEF HMAC_MSG_CAP
<1>2. Buffer(d) /\ Bytes(d) = n
  BY <1>1, TakeExact
<1>3. hmac_sha256_var(k, x, n) = <<Piece(Outer(k, d), 32)>>
  BY <1>1, MacTerm
<1> HIDE DEF d
<1>4. Buffer(id) /\ Bytes(id) = 32
  BY BytesOfOne
<1>5. Fits(id)
  BY <1>2, FitsBlocks DEF Inner, d
<1> HIDE DEF id
<1>6. Fits(<<Piece(<<"SHA", key_pad_block(k, 92) \o id>>, 32)>>)
  BY <1>1, <1>4, <1>5, FitsBlocks
<1> QED
  BY <1>3, <1>6 DEF Outer, id

LEMMA FitsByte == \A b : Fits(Byte(b))
<1> TAKE b
<1> DEFINE p == Piece(<<"BYTE", b>>, 1)
           t == <<p>>
<1>1. p.v[1] = "BYTE"
  BY DEF Piece
<1> HIDE DEF p
<1>2. DOMAIN t = {1} /\ t[1] = p
  OBVIOUS
<1> HIDE DEF t
<1>3. Fits(t)
  BY <1>1, <1>2, FitsPlain
<1> QED
  BY <1>3 DEF t, p, Byte

LEMMA FitsZeros == Fits(Zeros(32))
<1> DEFINE p == Piece(Zero, 32)
           t == <<p>>
<1>1. p.v[1] = "ZERO"
  BY DEF Piece, Zero
<1>2. Zeros(32) = t
  BY DEF Zeros
<1> HIDE DEF p
<1>3. DOMAIN t = {1} /\ t[1] = p
  OBVIOUS
<1> HIDE DEF t
<1>4. Fits(t)
  BY <1>1, <1>3, FitsPlain
<1> QED
  BY <1>2, <1>4

LEMMA FitsSecret == Fits(Secret)
<1>1. <<"SECRET">>[1] = "SECRET"
  OBVIOUS
<1>2. \A i \in DOMAIN Secret : Secret[i].v[1] = "SECRET"
  BY <1>1, SecretBuffer
<1> HIDE DEF Secret
<1> QED
  BY <1>2, FitsPlain

LEMMA FitsLabel == Fits(Label)
<1> DEFINE p == Label[1]
<1>1. DOMAIN Label = {1}
        /\ Label[1].v = <<"WhisperText_X25519_SHA-256_CRYSTALS-KYBER-1024">>
  BY DEF Label, Piece
<1>2. \A i \in DOMAIN Label :
        Label[i].v[1] = "WhisperText_X25519_SHA-256_CRYSTALS-KYBER-1024"
  BY <1>1
<1> QED
  BY <1>2, FitsPlain

LEMMA FitsInfo == \A ctr : Fits(Info(ctr))
<1> TAKE ctr
<1> DEFINE p == Piece(<<"CTR", (ctr + 1) % U32>>, 4)
           q == Piece(CHAIN_NEXT_LABEL, 31)
           t == <<p, q>>
<1>1. p.v[1] = "CTR" /\ q.v[1] = "Signal PQ Ratchet V1 Chain Next"
  BY DEF Piece, CHAIN_NEXT_LABEL
<1> HIDE DEF p, q
<1>2. DOMAIN t = {1, 2} /\ t[1] = p /\ t[2] = q
  OBVIOUS
<1> HIDE DEF t
<1>3. Fits(t)
  BY <1>1, <1>2, FitsPlain
<1> QED
  BY <1>3 DEF t, p, q, Info

\* The blocks of an expansion whose info is all of a buffer.
LEMMA FitsExpand ==
  ASSUME NEW prk, Fits(prk), NEW info, Buffer(info), Fits(info), NEW len \in 0..HKDF_INFO_CAP,
         Bytes(info) = len, NEW prev, Key(prev), Fits(prev), NEW ctr
  PROVE  Fits(T1(prk, info, len)) /\ Fits(Tn(prk, prev, info, len, ctr))
<1> DEFINE s == prev \o info
           x == info \o Byte(1)
           y == s \o Byte(ctr)
<1>1. len \in Nat /\ len + 1 \in 0..HMAC_MSG_CAP /\ (32 + len) + 1 \in 0..HMAC_MSG_CAP
  BY DEF HKDF_INFO_CAP, HMAC_MSG_CAP
<1>2. Take(info, len) = info
  BY <1>1, TakeExact
<1>3. Buffer(s) /\ Bytes(s) = 32 + len /\ Fits(s)
  BY BytesOfBoth, FitsBoth DEF Key
<1>4. Buffer(x) /\ Bytes(x) = len + 1 /\ Fits(x)
  BY OneByte, FitsByte, BytesOfBoth, FitsBoth
<1> HIDE DEF s
<1>5. Buffer(y) /\ Bytes(y) = (32 + len) + 1 /\ Fits(y)
  BY <1>3, OneByte, FitsByte, BytesOfBoth, FitsBoth
<1>6. hkdf_t1_msg(info, len, 1) = x /\ hkdf_tn_msg(prev, info, len, ctr) = y
  BY <1>2 DEF hkdf_t1_msg, hkdf_tn_msg, s
<1> HIDE DEF x, y
<1> DEFINE m == len + 1
           n == (32 + len) + 1
<1>7. m \in Nat /\ n \in Nat /\ m \in 0..HMAC_MSG_CAP /\ n \in 0..HMAC_MSG_CAP
  BY <1>1
<1>8. Bytes(x) = m /\ Bytes(y) = n
  BY <1>4, <1>5
<1>9. T1(prk, info, len) = hmac_sha256_var(prk, x, m)
        /\ Tn(prk, prev, info, len, ctr) = hmac_sha256_var(prk, y, n)
  BY <1>6 DEF T1, Tn
<1> HIDE DEF m, n
<1>10. Take(x, m) = x /\ Take(y, n) = y
  BY <1>4, <1>5, <1>7, <1>8, TakeExact
<1> QED
  BY <1>4, <1>5, <1>7, <1>9, <1>10, FitsMac

LEMMA FitsExtract ==
  ASSUME NEW x, Buffer(x), Fits(x), NEW n \in 0..HMAC_MSG_CAP, Bytes(x) = n
  PROVE  Fits(hkdf_extract(Zeros(32), x, n))
<1>1. n \in Nat
  BY DEF HMAC_MSG_CAP
<1>2. Take(x, n) = x
  BY <1>1, TakeExact
<1> QED
  BY <1>2, FitsZeros, FitsMac DEF hkdf_extract

LEMMA FitsStep ==
  ASSUME NEW x, Key(x), Fits(x), NEW c
  PROVE  Fits(spqr_chain_next(x, c).next)
<1> DEFINE prk == Prk(x)
           info == Info(c)
<1>1. Fits(prk)
  <2>1. 32 \in 0..HMAC_MSG_CAP
    BY DEF HMAC_MSG_CAP
  <2> QED
    BY <2>1, FitsExtract DEF Prk, Key
<1>2. Buffer(info) /\ Bytes(info) = 35 /\ Fits(info)
  BY InfoBuffer, FitsInfo
<1>3. spqr_chain_next(x, c).next = T1(prk, info, 35)
  BY StepIs
<1>4. 35 \in 0..HKDF_INFO_CAP
  BY DEF HKDF_INFO_CAP
<1> HIDE DEF prk, info
<1> QED
  BY <1>1, <1>2, <1>3, <1>4, FitsExpand

LEMMA FitsDerived == Fits(Derived[2])
<1>1. Fits(Prk0)
  <2>1. SecretLen \in 0..HMAC_MSG_CAP
    BY SecretAssumption DEF HMAC_MSG_CAP
  <2> QED
    BY <2>1, SecretBuffer, FitsSecret, FitsExtract DEF Prk0
<1>2. 46 \in 0..HKDF_INFO_CAP
  BY DEF HKDF_INFO_CAP
<1>3. Key(Prk0)
  BY MacIsKey DEF Prk0, hkdf_extract
<1>4. Fits(Derived[1])
  BY <1>1, <1>2, <1>3, LabelBuffer, FitsLabel, FitsExpand, DerivedIs
<1> QED
  BY <1>1, <1>2, <1>4, LabelBuffer, FitsLabel, FitsExpand, DerivedIs, DerivedKeys

LEMMA FitsHistory ==
  ASSUME NEW P, NEW o \in Seq(P), NEW h, History(h, o)
  PROVE  \A i \in 0..Len(o) : Fits(h[i].next)
<1> DEFINE S == {i \in Nat : i <= Len(o) => Fits(h[i].next)}
<1>1. Len(o) \in Nat
  OBVIOUS
<1>2. 0 \in S
  BY FitsDerived DEF History
<1>3. ASSUME NEW i \in Nat, i \in S PROVE i + 1 \in S
  <2> SUFFICES ASSUME i + 1 <= Len(o) PROVE Fits(h[i + 1].next)
    OBVIOUS
  <2>1. i \in 0..Len(o) - 1 /\ i \in 0..Len(o) /\ i <= Len(o)
    BY <1>1
  <2>2. Fits(h[i].next) /\ Key(h[i].next)
    BY <1>3, <2>1, HistoryKeys
  <2>3. h[i + 1] = After(h[i])
    BY <2>1, Zenon DEF History
  <2>4. h[i + 1].next = spqr_chain_next(h[i].next, h[i].ctr).next
    BY <2>3 DEF After
  <2> QED
    BY <2>2, <2>4, FitsStep
<1>4. \A i \in Nat : i \in S
  <2> HIDE DEF S
  <2> QED
    BY <1>2, <1>3, Induction
<1> QED
  BY <1>1, <1>4

LEMMA FitsTag ==
  ASSUME NEW j, NEW n \in 0..HMAC_MSG_CAP, NEW k
  PROVE  Fits(Message(j, n, k).tag.of)
<1> DEFINE m == Message(j, n, k)
           d == XorWith(Take(Text(j), n), keystream(k))
           p == Piece(<<"MACKEY", k>>, 32)
           t == <<p>>
<1>1. /\ m.tag.of = hmac_sha256_var(mac_key(k), m.c, n)
      /\ Buffer(m.c) /\ Take(m.c, n) = d
  <2>1. SentAs(m, j, n, k)
    BY MessageIs
  <2> HIDE DEF m, d
  <2>2. m.tag = [of |-> hmac_sha256_var(mac_key(k), m.c, n), flips |-> Intact]
    BY <2>1 DEF SentAs
  <2> QED
    BY <2>1, <2>2 DEF SentAs, d
<1>2. \A i \in DOMAIN d : d[i].v[1] = "XOR"
  BY TextBack
<1> HIDE DEF m, d
<1>3. Fits(d)
  BY <1>2, FitsPlain
<1>4. p.v[1] = "MACKEY"
  BY DEF Piece
<1>5. mac_key(k) = t
  BY DEF mac_key
<1> HIDE DEF p
<1>6. DOMAIN t = {1} /\ t[1] = p
  OBVIOUS
<1> HIDE DEF t
<1>7. Fits(mac_key(k))
  BY <1>4, <1>5, <1>6, FitsPlain
<1>8. Fits(m.tag.of)
  BY <1>1, <1>3, <1>7, FitsMac
<1> QED
  BY <1>8 DEF m

\* The padding of every hash behind a chain key or a tag stays inside sha256's
\* buffer, spares the data and ends in the number of bits, for every length a
\* caller may ask for and every length of the chain (sha256.rs sha256,
\* hmac_sha256_var, hkdf_expand_96, spqr_chain_next).
THEOREM TheoremBuffersHold == Spec => []BuffersHold
<1>1. IInv => BuffersHold
  <2> DEFINE terms == {chain[p].next : p \in Party} \cup {m.tag.of : m \in net}
  <2> SUFFICES ASSUME IInv, NEW n \in Hashed(terms)
               PROVE  /\ Hashable(n) /\ n > 0 /\ total(n) <= HASH_CAP
                      /\ padded([i \in 0..(HASH_CAP - 1) |-> 256 + i], n)[n] = 128
                      /\ padded([i \in 0..(HASH_CAP - 1) |-> 256 + i], n)[n - 1]
                           = [i \in 0..(HASH_CAP - 1) |-> 256 + i][n - 1]
                      /\ LengthRight([i \in 0..(HASH_CAP - 1) |-> 256 + i], n)
    BY Zenon DEF BuffersHold
  <2>1. ASSUME NEW p \in Party PROVE Fits(chain[p].next)
    <3>1. Recorded(chain[p], out[p])
      BY <2>1 DEF IInv, HistoryInv
    <3>2. PICK P : out[p] \in Seq(P)
      BY <3>1 DEF Recorded
    <3>3. PICK h : History(h, out[p]) /\ chain[p] = h[Len(out[p])]
      BY <3>1 DEF Recorded
    <3>4. Len(out[p]) \in 0..Len(out[p])
      BY <3>2
    <3> QED
      BY <3>2, <3>3, <3>4, FitsHistory
  <2>2. ASSUME NEW m \in net PROVE Fits(m.tag.of)
    <3>1. Tagged(m, sealed, out["S"]) /\ sealed \in Seq(Lens)
      BY <2>2 DEF IInv, SealInv
    <3>2. PICK j \in 1..Len(sealed) : m.tag.of = Message(j, sealed[j], out["S"][j]).tag.of
      BY <3>1 DEF Tagged
    <3>3. sealed[j] \in Lens
      BY <3>1, ElementOfSeq
    <3>4. sealed[j] \in 0..HMAC_MSG_CAP
      BY <3>3, LensNat
    <3> QED
      BY <3>2, <3>4, FitsTag
  <2>3. \A t \in terms : Fits(t)
    BY <2>1, <2>2
  <2> HIDE DEF terms
  <2>4. PICK t \in Within(terms) : \E i \in DOMAIN t : t[i].v[1] = "SHA" /\ n = Bytes(t[i].v[2])
    BY DEF Hashed
  <2>5. Digests(t)
    BY <2>3, WithinFits, FitsDown
  <2>6. Hashable(n) /\ n > 0
    BY <2>4, <2>5 DEF Digests, Hashes
  <2> DEFINE data == [i \in 0..(HASH_CAP - 1) |-> 256 + i]
  <2> HIDE DEF data
  <2>7. PaddingRight(data, n)
    BY <2>6, PaddingIsRight
  <2>8. n - 1 \in 0..(n - 1)
    BY <2>6 DEF Hashable
  <2>9. total(n) <= HASH_CAP /\ padded(data, n)[n] = 128 /\ padded(data, n)[n - 1] = data[n - 1]
        /\ LengthRight(data, n)
    BY <2>7, <2>8, Zenon DEF PaddingRight
  <2> QED
    BY <2>6, <2>9 DEF data
<1>2. Init => IInv
  BY HistoryInitially, SealInitially DEF IInv
<1>3. IInv /\ [Next]_vars => IInv'
  BY HistoryKept, SealKept DEF IInv
<1>4. Spec => []IInv
  BY <1>2, <1>3, PTL DEF Spec
<1> QED
  BY <1>1, <1>4, PTL
=============================================================================
