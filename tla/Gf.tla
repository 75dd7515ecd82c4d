--------------------------------- MODULE Gf ---------------------------------
(***************************************************************************)
(* The field arithmetic of demos/rust/spqr/gf.rs.  A word is the set of    *)
(* its set bits, so an element stands for a polynomial over GF(2) by its   *)
(* exponents.  The code's byte is Half bits wide here and its u16 two      *)
(* halves: Half = 8 with Poly = {16, 12, 3, 1, 0} is the code's field.     *)
(***************************************************************************)
EXTENDS Naturals

CONSTANTS Half,   \* bits of a byte; the field has 2^(2 * Half) elements
          Poly    \* POLY: the exponents of the field's polynomial

ASSUME FieldAssumption ==
  /\ Half \in Nat \ {0}
  /\ 2 * Half \in Poly /\ Poly \subseteq 0..2 * Half

Width   == 2 * Half
Bits(n) == 0..n - 1
Byte    == SUBSET Bits(Half)
Elem    == SUBSET Bits(Width)      \* u16

Xor(v, w)   == (v \ w) \cup (w \ v)
Shl(v, k)   == {i + k : i \in v}
Shr(v, k)   == {i - k : i \in {j \in v : j >= k}}
Cut(v, n)   == v \cap Bits(n)      \* a cast to n bits

-----------------------------------------------------------------------------
\* The carry-less product: a shifted to every set bit of b.
poly_mul(a, b) ==
  LET acc[n \in 0..Width] ==
        IF n = 0 THEN {}
        ELSE IF n - 1 \in b THEN Xor(acc[n - 1], Shl(a, n - 1)) ELSE acc[n - 1]
  IN  acc[Width]

\* Fold the bits of one byte that lies above the field, highest first; Poly
\* feeds bits back into the byte.
reduce_from_byte(byte) ==
  LET fold[n \in 0..Half] ==
        IF n = 0 THEN [a |-> byte, out |-> {}]
        ELSE LET s == fold[n - 1]
                 p == Shl(Poly, Half - n)
             IN  IF Half - n \in s.a
                   THEN [a |-> Xor(s.a, Cut(Shr(p, Width), Half)), out |-> Xor(s.out, p)]
                   ELSE s
  IN  fold[Half].out

reduce_bytes == [byte \in Byte |-> Cut(reduce_from_byte(byte), Width)]

\* Wrong on purpose: the top byte's contribution is not moved up.
poly_reduce_unshifted(v) ==
  LET v1 == Xor(v, reduce_bytes[Shr(v, Width + Half)])
      v2 == Xor(v1, reduce_bytes[Cut(Shr(v1, Width), Half)])
  IN  Cut(v2, Width)

\* Fold the top byte, then the next one.
poly_reduce(v) ==
  LET v1 == Xor(v, Shl(reduce_bytes[Shr(v, Width + Half)], Half))
      v2 == Xor(v1, reduce_bytes[Cut(Shr(v1, Width), Half)])
  IN  Cut(v2, Width)

gf_add(a, b) == Xor(a, b)

\* gf_mul as the function it computes: TLC evaluates the table once.
times == [a \in Elem |-> [b \in Elem |-> poly_reduce(poly_mul(a, b))]]
gf_mul(a, b) == times[a][b]

\* Wrong on purpose: multiply by the square of the round before.
LadderStepLate(s) == [square |-> gf_mul(s.square, s.square),
                      out |-> gf_mul(s.out, s.square)]

\* One round of gf_div: square, then multiply by the new square.
LadderStep(s) ==
  LET sq == gf_mul(s.square, s.square) IN
    [square |-> sq, out |-> gf_mul(s.out, sq)]

\* Wrong on purpose: a round too many.
RoundsOneMore == Width

Rounds == Width - 1

gf_div(numer, denom) ==
  LET ladder[i \in 0..Rounds] ==
        IF i = 0 THEN [square |-> denom, out |-> numer] ELSE LadderStep(ladder[i - 1])
  IN  ladder[Rounds].out
=============================================================================
