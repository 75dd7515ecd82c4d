------------------------------ MODULE GfLadder ------------------------------
(***************************************************************************)
(* gf_div of demos/rust/spqr/gf.rs round by round, for every numerator and *)
(* denominator: the ladder multiplies by denom^(2^w - 2), which must be    *)
(* the inverse of denom in a field of 2^w elements.                        *)
(***************************************************************************)
EXTENDS Gf, FiniteSets

VARIABLES numer, denom,   \* gf_div's arguments
          ladder,         \* its locals: square and out
          rounds          \* the rounds done

ladder_vars == <<numer, denom, ladder, rounds>>

LadderInit == /\ numer \in Elem /\ denom \in Elem
              /\ ladder = [square |-> denom, out |-> numer]
              /\ rounds = 0

Round == /\ rounds < Rounds
         /\ ladder' = LadderStep(ladder)
         /\ rounds' = rounds + 1
         /\ UNCHANGED <<numer, denom>>

LadderSpec == LadderInit /\ [][Round]_ladder_vars

-----------------------------------------------------------------------------
(* The reference: every power of the indeterminate reduced by Poly one     *)
(* step at a time, a product by the parity of the pairs of exponents.      *)

Residue[k \in 0..2 * Width] ==
  IF k = 0 THEN {0}
  ELSE LET v == Shl(Residue[k - 1], 1) IN IF Width \in v THEN Xor(v, Poly) ELSE v

Product(a, b) ==
  {e \in Bits(Width) : Cardinality({p \in a \X b : e \in Residue[p[1] + p[2]]}) % 2 = 1}

Power(a, n) ==
  LET power[k \in 0..n] == IF k = 0 THEN {0} ELSE Product(power[k - 1], a)
  IN  power[n]

TwoTo[i \in 0..Width] == IF i = 0 THEN 1 ELSE 2 * TwoTo[i - 1]

-----------------------------------------------------------------------------
\* Two table-driven byte folds give the remainder of the carry-less product
\* by POLY, although the first fold feeds bits into the second (gf.rs:65-107).
ProductExact == gf_mul(numer, denom) = Product(numer, denom)

\* The loop invariant of gf_div: after i rounds square is denom^(2^i) and out
\* is numer * denom^(2^(i+1) - 2) (gf.rs:134-144).
LadderExact ==
  /\ ladder.square = Power(denom, TwoTo[rounds])
  /\ ladder.out = Product(numer, Power(denom, TwoTo[rounds + 1] - 2))

\* A division undoes the product by anything but zero, and division by zero
\* gives zero rather than a panic (gf.rs:128-144).
DivisionInverts ==
  rounds = Rounds =>
    /\ ladder.out = gf_div(numer, denom)
    /\ IF denom = {} THEN ladder.out = {} ELSE Product(ladder.out, denom) = numer
=============================================================================
