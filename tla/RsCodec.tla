------------------------------ MODULE RsCodec -------------------------------
(***************************************************************************)
(* The Reed-Solomon kernel of demos/rust/spqr/gf.rs at work: a message     *)
(* polynomial of N coefficients, points of it that arrive one by one in    *)
(* any order, some with a corrupt value, and the kernel run on what is     *)
(* held.  The stateful encoder and decoder around the kernel are not in    *)
(* the repository; the decoder keeps one point per x (external).           *)
(***************************************************************************)
EXTENDS Gf, Sequences, FiniteSets

CONSTANTS Cap,          \* 36: the most points, one less than the coefficients
          N,            \* coefficients of a message, points that decode it
          MaxCorrupt    \* bound on the points that arrive corrupt

ASSUME CodecAssumption ==
  Cap \in Nat \ {0} /\ N \in 1..Cap /\ MaxCorrupt \in Nat

Zero == {}
One  == {0}

\* The code's arrays; an access outside one is an error, as in the code.
Poly36  == [0..Cap - 1 -> Elem]
Poly37  == [0..Cap -> Elem]

\* A sum in the field of what f gives for the indices below n.
GfSum(f, n) ==
  LET sum[k \in 0..n] == IF k = 0 THEN Zero ELSE gf_add(sum[k - 1], f[k - 1])
  IN  sum[n]

-----------------------------------------------------------------------------
(* The polynomial core.                                                    *)

\* Horner's rule, from the coefficient below deg down.
poly_eval(coeffs, deg, x) ==
  LET out[i \in 0..deg] ==
        IF i = deg THEN Zero ELSE gf_add(gf_mul(out[i + 1], x), coeffs[i])
  IN  out[0]

\* Wrong on purpose: the constant coefficient is not scaled.
poly_scale_high(a, m) == [i \in 0..Cap - 1 |-> IF i = 0 THEN a[i] ELSE gf_mul(a[i], m)]

poly_add(a, b)   == [i \in 0..Cap - 1 |-> gf_add(a[i], b[i])]
poly_scale(a, m) == [i \in 0..Cap - 1 |-> gf_mul(a[i], m)]

-----------------------------------------------------------------------------
(* The decoder kernel.                                                     *)

mult_xdiff_trailing(coeffs, len, start, difference) ==
  [k \in 0..Cap |-> IF k \in start - 1..len - 2
                      THEN gf_add(coeffs[k], gf_mul(coeffs[k + 1], difference))
                      ELSE coeffs[k]]

prepare(xs, n) ==
  LET p[i \in 0..n] ==
        IF i = 0 THEN [k \in 0..Cap |-> IF k = n THEN One ELSE Zero]
        ELSE mult_xdiff_trailing(p[i - 1], n + 1, n - (i - 1), xs[i - 1])
  IN  p[n]

\* Wrong on purpose: the factor of the last point is left out.
denominator_short(xs, n, i) ==
  LET d[j \in 0..n] ==
        IF j = 0 THEN One
        ELSE IF xs[i] # xs[j - 1] /\ j < n THEN gf_mul(d[j - 1], gf_add(xs[i], xs[j - 1]))
        ELSE d[j - 1]
  IN  d[n]

\* The product of the distances to the other points.
denominator(xs, n, i) ==
  LET d[j \in 0..n] ==
        IF j = 0 THEN One
        ELSE IF xs[i] # xs[j - 1] THEN gf_mul(d[j - 1], gf_add(xs[i], xs[j - 1]))
        ELSE d[j - 1]
  IN  d[n]

\* Wrong on purpose: a coefficient is scaled before its carry is taken.
complete_scaled_carry(coeffs, xs, ys, n, i) ==
  LET scale == gf_div(ys[i], denominator(xs, n, i))
      q[k \in 0..n] ==
        IF k = n THEN gf_mul(coeffs[n], scale)
        ELSE gf_mul(gf_add(coeffs[k], gf_mul(q[k + 1], xs[i])), scale)
  IN  [k \in 0..Cap |-> IF k \in 0..n THEN q[k] ELSE coeffs[k]]

\* Long division by x - xs[i] from the top down, scaled but for the lowest
\* coefficient, which the caller skips.
complete(coeffs, xs, ys, n, i) ==
  LET scale == gf_div(ys[i], denominator(xs, n, i))
      q[k \in 0..n] ==
        IF k = n THEN coeffs[n] ELSE gf_add(coeffs[k], gf_mul(q[k + 1], xs[i]))
  IN  [k \in 0..Cap |-> CASE k = 0      -> q[0]
                          [] k \in 1..n -> gf_mul(q[k], scale)
                          [] OTHER      -> coeffs[k]]

\* Wrong on purpose: the last point is not accumulated.
lagrange_drop_last(xs, ys, n) ==
  LET working == [i \in 0..n - 1 |-> complete(prepare(xs, n), xs, ys, n, i)]
  IN  [k \in 0..Cap |-> IF k < n THEN GfSum([i \in 0..n - 1 |-> working[i][k + 1]], n - 1)
                                 ELSE Zero]

\* The sum of the n completed polynomials, each divided by x.
lagrange_interpolate(xs, ys, n) ==
  LET template == prepare(xs, n)
      working  == [i \in 0..n - 1 |-> complete(template, xs, ys, n, i)]
  IN  [k \in 0..Cap |-> IF k < n THEN GfSum([i \in 0..n - 1 |-> working[i][k + 1]], n)
                                 ELSE Zero]

\* Wrong on purpose: an odd power forgets its last factor.
power_even(powers, i, x) == gf_mul(powers[i \div 2], powers[i \div 2])

\* An entry of the power table from two earlier ones.
power(powers, i, x) == gf_mul(powers[i \div 2], powers[(i \div 2) + (i % 2)])

compute_at(coeffs, len, x) ==
  LET powers[i \in 0..Cap] ==
        IF i = 0 THEN One ELSE IF i = 1 THEN x ELSE power(powers, i, x)
  IN  GfSum([k \in 0..len - 1 |-> gf_mul(coeffs[k], powers[k])], len)

decode_value_at(xs, ys, n, x) == compute_at(lagrange_interpolate(xs, ys, n), n, x)

-----------------------------------------------------------------------------
VARIABLES msg,      \* the message polynomial
          held,     \* the points held, in the order they came
          poly      \* what lagrange_interpolate returns for them

vars == <<msg, held, poly>>

\* The two arrays the kernel is given, zero where there is no point.
Xs(points) == [i \in 0..Cap - 1 |-> IF i < Len(points) THEN points[i + 1].x ELSE Zero]
Ys(points) == [i \in 0..Cap - 1 |-> IF i < Len(points) THEN points[i + 1].y ELSE Zero]

Interpolant(points) == lagrange_interpolate(Xs(points), Ys(points), Len(points))

Genuine(p) == p.y = poly_eval(msg, N, p.x)
Corrupt    == {k \in 1..Len(held) : ~Genuine(held[k])}
HeldX      == {held[k].x : k \in 1..Len(held)}

Init == /\ msg \in {m \in Poly36 : \A i \in N..Cap - 1 : m[i] = Zero}
        /\ held = <<>>
        /\ poly = Interpolant(<<>>)

Receive(p) == /\ Len(held) < N
              /\ p.x \notin HeldX
              /\ Genuine(p) \/ Cardinality(Corrupt) < MaxCorrupt
              /\ held' = Append(held, p)
              /\ poly' = Interpolant(Append(held, p))
              /\ UNCHANGED msg

Next == \E x, y \in Elem : Receive([x |-> x, y |-> y])

Spec == Init /\ [][Next]_vars

-----------------------------------------------------------------------------
Decoded(x) == compute_at(poly, Len(held), x)

\* Whatever the values, what is decoded passes through every point held
\* (gf.rs:299-332, :361-373).
Interpolates ==
  \A k \in 1..Len(held) :
    decode_value_at(Xs(held), Ys(held), Len(held), held[k].x) = held[k].y

\* N genuine points, whichever they are and in whatever order they came, give
\* the message back at every index (gf.rs:361-373).
Decodes ==
  Len(held) = N /\ Corrupt = {} => \A x \in Elem : Decoded(x) = poly_eval(msg, N, x)

\* One corrupt point among N spoils the value at every index that is not
\* held: the kernel has no redundancy to notice it with (gf.rs:361-373).
DamageSpreads ==
  Len(held) = N /\ Cardinality(Corrupt) = 1 =>
    \A x \in Elem \ HeldX : Decoded(x) # poly_eval(msg, N, x)

\* The decoder's power table gives what the encoder's Horner rule gives, on
\* interpolants, spoilt ones and prepared products (gf.rs:158-174, :334-359).
EvaluatorsAgree ==
  \A n \in {Len(held)}, p \in {prepare(Xs(held), Len(held))}, x \in Elem :
    /\ compute_at(poly, n, x) = poly_eval(poly, n, x)
    /\ compute_at(p, n + 1, x) = poly_eval(p, n + 1, x)

\* Encoding is linear: poly_add and poly_scale commute with evaluation
\* (gf.rs:176-204).
EncodingLinear ==
  \A x, m \in Elem :
    poly_eval(poly_add(msg, poly_scale(poly, m)), N, x)
      = gf_add(poly_eval(msg, N, x), gf_mul(m, poly_eval(poly, N, x)))
=============================================================================
