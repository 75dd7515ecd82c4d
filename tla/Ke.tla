--------------------------------- MODULE Ke ---------------------------------
(***************************************************************************)
(* The byte core of demos/rust/ke.rs.  Every operation works bit by bit,   *)
(* so a block is the set of its 1 bits, among the positions in Bits: all   *)
(* 256 in the program, any of them here.                                   *)
(***************************************************************************)
EXTENDS Integers

CONSTANT Bits

KE_LEN == 32

ASSUME BitsAssumption == Bits \subseteq 0..(8 * KE_LEN - 1)

Block  == SUBSET Bits
a ^^ b == (a \ b) \cup (b \ a)

\* 0xFF and 0x5C in every byte.
AllOnes == Bits
Kdf     == {i \in Bits : i % 8 \in {2, 3, 4, 6}}

keygen(seed) == [pk |-> seed, sk |-> seed ^^ AllOnes]

encaps(pk, coins) == [ct |-> pk ^^ coins, shared |-> pk \cap coins]

\* Wrong on purpose: the key recovered from sk is used as the coins' mask only.
decaps_masked(sk, ct) == LET pk == sk ^^ AllOnes IN sk \cap (ct ^^ pk)
decaps(sk, ct) == LET pk == sk ^^ AllOnes IN pk \cap (ct ^^ pk)

\* Wrong on purpose: the constant is OR-ed in, and bits of the secret lost.
derive_session_key_or(shared) == shared \cup Kdf
derive_session_key(shared) == shared ^^ Kdf

key_eq(a, b) == \A i \in Bits : (i \in a) = (i \in b)
=============================================================================
