------------------------------ MODULE Hashing -------------------------------
(***************************************************************************)
(* HMAC, HKDF, the chain step and encrypt-then-MAC of                      *)
(* demos/rust/crypto/sha256.rs.  A buffer is a sequence of pieces, each a  *)
(* symbol of so many bytes; a digest is the symbol of the bytes hashed, so *)
(* two digests are equal exactly when the inputs are.                      *)
(***************************************************************************)
EXTENDS Sha256, SequencesExt, FiniteSets

CONSTANT U32    \* values of a u32: 2^32 in the program

ASSUME U32Assumption == U32 \in Nat \ {0}

Piece(v, n) == [v |-> v, n |-> n]
Zero        == <<"ZERO">>
Byte(b)     == <<Piece(<<"BYTE", b>>, 1)>>
Zeros(n)    == IF n = 0 THEN <<>> ELSE <<Piece(Zero, n)>>
Bytes(s)    == FoldLeft(LAMBDA n, p : n + p.n, 0, s)

\* The first len bytes of a buffer; beyond its pieces it is zero.
Take(s, len) ==
  LET from(i) == Bytes(SubSeq(s, 1, i - 1))
  IN IF Bytes(s) < len THEN s \o Zeros(len - Bytes(s))
     ELSE [i \in {j \in DOMAIN s : from(j) < len} |->
            Piece(s[i].v, IF from(i) + s[i].n <= len THEN s[i].n ELSE len - from(i))]

sha256(data, len) == <<Piece(<<"SHA", Take(data, len)>>, DigestLen)>>

-----------------------------------------------------------------------------
(* HMAC and HKDF.  A key is a buffer of 32 bytes.                          *)

key_pad_block(key, pad) ==
  <<Piece(<<"KEYPAD", key, pad>>, 32), Piece(<<"PAD", pad>>, 32)>>

hmac_sha256_var(key, msg, msglen) ==
  LET id == sha256(key_pad_block(key, 54) \o Take(msg, msglen), BlockLen + msglen)
  IN  sha256(key_pad_block(key, 92) \o id, BlockLen + DigestLen)

hkdf_extract(salt, ikm, ikmlen) == hmac_sha256_var(salt, ikm, ikmlen)

hkdf_t1_msg(info, infolen, ctr)       == Take(info, infolen) \o Byte(ctr)
hkdf_tn_msg(prev, info, infolen, ctr) == prev \o Take(info, infolen) \o Byte(ctr)

T1(prk, info, infolen) ==
  hmac_sha256_var(prk, hkdf_t1_msg(info, infolen, 1), infolen + 1)
Tn(prk, prev, info, infolen, ctr) ==
  hmac_sha256_var(prk, hkdf_tn_msg(prev, info, infolen, ctr), 32 + infolen + 1)

\* The output blocks of 32 bytes.
hkdf_expand_64(prk, info, infolen) ==
  LET t1 == T1(prk, info, infolen)
  IN  <<t1, Tn(prk, t1, info, infolen, 2)>>

hkdf_expand_96(prk, info, infolen) ==
  LET t1 == T1(prk, info, infolen)
      t2 == Tn(prk, t1, info, infolen, 2)
  IN  <<t1, t2, Tn(prk, t2, info, infolen, 3)>>

-----------------------------------------------------------------------------
(* The chain step.  The counter wraps unless overflow checks are on, when  *)
(* the step panics and returns nothing.                                    *)

CHAIN_NEXT_LABEL == <<"Signal PQ Ratchet V1 Chain Next">>

\* Wrong on purpose: what is handed out is also the next chain key.
spqr_chain_next_shared(next, ctr) ==
  LET ctr1   == (ctr + 1) % U32
      info   == <<Piece(<<"CTR", ctr1>>, 4), Piece(CHAIN_NEXT_LABEL, 31)>>
      genr8r == hkdf_expand_64(hkdf_extract(Zeros(32), next, 32), info, 35)
  IN  [ctr |-> ctr1, next |-> genr8r[2], out |-> genr8r[2]]

\* Wrong on purpose: only the counter moves on.
spqr_chain_next_stale(next, ctr) ==
  LET ctr1   == (ctr + 1) % U32
      info   == <<Piece(<<"CTR", ctr1>>, 4), Piece(CHAIN_NEXT_LABEL, 31)>>
      genr8r == hkdf_expand_64(hkdf_extract(Zeros(32), next, 32), info, 35)
  IN  [ctr |-> ctr1, next |-> next, out |-> genr8r[2]]

spqr_chain_next(next, ctr) ==
  LET ctr1   == (ctr + 1) % U32
      info   == <<Piece(<<"CTR", ctr1>>, 4), Piece(CHAIN_NEXT_LABEL, 31)>>
      genr8r == hkdf_expand_64(hkdf_extract(Zeros(32), next, 32), info, 35)
  IN  [ctr |-> ctr1, next |-> genr8r[1], out |-> genr8r[2]]

-----------------------------------------------------------------------------
(* Encrypt-then-MAC.  A tag is the first bytes of a MAC and what was       *)
(* changed in them: for each byte the set of bits flipped.                 *)

TAG_LEN == 10
Intact  == [k \in 0..(TAG_LEN - 1) |-> {}]

XorWith(s, keystream) == [i \in DOMAIN s |->
  IF s[i].v[1] = "XOR" /\ s[i].v[3] = keystream
  THEN Piece(s[i].v[2], s[i].n) ELSE Piece(<<"XOR", s[i].v, keystream>>, s[i].n)]

etm_encrypt_var(keystream, msg, len, mac_key) ==
  LET c == XorWith(Take(msg, len), keystream) \o Zeros(HMAC_MSG_CAP - len)
  IN  [c |-> c, tag |-> [of |-> hmac_sha256_var(mac_key, c, len), flips |-> Intact]]

\* The bits in which a tag differs from a MAC, byte by byte.  Different MACs
\* are taken to differ in their first byte already.
Differences(mac, tag) ==
  [k \in 0..(TAG_LEN - 1) |-> IF tag.of = mac THEN tag.flips[k] ELSE {0}]

\* Wrong on purpose: the differences are summed, and cancel out.
Accumulated_xor(diff) ==
  {b \in 0..7 : (Cardinality({k \in DOMAIN diff : b \in diff[k]}) % 2) = 1}
Accumulated(diff) == UNION {diff[k] : k \in DOMAIN diff}

NoMessage == <<>>

etm_decrypt_var(c, len, tag, keystream, mac_key) ==
  LET mac == hmac_sha256_var(mac_key, c, len)
  IN  IF Accumulated(Differences(mac, tag)) # {}
      THEN [ok |-> FALSE, m |-> NoMessage]
      ELSE [ok |-> TRUE, m |-> XorWith(Take(c, len), keystream)]
=============================================================================
