---------------------------- MODULE Authenticator ---------------------------
(***************************************************************************)
(* demos/rust/spqr/authenticator.rs: what the MACs and the key update are  *)
(* taken over, and the comparison of MACs.  The stateful methods that call *)
(* these functions are not in the repository and are external here.        *)
(***************************************************************************)
EXTENDS Hashing

MACSIZE == 32

UPDATE_LABEL == Piece(<<"Signal_PQCKA_V1_MLKEM768:Authenticator Update">>, 45)
CT_LABEL     == Piece(<<"Signal_PQCKA_V1_MLKEM768:ciphertext">>, 35)
HDR_LABEL    == Piece(<<"Signal_PQCKA_V1_MLKEM768:ekheader">>, 33)

epoch_to_be_bytes(ep) == Piece(<<"EPOCH", ep>>, 8)

auth_update_info(ep)         == <<UPDATE_LABEL, epoch_to_be_bytes(ep)>>
auth_update_ikm(root_key, k) == root_key \o k
update_split(kdf_out)        == [root_key |-> kdf_out[1], mac_key |-> kdf_out[2]]

mac_hdr_data(ep, hdr) == <<HDR_LABEL, epoch_to_be_bytes(ep)>> \o hdr
mac_ct_data(ep, ct)   == <<CT_LABEL, epoch_to_be_bytes(ep)>> \o ct

\* Authenticator::new, update, mac_hdr and mac_ct (external).
new == [root_key |-> Zeros(32), mac_key |-> Zeros(32)]

update(auth, ep, k) ==
  update_split(hkdf_expand_64(
    hkdf_extract(Zeros(32), auth_update_ikm(auth.root_key, k), 64), auth_update_info(ep), 53))

mac_hdr(auth, ep, hdr) == hmac_sha256_var(auth.mac_key, mac_hdr_data(ep, hdr), 105)
mac_ct(auth, ep, ct)   == hmac_sha256_var(auth.mac_key, mac_ct_data(ep, ct), 1131)

-----------------------------------------------------------------------------
(* The comparison.  A byte is the set of the bits that are set in it.      *)

Byte8     == SUBSET (0..7)
ByteXor(a, b) == (a \ b) \cup (b \ a)

Bit(s, b) == IF b \in s THEN 1 ELSE 0
Value(s)  == Bit(s, 0) + 2 * Bit(s, 1) + 4 * Bit(s, 2) + 8 * Bit(s, 3)
               + 16 * Bit(s, 4) + 32 * Bit(s, 5) + 64 * Bit(s, 6) + 128 * Bit(s, 7)

\* Wrong on purpose: the negation is not widened to 16 bits.
inz_narrow(value) ==
  LET negated == (256 - value) % 256
  IN  IF (value \div 256) % 2 = 1 \/ (negated \div 256) % 2 = 1 THEN 1 ELSE 0

\* Bit 8 of value | (!value + 1), in 16 bits.
inz(value) ==
  LET negated == ((65535 - value) + 1) % 65536
  IN  IF (value \div 256) % 2 = 1 \/ (negated \div 256) % 2 = 1 THEN 1 ELSE 0

compare(lhs, rhs) ==
  inz(Value(UNION {ByteXor(lhs[i], rhs[i]) : i \in 0..(MACSIZE - 1)}))
=============================================================================
