------------------------------- MODULE Sha256 -------------------------------
(***************************************************************************)
(* Padding and absorption of demos/rust/crypto/sha256.rs, at the sizes of  *)
(* the program.  A buffer is a function from offsets; what the compression *)
(* makes of the blocks is a symbol: the blocks themselves.                 *)
(***************************************************************************)
EXTENDS Integers

HASH_CAP      == 2048
HMAC_MSG_CAP  == 1536
HKDF_INFO_CAP == 256
DigestLen     == 32
BlockLen      == 64

\* Wrong on purpose: no room for the mark.
nblocks_no_mark(len) == (len + 8 + 63) \div 64
nblocks(len) == (len + 9 + 63) \div 64
total(len)   == nblocks(len) * 64

\* Wrong on purpose: the length in bytes.
length_byte_bytes(len, k) == IF k < 6 THEN 0 ELSE (IF k = 6 THEN len \div 256 ELSE len) % 256

\* Byte k of the 64-bit big-endian bit length; the top four are 0 for every
\* length a buffer can have.
length_byte(len, k) ==
  IF k < 4 THEN 0
  ELSE ((len * 8) \div (CASE k = 4 -> 16777216 [] k = 5 -> 65536 [] k = 6 -> 256 [] OTHER -> 1))
         % 256

\* The scratch buffer: what is written later wins.
padded(data, len) == [i \in 0..(HASH_CAP - 1) |->
  IF i \in (total(len) - 8)..(total(len) - 1) THEN length_byte(len, i - (total(len) - 8))
  ELSE IF i = len THEN 128
  ELSE IF i \in 0..(len - 1) THEN data[i] ELSE 0]

extract_block(buf, off) == [j \in 0..63 |-> buf[off + j]]

absorbed(data, len) ==
  [b \in 0..(nblocks(len) - 1) |-> extract_block(padded(data, len), 64 * b)]

-----------------------------------------------------------------------------
\* The lengths sha256 is asked to hash.
Hashable(len) == len \in Nat /\ len + 9 <= HASH_CAP

\* The last 8 bytes before end, read as a big-endian number: the top four must
\* be 0, the others are bytes.
BitLength(buf, end) ==
  256 * (256 * (256 * buf[end - 4] + buf[end - 3]) + buf[end - 2]) + buf[end - 1]

LengthRight(data, len) ==
  LET buf == padded(data, len)
  IN  /\ \A i \in (total(len) - 8)..(total(len) - 5) : buf[i] = 0
      /\ \A i \in (total(len) - 4)..(total(len) - 1) : buf[i] \in 0..255
      /\ BitLength(buf, total(len)) = 8 * len

\* FIPS 180-4, section 5.1.1: the message, the mark, as few zeros as there can
\* be, and the length in bits in the last 8 bytes of the last block, each intact.
PaddingRight(data, len) ==
  /\ total(len) % 64 = 0 /\ len + 9 <= total(len) /\ total(len) < len + 9 + 64
  /\ total(len) <= HASH_CAP
  /\ padded(data, len)[len] = 128
  /\ \A i \in 0..(len - 1) : padded(data, len)[i] = data[i]
  /\ \A i \in (len + 1)..(total(len) - 9) : padded(data, len)[i] = 0
  /\ LengthRight(data, len)
=============================================================================
