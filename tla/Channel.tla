------------------------------ MODULE Channel -------------------------------
(***************************************************************************)
(* A sender and a receiver who step one chain of                           *)
(* demos/rust/crypto/sha256.rs each and protect messages with what it      *)
(* hands out.  The callers are not in the repository (external): the seed  *)
(* is the chain key of the PQXDH derivation, an output key is used for one *)
(* message, and the cipher's keystream and MAC key are two symbols of it.  *)
(* The network loses, repeats and reorders messages and may damage one.    *)
(***************************************************************************)
EXTENDS Hashing, FiniteSets

CONSTANTS SecretLen,    \* bytes of the secret input of the handshake
          Lens,         \* message lengths
          MaxSteps,     \* bound on a party's chain steps
          MaxSealed,    \* bound on the messages sealed
          MaxDamaged    \* bound on the damaged copies in the network

\* pqxdh_secret_input, and with a one-time prekey.
ASSUME SecretAssumption == SecretLen \in {160, 192}

ASSUME BoundsAssumption == /\ Lens \subseteq 0..HMAC_MSG_CAP
                           /\ {MaxSteps, MaxSealed, MaxDamaged} \subseteq Nat

Party == {"S", "R"}

VARIABLES chain,    \* chain[p]: chain key and counter
          out,      \* out[p]: the output keys so far, in order
          sealed,   \* sealed[i]: length of message i, under the i-th output key
          net,      \* the messages in the network
          opened,   \* what R accepted: under which key, and the plaintext
          spent     \* history: the chain keys p has stepped past, in order

vars == <<chain, out, sealed, net, opened, spent>>

-----------------------------------------------------------------------------
(* Keys and texts.                                                         *)

Secret == <<Piece(<<"SECRET">>, SecretLen)>>
Label  == <<Piece(<<"WhisperText_X25519_SHA-256_CRYSTALS-KYBER-1024">>, 46)>>

\* pqxdh.rs hkdf_sha256_derive: root key, chain key, SPQR key.
Derived == hkdf_expand_96(hkdf_extract(Zeros(32), Secret, SecretLen), Label, 46)

keystream(k) == <<"KEYSTREAM", k>>
mac_key(k)   == <<Piece(<<"MACKEY", k>>, 32)>>

Text(i) == <<Piece(<<"TEXT", i>>, HMAC_MSG_CAP)>>

\* Message i of len bytes, sealed under an output key.
Message(i, len, k) ==
  LET e == etm_encrypt_var(keystream(k), Text(i), len, mac_key(k))
  IN  [c |-> e.c, len |-> len, tag |-> e.tag]

-----------------------------------------------------------------------------
(* What a key or a tag is made of, taken apart digest by digest.           *)

\* Bound on the terms inside each other: four for a step of the chain, and those
\* of the derivation from the secret.
MaxDepth == 4 * (MaxSteps + 1)

\* The terms one digest or padded key down in t.
Inside(t) == {t[i].v[2] : i \in {j \in DOMAIN t : t[j].v[1] \in {"SHA", "KEYPAD"}}}

Deeper(terms) == terms \cup UNION {Inside(t) : t \in terms}

Within(terms) ==
  LET down[n \in 0..MaxDepth] == IF n = 0 THEN terms ELSE Deeper(down[n - 1])
  IN  down[MaxDepth]

\* The lengths hashed to get the terms.
Hashed(terms) ==
  UNION {{Bytes(t[i].v[2]) : i \in {j \in DOMAIN t : t[j].v[1] = "SHA"}} : t \in Within(terms)}

\* Those of the terms whose pieces are known, or digests or paddings of what is
\* known; labels, counters and padding are public.
Learnt(known, terms) ==
  known \cup {t \in terms : \A i \in DOMAIN t :
                 \/ <<t[i]>> \in known
                 \/ t[i].v[1] \in {"SHA", "KEYPAD"} /\ t[i].v[2] \in known
                 \/ t[i].v[1] \notin {"SHA", "KEYPAD", "SECRET"}}

\* t can be worked out from the terms known.
Known(from, t) ==
  LET terms == Within({t})
      known[n \in 0..MaxDepth] == IF n = 0 THEN from ELSE Learnt(known[n - 1], terms)
  IN  t \in known[MaxDepth]

-----------------------------------------------------------------------------
Init == /\ chain = [p \in Party |-> [next |-> Derived[2], ctr |-> 0]]
        /\ out = [p \in Party |-> <<>>]
        /\ sealed = <<>>
        /\ net = {}
        /\ opened = {}
        /\ spent = [p \in Party |-> <<>>]

Step(p) ==
  LET r == spqr_chain_next(chain[p].next, chain[p].ctr)
  IN /\ Len(out[p]) < MaxSteps
     /\ chain' = [chain EXCEPT ![p] = [next |-> r.next, ctr |-> r.ctr]]
     /\ out' = [out EXCEPT ![p] = Append(@, r.out)]
     /\ spent' = [spent EXCEPT ![p] = Append(@, chain[p].next)]
     /\ UNCHANGED <<sealed, net, opened>>

Seal(len) ==
  /\ Len(sealed) < Len(out["S"]) /\ Len(sealed) < MaxSealed
  /\ sealed' = Append(sealed, len)
  /\ LET i == Len(sealed) + 1 IN net' = net \cup {Message(i, len, out["S"][i])}
  /\ UNCHANGED <<chain, out, opened, spent>>

\* Shorter or longer, other ciphertext bytes, another tag, or some bits of the
\* tag flipped.
Damages(m) ==
  {[m EXCEPT !.len = n] : n \in Lens}
    \cup {[m EXCEPT !.c[1].v = <<"FLIPPED", m.c[1].v>>]}
    \cup {[m EXCEPT !.tag.of = n.tag.of] : n \in net}
    \cup {[m EXCEPT !.tag.flips = [Intact EXCEPT ![0] = a, ![TAG_LEN - 1] = b]] :
            a, b \in {{}, {7}}}

Damage(m) ==
  /\ Cardinality(net) < Len(sealed) + MaxDamaged
  /\ \E d \in Damages(m) : d \notin net /\ net' = net \cup {d}
  /\ UNCHANGED <<chain, out, sealed, opened, spent>>

\* R tries an output key it holds; a message that is refused changes nothing.
Open(m, i) ==
  LET k == out["R"][i]
      r == etm_decrypt_var(m.c, m.len, m.tag, keystream(k), mac_key(k))
  IN /\ r.ok
     /\ opened' = opened \cup {[key |-> i, text |-> r.m]}
     /\ UNCHANGED <<chain, out, sealed, net, spent>>

Next == \/ \E p \in Party : Step(p)
        \/ \E len \in Lens : Seal(len)
        \/ \E m \in net : Damage(m) \/ \E i \in DOMAIN out["R"] : Open(m, i)

Spec == Init /\ [][Next]_vars

-----------------------------------------------------------------------------
(* Correctness.                                                            *)

\* Whatever the network does, what R accepted under a key is the text that was
\* sealed under it, at its full length; no damaged copy would be accepted and
\* no intact one refused: a message opens exactly when length, the bytes up to
\* it and tag are those that were sealed (the bytes beyond are not covered).
OpensExactlyWhatWasSealed ==
  /\ \A o \in opened : /\ o.key \in DOMAIN sealed
                       /\ o.text = Take(Text(o.key), sealed[o.key])
  /\ \A m \in net, i \in DOMAIN sealed :
       LET k == out["S"][i]
           s == Message(i, sealed[i], k)
       IN etm_decrypt_var(m.c, m.len, m.tag, keystream(k), mac_key(k)).ok
            <=> m.len = s.len /\ m.tag = s.tag /\ Take(m.c, m.len) = Take(s.c, s.len)

\* All chain keys a party has held and all output keys of its chain are
\* different, and different from the keys it was derived with, also after the
\* counter has wrapped (the code's only bound on it is that ctr + 1 must not
\* overflow).
KeysNeverRepeat ==
  LET Used(p) == Append(spent[p], chain[p].next) \o out[p] \o <<Derived[1], Derived[3]>>
  IN  \A p \in Party : Cardinality(ToSet(Used(p))) = Len(Used(p))

\* An output key both parties have moved past cannot be worked out from the
\* chain keys they hold now, the other output keys and the other keys of the
\* derivation: the chain only runs forwards.
ForwardSecret == \A j \in 1..MaxSteps :
  (\A p \in Party : j <= Len(out[p])) =>
    LET others(p) == {chain[p].next} \cup {out[p][i] : i \in DOMAIN out[p] \ {j}}
    IN  ~Known((UNION {others(p) : p \in Party}) \cup {Derived[1], Derived[3]}, out["S"][j])

\* Every hash taken on the way to a key or a tag stays inside the buffer of
\* sha256, its mark spares the last byte of the data, and its last 8 bytes hold
\* the number of bits hashed.
BuffersHold ==
  LET data == [i \in 0..(HASH_CAP - 1) |-> 256 + i]
  IN \A n \in Hashed({chain[p].next : p \in Party} \cup {m.tag.of : m \in net}) :
       /\ Hashable(n) /\ n > 0 /\ total(n) <= HASH_CAP
       /\ padded(data, n)[n] = 128 /\ padded(data, n)[n - 1] = data[n - 1]
       /\ LengthRight(data, n)
=============================================================================
