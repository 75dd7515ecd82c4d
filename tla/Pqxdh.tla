------------------------------- MODULE Pqxdh --------------------------------
(***************************************************************************)
(* The key agreement of demos/rust/pqxdh/pqxdh.rs between parties that     *)
(* initiate runs and accept messages, over a network that may replay a     *)
(* message, hand it to anybody and alter one of its fields.  The byte      *)
(* buffers are sequences of 32-byte blocks; the opaque primitives are      *)
(* symbols: an agreement is the pair of private keys it was made from, a   *)
(* KEM secret the key and the coins, a KDF output its input and label.     *)
(* Key stores, prekey bundles and message parsing are not in the           *)
(* repository (external): a bundle's identity, signed prekey and Kyber     *)
(* prekey are authentic, its one-time prekey is not signed and may be      *)
(* anybody's.                                                              *)
(***************************************************************************)
EXTENDS Naturals, Sequences, FiniteSets

CONSTANTS Party,        \* each with one identity, signed and Kyber prekey
          Run,          \* initiations, each with its ephemeral key and coins
          PreKeyId,     \* ids of the one-time prekeys every party has
          None,
          MaxAccepts    \* bound on the messages accepted or refused

VARIABLES run,          \* run[n]: what initiation n used and derived, or None
          got           \* what became of the messages that arrived

vars == <<run, got>>

-----------------------------------------------------------------------------
(* Keys.  Every public key has a second, non-canonical encoding that       *)
(* agrees like the first.                                                  *)

IK(p)     == <<"IK", p>>
SPK(p)    == <<"SPK", p>>
OPK(p, i) == <<"OPK", p, i>>
EK(n)     == <<"EK", n>>

PrivateKey == {IK(p) : p \in Party} \cup {SPK(p) : p \in Party}
                \cup {OPK(p, i) : p \in Party, i \in PreKeyId} \cup {EK(n) : n \in Run}
PublicKey  == [of : PrivateKey, canonical : BOOLEAN]
Pub(k)     == [of |-> k, canonical |-> TRUE]

x25519_agree(our_private, their_public) == <<"DH", {our_private, their_public.of}>>

\* ML-KEM: the secret belongs to the key and the coins; decapsulating what
\* was made for another key gives a secret nobody else has.
mlkem_encapsulate(their_public, coins) ==
  [ss |-> <<"SS", their_public, coins>>, ct |-> <<their_public, coins>>]
mlkem_decapsulate(our_secret, ciphertext) ==
  IF ciphertext[1] = our_secret THEN <<"SS", our_secret, ciphertext[2]>>
                                ELSE <<"REJECT", our_secret, ciphertext>>

\* Three blocks of output that belong to the input and the label.
hkdf_sha256_derive(ikm, info) == [i \in 1..3 |-> [ikm |-> ikm, info |-> info, block |-> i]]
PQXDH_LABEL == "WhisperText_X25519_SHA-256_CRYSTALS-KYBER-1024"

\* Wrong on purpose: the base key is not validated.
ec_is_canonical_skipped(public_key) == TRUE
ec_is_canonical(public_key) == public_key.canonical

-----------------------------------------------------------------------------
(* The byte layouts, block by block.                                       *)

Discontinuity == <<"FF">>

\* Wrong on purpose: the discontinuity block is not written.
pqxdh_secret_input_bare(dh1, dh2, dh3, ss) == <<dh1, dh2, dh3, ss>>
\* Wrong on purpose: DH2 is written again where DH3 belongs, at 96.
pqxdh_secret_input_over(dh1, dh2, dh3, ss) == <<Discontinuity, dh1, dh2, dh2, ss>>
pqxdh_secret_input(dh1, dh2, dh3, ss) == <<Discontinuity, dh1, dh2, dh3, ss>>

\* Wrong on purpose: DH3 is written again where DH4 belongs, at 128.
pqxdh_secret_input_with_opk_over(dh1, dh2, dh3, dh4, ss) ==
  <<Discontinuity, dh1, dh2, dh3, dh3, ss>>
pqxdh_secret_input_with_opk(dh1, dh2, dh3, dh4, ss) ==
  <<Discontinuity, dh1, dh2, dh3, dh4, ss>>

\* Wrong on purpose: the chain key is cut from the root key's bytes.
derive_split_overlapping(okm) == [root_key |-> okm[1], chain_key |-> okm[1], pqr_key |-> okm[3]]
derive_split(okm) == [root_key |-> okm[1], chain_key |-> okm[2], pqr_key |-> okm[3]]

KEY_TYPE_DJB == 5
encode_ec(key)   == <<KEY_TYPE_DJB, key>>
decode_ec(bytes) == IF bytes[1] # KEY_TYPE_DJB THEN None ELSE bytes[2]

\* Wrong on purpose: only the second identity goes in.
associated_data_half(ika, ikb) ==
  LET b == encode_ec(ikb) IN <<b[1], b[2], b[1], b[2]>>
associated_data(ika, ikb) ==
  LET a == encode_ec(ika)  b == encode_ec(ikb) IN <<a[1], a[2], b[1], b[2]>>

-----------------------------------------------------------------------------
(* The two sides.                                                          *)

InitiatorLegs(params) ==
  <<x25519_agree(params.our_identity, params.their_signed_pre_key),
    x25519_agree(params.our_ephemeral, params.their_identity),
    x25519_agree(params.our_ephemeral, params.their_signed_pre_key)>>

pqxdh_initiate(params, coins) ==
  LET dh  == InitiatorLegs(params)
      kem == mlkem_encapsulate(params.their_kyber_pre_key, coins)
      opk == params.their_one_time_pre_key
      secret_input ==
        IF opk # None
          THEN pqxdh_secret_input_with_opk(dh[1], dh[2], dh[3],
                                           x25519_agree(params.our_ephemeral, opk), kem.ss)
          ELSE pqxdh_secret_input(dh[1], dh[2], dh[3], kem.ss)
  IN  [keys |-> derive_split(hkdf_sha256_derive(secret_input, PQXDH_LABEL)),
       kyber_ciphertext |-> kem.ct]

\* Wrong on purpose: the second and the third leg change places.
RecipientLegsSwapped(params) ==
  <<x25519_agree(params.our_signed_pre_key, params.their_identity),
    x25519_agree(params.our_signed_pre_key, params.their_ephemeral),
    x25519_agree(params.our_identity, params.their_ephemeral)>>

RecipientLegs(params) ==
  <<x25519_agree(params.our_signed_pre_key, params.their_identity),
    x25519_agree(params.our_identity, params.their_ephemeral),
    x25519_agree(params.our_signed_pre_key, params.their_ephemeral)>>

pqxdh_accept(params) ==
  LET dh  == RecipientLegs(params)
      ss  == mlkem_decapsulate(params.our_kyber_secret, params.their_kyber_ciphertext)
      opk == params.our_one_time_pre_key
      secret_input ==
        IF opk # None
          THEN pqxdh_secret_input_with_opk(dh[1], dh[2], dh[3],
                                           x25519_agree(opk, params.their_ephemeral), ss)
          ELSE pqxdh_secret_input(dh[1], dh[2], dh[3], ss)
  IN  IF ~ec_is_canonical(params.their_ephemeral) THEN None
      ELSE derive_split(hkdf_sha256_derive(secret_input, PQXDH_LABEL))

-----------------------------------------------------------------------------
(* What the callers hand to the two functions.                             *)

\* The owner of a one-time prekey and its id, or None.
Offer == {None} \cup (Party \X PreKeyId)

InitiatorParameters(n, p, q, offer) ==
  [our_identity |-> IK(p), our_ephemeral |-> EK(n),
   their_identity |-> Pub(IK(q)), their_signed_pre_key |-> Pub(SPK(q)),
   their_one_time_pre_key |-> IF offer = None THEN None ELSE Pub(OPK(offer[1], offer[2])),
   their_kyber_pre_key |-> q]

\* Initiation n of p with q: the first message tells the prekey by its id.
Initiation(n, p, q, offer) ==
  LET agreement == pqxdh_initiate(InitiatorParameters(n, p, q, offer), n)
  IN  [by |-> p, with |-> q, offer |-> offer, keys |-> agreement.keys,
       msg |-> [identity |-> encode_ec(Pub(IK(p))), base |-> encode_ec(Pub(EK(n))),
                opk |-> IF offer = None THEN None ELSE offer[2],
                ct |-> agreement.kyber_ciphertext]]

\* r reads the keys of message m, and accepts it if they are well formed.
Arrival(r, m) ==
  LET identity == decode_ec(m.identity)
      base     == decode_ec(m.base)
  IN  [by |-> r, msg |-> m,
       keys |-> IF None \in {identity, base} THEN None
                ELSE pqxdh_accept(
                       [our_identity |-> IK(r), our_signed_pre_key |-> SPK(r),
                        our_one_time_pre_key |-> IF m.opk = None THEN None ELSE OPK(r, m.opk),
                        our_kyber_secret |-> r, their_identity |-> identity,
                        their_ephemeral |-> base, their_kyber_ciphertext |-> m.ct])]

Wire == {encode_ec(k) : k \in [of : {IK(p) : p \in Party} \cup {EK(n) : n \in Run},
                               canonical : BOOLEAN]}
Garbled == {<<KEY_TYPE_DJB + 1, Pub(IK(p))>> : p \in Party}

\* m as it was sent, or with one field replaced.
Altered(m) ==
  {m} \cup {[m EXCEPT !.identity = w] : w \in Wire \cup Garbled}
      \cup {[m EXCEPT !.base = w] : w \in Wire \cup Garbled}
      \cup {[m EXCEPT !.opk = i] : i \in PreKeyId \cup {None}}
      \cup {[m EXCEPT !.ct = c] : c \in Party \X Run}

-----------------------------------------------------------------------------

Init == run = [n \in Run |-> None] /\ got = {}

Initiate(n) ==
  /\ run[n] = None
  /\ \E p, q \in Party, offer \in Offer : run' = [run EXCEPT ![n] = Initiation(n, p, q, offer)]
  /\ UNCHANGED got

Accept(r) ==
  /\ Cardinality(got) < MaxAccepts
  /\ \E n \in {k \in Run : run[k] # None} :
       \E m \in Altered(run[n].msg) : got' = got \cup {Arrival(r, m)}
  /\ UNCHANGED run

Next == (\E n \in Run : Initiate(n)) \/ (\E r \in Party : Accept(r))

Spec == Init /\ [][Next]_vars

-----------------------------------------------------------------------------
(* Types.                                                                  *)

Block == {Discontinuity} \cup ({"DH"} \X SUBSET PrivateKey)
           \cup ({"SS"} \X Party \X Run) \cup ({"REJECT"} \X Party \X (Party \X Run))

\* 160 or 192 bytes.
SecretInput == {s \in Seq(Block) : Len(s) \in 5..6 /\ s[1] = Discontinuity}

Okm  == [ikm : SecretInput, info : {PQXDH_LABEL}, block : 1..3]
Keys == [root_key : Okm, chain_key : Okm, pqr_key : Okm]

WireKey == {KEY_TYPE_DJB, KEY_TYPE_DJB + 1} \X PublicKey
Message == [identity : WireKey, base : WireKey, opk : PreKeyId \cup {None}, ct : Party \X Run]

Initiated == [by : Party, with : Party, offer : Offer, keys : Keys, msg : Message]
Arrived   == [by : Party, msg : Message, keys : Keys \cup {None}]

ASSUME PqxdhAssumption ==
  /\ None \notin PreKeyId \cup PublicKey \cup PrivateKey
  /\ None \notin (Party \X PreKeyId) \cup Keys \cup Initiated
  /\ MaxAccepts \in Nat

\* Every secret input is the discontinuity block and three or four
\* agreements and a KEM secret, for runs and arrivals alike.
TypeOK == run \in [Run -> Initiated \cup {None}] /\ got \subseteq Arrived

-----------------------------------------------------------------------------
(* What the agreement promises.                                            *)

Started == {n \in Run : run[n] # None}
Agree(n, a) == a.keys = run[n].keys

\* The message of an initiation that was offered a genuine one-time prekey,
\* or none, gives its recipient the initiator's keys.
HonestRunsAgree ==
  \A n \in Started, a \in got :
    (/\ a.by = run[n].with
     /\ a.msg = run[n].msg
     /\ run[n].offer # None => run[n].offer[1] = run[n].with)
      => Agree(n, a)

\* Keys agree only when both sides saw the same run: the recipient the
\* initiator meant, its base key byte for byte, its identity (in either
\* encoding), its ciphertext and its choice of one-time prekey.
ViewsMatch ==
  \A n \in Started, a \in got : Agree(n, a) =>
    /\ a.by = run[n].with
    /\ a.msg.base = run[n].msg.base
    /\ a.msg.ct = run[n].msg.ct
    /\ a.msg.opk = run[n].msg.opk
    /\ run[n].offer # None => run[n].offer[1] = a.by
    /\ decode_ec(a.msg.identity).of = IK(run[n].by)

\* Keys do not tell the two encodings of an identity apart, the associated
\* data does: with both equal, the message arrived unaltered.
TranscriptBound ==
  \A n \in Started, a \in got :
    (/\ Agree(n, a)
     /\ associated_data(Pub(IK(run[n].by)), Pub(IK(run[n].with)))
          = associated_data(decode_ec(a.msg.identity), Pub(IK(a.by))))
      => a.msg = run[n].msg

\* Nobody derives a key that is another run's key, or one that serves as a
\* root key here and as a chain key there.
KeysSeparate ==
  LET all == {run[n].keys : n \in Started} \cup {a.keys : a \in {b \in got : b.keys # None}}
  IN  /\ \A x, y \in all : \A f \in DOMAIN x, g \in DOMAIN y : x[f] = y[g] => f = g /\ x = y
      /\ \A m, n \in Started : run[m].keys = run[n].keys => m = n

\* Whether the holder of the private keys K, of the Kyber keys of M and of
\* the coins of C can compute a block of an initiator's secret input: an
\* agreement, the KEM secret or the constant discontinuity block.
Computes(K, M, C, blk) ==
  CASE blk[1] = "DH" -> blk[2] \cap K # {}
    [] blk[1] = "SS" -> blk[2] \in M \/ blk[3] \in C
    [] OTHER -> TRUE

\* An initiator's keys need one of each of these: the recipient's Kyber key
\* or the coins; the ephemeral or the recipient's identity key; the
\* initiator's identity or the recipient's signed prekey; the ephemeral or the
\* signed prekey, which alone stops the holder of both identity keys where
\* there is no one-time prekey; and with a one-time prekey, that or the ephemeral, so that both sides' long-term
\* keys stop being enough once the two are erased.
KeysProtected ==
  \A n \in Started :
    LET r == run[n]
        Safe(K, M, C) == \E i \in DOMAIN r.keys.root_key.ikm :
                           ~Computes(PrivateKey \ K, Party \ M, Run \ C, r.keys.root_key.ikm[i])
    IN  /\ Safe({}, {r.with}, {n})
        /\ Safe({EK(n), IK(r.with)}, {}, {})
        /\ Safe({IK(r.by), SPK(r.with)}, {}, {})
        /\ Safe({EK(n), SPK(r.with)}, {}, {})
        /\ r.offer # None => Safe({EK(n), OPK(r.offer[1], r.offer[2])}, {}, {})
=============================================================================
