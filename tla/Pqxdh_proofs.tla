---------------------------- MODULE Pqxdh_proofs ----------------------------
(***************************************************************************)
(* For any parties, runs and prekeys: Pqxdh is type correct, honest runs   *)
(* agree, and agreeing keys mean matching views.                           *)
(***************************************************************************)
EXTENDS Pqxdh, TLAPS

\* The secret inputs of the two sides, leg by leg.
RunSecret(n, p, q, offer) ==
  IF offer # None
    THEN <<Discontinuity, <<"DH", {IK(p), SPK(q)}>>, <<"DH", {EK(n), IK(q)}>>,
           <<"DH", {EK(n), SPK(q)}>>, <<"DH", {EK(n), OPK(offer[1], offer[2])}>>,
           <<"SS", q, n>>>>
    ELSE <<Discontinuity, <<"DH", {IK(p), SPK(q)}>>, <<"DH", {EK(n), IK(q)}>>,
           <<"DH", {EK(n), SPK(q)}>>, <<"SS", q, n>>>>

Opened(r, ct) == IF ct[1] = r THEN <<"SS", r, ct[2]>> ELSE <<"REJECT", r, ct>>

ArrivalSecret(r, m) ==
  IF m.opk # None
    THEN <<Discontinuity, <<"DH", {SPK(r), m.identity[2].of}>>, <<"DH", {IK(r), m.base[2].of}>>,
           <<"DH", {SPK(r), m.base[2].of}>>, <<"DH", {OPK(r, m.opk), m.base[2].of}>>,
           Opened(r, m.ct)>>
    ELSE <<Discontinuity, <<"DH", {SPK(r), m.identity[2].of}>>, <<"DH", {IK(r), m.base[2].of}>>,
           <<"DH", {SPK(r), m.base[2].of}>>, Opened(r, m.ct)>>

KeysFrom(secret) == derive_split(hkdf_sha256_derive(secret, PQXDH_LABEL))

\* A message whose two keys are well formed and whose base key is canonical.
Proper(m) == /\ m.identity[1] = KEY_TYPE_DJB /\ m.base[1] = KEY_TYPE_DJB
             /\ m.base[2].canonical

-----------------------------------------------------------------------------
(* What is on the wire has its type.                                       *)

\* The keys of parties and runs are private keys.
LEMMA KeysAreKeys ==
  /\ \A p \in Party : IK(p) \in PrivateKey /\ SPK(p) \in PrivateKey
  /\ \A p \in Party, i \in PreKeyId : OPK(p, i) \in PrivateKey
  /\ \A n \in Run : EK(n) \in PrivateKey
  /\ \A k \in PrivateKey : Pub(k) \in PublicKey /\ encode_ec(Pub(k)) \in WireKey
<1>1. \A p \in Party : IK(p) \in PrivateKey /\ SPK(p) \in PrivateKey
  BY DEF PrivateKey
<1>2. \A p \in Party, i \in PreKeyId : OPK(p, i) \in PrivateKey
  BY DEF PrivateKey
<1>3. \A n \in Run : EK(n) \in PrivateKey
  BY DEF PrivateKey
<1>4. \A k \in PrivateKey : Pub(k) \in PublicKey
  BY DEF Pub, PublicKey
<1>5. \A k \in PublicKey : encode_ec(k) \in WireKey
  BY DEF encode_ec, WireKey, KEY_TYPE_DJB
<1> QED BY <1>1, <1>2, <1>3, <1>4, <1>5

\* An altered message is a message.
LEMMA AlteredType ==
  ASSUME NEW m \in Message, NEW x \in Altered(m)
  PROVE  x \in Message
<1>1. Wire \cup Garbled \subseteq WireKey
  <2>1. Wire \subseteq WireKey
    BY DEF Wire, PublicKey, PrivateKey, encode_ec, WireKey, KEY_TYPE_DJB
  <2>2. Garbled \subseteq WireKey
    BY KeysAreKeys DEF Garbled, WireKey, KEY_TYPE_DJB
  <2> QED BY <2>1, <2>2
<1> QED BY <1>1 DEF Altered, Message

-----------------------------------------------------------------------------
(* What the two functions compute.                                         *)

\* An initiation's keys come from its secret input.
LEMMA InitiationKeys ==
  ASSUME NEW n \in Run, NEW p \in Party, NEW q \in Party, NEW offer \in Offer
  PROVE  /\ Initiation(n, p, q, offer).keys = KeysFrom(RunSecret(n, p, q, offer))
         /\ Initiation(n, p, q, offer).msg.ct = <<q, n>>
<1> DEFINE params == InitiatorParameters(n, p, q, offer)
<1>1. /\ params.our_identity = IK(p) /\ params.our_ephemeral = EK(n)
      /\ params.their_identity = Pub(IK(q)) /\ params.their_signed_pre_key = Pub(SPK(q))
      /\ params.their_one_time_pre_key
           = IF offer = None THEN None ELSE Pub(OPK(offer[1], offer[2]))
      /\ params.their_kyber_pre_key = q
  BY DEF InitiatorParameters
<1>2. InitiatorLegs(params) = <<<<"DH", {IK(p), SPK(q)}>>, <<"DH", {EK(n), IK(q)}>>,
                                <<"DH", {EK(n), SPK(q)}>>>>
  <2> HIDE DEF params
  <2> QED BY <1>1 DEF InitiatorLegs, x25519_agree, Pub
<1>3. offer # None => /\ params.their_one_time_pre_key # None
                      /\ params.their_one_time_pre_key.of = OPK(offer[1], offer[2])
  <2>1. offer # None => offer \in Party \X PreKeyId
    BY DEF Offer
  <2>2. offer # None => Pub(OPK(offer[1], offer[2])) \in PublicKey
    BY <2>1, KeysAreKeys
  <2>3. Pub(OPK(offer[1], offer[2])).of = OPK(offer[1], offer[2])
    BY DEF Pub
  <2>4. None \notin PublicKey
    BY PqxdhAssumption
  <2>5. ASSUME offer # None
        PROVE  params.their_one_time_pre_key = Pub(OPK(offer[1], offer[2]))
    BY <1>1, <2>5
  <2> HIDE DEF params
  <2> QED BY <2>2, <2>3, <2>4, <2>5
<1>4. mlkem_encapsulate(q, n) = [ss |-> <<"SS", q, n>>, ct |-> <<q, n>>]
  BY DEF mlkem_encapsulate
<1>5. /\ pqxdh_initiate(params, n).keys = KeysFrom(RunSecret(n, p, q, offer))
      /\ pqxdh_initiate(params, n).kyber_ciphertext = <<q, n>>
  <2> HIDE DEF params
  <2>1. CASE offer = None
    BY <1>1, <1>2, <1>4, <2>1
       DEF pqxdh_initiate, KeysFrom, RunSecret, pqxdh_secret_input
  <2>2. CASE offer # None
    <3>1. x25519_agree(params.our_ephemeral, params.their_one_time_pre_key)
            = <<"DH", {EK(n), OPK(offer[1], offer[2])}>>
      BY <1>1, <1>3, <2>2 DEF x25519_agree
    <3>2. params.their_one_time_pre_key # None
      BY <1>3, <2>2
    <3>3. mlkem_encapsulate(params.their_kyber_pre_key, n).ss = <<"SS", q, n>>
      BY <1>1 DEF mlkem_encapsulate
    <3>4. /\ InitiatorLegs(params)[1] = <<"DH", {IK(p), SPK(q)}>>
          /\ InitiatorLegs(params)[2] = <<"DH", {EK(n), IK(q)}>>
          /\ InitiatorLegs(params)[3] = <<"DH", {EK(n), SPK(q)}>>
      BY <1>2
    <3>5. RunSecret(n, p, q, offer)
            = pqxdh_secret_input_with_opk(
                InitiatorLegs(params)[1], InitiatorLegs(params)[2], InitiatorLegs(params)[3],
                x25519_agree(params.our_ephemeral, params.their_one_time_pre_key),
                mlkem_encapsulate(params.their_kyber_pre_key, n).ss)
      BY <2>2, <3>1, <3>3, <3>4, Zenon DEF RunSecret, pqxdh_secret_input_with_opk
    <3>6. pqxdh_initiate(params, n).keys = KeysFrom(RunSecret(n, p, q, offer))
      BY <3>2, <3>5, Zenon DEF pqxdh_initiate, KeysFrom
    <3>7. pqxdh_initiate(params, n).kyber_ciphertext = <<q, n>>
      BY <1>1, <1>4 DEF pqxdh_initiate
    <3> QED BY <3>6, <3>7
  <2> QED BY <2>1, <2>2
<1> QED BY <1>5 DEF Initiation, encode_ec

\* An initiation's keys and ciphertext, as a fact to instantiate.
LEMMA RunKeys ==
  \A n \in Run, p, q \in Party, offer \in Offer :
    Initiation(n, p, q, offer).keys = KeysFrom(RunSecret(n, p, q, offer))
  BY InitiationKeys

\* An initiation records its parties, and sends its public keys.
LEMMA RunFields ==
  \A n \in Run, p, q \in Party, offer \in Offer :
    /\ Initiation(n, p, q, offer).by = p
    /\ Initiation(n, p, q, offer).with = q
    /\ Initiation(n, p, q, offer).offer = offer
  BY DEF Initiation

\* The message an initiation sends.
FirstMessage(n, p, q, offer) ==
  [identity |-> <<KEY_TYPE_DJB, Pub(IK(p))>>, base |-> <<KEY_TYPE_DJB, Pub(EK(n))>>,
   opk |-> IF offer = None THEN None ELSE offer[2], ct |-> <<q, n>>]

LEMMA RunMessage ==
  \A n \in Run, p, q \in Party, offer \in Offer :
    Initiation(n, p, q, offer).msg = FirstMessage(n, p, q, offer)
<1> SUFFICES ASSUME NEW n \in Run, NEW p \in Party, NEW q \in Party, NEW offer \in Offer
             PROVE  Initiation(n, p, q, offer).msg = FirstMessage(n, p, q, offer)
  OBVIOUS
<1>1. Initiation(n, p, q, offer).msg.ct = <<q, n>>
  BY InitiationKeys
<1> QED BY <1>1 DEF Initiation, encode_ec, FirstMessage

\* An arrival's keys come from its secret input, if the message is proper.
LEMMA ArrivalKeys ==
  ASSUME NEW r \in Party, NEW m \in Message
  PROVE  /\ Arrival(r, m).by = r
         /\ Arrival(r, m).msg = m
         /\ Arrival(r, m).keys = IF Proper(m) THEN KeysFrom(ArrivalSecret(r, m)) ELSE None
<1> DEFINE identity == decode_ec(m.identity)
           base     == decode_ec(m.base)
           params   == [our_identity |-> IK(r), our_signed_pre_key |-> SPK(r),
                        our_one_time_pre_key |-> IF m.opk = None THEN None ELSE OPK(r, m.opk),
                        our_kyber_secret |-> r, their_identity |-> identity,
                        their_ephemeral |-> base, their_kyber_ciphertext |-> m.ct]
<1>1. Arrival(r, m) = [by |-> r, msg |-> m,
                       keys |-> IF None \in {identity, base} THEN None ELSE pqxdh_accept(params)]
  BY DEF Arrival
<1>2. /\ params.our_identity = IK(r) /\ params.our_signed_pre_key = SPK(r)
      /\ params.our_one_time_pre_key = IF m.opk = None THEN None ELSE OPK(r, m.opk)
      /\ params.our_kyber_secret = r /\ params.their_identity = identity
      /\ params.their_ephemeral = base /\ params.their_kyber_ciphertext = m.ct
  OBVIOUS
<1>3. /\ m.identity \in WireKey /\ m.base \in WireKey
      /\ m.identity[2] \in PublicKey /\ m.base[2] \in PublicKey
  BY DEF Message, WireKey
<1>4. None \notin PublicKey /\ None \notin PrivateKey
  BY PqxdhAssumption
<1>5. None \in {identity, base}
        <=> ~(m.identity[1] = KEY_TYPE_DJB /\ m.base[1] = KEY_TYPE_DJB)
  BY <1>3, <1>4 DEF decode_ec
<1>6. ASSUME m.identity[1] = KEY_TYPE_DJB, m.base[1] = KEY_TYPE_DJB
      PROVE  identity = m.identity[2] /\ base = m.base[2]
  BY <1>6 DEF decode_ec
<1>7. ASSUME m.identity[1] = KEY_TYPE_DJB, m.base[1] = KEY_TYPE_DJB, base.canonical
      PROVE  pqxdh_accept(params) = KeysFrom(ArrivalSecret(r, m))
  <2>1. identity = m.identity[2] /\ base = m.base[2]
    BY <1>6, <1>7
  <2> HIDE DEF params, identity, base
  <2>2. ec_is_canonical(params.their_ephemeral)
    BY <1>2, <1>7 DEF ec_is_canonical
  <2>3. mlkem_decapsulate(params.our_kyber_secret, params.their_kyber_ciphertext)
          = Opened(r, m.ct)
    BY <1>2 DEF mlkem_decapsulate, Opened
  <2>4. /\ RecipientLegs(params)[1] = <<"DH", {SPK(r), m.identity[2].of}>>
        /\ RecipientLegs(params)[2] = <<"DH", {IK(r), m.base[2].of}>>
        /\ RecipientLegs(params)[3] = <<"DH", {SPK(r), m.base[2].of}>>
    BY <1>2, <2>1 DEF RecipientLegs, x25519_agree
  <2>5. CASE m.opk = None
    <3>1. ~(params.our_one_time_pre_key # None)
      BY <1>2, <2>5
    <3>2. ArrivalSecret(r, m)
            = pqxdh_secret_input(
                RecipientLegs(params)[1], RecipientLegs(params)[2], RecipientLegs(params)[3],
                mlkem_decapsulate(params.our_kyber_secret, params.their_kyber_ciphertext))
      BY <2>3, <2>4, <2>5, Zenon DEF ArrivalSecret, pqxdh_secret_input
    <3> QED BY <2>2, <3>1, <3>2, Zenon DEF pqxdh_accept, KeysFrom
  <2>6. CASE m.opk # None
    <3>1. m.opk \in PreKeyId
      BY <2>6 DEF Message
    <3>2. OPK(r, m.opk) # None
      BY <1>4, <3>1, KeysAreKeys
    <3>3. params.our_one_time_pre_key # None /\ params.our_one_time_pre_key = OPK(r, m.opk)
      BY <1>2, <2>6, <3>2
    <3>4. x25519_agree(params.our_one_time_pre_key, params.their_ephemeral)
            = <<"DH", {OPK(r, m.opk), m.base[2].of}>>
      BY <1>2, <2>1, <3>3 DEF x25519_agree
    <3>5. ArrivalSecret(r, m)
            = pqxdh_secret_input_with_opk(
                RecipientLegs(params)[1], RecipientLegs(params)[2], RecipientLegs(params)[3],
                x25519_agree(params.our_one_time_pre_key, params.their_ephemeral),
                mlkem_decapsulate(params.our_kyber_secret, params.their_kyber_ciphertext))
      BY <2>3, <2>4, <2>6, <3>4, Zenon DEF ArrivalSecret, pqxdh_secret_input_with_opk
    <3> QED BY <2>2, <3>3, <3>5, Zenon DEF pqxdh_accept, KeysFrom
  <2> QED BY <2>5, <2>6
<1>8. ASSUME ~base.canonical PROVE pqxdh_accept(params) = None
  <2> HIDE DEF params, base
  <2>1. ~ec_is_canonical(params.their_ephemeral)
    BY <1>2, <1>8 DEF ec_is_canonical
  <2> QED BY <2>1, Zenon DEF pqxdh_accept
<1>9. Arrival(r, m).keys = IF Proper(m) THEN KeysFrom(ArrivalSecret(r, m)) ELSE None
  <2> HIDE DEF params, identity, base
  <2>1. CASE ~(m.identity[1] = KEY_TYPE_DJB /\ m.base[1] = KEY_TYPE_DJB)
    BY <1>1, <1>5, <2>1 DEF Proper
  <2>2. CASE m.identity[1] = KEY_TYPE_DJB /\ m.base[1] = KEY_TYPE_DJB
    BY <1>1, <1>5, <1>6, <1>7, <1>8, <2>2 DEF Proper
  <2> QED BY <2>1, <2>2
<1> QED BY <1>1, <1>9

-----------------------------------------------------------------------------
(* Secret inputs and the keys made of them.                                *)

\* A well formed secret input gives well formed keys.
LEMMA SecretGivesKeys ==
  ASSUME NEW s \in SecretInput PROVE KeysFrom(s) \in Keys
  BY DEF KeysFrom, derive_split, hkdf_sha256_derive, Keys, Okm

\* Different secret inputs give different keys.
LEMMA KeysTellSecrets ==
  ASSUME NEW s, NEW t, KeysFrom(s) = KeysFrom(t) PROVE s = t
<1>1. KeysFrom(s).root_key.ikm = s /\ KeysFrom(t).root_key.ikm = t
  BY DEF KeysFrom, derive_split, hkdf_sha256_derive
<1> QED BY <1>1

\* Five blocks, or six, in the code's order make a secret input.
LEMMA SecretShapes ==
  ASSUME NEW a \in Block, NEW b \in Block, NEW c \in Block, NEW d \in Block, NEW e \in Block
  PROVE  /\ <<Discontinuity, a, b, c, d>> \in SecretInput
         /\ <<Discontinuity, a, b, c, d, e>> \in SecretInput
<1>1. Discontinuity \in Block
  BY DEF Block
<1>2. <<Discontinuity, a, b, c, d>> \in Seq(Block) /\ Len(<<Discontinuity, a, b, c, d>>) = 5
  BY <1>1
<1>3. /\ <<Discontinuity, a, b, c, d, e>> \in Seq(Block)
      /\ Len(<<Discontinuity, a, b, c, d, e>>) = 6
  BY <1>1
<1> QED BY <1>2, <1>3 DEF SecretInput

\* Both sides' secret inputs are well formed.
LEMMA RunSecretType ==
  ASSUME NEW n \in Run, NEW p \in Party, NEW q \in Party, NEW offer \in Offer
  PROVE  RunSecret(n, p, q, offer) \in SecretInput
<1>1. \A k, l \in PrivateKey : <<"DH", {k, l}>> \in Block
  BY DEF Block
<1>2. <<"SS", q, n>> \in Block
  BY DEF Block
<1>3. <<"DH", {IK(p), SPK(q)}>> \in Block /\ <<"DH", {EK(n), IK(q)}>> \in Block
        /\ <<"DH", {EK(n), SPK(q)}>> \in Block
  BY <1>1, KeysAreKeys
<1>4. CASE offer = None
  BY <1>2, <1>3, <1>4, SecretShapes DEF RunSecret
<1>5. CASE offer # None
  <2>1. offer[1] \in Party /\ offer[2] \in PreKeyId
    BY <1>5 DEF Offer
  <2>2. <<"DH", {EK(n), OPK(offer[1], offer[2])}>> \in Block
    BY <1>1, <2>1, KeysAreKeys
  <2> QED BY <1>2, <1>3, <1>5, <2>2, SecretShapes DEF RunSecret
<1> QED BY <1>4, <1>5

LEMMA ArrivalSecretType ==
  ASSUME NEW r \in Party, NEW m \in Message
  PROVE  ArrivalSecret(r, m) \in SecretInput
<1>1. \A k, l \in PrivateKey : <<"DH", {k, l}>> \in Block
  BY DEF Block
<1>2. m.identity[2].of \in PrivateKey /\ m.base[2].of \in PrivateKey /\ m.ct \in Party \X Run
  BY DEF Message, WireKey, PublicKey
<1>3. Opened(r, m.ct) \in Block
  BY <1>2 DEF Opened, Block
<1>4. /\ <<"DH", {SPK(r), m.identity[2].of}>> \in Block
      /\ <<"DH", {IK(r), m.base[2].of}>> \in Block
      /\ <<"DH", {SPK(r), m.base[2].of}>> \in Block
  BY <1>1, <1>2, KeysAreKeys
<1>5. CASE m.opk = None
  BY <1>3, <1>4, <1>5, SecretShapes DEF ArrivalSecret
<1>6. CASE m.opk # None
  <2>1. m.opk \in PreKeyId
    BY <1>6 DEF Message
  <2>2. <<"DH", {OPK(r, m.opk), m.base[2].of}>> \in Block
    BY <1>1, <1>2, <2>1, KeysAreKeys
  <2> QED BY <1>3, <1>4, <1>6, <2>2, SecretShapes DEF ArrivalSecret
<1> QED BY <1>5, <1>6

-----------------------------------------------------------------------------
(* When the two secret inputs are the same.                                *)

\* Keys of different kinds are different.
LEMMA KindsDiffer ==
  \A x, y, i, z : /\ IK(x) # SPK(y) /\ IK(x) # EK(y) /\ SPK(x) # EK(y)
                  /\ OPK(x, i) # EK(y)
                  /\ (IK(x) = IK(y) => x = y) /\ (SPK(x) = SPK(y) => x = y)
                  /\ (EK(x) = EK(y) => x = y)
                  /\ (OPK(x, i) = OPK(y, z) => x = y /\ i = z)
  BY DEF IK, SPK, EK, OPK

\* An honest message is opened to the secret input of the run.
LEMMA HonestSecrets ==
  ASSUME NEW n \in Run, NEW p \in Party, NEW q \in Party, NEW offer \in Offer,
         offer # None => offer[1] = q
  PROVE  LET m == Initiation(n, p, q, offer).msg
         IN  Proper(m) /\ ArrivalSecret(q, m) = RunSecret(n, p, q, offer)
<1> DEFINE m == Initiation(n, p, q, offer).msg
<1>1. m = FirstMessage(n, p, q, offer)
  BY RunMessage
<1> HIDE DEF m
<1>2. /\ m.identity[2].of = IK(p) /\ m.base[2].of = EK(n) /\ m.base[2].canonical
      /\ m.identity[1] = KEY_TYPE_DJB /\ m.base[1] = KEY_TYPE_DJB /\ m.ct = <<q, n>>
      /\ m.opk = IF offer = None THEN None ELSE offer[2]
  BY <1>1 DEF Pub, FirstMessage
<1>3. Opened(q, m.ct) = <<"SS", q, n>>
  BY <1>2 DEF Opened
<1>4. /\ <<"DH", {SPK(q), m.identity[2].of}>> = <<"DH", {IK(p), SPK(q)}>>
      /\ <<"DH", {IK(q), m.base[2].of}>> = <<"DH", {EK(n), IK(q)}>>
      /\ <<"DH", {SPK(q), m.base[2].of}>> = <<"DH", {EK(n), SPK(q)}>>
  BY <1>2
<1>5. ArrivalSecret(q, m) = RunSecret(n, p, q, offer)
  <2>1. CASE offer = None
    <3>1. ~(m.opk # None) /\ ~(offer # None)
      BY <1>2, <2>1
    <3> QED BY <1>3, <1>4, <3>1, Zenon DEF ArrivalSecret, RunSecret
  <2>2. CASE offer # None
    <3>1. offer[1] = q /\ offer[2] \in PreKeyId
      BY <2>2 DEF Offer
    <3>2. m.opk = offer[2] /\ m.opk # None
      BY <1>2, <2>2, <3>1, PqxdhAssumption
    <3>3. <<"DH", {OPK(q, m.opk), m.base[2].of}>> = <<"DH", {EK(n), OPK(offer[1], offer[2])}>>
      BY <1>2, <3>1, <3>2
    <3> QED BY <1>3, <1>4, <2>2, <3>2, <3>3, Zenon DEF ArrivalSecret, RunSecret
  <2> QED BY <2>1, <2>2
<1> QED BY <1>2, <1>5 DEF Proper, m

\* Equal secret inputs mean the same parties, keys and ciphertext.
LEMMA SameSecretSameView ==
  ASSUME NEW n \in Run, NEW p \in Party, NEW q \in Party, NEW offer \in Offer,
         NEW r \in Party, NEW m \in Message, Proper(m),
         ArrivalSecret(r, m) = RunSecret(n, p, q, offer)
  PROVE  /\ r = q
         /\ m.identity[2].of = IK(p)
         /\ m.base[2] = Pub(EK(n))
         /\ m.ct = <<q, n>>
         /\ m.opk = IF offer = None THEN None ELSE offer[2]
         /\ offer # None => offer[1] = r
<1> DEFINE S == ArrivalSecret(r, m)
           T == RunSecret(n, p, q, offer)
           id == m.identity[2].of
           base == m.base[2].of
<1>1. /\ S[2] = <<"DH", {SPK(r), id}>> /\ S[3] = <<"DH", {IK(r), base}>>
      /\ S[4] = <<"DH", {SPK(r), base}>>
  BY DEF ArrivalSecret
<1>2. /\ T[2] = <<"DH", {IK(p), SPK(q)}>> /\ T[3] = <<"DH", {EK(n), IK(q)}>>
      /\ T[4] = <<"DH", {EK(n), SPK(q)}>>
  BY DEF RunSecret
<1>3. Len(S) = IF m.opk = None THEN 5 ELSE 6
  BY DEF ArrivalSecret
<1>4. Len(T) = IF offer = None THEN 5 ELSE 6
  BY DEF RunSecret
<1>5. S = T
  OBVIOUS
<1> HIDE DEF S, T, id, base
<1>6. m.opk = None <=> offer = None
  BY <1>3, <1>4, <1>5
<1>7. /\ {SPK(r), id} = {IK(p), SPK(q)} /\ {IK(r), base} = {EK(n), IK(q)}
      /\ {SPK(r), base} = {EK(n), SPK(q)}
  BY <1>1, <1>2, <1>5
<1>8. r = q /\ base = EK(n)
  BY <1>7, KindsDiffer
<1>9. id = IK(p)
  BY <1>7, <1>8, KindsDiffer
<1>10. m.base[2] = Pub(EK(n))
  <2>1. m.base[2] \in PublicKey /\ m.base[2].canonical
    BY DEF Message, WireKey, Proper
  <2> QED BY <1>8, <2>1 DEF PublicKey, Pub, base
<1>11. Opened(r, m.ct) = <<"SS", q, n>>
  <2>1. CASE offer = None
    BY <1>5, <1>6, <2>1 DEF S, T, ArrivalSecret, RunSecret
  <2>2. CASE offer # None
    BY <1>5, <1>6, <2>2 DEF S, T, ArrivalSecret, RunSecret
  <2> QED BY <2>1, <2>2
<1>12. m.ct = <<q, n>>
  BY <1>11 DEF Opened, Message
<1>13. ASSUME offer # None PROVE m.opk = offer[2] /\ offer[1] = r
  <2>1. S[5] = <<"DH", {OPK(r, m.opk), base}>>
    BY <1>6, <1>13 DEF S, ArrivalSecret, base
  <2>2. T[5] = <<"DH", {EK(n), OPK(offer[1], offer[2])}>>
    BY <1>13 DEF T, RunSecret
  <2>3. {OPK(r, m.opk), base} = {EK(n), OPK(offer[1], offer[2])}
    BY <1>5, <2>1, <2>2
  <2>4. OPK(r, m.opk) = OPK(offer[1], offer[2])
    BY <1>8, <2>3, KindsDiffer
  <2> QED BY <2>4, KindsDiffer
<1> QED BY <1>6, <1>8, <1>9, <1>10, <1>12, <1>13 DEF id

-----------------------------------------------------------------------------
(* The invariant: every record is one the two sides produced.              *)

Recorded ==
  /\ \A n \in Started : \E p, q \in Party, offer \in Offer : run[n] = Initiation(n, p, q, offer)
  /\ \A a \in got : \E r \in Party, m \in Message : a = Arrival(r, m)

IInv == TypeOK /\ Recorded

LEMMA InitiationType ==
  ASSUME NEW n \in Run, NEW p \in Party, NEW q \in Party, NEW offer \in Offer
  PROVE  Initiation(n, p, q, offer) \in Initiated
<1> DEFINE i == Initiation(n, p, q, offer)
<1>1. i.keys \in Keys
  BY RunKeys, RunSecretType, SecretGivesKeys
<1>2. <<KEY_TYPE_DJB, Pub(IK(p))>> \in WireKey /\ <<KEY_TYPE_DJB, Pub(EK(n))>> \in WireKey
  BY KeysAreKeys DEF encode_ec
<1>3. (IF offer = None THEN None ELSE offer[2]) \in PreKeyId \cup {None}
  BY DEF Offer
<1>4. i.msg \in Message
  <2>1. i.msg = FirstMessage(n, p, q, offer)
    BY RunMessage
  <2> HIDE DEF i
  <2> QED BY <1>2, <1>3, <2>1 DEF Message, FirstMessage
<1>5. i = [by |-> i.by, with |-> i.with, offer |-> i.offer, keys |-> i.keys, msg |-> i.msg]
  BY DEF Initiation
<1>6. i.by \in Party /\ i.with \in Party /\ i.offer \in Offer
  BY RunFields
<1> HIDE DEF i
<1>7. i \in Initiated
  BY <1>1, <1>4, <1>5, <1>6 DEF Initiated
<1> QED BY <1>7 DEF i

LEMMA ArrivalType ==
  ASSUME NEW r \in Party, NEW m \in Message
  PROVE  Arrival(r, m) \in Arrived
<1> DEFINE a == Arrival(r, m)
<1>1. a.keys \in Keys \cup {None}
  BY ArrivalKeys, ArrivalSecretType, SecretGivesKeys
<1>2. a = [by |-> a.by, msg |-> a.msg, keys |-> a.keys]
  BY DEF Arrival
<1>3. a.by \in Party /\ a.msg \in Message
  BY ArrivalKeys
<1> HIDE DEF a
<1>4. a \in Arrived
  BY <1>1, <1>2, <1>3 DEF Arrived
<1> QED BY <1>4 DEF a

\* The invariant is inductive.
LEMMA Inductive == Spec => []IInv
<1>1. Init => IInv
  BY DEF Init, IInv, TypeOK, Recorded, Started
<1>2. IInv /\ [Next]_vars => IInv'
  <2> SUFFICES ASSUME IInv, [Next]_vars PROVE IInv'
    OBVIOUS
  <2>1. CASE UNCHANGED vars
    BY <2>1 DEF vars, IInv, TypeOK, Recorded, Started
  <2>2. ASSUME NEW n \in Run, Initiate(n) PROVE IInv'
    <3>1. PICK p \in Party, q \in Party, offer \in Offer :
            run' = [run EXCEPT ![n] = Initiation(n, p, q, offer)] /\ got' = got
      BY <2>2 DEF Initiate
    <3>2. TypeOK'
      BY <3>1, InitiationType DEF IInv, TypeOK
    <3>3. ASSUME NEW k \in Started'
          PROVE  \E x, y \in Party, o \in Offer : run'[k] = Initiation(k, x, y, o)
      <4>1. CASE k = n
        BY <3>1, <4>1 DEF IInv, TypeOK
      <4>2. CASE k # n
        <5>1. k \in Started /\ run'[k] = run[k]
          BY <3>1, <3>3, <4>2 DEF IInv, TypeOK, Started
        <5> QED BY <5>1 DEF IInv, Recorded
      <4> QED BY <4>1, <4>2
    <3>4. \A a \in got' : \E r \in Party, m \in Message : a = Arrival(r, m)
      BY <3>1 DEF IInv, Recorded
    <3> QED BY <3>2, <3>3, <3>4 DEF IInv, Recorded
  <2>3. ASSUME NEW r \in Party, Accept(r) PROVE IInv'
    <3>1. PICK n \in Started : \E m \in Altered(run[n].msg) : got' = got \cup {Arrival(r, m)}
      BY <2>3 DEF Accept, Started
    <3>2. PICK m \in Altered(run[n].msg) : got' = got \cup {Arrival(r, m)}
      BY <3>1
    <3>3. run[n] \in Initiated
      BY <3>1 DEF IInv, TypeOK, Started
    <3>4. m \in Message
      BY <3>2, <3>3, AlteredType DEF Initiated
    <3>5. run' = run
      BY <2>3 DEF Accept
    <3>6. TypeOK'
      BY <3>2, <3>4, <3>5, ArrivalType DEF IInv, TypeOK
    <3>7. Recorded'
      BY <3>2, <3>4, <3>5 DEF IInv, Recorded, Started
    <3> QED BY <3>6, <3>7 DEF IInv
  <2> QED BY <2>1, <2>2, <2>3 DEF Next
<1> QED BY <1>1, <1>2, PTL DEF Spec

-----------------------------------------------------------------------------
(* The theorems.                                                           *)

\* Every run and every arrival is of its type: secret inputs have the five
\* or six blocks of pqxdh_secret_input and pqxdh_secret_input_with_opk.
THEOREM TypeCorrect == Spec => []TypeOK
<1>1. IInv => TypeOK
  BY DEF IInv
<1> QED BY <1>1, Inductive, PTL

\* What an initiation and an arrival whose keys agree have in common.
LEMMA AgreeingPair ==
  ASSUME IInv, NEW n \in Started, NEW a \in got
  PROVE  \E p, q \in Party, offer \in Offer, r \in Party, m \in Message :
           /\ n \in Run
           /\ run[n] = Initiation(n, p, q, offer)
           /\ a = Arrival(r, m)
           /\ a.keys = run[n].keys =>
                Proper(m) /\ ArrivalSecret(r, m) = RunSecret(n, p, q, offer)
<1>1. n \in Run
  BY DEF Started
<1>2. PICK p \in Party, q \in Party, offer \in Offer : run[n] = Initiation(n, p, q, offer)
  BY DEF IInv, Recorded
<1>3. PICK r \in Party, m \in Message : a = Arrival(r, m)
  BY DEF IInv, Recorded
<1>4. ASSUME a.keys = run[n].keys
      PROVE  Proper(m) /\ ArrivalSecret(r, m) = RunSecret(n, p, q, offer)
  <2>1. run[n].keys = KeysFrom(RunSecret(n, p, q, offer))
    BY <1>1, <1>2, RunKeys
  <2>2. KeysFrom(RunSecret(n, p, q, offer)) # None
    BY <1>1, RunSecretType, SecretGivesKeys, PqxdhAssumption
  <2>3. a.keys = IF Proper(m) THEN KeysFrom(ArrivalSecret(r, m)) ELSE None
    BY <1>3, ArrivalKeys
  <2>4. Proper(m)
    BY <1>4, <2>1, <2>2, <2>3
  <2>5. KeysFrom(ArrivalSecret(r, m)) = KeysFrom(RunSecret(n, p, q, offer))
    BY <1>4, <2>1, <2>3, <2>4
  <2> QED BY <2>4, <2>5, KeysTellSecrets
<1> QED BY <1>1, <1>2, <1>3, <1>4

\* Whatever is altered, replayed or sent to somebody else: keys of
\* pqxdh_accept that equal those of pqxdh_initiate come from its message.
THEOREM AgreementMeansMatchingViews == Spec => []ViewsMatch
<1>1. IInv => ViewsMatch
  <2> SUFFICES ASSUME IInv, NEW n \in Started, NEW a \in got, a.keys = run[n].keys
               PROVE  /\ a.by = run[n].with
                      /\ a.msg.base = run[n].msg.base
                      /\ a.msg.ct = run[n].msg.ct
                      /\ a.msg.opk = run[n].msg.opk
                      /\ run[n].offer # None => run[n].offer[1] = a.by
                      /\ decode_ec(a.msg.identity).of = IK(run[n].by)
    BY DEF ViewsMatch, Agree
  <2>1. PICK p \in Party, q \in Party, offer \in Offer, r \in Party, m \in Message :
           /\ n \in Run
           /\ run[n] = Initiation(n, p, q, offer)
           /\ a = Arrival(r, m)
           /\ Proper(m)
           /\ ArrivalSecret(r, m) = RunSecret(n, p, q, offer)
    BY AgreeingPair
  <2>2. /\ run[n].by = p /\ run[n].with = q /\ run[n].offer = offer
        /\ run[n].msg = FirstMessage(n, p, q, offer)
    BY <2>1, RunFields, RunMessage
  <2>3. a.by = r /\ a.msg = m
    BY <2>1, ArrivalKeys
  <2>4. /\ r = q /\ m.identity[2].of = IK(p) /\ m.base[2] = Pub(EK(n)) /\ m.ct = <<q, n>>
        /\ m.opk = IF offer = None THEN None ELSE offer[2]
        /\ offer # None => offer[1] = r
    BY <2>1, SameSecretSameView
  <2>5. m.base = <<KEY_TYPE_DJB, Pub(EK(n))>>
    BY <2>1, <2>4 DEF Proper, Message, WireKey
  <2>6. decode_ec(m.identity) = m.identity[2]
    BY <2>1 DEF Proper, decode_ec
  <2> QED BY <2>2, <2>3, <2>4, <2>5, <2>6 DEF FirstMessage
<1> QED BY <1>1, Inductive, PTL

\* The recipient an unaltered message was meant for derives the keys of its
\* initiator, with a one-time prekey and without.
THEOREM HonestAgreement == Spec => []HonestRunsAgree
<1>1. IInv => HonestRunsAgree
  <2> SUFFICES ASSUME IInv, NEW n \in Started, NEW a \in got,
                      a.by = run[n].with, a.msg = run[n].msg,
                      run[n].offer # None => run[n].offer[1] = run[n].with
               PROVE  a.keys = run[n].keys
    BY DEF HonestRunsAgree, Agree
  <2>1. PICK p \in Party, q \in Party, offer \in Offer, r \in Party, m \in Message :
           n \in Run /\ run[n] = Initiation(n, p, q, offer) /\ a = Arrival(r, m)
    BY AgreeingPair
  <2>2. /\ run[n].with = q /\ run[n].offer = offer
        /\ run[n].keys = KeysFrom(RunSecret(n, p, q, offer))
        /\ run[n].msg = Initiation(n, p, q, offer).msg
    BY <2>1, RunFields, RunKeys
  <2>3. /\ a.by = r /\ a.msg = m
        /\ a.keys = IF Proper(m) THEN KeysFrom(ArrivalSecret(r, m)) ELSE None
    BY <2>1, ArrivalKeys
  <2>4. r = q /\ m = Initiation(n, p, q, offer).msg
    BY <2>2, <2>3
  <2>5. Proper(m) /\ ArrivalSecret(q, m) = RunSecret(n, p, q, offer)
    BY <2>1, <2>2, <2>4, HonestSecrets
  <2> QED BY <2>2, <2>3, <2>4, <2>5
<1> QED BY <1>1, Inductive, PTL

\* Associated data names the two encoded identities in order.
LEMMA AssociatedDataBinds ==
  ASSUME NEW x, NEW y, NEW u, NEW v, associated_data(x, y) = associated_data(u, v)
  PROVE  x = u /\ y = v
<1>1. \A a, b : associated_data(a, b) = <<KEY_TYPE_DJB, a, KEY_TYPE_DJB, b>>
  BY DEF associated_data, encode_ec
<1> QED BY <1>1

\* Keys and associated data together bind the whole first message: nothing
\* of it can have been altered where both sides have both.
THEOREM TranscriptIsBound == Spec => []TranscriptBound
<1>1. IInv => TranscriptBound
  <2> SUFFICES ASSUME IInv, NEW n \in Started, NEW a \in got, a.keys = run[n].keys,
                      associated_data(Pub(IK(run[n].by)), Pub(IK(run[n].with)))
                        = associated_data(decode_ec(a.msg.identity), Pub(IK(a.by)))
               PROVE  a.msg = run[n].msg
    BY DEF TranscriptBound, Agree
  <2>1. PICK p \in Party, q \in Party, offer \in Offer, r \in Party, m \in Message :
           /\ n \in Run
           /\ run[n] = Initiation(n, p, q, offer)
           /\ a = Arrival(r, m)
           /\ Proper(m)
           /\ ArrivalSecret(r, m) = RunSecret(n, p, q, offer)
    BY AgreeingPair
  <2>2. run[n].by = p /\ run[n].msg = FirstMessage(n, p, q, offer)
    BY <2>1, RunFields, RunMessage
  <2>3. a.msg = m
    BY <2>1, ArrivalKeys
  <2>4. /\ m.base[2] = Pub(EK(n)) /\ m.ct = <<q, n>>
        /\ m.opk = IF offer = None THEN None ELSE offer[2]
    BY <2>1, SameSecretSameView
  <2>5. decode_ec(m.identity) = Pub(IK(p))
    BY <2>2, <2>3, AssociatedDataBinds
  <2>6. m.identity = <<KEY_TYPE_DJB, Pub(IK(p))>> /\ m.base = <<KEY_TYPE_DJB, Pub(EK(n))>>
    BY <2>1, <2>4, <2>5 DEF Proper, decode_ec, Message, WireKey
  <2>7. m = [identity |-> m.identity, base |-> m.base, opk |-> m.opk, ct |-> m.ct]
    BY DEF Message
  <2>8. m = FirstMessage(n, p, q, offer)
    BY <2>4, <2>6, <2>7, Zenon DEF FirstMessage
  <2> QED BY <2>2, <2>3, <2>8
<1> QED BY <1>1, Inductive, PTL
-----------------------------------------------------------------------------
(* Separation and protection of the keys.                                  *)

\* The three keys of a secret input, each with its place in the output.
LEMMA KeysAre ==
  ASSUME NEW s
  PROVE  KeysFrom(s) = [root_key  |-> [ikm |-> s, info |-> PQXDH_LABEL, block |-> 1],
                        chain_key |-> [ikm |-> s, info |-> PQXDH_LABEL, block |-> 2],
                        pqr_key   |-> [ikm |-> s, info |-> PQXDH_LABEL, block |-> 3]]
  BY DEF KeysFrom, derive_split, hkdf_sha256_derive

LEMMA KeysApart ==
  ASSUME NEW s, NEW t, NEW f \in DOMAIN KeysFrom(s), NEW g \in DOMAIN KeysFrom(t),
         KeysFrom(s)[f] = KeysFrom(t)[g]
  PROVE  f = g /\ KeysFrom(s) = KeysFrom(t)
<1>1. \A u : /\ DOMAIN KeysFrom(u) = {"root_key", "chain_key", "pqr_key"}
             /\ KeysFrom(u)["root_key"].block = 1 /\ KeysFrom(u)["chain_key"].block = 2
             /\ KeysFrom(u)["pqr_key"].block = 3
             /\ \A h \in {"root_key", "chain_key", "pqr_key"} : KeysFrom(u)[h].ikm = u
  BY KeysAre
<1>2. s = t
  BY <1>1
<1>3. f = g
  BY <1>1
<1> QED BY <1>2, <1>3

\* The secret input of a run names the run: its KEM secret is made of its coins.
LEMMA RunSecretsApart ==
  ASSUME NEW m \in Run, NEW n \in Run, NEW p, NEW q, NEW u, NEW v, NEW o, NEW w,
         RunSecret(m, p, q, o) = RunSecret(n, u, v, w)
  PROVE  m = n
<1>1. \A k, x, y, z : LET s == RunSecret(k, x, y, z) IN s[Len(s)] = <<"SS", y, k>>
  <2> TAKE k, x, y, z
  <2>1. CASE z = None
    BY <2>1 DEF RunSecret
  <2>2. CASE z # None
    BY <2>2 DEF RunSecret
  <2> QED BY <2>1, <2>2
<1>2. <<"SS", q, m>> = <<"SS", v, n>>
  BY <1>1
<1> QED BY <1>2

\* No key serves twice: not two of the three, not those of two runs, not a
\* run's and an arrival's of another secret input.
THEOREM KeysAreSeparate == Spec => []KeysSeparate
<1>1. IInv => KeysSeparate
  <2> SUFFICES ASSUME IInv PROVE KeysSeparate
    OBVIOUS
  <2> DEFINE all == {run[n].keys : n \in Started} \cup {a.keys : a \in {b \in got : b.keys # None}}
  <2>1. \A n \in Started : n \in Run /\ \E p, q \in Party, o \in Offer :
                                          run[n].keys = KeysFrom(RunSecret(n, p, q, o))
    <3> TAKE n \in Started
    <3>1. n \in Run
      BY DEF Started
    <3>2. PICK p \in Party, q \in Party, o \in Offer : run[n] = Initiation(n, p, q, o)
      BY DEF IInv, Recorded
    <3> QED BY <3>1, <3>2, RunKeys
  <2>2. \A a \in got : a.keys # None => \E s : a.keys = KeysFrom(s)
    <3> TAKE a \in got
    <3>1. PICK r \in Party, m \in Message : a = Arrival(r, m)
      BY DEF IInv, Recorded
    <3> QED BY <3>1, ArrivalKeys
  <2>3. \A x \in all : \E s : x = KeysFrom(s)
    BY <2>1, <2>2
  <2>4. ASSUME NEW x \in all, NEW y \in all, NEW f \in DOMAIN x, NEW g \in DOMAIN y, x[f] = y[g]
        PROVE  f = g /\ x = y
    <3>1. PICK s, t : x = KeysFrom(s) /\ y = KeysFrom(t)
      BY <2>3
    <3> HIDE DEF all
    <3> QED BY <2>4, <3>1, KeysApart
  <2>5. ASSUME NEW m \in Started, NEW n \in Started, run[m].keys = run[n].keys PROVE m = n
    <3>1. PICK p, q, o, u, v, w :
            /\ run[m].keys = KeysFrom(RunSecret(m, p, q, o))
            /\ run[n].keys = KeysFrom(RunSecret(n, u, v, w))
      BY <2>1
    <3>2. RunSecret(m, p, q, o) = RunSecret(n, u, v, w)
      BY <2>5, <3>1, KeysTellSecrets
    <3> QED BY <2>1, <3>2, RunSecretsApart
  <2> QED BY <2>4, <2>5 DEF KeysSeparate
<1> QED BY <1>1, Inductive, PTL

\* What a block is out of reach of.
LEMMA OutOfReach ==
  /\ \A x, y, K, M, C : x \notin K /\ y \notin K => ~Computes(K, M, C, <<"DH", {x, y}>>)
  /\ \A q, n, K, M, C : q \notin M /\ n \notin C => ~Computes(K, M, C, <<"SS", q, n>>)
<1>1. ASSUME NEW x, NEW y, NEW K, NEW M, NEW C, x \notin K, y \notin K
      PROVE  ~Computes(K, M, C, <<"DH", {x, y}>>)
  BY <1>1 DEF Computes
<1>2. ASSUME NEW q, NEW n, NEW K, NEW M, NEW C, q \notin M, n \notin C
      PROVE  ~Computes(K, M, C, <<"SS", q, n>>)
  BY <1>2 DEF Computes
<1> QED BY <1>1, <1>2

LEMMA WithoutThePair ==
  ASSUME NEW x, NEW y, NEW K, NEW M, NEW C
  PROVE  ~Computes(K \ {x, y}, M, C, <<"DH", {x, y}>>)
<1>1. x \notin K \ {x, y} /\ y \notin K \ {x, y}
  OBVIOUS
<1> QED BY <1>1, OutOfReach, Zenon

\* Each of the five pairs of secrets keeps a run's keys out of reach of
\* everybody who has neither of the two, whatever else is known.
THEOREM KeysAreProtected == Spec => []KeysProtected
<1>1. IInv => KeysProtected
  <2> SUFFICES ASSUME IInv, NEW n \in Started PROVE
        LET r == run[n]
            Safe(K, M, C) == \E i \in DOMAIN r.keys.root_key.ikm :
                               ~Computes(PrivateKey \ K, Party \ M, Run \ C, r.keys.root_key.ikm[i])
        IN  /\ Safe({}, {r.with}, {n})
            /\ Safe({EK(n), IK(r.with)}, {}, {})
            /\ Safe({IK(r.by), SPK(r.with)}, {}, {})
            /\ Safe({EK(n), SPK(r.with)}, {}, {})
            /\ r.offer # None => Safe({EK(n), OPK(r.offer[1], r.offer[2])}, {}, {})
    BY Zenon DEF KeysProtected
  <2>1. PICK p \in Party, q \in Party, o \in Offer : run[n] = Initiation(n, p, q, o)
    BY DEF IInv, Recorded
  <2> DEFINE s == RunSecret(n, p, q, o)
  <2>2. run[n].keys.root_key.ikm = s
    <3>1. run[n].keys = KeysFrom(s)
      BY <2>1, RunKeys DEF Started
    <3> HIDE DEF s
    <3> QED BY <3>1, KeysAre
  <2>3. run[n].by = p /\ run[n].with = q /\ run[n].offer = o
    BY <2>1, RunFields DEF Started
  <2>4. /\ 2 \in DOMAIN s /\ s[2] = <<"DH", {IK(p), SPK(q)}>>
        /\ 3 \in DOMAIN s /\ s[3] = <<"DH", {EK(n), IK(q)}>>
        /\ 4 \in DOMAIN s /\ s[4] = <<"DH", {EK(n), SPK(q)}>>
    BY DEF RunSecret
  <2>5. \E i \in DOMAIN s : s[i] = <<"SS", q, n>>
    <3>1. CASE o = None
      <4>1. 5 \in DOMAIN s /\ s[5] = <<"SS", q, n>>
        BY <3>1 DEF RunSecret
      <4> QED BY <4>1
    <3>2. CASE o # None
      <4>1. 6 \in DOMAIN s /\ s[6] = <<"SS", q, n>>
        BY <3>2 DEF RunSecret
      <4> QED BY <4>1
    <3> QED BY <3>1, <3>2
  <2>6. o # None => 5 \in DOMAIN s /\ s[5] = <<"DH", {EK(n), OPK(o[1], o[2])}>>
    BY DEF RunSecret
  <2> HIDE DEF s
  <2>7. \E i \in DOMAIN s : ~Computes(PrivateKey \ {}, Party \ {q}, Run \ {n}, s[i])
    BY <2>5, OutOfReach, Zenon
  <2>8. \E i \in DOMAIN s : ~Computes(PrivateKey \ {EK(n), IK(q)}, Party \ {}, Run \ {}, s[i])
    <3>1. ~Computes(PrivateKey \ {EK(n), IK(q)}, Party \ {}, Run \ {}, <<"DH", {EK(n), IK(q)}>>)
      BY WithoutThePair, Zenon
    <3>2. ~Computes(PrivateKey \ {EK(n), IK(q)}, Party \ {}, Run \ {}, s[3])
      BY <2>4, <3>1, Zenon
    <3> QED BY <2>4, <3>2, Zenon
  <2>9. \E i \in DOMAIN s : ~Computes(PrivateKey \ {IK(p), SPK(q)}, Party \ {}, Run \ {}, s[i])
    <3>1. ~Computes(PrivateKey \ {IK(p), SPK(q)}, Party \ {}, Run \ {}, <<"DH", {IK(p), SPK(q)}>>)
      BY WithoutThePair, Zenon
    <3>2. ~Computes(PrivateKey \ {IK(p), SPK(q)}, Party \ {}, Run \ {}, s[2])
      BY <2>4, <3>1, Zenon
    <3> QED BY <2>4, <3>2, Zenon
  <2>10. \E i \in DOMAIN s : ~Computes(PrivateKey \ {EK(n), SPK(q)}, Party \ {}, Run \ {}, s[i])
    <3>1. ~Computes(PrivateKey \ {EK(n), SPK(q)}, Party \ {}, Run \ {}, <<"DH", {EK(n), SPK(q)}>>)
      BY WithoutThePair, Zenon
    <3>2. ~Computes(PrivateKey \ {EK(n), SPK(q)}, Party \ {}, Run \ {}, s[4])
      BY <2>4, <3>1, Zenon
    <3> QED BY <2>4, <3>2, Zenon
  <2>11. o # None =>
           \E i \in DOMAIN s :
             ~Computes(PrivateKey \ {EK(n), OPK(o[1], o[2])}, Party \ {}, Run \ {}, s[i])
    <3>1. ~Computes(PrivateKey \ {EK(n), OPK(o[1], o[2])}, Party \ {}, Run \ {}, <<"DH", {EK(n), OPK(o[1], o[2])}>>)
      BY WithoutThePair, Zenon
    <3>2. o # None => ~Computes(PrivateKey \ {EK(n), OPK(o[1], o[2])}, Party \ {}, Run \ {}, s[5])
      BY <2>6, <3>1, Zenon
    <3> QED BY <2>6, <3>2, Zenon
  <2> QED BY <2>2, <2>3, <2>7, <2>8, <2>9, <2>10, <2>11, Zenon
<1> QED BY <1>1, Inductive, PTL
=============================================================================
