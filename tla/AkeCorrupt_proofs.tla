------------------------- MODULE AkeCorrupt_proofs --------------------------
(***************************************************************************)
(* The game of AkeCorrupt for blocks of any size and any number of parties *)
(* and sessions.  The invariant adds to the properties that a session's    *)
(* key is a function of its peer's public key and its ciphertext, and that *)
(* the flags and the answers handed out say the same.                      *)
(***************************************************************************)
EXTENDS AkeCorrupt, SequenceTheorems, WellFoundedInduction, TLAPS

-----------------------------------------------------------------------------
(* The byte core.                                                          *)

SessionKey(pk, ct) == derive_session_key(pk \ ct)

\* What decaps makes of a ciphertext, for any ciphertext (ke.rs decaps).
LEMMA DecapsIs ==
  ASSUME NEW pk \in Block, NEW ct \in Block
  PROVE  decaps(pk ^^ AllOnes, ct) = pk \ ct
BY Zenon DEF decaps, ^^, AllOnes, Block

LEMMA EncapsIs ==
  ASSUME NEW pk \in Block, NEW coins \in Block
  PROVE  /\ encaps(pk, coins).ct \in Block
         /\ encaps(pk, coins).shared = pk \ encaps(pk, coins).ct
BY DEF encaps, ^^, Block

LEMMA DeriveIsBlock ==
  ASSUME NEW a \in Block
  PROVE  derive_session_key(a) \in Block
BY DEF derive_session_key, ^^, Block, Kdf

\* Distinct shared secrets give distinct session keys (derive_session_key).
LEMMA DeriveIsInjective ==
  ASSUME NEW a \in Block, NEW b \in Block, derive_session_key(a) = derive_session_key(b)
  PROVE  a = b
<1>1. \A i : i \in a <=> i \in b
  BY DEF derive_session_key, ^^
<1> QED BY <1>1

LEMMA KeyEqExact ==
  ASSUME NEW a \in Block, NEW b \in Block
  PROVE  key_eq(a, b) <=> a = b
BY DEF key_eq, Block

\* The KEM of ke.rs is correct for every key pair, coins and block size: what
\* decaps recovers is what encaps shared.
THEOREM KemCorrect ==
  \A seed, coins \in Block :
    LET kp == keygen(seed)  cs == encaps(kp.pk, coins)
    IN  decaps(kp.sk, cs.ct) = cs.shared
<1> SUFFICES ASSUME NEW seed \in Block, NEW coins \in Block
             PROVE  decaps(seed ^^ AllOnes, encaps(seed, coins).ct) = encaps(seed, coins).shared
  BY DEF keygen
<1>1. /\ encaps(seed, coins).ct \in Block
      /\ encaps(seed, coins).shared = seed \ encaps(seed, coins).ct
  BY EncapsIs
<1>2. decaps(seed ^^ AllOnes, encaps(seed, coins).ct) = seed \ encaps(seed, coins).ct
  BY <1>1, DecapsIs
<1> QED BY <1>1, <1>2

-----------------------------------------------------------------------------
(* findPartner.                                                            *)

LEMMA Least ==
  ASSUME NEW P \in SUBSET Nat, P # {}
  PROVE  LET m == CHOOSE j \in P : \A k \in P : j <= k
         IN  m \in P /\ \A k \in P : m <= k
<1> DEFINE R == {ss \in Nat \X Nat : ss[1] < ss[2]}
<1>1. IsWellFoundedOn(R, Nat)
  <2>1. OpToRel(<, Nat) = R
    BY DEF OpToRel
  <2> QED BY <2>1, NatLessThanWellFounded
<1>2. \A k, n \in Nat : k < n => <<k, n>> \in R
  BY SMT
<1> HIDE DEF R
<1>3. PICK m \in P : \A k \in P : ~ (<<k, m>> \in R)
  BY <1>1, WFMin
<1>4. ASSUME NEW k \in P
      PROVE  m <= k
  <2>1. k \in Nat /\ m \in Nat
    OBVIOUS
  <2>2. ~(k < m)
    BY <1>2, <1>3, <2>1
  <2> QED BY <2>1, <2>2
<1> QED BY <1>4

LEMMA FoundIsFirst ==
  ASSUME NEW ss \in Seq(CSession), NEW s \in CSession
  PROVE  LET i == findPartner(ss, s) IN
         IF i = None THEN \A k \in 1..Len(ss) : ~compatible(s, ss[k])
         ELSE i \in 1..Len(ss) /\ compatible(s, ss[i])
                /\ \A k \in 1..(i - 1) : ~compatible(s, ss[k])
<1> DEFINE P == {j \in DOMAIN ss : compatible(s, ss[j])}
           m == CHOOSE j \in P : \A k \in P : j <= k
<1>0. DOMAIN ss = 1..Len(ss) /\ Len(ss) \in Nat
  OBVIOUS
<1>1. CASE P = {}
  <2>1. findPartner(ss, s) = None
    BY <1>1 DEF findPartner
  <2> QED BY <1>0, <1>1, <2>1 DEF None
<1>2. CASE P # {}
  <2>1. findPartner(ss, s) = m
    BY <1>2 DEF findPartner
  <2>2. P \subseteq Nat
    BY <1>0
  <2>3. m \in P /\ \A k \in P : m <= k
    BY <1>2, <2>2, Least
  <2> HIDE DEF m
  <2>4. m \in 1..Len(ss) /\ compatible(s, ss[m])
    BY <1>0, <2>3
  <2>5. \A k \in 1..(m - 1) : ~compatible(s, ss[k])
    BY <1>0, <2>3, <2>4
  <2> QED BY <2>1, <2>4, <2>5 DEF None
<1> QED BY <1>1, <1>2

-----------------------------------------------------------------------------
(* Types.                                                                  *)

LEMMA FirstTypes == Init => TypeOK
<1> SUFFICES ASSUME Init PROVE TypeOK
  OBVIOUS
<1>1. PICK seed \in [Registered -> Block] :
        parties = [p \in Registered |-> [pk |-> keygen(seed[p]).pk, sk |-> keygen(seed[p]).sk,
                                         corrupted |-> FALSE]]
  BY DEF Init
<1>2. \A b \in Block : keygen(b).pk \in Block /\ keygen(b).sk \in Block
  BY DEF keygen, ^^, AllOnes, Block
<1>3. parties \in [Registered -> [pk : Block, sk : Block, corrupted : BOOLEAN]]
  BY <1>1, <1>2
<1> QED BY <1>3 DEF Init, TypeOK

LEMMA PartyTypes ==
  ASSUME TypeOK, NEW p
  PROVE  /\ party(p).pk \in Block
         /\ party(p).corrupted \in BOOLEAN
BY DEF TypeOK, party, NoParty, Block

\* What Send appends: a well-formed session with the key of its peer, the
\* partner found among the sessions so far, and no flag set.
Opened(s) == /\ s \in CSession
             /\ s.key = SessionKey(party(s.peer).pk, s.sid)
             /\ s.partner = findPartner(sessions, [s EXCEPT !.partner = None])
             /\ ~s.revealed /\ ~s.tested

LEMMA SendOpens ==
  ASSUME TypeOK, NEW owner \in PartyId, NEW peer \in PartyId, NEW role \in BOOLEAN,
         NEW coins \in Block, Send(owner, peer, role, coins)
  PROVE  /\ UNCHANGED <<parties, told>>
         /\ Len(sessions) < MaxSessions
         /\ \E s : /\ Opened(s) /\ sessions' = Append(sessions, s)
                  /\ s.sid = encaps(party(peer).pk, coins).ct
                  /\ s.key = derive_session_key(encaps(party(peer).pk, coins).shared)
<1> DEFINE cs == encaps(party(peer).pk, coins)
           t  == [NoSession EXCEPT !.owner = owner, !.peer = peer, !.role = role,
                                   !.sid = cs.ct, !.key = derive_session_key(cs.shared)]
           s  == [t EXCEPT !.partner = findPartner(sessions, t)]
<1>1. /\ party(peer).pk \in Block
      /\ cs.ct \in Block
      /\ cs.shared = party(peer).pk \ cs.ct
  BY PartyTypes, EncapsIs
<1>2. derive_session_key(cs.shared) \in Block
  <2>1. cs.shared \in Block
    BY <1>1 DEF Block
  <2> QED BY <2>1, DeriveIsBlock
<1>3. sessions' = Append(sessions, s)
  BY DEF Send
<1> HIDE DEF cs
<1>4. t \in CSession /\ t.partner = None
  BY <1>1, <1>2 DEF CSession, NoSession, None
<1>5. findPartner(sessions, t) \in Nat
  <2>1. sessions \in Seq(CSession)
    BY DEF TypeOK
  <2> DEFINE i == findPartner(sessions, t)
  <2>2. i = None \/ i \in 1..Len(sessions)
    BY <1>4, <2>1, FoundIsFirst
  <2> QED BY <2>1, <2>2 DEF None
<1>6. /\ s.owner = owner /\ s.peer = peer /\ s.role = role /\ s.sid = cs.ct
      /\ s.key = derive_session_key(cs.shared) /\ s.partner = findPartner(sessions, t)
      /\ s.revealed = FALSE /\ s.tested = FALSE
      /\ [s EXCEPT !.partner = None] = t
  BY <1>4 DEF NoSession, None
<1>7. s \in CSession
  BY <1>4, <1>5 DEF CSession
<1> HIDE DEF s, t
<1>8. s.key = SessionKey(party(s.peer).pk, s.sid)
  BY <1>1, <1>6 DEF SessionKey
<1>9. Opened(s)
  BY <1>6, <1>7, <1>8 DEF Opened
<1> QED BY <1>3, <1>6, <1>9 DEF Send, cs

\* The other queries leave everything but the flags alone.
Kept == /\ DOMAIN sessions' = DOMAIN sessions
        /\ \A p : party(p)'.pk = party(p).pk /\ party(p)'.sk = party(p).sk
        /\ \A i \in DOMAIN sessions : LET s == sessions[i]  t == sessions'[i] IN
             /\ t.owner = s.owner /\ t.peer = s.peer /\ t.role = s.role /\ t.sid = s.sid
             /\ t.key = s.key /\ t.partner = s.partner

LEMMA FlagSet ==
  ASSUME NEW ss \in Seq(CSession), NEW i \in DOMAIN ss
  PROVE  /\ [ss EXCEPT ![i].revealed = TRUE] \in Seq(CSession)
         /\ [ss EXCEPT ![i].tested = TRUE] \in Seq(CSession)
         /\ DOMAIN [ss EXCEPT ![i].revealed = TRUE] = DOMAIN ss
         /\ DOMAIN [ss EXCEPT ![i].tested = TRUE] = DOMAIN ss
<1>1. i \in 1..Len(ss) /\ ss[i] \in CSession
  OBVIOUS
<1>2. /\ [ss[i] EXCEPT !.revealed = TRUE] \in CSession
      /\ [ss[i] EXCEPT !.tested = TRUE] \in CSession
  BY <1>1 DEF CSession
<1>3. \A e \in CSession : [ss EXCEPT ![i] = e] \in Seq(CSession)
  BY <1>1, ExceptSeq
<1> QED BY <1>2, <1>3

LEMMA RevealKeeps ==
  ASSUME TypeOK, NEW i \in DOMAIN sessions, Reveal(i)
  PROVE  TypeOK' /\ Kept
<1>1. sessions' \in Seq(CSession) /\ DOMAIN sessions' = DOMAIN sessions
  BY FlagSet DEF TypeOK, Reveal
<1>2. told' \subseteq Answer
  BY DEF TypeOK, Reveal, Answer
<1>3. \A j \in DOMAIN sessions :
        sessions'[j] = IF j = i THEN [sessions[j] EXCEPT !.revealed = TRUE] ELSE sessions[j]
  BY DEF Reveal
<1>4. \A j \in DOMAIN sessions : sessions[j] \in CSession
  BY DEF TypeOK
<1>5. parties' = parties
  BY DEF Reveal
<1> QED BY <1>1, <1>2, <1>3, <1>4, <1>5 DEF TypeOK, Kept, CSession, party

LEMMA TestKeeps ==
  ASSUME TypeOK, NEW i \in {0} \cup DOMAIN sessions, Test(i)
  PROVE  TypeOK' /\ Kept
<1>1. sessions' \in Seq(CSession) /\ DOMAIN sessions' = DOMAIN sessions
  BY FlagSet DEF TypeOK, Test
<1>2. told' \subseteq Answer
  <2>1. i \in Nat
    BY DEF TypeOK
  <2> QED BY <2>1 DEF TypeOK, Test, Answer, Challenge
<1>3. \A j \in DOMAIN sessions :
        sessions'[j] = IF j = i THEN [sessions[j] EXCEPT !.tested = TRUE] ELSE sessions[j]
  BY DEF Test
<1>4. \A j \in DOMAIN sessions : sessions[j] \in CSession
  BY DEF TypeOK
<1>5. parties' = parties
  BY DEF Test
<1> QED BY <1>1, <1>2, <1>3, <1>4, <1>5 DEF TypeOK, Kept, CSession, party

LEMMA CorruptKeeps ==
  ASSUME TypeOK, NEW p \in Registered, Corrupt(p)
  PROVE  TypeOK' /\ Kept
<1>1. told' \subseteq Answer
  BY DEF TypeOK, Corrupt, Answer, Registered
<1>2. \A q \in Registered :
        parties'[q] = IF q = p THEN [parties[q] EXCEPT !.corrupted = TRUE] ELSE parties[q]
  BY DEF Corrupt, TypeOK
<1>3. parties' \in [Registered -> [pk : Block, sk : Block, corrupted : BOOLEAN]]
  BY DEF Corrupt, TypeOK
<1>4. \A q \in Registered : parties[q] \in [pk : Block, sk : Block, corrupted : BOOLEAN]
  BY DEF TypeOK
<1>5. \A q : party(q)'.pk = party(q).pk /\ party(q)'.sk = party(q).sk
  BY <1>2, <1>4 DEF party
<1>6. sessions' = sessions
  BY DEF Corrupt
<1> QED BY <1>1, <1>3, <1>5, <1>6 DEF TypeOK, Kept

LEMMA StutterKeeps == TypeOK /\ UNCHANGED vars => TypeOK' /\ Kept
BY DEF TypeOK, vars, Kept, party

\* Every step opens one session or keeps everything but the flags.
LEMMA Steps ==
  ASSUME TypeOK, [Next]_vars
  PROVE  \/ TypeOK' /\ Kept
         \/ /\ UNCHANGED <<parties, told>>
            /\ \E s : Opened(s) /\ sessions' = Append(sessions, s)
<1>1. ASSUME NEW owner \in PartyId, NEW peer \in PartyId, NEW role \in BOOLEAN,
             NEW coins \in Block, Send(owner, peer, role, coins)
      PROVE  /\ UNCHANGED <<parties, told>>
             /\ \E s : Opened(s) /\ sessions' = Append(sessions, s)
  BY <1>1, SendOpens
<1>2. ASSUME NEW i \in DOMAIN sessions, Reveal(i)
      PROVE  TypeOK' /\ Kept
  BY <1>2, RevealKeeps
<1>3. ASSUME NEW p \in Registered, Corrupt(p)
      PROVE  TypeOK' /\ Kept
  BY <1>3, CorruptKeeps
<1>4. ASSUME NEW i \in {0} \cup DOMAIN sessions, Test(i)
      PROVE  TypeOK' /\ Kept
  BY <1>4, TestKeeps
<1>5. CASE UNCHANGED vars
  BY <1>5, StutterKeeps
<1> QED BY <1>1, <1>2, <1>3, <1>4, <1>5 DEF Next

LEMMA OpenedTypes ==
  ASSUME TypeOK, UNCHANGED <<parties, told>>, NEW s, Opened(s), sessions' = Append(sessions, s)
  PROVE  TypeOK'
BY DEF TypeOK, Opened

LEMMA TypesKept == TypeOK /\ [Next]_vars => TypeOK'
BY Steps, OpenedTypes

\* The tables and the answers are always well formed.
THEOREM TypeCorrect == Spec => []TypeOK
BY FirstTypes, TypesKept, PTL DEF Spec

-----------------------------------------------------------------------------
(* Partners.                                                               *)

LEMMA PartnersKept == TypeOK /\ PartnersOnRecord /\ [Next]_vars => PartnersOnRecord'
<1> SUFFICES ASSUME TypeOK, PartnersOnRecord, [Next]_vars PROVE PartnersOnRecord'
  OBVIOUS
<1>0. /\ DOMAIN sessions = 1..Len(sessions) /\ Len(sessions) \in Nat
      /\ \A i \in DOMAIN sessions : sessions[i] \in CSession
  BY DEF TypeOK
<1>1. CASE Kept
  <2>1. ASSUME NEW j \in DOMAIN sessions
        PROVE  FirstCrossed(sessions', j)
    <3>1. j \in 1..Len(sessions) /\ sessions[j].partner \in Nat
      BY <1>0 DEF CSession
    <3>2. \A k \in 1..j : Crossed(sessions'[k], sessions'[j]) <=> Crossed(sessions[k], sessions[j])
      BY <1>0, <1>1, <3>1 DEF Kept, Crossed
    <3>3. FirstCrossed(sessions, j) /\ sessions'[j].partner = sessions[j].partner
      BY <1>1 DEF Kept, PartnersOnRecord
    <3> QED BY <1>0, <3>1, <3>2, <3>3 DEF None, FirstCrossed
  <2> QED BY <1>1, <2>1 DEF Kept, PartnersOnRecord
<1>2. ASSUME NEW s, Opened(s), sessions' = Append(sessions, s)
      PROVE  PartnersOnRecord'
  <2> DEFINE n == Len(sessions)
             t == [s EXCEPT !.partner = None]
  <2>1. /\ DOMAIN sessions' = 1..(n + 1) /\ sessions'[n + 1] = s
        /\ \A k \in 1..n : sessions'[k] = sessions[k]
    BY <1>2 DEF TypeOK, Opened
  <2>2. /\ t \in CSession /\ s.partner = findPartner(sessions, t) /\ sessions \in Seq(CSession)
        /\ t.owner = s.owner /\ t.peer = s.peer /\ t.role = s.role /\ t.sid = s.sid
    BY <1>2 DEF Opened, CSession, None, TypeOK
  <2>3. s.role \in BOOLEAN /\ \A k \in 1..n : sessions[k].role \in BOOLEAN
    BY <1>0, <1>2 DEF Opened, CSession
  <2>4. LET i == s.partner IN
        IF i = None THEN \A k \in 1..n : ~compatible(t, sessions[k])
        ELSE i \in 1..n /\ compatible(t, sessions[i])
               /\ \A k \in 1..(i - 1) : ~compatible(t, sessions[k])
    BY <2>2, FoundIsFirst
  <2>5. \A k \in 1..n : compatible(t, sessions[k]) <=> Crossed(sessions[k], s)
    BY <2>2, <2>3 DEF compatible, Crossed
  <2>6. LET i == s.partner IN
        IF i = None THEN \A k \in 1..n : ~Crossed(sessions[k], s)
        ELSE i \in 1..n /\ Crossed(sessions[i], s) /\ \A k \in 1..(i - 1) : ~Crossed(sessions[k], s)
    <3>1. s.partner # None => s.partner \in 1..n /\ \A k \in 1..(s.partner - 1) : k \in 1..n
      BY <1>0, <2>4
    <3> QED BY <2>4, <2>5, <3>1
  <2>7. \A j \in 1..n : FirstCrossed(sessions, j)
    BY <1>0 DEF PartnersOnRecord
  <2>8. ASSUME NEW j \in 1..n
        PROVE  FirstCrossed(sessions', j)
    <3>1. j \in Nat /\ j <= n /\ n \in Nat /\ sessions[j].partner \in Nat
      BY <1>0 DEF CSession
    <3>2. \A k \in 1..j : sessions'[k] = sessions[k]
      BY <2>1, <3>1
    <3>3. FirstCrossed(sessions, j)
      BY <2>7
    <3> QED BY <3>1, <3>2, <3>3 DEF None, FirstCrossed
  <2>9. FirstCrossed(sessions', n + 1)
    <3>1. n + 1 - 1 = n /\ n \in Nat
      BY <1>0
    <3>2. s.partner # None => s.partner \in 1..n /\ \A k \in 1..(s.partner - 1) : k \in 1..n
      BY <1>0, <2>4
    <3> QED BY <2>1, <2>6, <3>1, <3>2 DEF FirstCrossed
  <2>10. \A j \in 1..(n + 1) : FirstCrossed(sessions', j)
    <3>1. \A j \in 1..(n + 1) : j \in 1..n \/ j = n + 1
      BY <1>0
    <3> QED BY <2>8, <2>9, <3>1
  <2> QED BY <2>1, <2>10 DEF PartnersOnRecord
<1> QED BY <1>1, <1>2, Steps

\* A session's partner is the first compatible session before it, and no other,
\* whatever was opened, revealed, tested or corrupted since.
THEOREM PartnersCorrect == Spec => []PartnersOnRecord
<1>1. Init => PartnersOnRecord
  BY DEF Init, PartnersOnRecord
<1> QED BY <1>1, FirstTypes, TypesKept, PartnersKept, PTL DEF Spec

-----------------------------------------------------------------------------
(* Keys.                                                                   *)

\* Secrets belong to public keys, session keys to the peer and the ciphertext.
PeerKey(i) == party(sessions[i].peer).pk

KeysTell ==
  /\ \A p \in Registered : parties[p].sk = parties[p].pk ^^ AllOnes
  /\ \A i \in DOMAIN sessions : sessions[i].key = SessionKey(PeerKey(i), sessions[i].sid)

LEMMA FirstKeys == Init => KeysTell
<1> SUFFICES ASSUME Init PROVE KeysTell
  OBVIOUS
<1>1. \A p \in Registered : parties[p].sk = parties[p].pk ^^ AllOnes
  BY DEF Init, keygen
<1> QED BY <1>1 DEF Init, KeysTell

LEMMA KeysKept == TypeOK /\ KeysTell /\ [Next]_vars => KeysTell'
<1> SUFFICES ASSUME TypeOK, KeysTell, [Next]_vars PROVE KeysTell'
  OBVIOUS
<1>1. CASE Kept
  <2>1. \A p \in Registered : parties'[p].sk = parties'[p].pk ^^ AllOnes
    BY <1>1 DEF Kept, KeysTell, party
  <2>2. ASSUME NEW i \in DOMAIN sessions
        PROVE  PeerKey(i)' = PeerKey(i)
    <3>1. sessions'[i].peer = sessions[i].peer
      BY <1>1 DEF Kept
    <3>2. \A p : (IF p \in Registered THEN parties'[p] ELSE NoParty).pk = party(p).pk
      BY <1>1 DEF Kept, party
    <3> QED BY <3>1, <3>2 DEF PeerKey, party
  <2>3. \A i \in DOMAIN sessions' : sessions'[i].key = SessionKey(PeerKey(i)', sessions'[i].sid)
    BY <1>1, <2>2 DEF Kept, KeysTell
  <2> QED BY <2>1, <2>3 DEF KeysTell
<1>2. ASSUME NEW s, Opened(s), sessions' = Append(sessions, s), UNCHANGED <<parties, told>>
      PROVE  KeysTell'
  <2>1. /\ DOMAIN sessions' = 1..(Len(sessions) + 1) /\ sessions'[Len(sessions) + 1] = s
        /\ \A k \in DOMAIN sessions : sessions'[k] = sessions[k]
        /\ DOMAIN sessions = 1..Len(sessions) /\ Len(sessions) \in Nat
    BY <1>2 DEF TypeOK, Opened
  <2>2. \A i \in DOMAIN sessions' : i \in DOMAIN sessions \/ sessions'[i] = s
    BY <2>1
  <2>3. s.key = SessionKey(party(s.peer).pk, s.sid)
    BY <1>2 DEF Opened
  <2>4. \A i \in DOMAIN sessions' : PeerKey(i)' = party(sessions'[i].peer).pk
    BY <1>2 DEF PeerKey, party
  <2>5. \A i \in DOMAIN sessions' : sessions'[i].key = SessionKey(PeerKey(i)', sessions'[i].sid)
    BY <2>1, <2>2, <2>3, <2>4 DEF KeysTell, PeerKey
  <2> QED BY <1>2, <2>5 DEF KeysTell
<1> QED BY <1>1, <1>2, Steps

LEMMA KeysImply ==
  ASSUME TypeOK, PartnersOnRecord, KeysTell
  PROVE  PeerDerivesKey /\ PartnersShareKey
<1>0. \A i \in DOMAIN sessions : sessions[i] \in CSession
  BY DEF TypeOK
<1>1. ASSUME NEW i \in DOMAIN sessions, sessions[i].peer \in Registered
      PROVE  derive_session_key(decaps(parties[sessions[i].peer].sk, sessions[i].sid))
               = sessions[i].key
  <2> DEFINE pk == parties[sessions[i].peer].pk
  <2>1. pk \in Block /\ sessions[i].sid \in Block
    BY <1>0, <1>1 DEF TypeOK, CSession
  <2>2. decaps(pk ^^ AllOnes, sessions[i].sid) = pk \ sessions[i].sid
    BY <2>1, DecapsIs
  <2>3. /\ parties[sessions[i].peer].sk = pk ^^ AllOnes
        /\ sessions[i].key = SessionKey(pk, sessions[i].sid)
    BY <1>1 DEF KeysTell, PeerKey, party
  <2> QED BY <2>2, <2>3 DEF SessionKey
<1>2. ASSUME NEW s \in CSession, NEW t \in CSession, NEW a \in Block, NEW b \in Block,
             s.key = SessionKey(a, s.sid), t.key = SessionKey(b, t.sid), s.sid = t.sid
      PROVE  key_eq(s.key, t.key) <=> a \ s.sid = b \ t.sid
  <2>1. a \ s.sid \in Block /\ b \ t.sid \in Block
    BY DEF Block
  <2>2. s.key = t.key <=> a \ s.sid = b \ t.sid
    BY <1>2, <2>1, DeriveIsInjective DEF SessionKey
  <2> QED BY <2>2, KeyEqExact DEF CSession
<1>3. ASSUME NEW j \in DOMAIN sessions, sessions[j].partner # None
      PROVE  LET s == sessions[j]  t == session(s.partner) IN
             key_eq(s.key, t.key) <=> party(s.peer).pk \ s.sid = party(t.peer).pk \ s.sid
  <2> DEFINE i == sessions[j].partner
  <2>1. i \in DOMAIN sessions /\ sessions[i].sid = sessions[j].sid /\ session(i) = sessions[i]
    BY <1>3 DEF PartnersOnRecord, FirstCrossed, Crossed, TypeOK, session
  <2>2. PeerKey(i) \in Block /\ PeerKey(j) \in Block
    BY PartyTypes DEF PeerKey
  <2> HIDE DEF i
  <2>3. key_eq(sessions[j].key, sessions[i].key)
          <=> PeerKey(j) \ sessions[j].sid = PeerKey(i) \ sessions[i].sid
    BY <1>0, <1>2, <2>1, <2>2 DEF KeysTell
  <2> QED BY <2>1, <2>3 DEF PeerKey, i
<1>4. PeerDerivesKey
  BY <1>1 DEF PeerDerivesKey
<1>5. PartnersShareKey
  BY <1>3 DEF PartnersShareKey
<1> QED BY <1>4, <1>5

\* The registered peer of any session derives its key from what was sent.
THEOREM PeersDeriveKeys == Spec => []PeerDerivesKey
<1>1. TypeOK /\ PartnersOnRecord /\ KeysTell => PeerDerivesKey
  BY KeysImply
<1>2. Init => PartnersOnRecord
  BY DEF Init, PartnersOnRecord
<1> QED BY <1>1, <1>2, FirstTypes, FirstKeys, TypesKept, PartnersKept, KeysKept, PTL DEF Spec

\* Partners hold one key exactly when their peers' public keys agree outside the
\* ciphertext, for blocks of any size.
THEOREM PartnersKeysExact == Spec => []PartnersShareKey
<1>1. TypeOK /\ PartnersOnRecord /\ KeysTell => PartnersShareKey
  BY KeysImply
<1>2. Init => PartnersOnRecord
  BY DEF Init, PartnersOnRecord
<1> QED BY <1>1, <1>2, FirstTypes, FirstKeys, TypesKept, PartnersKept, KeysKept, PTL DEF Spec

-----------------------------------------------------------------------------
(* What was handed out.                                                    *)

\* The flags say what was handed out, and only index 0 is challenged again.
FlagsTell ==
  /\ \A n : <<"key", n>> \in told => n \in DOMAIN sessions /\ sessions[n].revealed
  /\ \A n : <<"sk", n>> \in told => n \in Registered /\ parties[n].corrupted
  /\ \A n : <<"challenge", n>> \in told => n \in {0} \cup DOMAIN sessions
  /\ \A n : <<"again", n>> \in told => n = 0
  /\ \A i \in DOMAIN sessions : <<"challenge", i>> \in told <=> sessions[i].tested

LEMMA FlagsKept == TypeOK /\ FlagsTell /\ [Next]_vars => FlagsTell'
<1> SUFFICES ASSUME TypeOK, FlagsTell, [Next]_vars PROVE FlagsTell'
  OBVIOUS
<1>0. /\ DOMAIN sessions = 1..Len(sessions) /\ Len(sessions) \in Nat
      /\ \A i \in DOMAIN sessions : sessions[i] \in CSession
  BY DEF TypeOK
<1>1. ASSUME NEW owner \in PartyId, NEW peer \in PartyId, NEW role \in BOOLEAN,
             NEW coins \in Block, Send(owner, peer, role, coins)
      PROVE  FlagsTell'
  <2>1. PICK s : Opened(s) /\ sessions' = Append(sessions, s)
    BY <1>1, SendOpens
  <2>2. /\ DOMAIN sessions' = 1..(Len(sessions) + 1) /\ sessions'[Len(sessions) + 1] = s
        /\ \A k \in DOMAIN sessions : sessions'[k] = sessions[k]
    BY <2>1 DEF TypeOK, Opened
  <2>3. ~s.tested /\ <<"challenge", Len(sessions) + 1>> \notin told
    BY <1>0, <2>1 DEF Opened, FlagsTell
  <2>4. UNCHANGED <<parties, told>>
    BY <1>1, SendOpens
  <2>5. \A i \in DOMAIN sessions' : i \in DOMAIN sessions \/ i = Len(sessions) + 1
    BY <1>0, <2>2
  <2>6. \A i \in DOMAIN sessions' : <<"challenge", i>> \in told <=> sessions'[i].tested
    BY <2>2, <2>3, <2>5 DEF FlagsTell
  <2>7. DOMAIN sessions \subseteq DOMAIN sessions'
    BY <1>0, <2>2
  <2> QED BY <2>2, <2>4, <2>6, <2>7 DEF FlagsTell
<1>2. ASSUME NEW i \in DOMAIN sessions, Reveal(i)
      PROVE  FlagsTell'
  <2>1. \A j \in DOMAIN sessions :
          /\ sessions'[j].tested = sessions[j].tested
          /\ sessions'[j].revealed = (j = i \/ sessions[j].revealed)
    BY <1>0, <1>2 DEF Reveal, CSession
  <2>2. DOMAIN sessions' = DOMAIN sessions /\ parties' = parties
    BY <1>2 DEF Reveal
  <2>3. told' = told \cup {<<"key", i>>}
    BY <1>2 DEF Reveal
  <2> QED BY <2>1, <2>2, <2>3 DEF FlagsTell
<1>3. ASSUME NEW p \in Registered, Corrupt(p)
      PROVE  FlagsTell'
  <2>1. \A q \in Registered : parties[q].corrupted \/ q = p => parties'[q].corrupted
    BY <1>3 DEF Corrupt, TypeOK
  <2>2. sessions' = sessions /\ told' = told \cup {<<"sk", p>>}
    BY <1>3 DEF Corrupt
  <2> QED BY <2>1, <2>2 DEF FlagsTell
<1>4. ASSUME NEW i \in {0} \cup DOMAIN sessions, Test(i)
      PROVE  FlagsTell'
  <2>1. \A j \in DOMAIN sessions :
          /\ sessions'[j].tested = (j = i \/ sessions[j].tested)
          /\ sessions'[j].revealed = sessions[j].revealed
    BY <1>0, <1>4 DEF Test, CSession
  <2>2. DOMAIN sessions' = DOMAIN sessions /\ parties' = parties
    BY <1>4 DEF Test
  <2>3. i \in DOMAIN sessions => Challenge(i) = <<"challenge", i>>
    BY <1>4 DEF Test, cleanIn, session, FlagsTell, Challenge
  <2>4. 0 \notin DOMAIN sessions
    BY <1>0
  <2>5. \/ told' = told \cup {<<"challenge", i>>}
        \/ i = 0 /\ told' = told \cup {<<"again", i>>}
    BY <1>4, <2>3, <2>4 DEF Test, Challenge
  <2> QED BY <2>1, <2>2, <2>4, <2>5 DEF FlagsTell
<1>5. CASE UNCHANGED vars
  BY <1>5 DEF vars, FlagsTell
<1> QED BY <1>1, <1>2, <1>3, <1>4, <1>5 DEF Next

LEMMA FlagsImply ==
  ASSUME TypeOK, PartnersOnRecord, FlagsTell
  PROVE  ScoredIsUnspoilt
<1> SUFFICES ASSUME finalClean, NEW i \in DOMAIN sessions, <<"challenge", i>> \in told
             PROVE  {<<"key", i>>, <<"key", sessions[i].partner>>, <<"sk", sessions[i].peer>>,
                     <<"again", i>>} \cap told = {}
  BY DEF ScoredIsUnspoilt
<1>1. freshAtEnd(sessions[i]) /\ i \in 1..Len(sessions)
  BY DEF finalClean, FlagsTell, TypeOK
<1>2. <<"key", i>> \notin told /\ <<"again", i>> \notin told
  BY <1>1 DEF freshAtEnd, FlagsTell
<1>3. <<"sk", sessions[i].peer>> \notin told
  BY <1>1 DEF freshAtEnd, FlagsTell, party
<1>4. <<"key", sessions[i].partner>> \notin told
  <2>1. sessions[i].partner = None => sessions[i].partner \notin DOMAIN sessions
    BY DEF None, TypeOK
  <2> QED BY <1>1, <2>1 DEF freshAtEnd, FlagsTell, session
<1> QED BY <1>2, <1>3, <1>4

\* A scored run never has a challenge whose session, partner or peer was
\* compromised before or after, for any number of parties and sessions.
THEOREM ScoredRunsUnspoilt == Spec => []ScoredIsUnspoilt
<1>1. TypeOK /\ PartnersOnRecord /\ FlagsTell => ScoredIsUnspoilt
  BY FlagsImply
<1>2. Init => PartnersOnRecord /\ FlagsTell
  BY DEF Init, PartnersOnRecord, FlagsTell
<1> QED BY <1>1, <1>2, FirstTypes, TypesKept, PartnersKept, FlagsKept, PTL DEF Spec

-----------------------------------------------------------------------------
(* Refinement.                                                             *)

Plain(s) == [cStar |-> s.sid, key |-> s.key, revealed |-> s.revealed, tested |-> s.tested]
Plains   == [i \in DOMAIN sessions |-> Plain(sessions[i])]
Heard    == {t \in told : t[1] # "sk"}

PlainSession == [cStar : Block, key : Block, revealed : BOOLEAN, tested : BOOLEAN]

LEMMA PlainsSeq ==
  ASSUME TypeOK
  PROVE  /\ Plains \in Seq(PlainSession)
         /\ DOMAIN Plains = DOMAIN sessions /\ Len(Plains) = Len(sessions)
         /\ \A i \in DOMAIN sessions : Plains[i] = Plain(sessions[i])
<1>1. ASSUME NEW s \in CSession
      PROVE  Plain(s) \in PlainSession
  <2>1. s.sid \in Block /\ s.key \in Block /\ s.revealed \in BOOLEAN /\ s.tested \in BOOLEAN
    BY DEF CSession
  <2> QED BY <2>1 DEF Plain, PlainSession
<1>2. /\ DOMAIN sessions = 1..Len(sessions) /\ Len(sessions) \in Nat
      /\ \A i \in DOMAIN sessions : sessions[i] \in CSession
  BY DEF TypeOK
<1>3. \A i \in 1..Len(sessions) : Plain(sessions[i]) \in PlainSession
  BY <1>1, <1>2
<1>4. Plains = [i \in 1..Len(sessions) |-> Plain(sessions[i])]
  BY <1>2 DEF Plains
<1>5. Plains \in Seq(PlainSession)
  BY <1>2, <1>3, <1>4
<1> QED BY <1>2, <1>4, <1>5

LEMMA SendRefines ==
  ASSUME TypeOK, NEW owner \in PartyId, NEW peer \in PartyId, NEW role \in BOOLEAN,
         NEW coins \in Block, Send(owner, peer, role, coins)
  PROVE  Game!Send(party(peer).pk, coins)
<1> DEFINE cs == encaps(party(peer).pk, coins)
           new == [cStar |-> cs.ct, key |-> derive_session_key(cs.shared),
                   revealed |-> FALSE, tested |-> FALSE]
<1>1. PICK s : /\ Opened(s) /\ sessions' = Append(sessions, s)
               /\ s.sid = cs.ct /\ s.key = derive_session_key(cs.shared)
  BY SendOpens
<1>2. UNCHANGED <<parties, told>> /\ Len(sessions) < MaxSessions
  BY SendOpens
<1> HIDE DEF cs
<1>3. Plain(s) = new
  BY <1>1 DEF Plain, Opened, CSession
<1>4. TypeOK'
  BY <1>1, <1>2, OpenedTypes
<1> HIDE DEF new
<1>5. /\ DOMAIN Plains' = 1..(Len(sessions) + 1)
      /\ \A i \in 1..(Len(sessions) + 1) :
           Plains'[i] = IF i = Len(sessions) + 1 THEN new ELSE Plains[i]
  <2>1. /\ DOMAIN sessions' = 1..(Len(sessions) + 1) /\ sessions'[Len(sessions) + 1] = s
        /\ \A k \in DOMAIN sessions : sessions'[k] = sessions[k]
        /\ DOMAIN sessions = 1..Len(sessions) /\ Len(sessions) \in Nat
    BY <1>1 DEF TypeOK, Opened
  <2>2. Plains' = [i \in DOMAIN sessions' |-> Plain(sessions'[i])]
    BY DEF Plains, Plain
  <2>3. Plains = [i \in DOMAIN sessions |-> Plain(sessions[i])]
    BY DEF Plains
  <2> HIDE DEF Plains
  <2> QED BY <1>3, <2>1, <2>2, <2>3
<1>6. Plains' = Append(Plains, new)
  <2>1. Plains \in Seq(PlainSession) /\ new \in PlainSession /\ Len(Plains) = Len(sessions)
    <3>1. s \in CSession
      BY <1>1 DEF Opened
    <3> QED BY <1>3, <3>1, PlainsSeq DEF Plain, PlainSession, CSession
  <2>2. Plains' = [i \in DOMAIN Plains' |-> Plains'[i]]
    BY DEF Plains
  <2> QED BY <1>5, <2>1, <2>2
<1>7. Game!Send(party(peer).pk, coins)
        <=> Len(Plains) < MaxSessions /\ Plains' = Append(Plains, new) /\ Heard' = Heard
  <2>1. /\ Game!encaps(party(peer).pk, coins) = cs
        /\ Game!derive_session_key(cs.shared) = derive_session_key(cs.shared)
    BY DEF Game!encaps, Game!derive_session_key, Game!Kdf, Game!^^, cs, encaps,
           derive_session_key, Kdf, ^^
  <2> QED BY <2>1, Zenon DEF Game!Send, Plains, Plain, Heard, new
<1>8. Heard' = Heard
  BY <1>2 DEF Heard
<1>9. Len(Plains) = Len(sessions)
  BY PlainsSeq
<1> QED BY <1>2, <1>6, <1>7, <1>8, <1>9

\* A flag set in the table is set in its projection.
LEMMA PlainFlags ==
  ASSUME TypeOK, NEW i \in DOMAIN sessions
  PROVE  /\ sessions' = [sessions EXCEPT ![i].revealed = TRUE]
              => Plains' = [Plains EXCEPT ![i].revealed = TRUE]
         /\ sessions' = [sessions EXCEPT ![i].tested = TRUE]
              => Plains' = [Plains EXCEPT ![i].tested = TRUE]
<1>1. \A j \in DOMAIN sessions : sessions[j] \in CSession
  BY DEF TypeOK
<1>2. ASSUME sessions' = [sessions EXCEPT ![i].revealed = TRUE]
      PROVE  Plains' = [Plains EXCEPT ![i].revealed = TRUE]
  BY <1>1, <1>2 DEF Plains, Plain, CSession
<1>3. ASSUME sessions' = [sessions EXCEPT ![i].tested = TRUE]
      PROVE  Plains' = [Plains EXCEPT ![i].tested = TRUE]
  BY <1>1, <1>3 DEF Plains, Plain, CSession
<1> QED BY <1>2, <1>3

LEMMA RevealRefines ==
  ASSUME TypeOK, NEW i \in DOMAIN sessions, Reveal(i)
  PROVE  Game!Reveal(i)
<1>1. Plains' = [Plains EXCEPT ![i].revealed = TRUE]
  BY PlainFlags DEF Reveal
<1>2. Heard' = Heard \cup {<<"key", i>>}
  BY DEF Reveal, Heard
<1> QED BY <1>1, <1>2 DEF Game!Reveal, Plains, Plain, Heard

LEMMA TestRefines ==
  ASSUME TypeOK, NEW i \in {0} \cup DOMAIN sessions, Test(i)
  PROVE  Game!Test(i)
<1>1. Plains' = IF i \in DOMAIN Plains THEN [Plains EXCEPT ![i].tested = TRUE] ELSE Plains
  <2>1. CASE i \in DOMAIN sessions
    BY <2>1, PlainFlags, PlainsSeq DEF Test
  <2>2. CASE i \notin DOMAIN sessions
    <3>1. sessions' = sessions
      BY <2>2 DEF Test
    <3> QED BY <2>2, <3>1 DEF Plains
  <2> QED BY <2>1, <2>2
<1>2. Heard' = Heard \cup {IF <<"challenge", i>> \in Heard THEN <<"again", i>> ELSE <<"challenge", i>>}
  BY DEF Test, Challenge, Heard
<1>3. ~session(i).revealed /\ ~session(i).tested
  BY DEF Test, cleanIn, freshAtEnd
<1>4. Game!fresh(Game!session(i))
  BY <1>3, PlainsSeq DEF Game!fresh, Game!session, Game!NoSession, session, Plains, Plain
<1> QED BY <1>1, <1>2, <1>4 DEF Game!Test, Game!Challenge, Plains, Plain, Heard

LEMMA StepRefines ==
  ASSUME TypeOK, [Next]_vars
  PROVE  [Game!Next]_(Game!vars)
<1>1. ASSUME NEW owner \in PartyId, NEW peer \in PartyId, NEW role \in BOOLEAN,
             NEW coins \in Block, Send(owner, peer, role, coins)
      PROVE  Game!Next
  <2>1. party(peer).pk \in Block /\ Game!Block = Block
    BY PartyTypes DEF Game!Block, Block
  <2>2. Game!Send(party(peer).pk, coins)
    BY <1>1, SendRefines
  <2> QED BY <2>1, <2>2 DEF Game!Next
<1>2. ASSUME NEW i \in DOMAIN sessions, Reveal(i)
      PROVE  Game!Next
  <2>1. Game!Reveal(i) /\ i \in DOMAIN Plains
    BY <1>2, RevealRefines, PlainsSeq
  <2> QED BY <2>1 DEF Game!Next, Plains, Plain
<1>3. ASSUME NEW p \in Registered, Corrupt(p)
      PROVE  UNCHANGED Game!vars
  <2>1. sessions' = sessions /\ Heard' = Heard
    BY <1>3 DEF Corrupt, Heard
  <2> QED BY <2>1 DEF Game!vars, Heard
<1>4. ASSUME NEW i \in {0} \cup DOMAIN sessions, Test(i)
      PROVE  Game!Next
  <2>1. Game!Test(i) /\ i \in {0} \cup DOMAIN Plains
    BY <1>4, TestRefines, PlainsSeq
  <2> QED BY <2>1 DEF Game!Next, Plains, Plain
<1>5. CASE UNCHANGED vars
  BY <1>5 DEF vars, Game!vars
<1> QED BY <1>1, <1>2, <1>3, <1>4, <1>5 DEF Next

\* Corruption, partners and cleanness only take challenges away: without them
\* every run of the game is a run of the game of Demo6Ake.lean.
THEOREM CorruptGameRefines == Spec => RefinesGame
<1>1. Init => Game!Init
  BY DEF Init, Game!Init
<1>2. TypeOK /\ [Next]_vars => [Game!Next]_(Game!vars)
  BY StepRefines
<1> QED BY <1>1, <1>2, TypeCorrect, PTL DEF Spec, RefinesGame, Game!Spec
=============================================================================
