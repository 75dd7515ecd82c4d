------------------------- MODULE AuthSession_proofs -------------------------
(***************************************************************************)
(* SpqrSession for every number of chunks and of corrupted messages.       *)
(*                                                                         *)
(* The kinds of the two parties determine each other only through what is  *)
(* in the network, so the invariant adds to PhasesAgree and OneRound which *)
(* payloads a party has sent so far, given its kind, and who can have      *)
(* decoded a corrupt chunk.                                                *)
(*                                                                         *)
(* A MAC of AuthSession is a term, and Hashing_proofs says that the terms  *)
(* of two MACs are equal only if keys, lengths and bytes are: a header or  *)
(* a ciphertext is accepted exactly when it is the one the other sent.     *)
(***************************************************************************)
EXTENDS AuthSession, Hashing_proofs, SequenceTheorems, TLAPS

\* The payloads a party of this side and kind may have sent already.
Emitted(p, kind) ==
  IF p = "A"
  THEN CASE kind = "KeysUnsampled"     -> {}
         [] kind = "KeysSampled"       -> {"Hdr"}
         [] kind = "HeaderSent"        -> {"Hdr", "Ek"}
         [] kind = "Ct1Received"       -> {"Hdr", "Ek", "EkCt1Ack"}
         [] kind = "EkSentCt1Received" -> {"Hdr", "Ek", "EkCt1Ack", "Ct1AckTrue"}
         [] OTHER -> {"Hdr", "Ek", "EkCt1Ack", "Ct1AckTrue", "NoneP"}
  ELSE CASE kind \in {"NoHeaderReceived", "HeaderReceived"} -> {"NoneP"}
         [] kind = "Ct2Sampled" -> {"NoneP", "Ct1", "Ct2"}
         [] OTHER               -> {"NoneP", "Ct1"}

SentTells == \A m \in sent : m.epoch = 0 /\ m.payload \in Emitted(m.from, st[m.from].kind)

\* B checks all it decodes; A owns a key only after the check that covers ct1.
ForgedTells == ~forged["B"] /\ (A = "NoHeaderReceived" => ~forged["A"])

Inv == TypeOK /\ PhasesAgree /\ OneRound /\ SentTells /\ ForgedTells

-----------------------------------------------------------------------------
(* The tables of SpqrStates, one side at a time.                           *)

LEMMA SendA ==
  ASSUME NEW a, NEW b, Phases(a, b)
  PROVE  /\ Phases(SendKind(a), b)
         /\ RoundKeys(SendKind(a), b) = RoundKeys(a, b)
         /\ ~SendKey(a)
         /\ Emitted("A", a) \subseteq Emitted("A", SendKind(a))
         /\ SendPayload[a] \in Emitted("A", SendKind(a))
         /\ SendKind(a) = "NoHeaderReceived" <=> a = "NoHeaderReceived"
BY DEF Phases, SendKind, RoundKeys, SendKey, Emitted, SendPayload, EkKinds,
       CtKinds, Outgoing, Stream

LEMMA SendB ==
  ASSUME NEW a, NEW b, Phases(a, b)
  PROVE  /\ Phases(a, SendKind(b))
         /\ Emitted("B", b) \subseteq Emitted("B", SendKind(b))
         /\ SendPayload[b] \in Emitted("B", SendKind(b))
BY DEF Phases, SendKind, Emitted, SendPayload, EkKinds, CtKinds, Outgoing, Stream

LEMMA SendBKeys ==
  ASSUME NEW a, NEW b, Phases(a, b)
  PROVE  /\ SendKey(b)  => RoundKeys(a, b) = <<>> /\ RoundKeys(a, SendKind(b)) = <<CtKey>>
         /\ ~SendKey(b) => RoundKeys(a, SendKind(b)) = RoundKeys(a, b)
BY DEF Phases, SendKind, SendKey, RoundKeys, EkKinds, CtKinds, Outgoing, Stream

LEMMA RecvA ==
  ASSUME NEW a, NEW b, Phases(a, b), NEW p \in Emitted("B", b), NEW done \in BOOLEAN
  PROVE  /\ Phases(RecvKind(a, p, done), b)
         /\ Emitted("A", a) \subseteq Emitted("A", RecvKind(a, p, done))
         /\ RecvKind(a, p, done) = "NoHeaderReceived" /\ a # "NoHeaderReceived"
              <=> RecvKey(a, p, done)
<1>1. a \in EkKinds \cup {"NoHeaderReceived"}
  BY DEF Phases
<1>2. CASE a = "KeysUnsampled"
  BY <1>2 DEF Phases, RecvKind, RecvKey, Emitted, EkKinds, CtKinds,
              SendPayload, Outgoing, Stream
<1>3. CASE a = "KeysSampled"
  BY <1>3 DEF Phases, RecvKind, RecvKey, Emitted, EkKinds, CtKinds,
              SendPayload, Outgoing, Stream
<1>4. CASE a = "HeaderSent"
  BY <1>4 DEF Phases, RecvKind, RecvKey, Emitted, EkKinds, CtKinds,
              SendPayload, Outgoing, Stream
<1>5. CASE a = "Ct1Received"
  BY <1>5 DEF Phases, RecvKind, RecvKey, Emitted, EkKinds, CtKinds,
              SendPayload, Outgoing, Stream
<1>6. CASE a = "EkSentCt1Received"
  BY <1>6 DEF Phases, RecvKind, RecvKey, Emitted, EkKinds, CtKinds,
              SendPayload, Outgoing, Stream
<1>7. CASE a = "NoHeaderReceived"
  BY <1>7 DEF Phases, RecvKind, RecvKey, Emitted, EkKinds, CtKinds,
              SendPayload, Outgoing, Stream
<1> QED
  BY <1>1, <1>2, <1>3, <1>4, <1>5, <1>6, <1>7 DEF EkKinds, CtKinds

LEMMA RecvB ==
  ASSUME NEW a, NEW b, Phases(a, b), NEW p \in Emitted("A", a), NEW done \in BOOLEAN
  PROVE  /\ Phases(a, RecvKind(b, p, done))
         /\ Emitted("B", b) \subseteq Emitted("B", RecvKind(b, p, done))
         /\ ~RecvKey(b, p, done)
         /\ RoundKeys(a, RecvKind(b, p, done)) = RoundKeys(a, b)
<1>1. b \in CtKinds
  BY DEF Phases
<1>2. CASE b = "NoHeaderReceived"
  BY <1>2 DEF Phases, RecvKind, RecvKey, Emitted, EkKinds, CtKinds,
              SendPayload, Outgoing, Stream, EkSuccessor, RoundKeys
<1>3. CASE b = "HeaderReceived"
  BY <1>3 DEF Phases, RecvKind, RecvKey, Emitted, EkKinds, CtKinds,
              SendPayload, Outgoing, Stream, EkSuccessor, RoundKeys
<1>4. CASE b = "Ct1Sampled"
  BY <1>4 DEF Phases, RecvKind, RecvKey, Emitted, EkKinds, CtKinds,
              SendPayload, Outgoing, Stream, EkSuccessor, RoundKeys
<1>5. CASE b = "EkReceivedCt1Sampled"
  BY <1>5 DEF Phases, RecvKind, RecvKey, Emitted, EkKinds, CtKinds,
              SendPayload, Outgoing, Stream, EkSuccessor, RoundKeys
<1>6. CASE b = "Ct1Acknowledged"
  BY <1>6 DEF Phases, RecvKind, RecvKey, Emitted, EkKinds, CtKinds,
              SendPayload, Outgoing, Stream, EkSuccessor, RoundKeys
<1>7. CASE b = "Ct2Sampled"
  BY <1>7 DEF Phases, RecvKind, RecvKey, Emitted, EkKinds, CtKinds,
              SendPayload, Outgoing, Stream, EkSuccessor, RoundKeys
<1> QED
  BY <1>1, <1>2, <1>3, <1>4, <1>5, <1>6, <1>7 DEF EkKinds, CtKinds

LEMMA RecvAKeys ==
  ASSUME NEW a, NEW b, Phases(a, b), NEW p \in Emitted("B", b), NEW done \in BOOLEAN
  PROVE  /\ RecvKey(a, p, done) =>
              /\ RoundKeys(a, b) = <<CtKey>>
              /\ RoundKeys(RecvKind(a, p, done), b) = <<CtKey, EkKey>>
         /\ ~RecvKey(a, p, done) =>
              RoundKeys(RecvKind(a, p, done), b) = RoundKeys(a, b)
<1>1. a \in EkKinds \cup {"NoHeaderReceived"}
  BY DEF Phases
<1>2. CASE a = "KeysUnsampled"
  BY <1>2 DEF Phases, RecvKind, RecvKey, Emitted, EkKinds, CtKinds,
              SendPayload, Outgoing, Stream, RoundKeys
<1>3. CASE a = "KeysSampled"
  BY <1>3 DEF Phases, RecvKind, RecvKey, Emitted, EkKinds, CtKinds,
              SendPayload, Outgoing, Stream, RoundKeys
<1>4. CASE a = "HeaderSent"
  BY <1>4 DEF Phases, RecvKind, RecvKey, Emitted, EkKinds, CtKinds,
              SendPayload, Outgoing, Stream, RoundKeys
<1>5. CASE a = "Ct1Received"
  BY <1>5 DEF Phases, RecvKind, RecvKey, Emitted, EkKinds, CtKinds,
              SendPayload, Outgoing, Stream, RoundKeys
<1>6. CASE a = "EkSentCt1Received"
  BY <1>6 DEF Phases, RecvKind, RecvKey, Emitted, EkKinds, CtKinds,
              SendPayload, Outgoing, Stream, RoundKeys
<1>7. CASE a = "NoHeaderReceived"
  BY <1>7 DEF Phases, RecvKind, RecvKey, Emitted, EkKinds, CtKinds,
              SendPayload, Outgoing, Stream, RoundKeys
<1> QED
  BY <1>1, <1>2, <1>3, <1>4, <1>5, <1>6, <1>7 DEF EkKinds, CtKinds

\* B leaves a stream only on a checked decode; so does A at its key.
LEMMA Checked ==
  ASSUME NEW k, NEW p, NEW done \in BOOLEAN
  PROVE  /\ k \in CtKinds /\ Incoming(RecvKind(k, p, done)) # Incoming(k) =>
              Authenticated(k, p) /\ done
         /\ RecvKey(k, p, done) => Authenticated(k, p) /\ done
BY DEF CtKinds, RecvKind, EkSuccessor, RecvKey, Incoming, Authenticated

\* A finished A collects the header stream only, which B never sends.
LEMMA FinishedA ==
  ASSUME NEW b, b \in CtKinds, NEW p \in Emitted("B", b), NEW done \in BOOLEAN
  PROVE  RecvKind("NoHeaderReceived", p, done) = "NoHeaderReceived"
BY DEF CtKinds, RecvKind, Emitted

LEMMA RecvStateType ==
  ASSUME NEW s \in State, NEW e \in Nat, NEW p \in Payloads, NEW done \in BOOLEAN
  PROVE  RecvState(s, e, p, done) \in State
<1>1. RecvKind(s.kind, p, done) \in Kinds
  BY DEF State, Kinds, EkKinds, CtKinds, RecvKind, EkSuccessor
<1>2. "KeysUnsampled" \in Kinds
  BY DEF Kinds, EkKinds
<1> QED
  BY <1>1, <1>2 DEF State, RecvState

LEMMA SameEpoch ==
  ASSUME NEW s \in State, NEW p \in Payloads, NEW done \in BOOLEAN,
         NEW accept \in BOOLEAN,
         NEW r, r = RecvStep(s, s.epoch, p, done, accept), r.ok
  PROVE  /\ Authenticated(s.kind, p) /\ done => accept
         /\ r.state = [s EXCEPT !.kind = RecvKind(@, p, done)]
         /\ r.key <=> RecvKey(s.kind, p, done)
<1>1. s.epoch \in Nat
  BY DEF State
<1>2. ~(s.epoch > s.epoch) /\ ~(s.epoch < s.epoch)
  BY <1>1
<1>3. Rejects(s, s.epoch, p, done, accept)
        <=> Authenticated(s.kind, p) /\ done /\ ~accept
  BY <1>2 DEF Rejects, OutOfRange
<1>4. RecvState(s, s.epoch, p, done) = [s EXCEPT !.kind = RecvKind(@, p, done)]
  BY <1>2 DEF RecvState
<1> QED
  BY <1>3, <1>4 DEF RecvStep

LEMMA AppendToOne ==
  ASSUME NEW S, NEW x \in S, NEW y \in S
  PROVE  Append(<<x>>, y) = <<x, y>>
<1>1. <<x>> \in Seq(S) /\ Len(<<x>>) = 1
  OBVIOUS
<1>2. <<x, y>> \in Seq(S) /\ Len(<<x, y>>) = 2
  OBVIOUS
<1>3. Append(<<x>>, y) \in Seq(S) /\ Len(Append(<<x>>, y)) = 2
  BY <1>1
<1>4. \A i \in 1..2 : Append(<<x>>, y)[i] = <<x, y>>[i]
  BY <1>1
<1> QED
  BY <1>1, <1>2, <1>3, <1>4, SeqEqual

-----------------------------------------------------------------------------
(* Types.                                                                  *)

KeyType == [party : Party, role : {"ct", "ek"}, epoch : Nat]

LEMMA SendType == ASSUME TypeOK, NEW p \in Party, Send(p) PROVE TypeOK'
<1> USE BoundsAssumption
<1>1. st[p] \in State /\ st[p].kind \in Kinds /\ st[p].epoch \in Nat
  BY DEF TypeOK, State
<1>2. [st[p] EXCEPT !.kind = SendKind(@)] \in State
  <2>1. SendKind(st[p].kind) \in Kinds
    BY <1>1 DEF SendKind, Kinds, EkKinds, CtKinds
  <2> QED
    BY <1>1, <2>1 DEF State
<1>3. SendPayload[st[p].kind] \in Payloads
  BY <1>1 DEF SendPayload, Payloads, Kinds, EkKinds, CtKinds
<1>4. /\ NextIdx(p) \in 0..Chunks
      /\ NextIdx(p) = 0 <=> Outgoing(st[p].kind) = "none"
  BY DEF NextIdx, TypeOK
<1> DEFINE m == [from |-> p, epoch |-> st[p].epoch, payload |-> SendPayload[st[p].kind],
                 idx |-> NextIdx(p), good |-> TRUE]
           key == [party |-> p, role |-> "ct", epoch |-> st[p].epoch]
<1>5. m \in Message
  BY <1>1, <1>3, <1>4 DEF Message, Outgoing
<1>6. key \in KeyType
  BY <1>1 DEF KeyType
<1>7. /\ st' = [st EXCEPT ![p] = [st[p] EXCEPT !.kind = SendKind(@)]]
      /\ sent' = sent \cup {m}
      /\ enc' = [enc EXCEPT ![p] = NextIdx(p)]
      /\ keys' = IF SendKey(st[p].kind) THEN Append(keys, key) ELSE keys
      /\ rx' = rx /\ forged' = forged
  BY DEF Send, SendStep
<1>8. keys' \in Seq(KeyType)
  <2>1. keys \in Seq(KeyType)
    BY DEF TypeOK, KeyType
  <2> QED
    BY <1>6, <1>7, <2>1
<1>9. st' \in [Party -> State] /\ sent' \subseteq Message /\ enc' \in [Party -> 0..Chunks]
  BY <1>2, <1>4, <1>5, <1>7 DEF TypeOK
<1> QED
  BY <1>7, <1>8, <1>9 DEF TypeOK, KeyType

LEMMA HeldType ==
  ASSUME TypeOK, NEW p \in Party, NEW m \in sent
  PROVE  /\ Held(p, m) \subseteq Chunk
         /\ Done(p, m) \in BOOLEAN /\ Accept(p, m) \in BOOLEAN
         /\ m \in Message
<1>1. m \in Message /\ rx[p] \subseteq Chunk /\ forged[p] \in BOOLEAN
  BY DEF TypeOK
<1>2. ASSUME Collects(st[p], m) PROVE [idx |-> m.idx, good |-> m.good] \in Chunk
  <2>1. Stream(m.payload) # "none"
    BY <1>2 DEF Collects, Incoming
  <2> QED
    BY <1>1, <2>1, BoundsAssumption DEF Message, Chunk
<1>3. Held(p, m) \subseteq Chunk
  BY <1>1, <1>2 DEF Held, Add
<1> QED
  BY <1>1, <1>3 DEF Done, Accept, AllGood, Collects

LEMMA ReceiveType ==
  ASSUME TypeOK, NEW p \in Party, NEW m \in sent, Receive(p, m) PROVE TypeOK'
<1> USE BoundsAssumption
<1> DEFINE r == Verdict(p, m)
           key == [party |-> p, role |-> "ek", epoch |-> st[p].epoch]
<1>1. st[p] \in State /\ st[p].epoch \in Nat /\ m.epoch \in Nat /\ m.payload \in Payloads
      /\ Held(p, m) \subseteq Chunk /\ Done(p, m) \in BOOLEAN
  BY HeldType DEF TypeOK, State, Message
<1>2. r.state \in State
  BY <1>1, RecvStateType DEF Verdict, RecvStep
<1>3. st' = [st EXCEPT ![p] = r.state] /\ sent' = sent
  BY DEF Receive
<1>4. st' \in [Party -> State]
  BY <1>2, <1>3 DEF TypeOK
<1>5. \E left \in SUBSET Chunk : rx' = [rx EXCEPT ![p] = left]
  BY <1>1 DEF Receive
<1>6. rx' \in [Party -> SUBSET Chunk]
  BY <1>5 DEF TypeOK
<1>7. forged' \in [Party -> BOOLEAN]
  BY DEF Receive, TypeOK
<1>8. enc' \in [Party -> 0..Chunks]
  BY DEF Receive, TypeOK
<1>9. keys' \in Seq(KeyType)
  <2>1. key \in KeyType
    BY <1>1 DEF KeyType
  <2>2. keys' = IF r.key THEN Append(keys, key) ELSE keys
    BY DEF Receive
  <2>3. keys \in Seq(KeyType)
    BY DEF TypeOK, KeyType
  <2> QED
    BY <2>1, <2>2, <2>3
<1> QED
  BY <1>3, <1>4, <1>6, <1>7, <1>8, <1>9 DEF TypeOK, KeyType

LEMMA CorruptType == ASSUME TypeOK, NEW m \in sent, Corrupt(m) PROVE TypeOK'
<1>1. [m EXCEPT !.good = FALSE] \in Message
  BY DEF TypeOK, Message
<1> QED
  BY <1>1 DEF Corrupt, TypeOK

LEMMA InitType == Init => TypeOK
<1> SUFFICES ASSUME Init PROVE TypeOK
  OBVIOUS
<1>1. InitA \in State /\ InitB \in State
  BY DEF InitA, InitB, State, Kinds, EkKinds, CtKinds
<1>2. st \in [Party -> State]
  BY <1>1 DEF Init
<1>3. keys = <<>> /\ <<>> \in Seq(KeyType)
  BY DEF Init
<1> QED
  BY <1>2, <1>3, BoundsAssumption DEF Init, TypeOK, KeyType

\* The types of the session: parties stay in states of states.rs, decoders
\* hold chunks of the stream only, and every message with a chunk has an index.
THEOREM TypeCorrect == Spec => []TypeOK
<1>1. TypeOK /\ [Next]_vars => TypeOK'
  <2> SUFFICES ASSUME TypeOK, [Next]_vars PROVE TypeOK'
    OBVIOUS
  <2>1. ASSUME NEW p \in Party, Send(p) PROVE TypeOK'
    BY <2>1, SendType
  <2>2. ASSUME NEW p \in Party, Deliver(p) PROVE TypeOK'
    BY <2>2, ReceiveType DEF Deliver
  <2>3. ASSUME NEW m \in sent, Corrupt(m) PROVE TypeOK'
    BY <2>3, CorruptType
  <2>4. CASE UNCHANGED vars
    BY <2>4 DEF vars, TypeOK
  <2> QED
    BY <2>1, <2>2, <2>3, <2>4 DEF Next
<1> QED
  BY <1>1, InitType, PTL DEF Spec

-----------------------------------------------------------------------------
(* The round.                                                              *)

LEMMA SendsA == ASSUME Inv, Send("A") PROVE (PhasesAgree /\ OneRound /\ SentTells /\ ForgedTells)'
<1>1. /\ st \in [Party -> State] /\ st["A"].epoch = 0 /\ st["B"].epoch = 0
      /\ Phases(A, B) /\ keys = RoundKeys(A, B)
  BY DEF Inv, TypeOK, PhasesAgree, OneRound, Party
<1>2. /\ Phases(SendKind(A), B)
      /\ RoundKeys(SendKind(A), B) = RoundKeys(A, B)
      /\ ~SendKey(A)
      /\ Emitted("A", A) \subseteq Emitted("A", SendKind(A))
      /\ SendPayload[A] \in Emitted("A", SendKind(A))
      /\ SendKind(A) = "NoHeaderReceived" <=> A = "NoHeaderReceived"
  BY <1>1, SendA
<1>3. /\ st' = [st EXCEPT !["A"] = [st["A"] EXCEPT !.kind = SendKind(@)]]
      /\ keys' = keys /\ forged' = forged
      /\ \E m : m.from = "A" /\ m.epoch = 0 /\ m.payload = SendPayload[A]
               /\ sent' = sent \cup {m}
  BY <1>1, <1>2 DEF Send, SendStep, A
<1>4. st["A"] \in State
  BY <1>1 DEF Party
<1>5. /\ A' = SendKind(A) /\ B' = B
      /\ st'["A"].epoch = 0 /\ st'["B"].epoch = 0
      /\ st'["A"].kind = SendKind(A) /\ st'["B"].kind = B
  BY <1>1, <1>3, <1>4 DEF A, B, Party, State
<1>6. PhasesAgree'
  BY <1>2, <1>5 DEF PhasesAgree
<1>7. OneRound'
  BY <1>1, <1>2, <1>3, <1>5 DEF OneRound, Party
<1>8. SentTells'
  <2> SUFFICES ASSUME NEW m \in sent' PROVE m.epoch = 0 /\ m.payload \in Emitted(m.from, st'[m.from].kind)
    BY DEF SentTells
  <2>1. CASE m \in sent
    <3>1. m.epoch = 0 /\ m.payload \in Emitted(m.from, st[m.from].kind) /\ m.from \in Party
      BY <2>1 DEF Inv, SentTells, TypeOK, Message
    <3> QED
      BY <1>2, <1>5, <3>1 DEF Party, A, B
  <2>2. CASE m \notin sent
    BY <1>2, <1>3, <1>5, <2>2
  <2> QED
    BY <2>1, <2>2
<1>9. ForgedTells'
  BY <1>2, <1>3, <1>5 DEF Inv, ForgedTells
<1> QED
  BY <1>6, <1>7, <1>8, <1>9

LEMMA SendsB == ASSUME Inv, Send("B") PROVE (PhasesAgree /\ OneRound /\ SentTells /\ ForgedTells)'
<1>1. /\ st \in [Party -> State] /\ st["A"].epoch = 0 /\ st["B"].epoch = 0
      /\ Phases(A, B) /\ keys = RoundKeys(A, B)
  BY DEF Inv, TypeOK, PhasesAgree, OneRound, Party
<1>2. /\ Phases(A, SendKind(B))
      /\ Emitted("B", B) \subseteq Emitted("B", SendKind(B))
      /\ SendPayload[B] \in Emitted("B", SendKind(B))
  BY <1>1, SendB
<1>3. /\ SendKey(B)  => RoundKeys(A, B) = <<>> /\ RoundKeys(A, SendKind(B)) = <<CtKey>>
      /\ ~SendKey(B) => RoundKeys(A, SendKind(B)) = RoundKeys(A, B)
  BY <1>1, SendBKeys
<1>4. /\ st' = [st EXCEPT !["B"] = [st["B"] EXCEPT !.kind = SendKind(@)]]
      /\ keys' = IF SendKey(B) THEN Append(keys, CtKey) ELSE keys
      /\ forged' = forged
      /\ \E m : m.from = "B" /\ m.epoch = 0 /\ m.payload = SendPayload[B]
               /\ sent' = sent \cup {m}
  BY <1>1 DEF Send, SendStep, B, CtKey
<1>5. st["B"] \in State
  BY <1>1 DEF Party
<1>6. /\ A' = A /\ B' = SendKind(B)
      /\ st'["A"].epoch = 0 /\ st'["B"].epoch = 0
      /\ st'["B"].kind = SendKind(B) /\ st'["A"].kind = A
  BY <1>1, <1>4, <1>5 DEF A, B, Party, State
<1>7. PhasesAgree'
  BY <1>2, <1>6 DEF PhasesAgree
<1>8. OneRound'
  <2>1. Append(<<>>, CtKey) = <<CtKey>>
    OBVIOUS
  <2>2. keys' = RoundKeys(A, SendKind(B))
    BY <1>1, <1>3, <1>4, <2>1
  <2> QED
    BY <1>6, <2>2 DEF OneRound, Party
<1>9. SentTells'
  <2> SUFFICES ASSUME NEW m \in sent' PROVE m.epoch = 0 /\ m.payload \in Emitted(m.from, st'[m.from].kind)
    BY DEF SentTells
  <2>1. CASE m \in sent
    <3>1. m.epoch = 0 /\ m.payload \in Emitted(m.from, st[m.from].kind) /\ m.from \in Party
      BY <2>1 DEF Inv, SentTells, TypeOK, Message
    <3> QED
      BY <1>2, <1>6, <3>1 DEF Party, A, B
  <2>2. CASE m \notin sent
    BY <1>2, <1>4, <1>6, <2>2
  <2> QED
    BY <2>1, <2>2
<1>10. ForgedTells'
  BY <1>4, <1>6 DEF Inv, ForgedTells
<1> QED
  BY <1>7, <1>8, <1>9, <1>10

\* A delivery between two parties of the first round, in terms of the tables.
LEMMA Delivery ==
  ASSUME Inv, NEW p \in Party, NEW m \in sent, Receive(p, m)
  PROVE  /\ m.from = Peer(p) /\ m.payload \in Emitted(Peer(p), st[Peer(p)].kind)
         /\ m.payload \in Payloads
         /\ Done(p, m) \in BOOLEAN
         /\ Authenticated(st[p].kind, m.payload) /\ Done(p, m) => Accept(p, m)
         /\ LET k == RecvKind(st[p].kind, m.payload, Done(p, m)) IN
              /\ st' = [st EXCEPT ![p] = [st[p] EXCEPT !.kind = k]]
              /\ st[p] \in State
              /\ forged' = [forged EXCEPT ![p] = @ \/ (Incoming(k) # Incoming(st[p].kind)
                                                        /\ ~AllGood(Held(p, m)))]
         /\ keys' = IF RecvKey(st[p].kind, m.payload, Done(p, m))
                    THEN Append(keys, [party |-> p, role |-> "ek", epoch |-> 0])
                    ELSE keys
         /\ sent' = sent
<1> DEFINE r == Verdict(p, m)
<1>1. st[p] \in State /\ st[p].epoch = 0 /\ Peer(p) \in Party
  BY DEF Inv, TypeOK, OneRound, Party, Peer
<1>2. m.from = Peer(p) /\ r.ok
  BY DEF Receive
<1>3. m.epoch = 0 /\ m.payload \in Emitted(Peer(p), st[Peer(p)].kind)
  BY <1>2 DEF Inv, SentTells
<1>4. Done(p, m) \in BOOLEAN /\ Accept(p, m) \in BOOLEAN /\ m.payload \in Payloads
  BY HeldType DEF Inv, Message
<1>5. r = RecvStep(st[p], st[p].epoch, m.payload, Done(p, m), Accept(p, m))
  BY <1>1, <1>3 DEF Verdict
<1>6. /\ Authenticated(st[p].kind, m.payload) /\ Done(p, m) => Accept(p, m)
      /\ r.state = [st[p] EXCEPT !.kind = RecvKind(@, m.payload, Done(p, m))]
      /\ r.key <=> RecvKey(st[p].kind, m.payload, Done(p, m))
  <2> HIDE DEF r
  <2> QED
    BY <1>1, <1>2, <1>4, <1>5, SameEpoch
<1>7. r.state.kind = RecvKind(st[p].kind, m.payload, Done(p, m))
  BY <1>1, <1>6 DEF State
<1>8. /\ st' = [st EXCEPT ![p] = r.state]
      /\ forged' = [forged EXCEPT ![p] = @ \/ (Incoming(r.state.kind) # Incoming(st[p].kind)
                                                /\ ~AllGood(Held(p, m)))]
      /\ keys' = IF r.key
                 THEN Append(keys, [party |-> p, role |-> "ek", epoch |-> st[p].epoch])
                 ELSE keys
      /\ sent' = sent
  BY DEF Receive
<1> HIDE DEF r
<1> QED
  BY <1>1, <1>2, <1>3, <1>4, <1>6, <1>7, <1>8

LEMMA ReceivesA ==
  ASSUME Inv, NEW m \in sent, Receive("A", m)
  PROVE  (PhasesAgree /\ OneRound /\ SentTells /\ ForgedTells)'
<1> DEFINE k == RecvKind(A, m.payload, Done("A", m))
<1>1. /\ st \in [Party -> State] /\ st["A"].epoch = 0 /\ st["B"].epoch = 0
      /\ Phases(A, B) /\ keys = RoundKeys(A, B)
      /\ "A" \in Party /\ Peer("A") = "B"
  BY DEF Inv, TypeOK, PhasesAgree, OneRound, Party, Peer
<1>2. /\ m.payload \in Emitted("B", B) /\ Done("A", m) \in BOOLEAN
      /\ Authenticated(A, m.payload) /\ Done("A", m) => Accept("A", m)
      /\ st' = [st EXCEPT !["A"] = [st["A"] EXCEPT !.kind = k]]
      /\ st["A"] \in State
      /\ forged' = [forged EXCEPT !["A"] = @ \/ (Incoming(k) # Incoming(A)
                                                  /\ ~AllGood(Held("A", m)))]
      /\ keys' = IF RecvKey(A, m.payload, Done("A", m)) THEN Append(keys, EkKey) ELSE keys
      /\ sent' = sent
  BY <1>1, Delivery DEF A, B, EkKey
<1>3. /\ Phases(k, B)
      /\ Emitted("A", A) \subseteq Emitted("A", k)
      /\ k = "NoHeaderReceived" /\ A # "NoHeaderReceived"
           <=> RecvKey(A, m.payload, Done("A", m))
  BY <1>1, <1>2, RecvA
<1>4. /\ RecvKey(A, m.payload, Done("A", m)) =>
           RoundKeys(A, B) = <<CtKey>> /\ RoundKeys(k, B) = <<CtKey, EkKey>>
      /\ ~RecvKey(A, m.payload, Done("A", m)) => RoundKeys(k, B) = RoundKeys(A, B)
  BY <1>1, <1>2, RecvAKeys
<1> HIDE DEF k
<1>5. /\ A' = k /\ B' = B /\ st'["A"].epoch = 0 /\ st'["B"].epoch = 0
      /\ st'["A"].kind = k /\ st'["B"].kind = B
  BY <1>1, <1>2 DEF A, B, Party, State
<1>6. PhasesAgree'
  BY <1>3, <1>5 DEF PhasesAgree
<1>7. OneRound'
  <2>1. Append(<<CtKey>>, EkKey) = <<CtKey, EkKey>>
    BY AppendToOne, CtKey \in {CtKey, EkKey}, EkKey \in {CtKey, EkKey}
  <2>2. keys' = RoundKeys(k, B)
    BY <1>1, <1>2, <1>4, <2>1
  <2> QED
    BY <1>5, <2>2 DEF OneRound, Party
<1>8. SentTells'
  <2> SUFFICES ASSUME NEW n \in sent PROVE n.epoch = 0 /\ n.payload \in Emitted(n.from, st'[n.from].kind)
    BY <1>2 DEF SentTells
  <2>1. n.epoch = 0 /\ n.payload \in Emitted(n.from, st[n.from].kind) /\ n.from \in Party
    BY DEF Inv, SentTells, TypeOK, Message
  <2> QED
    BY <1>3, <1>5, <2>1 DEF Party, A, B
<1>9. ForgedTells'
  <2>1. forged \in [Party -> BOOLEAN] /\ ~forged["B"] /\ (A = "NoHeaderReceived" => ~forged["A"])
    BY DEF Inv, TypeOK, ForgedTells
  <2>2. ~forged'["B"]
    BY <1>2, <2>1 DEF Party
  <2>3. ASSUME k = "NoHeaderReceived" PROVE ~forged'["A"]
    <3>1. CASE A = "NoHeaderReceived"
      BY <1>1, <1>2, <2>1, <2>3, <3>1
    <3>2. CASE A # "NoHeaderReceived"
      <4>1. Authenticated(A, m.payload) /\ Done("A", m)
        BY <1>2, <1>3, <2>3, <3>2, Checked
      <4>2. AllGood(Held("A", m)) /\ ~forged["A"]
        BY <1>2, <4>1 DEF Accept
      <4> QED
        BY <1>1, <1>2, <2>1, <4>2
    <3> QED
      BY <3>1, <3>2
  <2> QED
    BY <1>5, <2>2, <2>3 DEF ForgedTells
<1> QED
  BY <1>6, <1>7, <1>8, <1>9

LEMMA ReceivesB ==
  ASSUME Inv, NEW m \in sent, Receive("B", m)
  PROVE  (PhasesAgree /\ OneRound /\ SentTells /\ ForgedTells)'
<1> DEFINE k == RecvKind(B, m.payload, Done("B", m))
<1>1. /\ st \in [Party -> State] /\ st["A"].epoch = 0 /\ st["B"].epoch = 0
      /\ Phases(A, B) /\ keys = RoundKeys(A, B)
      /\ "B" \in Party /\ Peer("B") = "A" /\ B \in CtKinds
  BY DEF Inv, TypeOK, PhasesAgree, Phases, OneRound, Party, Peer
<1>2. /\ m.payload \in Emitted("A", A) /\ Done("B", m) \in BOOLEAN
      /\ Authenticated(B, m.payload) /\ Done("B", m) => Accept("B", m)
      /\ st' = [st EXCEPT !["B"] = [st["B"] EXCEPT !.kind = k]]
      /\ st["B"] \in State
      /\ forged' = [forged EXCEPT !["B"] = @ \/ (Incoming(k) # Incoming(B)
                                                  /\ ~AllGood(Held("B", m)))]
      /\ RecvKey(B, m.payload, Done("B", m)) \/ keys' = keys
      /\ sent' = sent
  BY <1>1, Delivery DEF A, B
<1>3. /\ Phases(A, k)
      /\ Emitted("B", B) \subseteq Emitted("B", k)
      /\ ~RecvKey(B, m.payload, Done("B", m))
      /\ RoundKeys(A, k) = RoundKeys(A, B)
  BY <1>1, <1>2, RecvB
<1>4. Incoming(k) # Incoming(B) => Authenticated(B, m.payload) /\ Done("B", m)
  BY <1>1, <1>2, Checked
<1> HIDE DEF k
<1>5. /\ A' = A /\ B' = k /\ st'["A"].epoch = 0 /\ st'["B"].epoch = 0
      /\ st'["A"].kind = A /\ st'["B"].kind = k
  BY <1>1, <1>2 DEF A, B, Party, State
<1>6. PhasesAgree'
  BY <1>3, <1>5 DEF PhasesAgree
<1>7. OneRound'
  BY <1>1, <1>2, <1>3, <1>5 DEF OneRound, Party
<1>8. SentTells'
  <2> SUFFICES ASSUME NEW n \in sent PROVE n.epoch = 0 /\ n.payload \in Emitted(n.from, st'[n.from].kind)
    BY <1>2 DEF SentTells
  <2>1. n.epoch = 0 /\ n.payload \in Emitted(n.from, st[n.from].kind) /\ n.from \in Party
    BY DEF Inv, SentTells, TypeOK, Message
  <2> QED
    BY <1>3, <1>5, <2>1 DEF Party, A, B
<1>9. ForgedTells'
  <2>1. forged \in [Party -> BOOLEAN] /\ ~forged["B"] /\ (A = "NoHeaderReceived" => ~forged["A"])
    BY DEF Inv, TypeOK, ForgedTells
  <2>2. Incoming(k) # Incoming(B) => AllGood(Held("B", m))
    BY <1>2, <1>4 DEF Accept
  <2> QED
    BY <1>2, <1>5, <2>1, <2>2 DEF ForgedTells, Party
<1> QED
  BY <1>6, <1>7, <1>8, <1>9

LEMMA Corrupts ==
  ASSUME Inv, NEW m \in sent, Corrupt(m)
  PROVE  (PhasesAgree /\ OneRound /\ SentTells /\ ForgedTells)'
<1>1. /\ sent' = sent \cup {[m EXCEPT !.good = FALSE]}
      /\ st' = st /\ keys' = keys /\ forged' = forged
  BY DEF Corrupt
<1>2. m \in Message
  BY DEF Inv, TypeOK
<1>3. SentTells'
  BY <1>1, <1>2 DEF Inv, SentTells, Message
<1> QED
  BY <1>1, <1>3 DEF Inv, PhasesAgree, OneRound, ForgedTells, A, B

LEMMA Invariance == Spec => []Inv
<1>1. Init => Inv
  <2> SUFFICES ASSUME Init PROVE Inv
    OBVIOUS
  <2>1. A = "KeysUnsampled" /\ B = "NoHeaderReceived"
        /\ st["A"].epoch = 0 /\ st["B"].epoch = 0
    BY DEF Init, A, B, InitA, InitB, Party
  <2>2. PhasesAgree
    BY <2>1 DEF PhasesAgree, Phases, EkKinds, CtKinds, Outgoing, Stream, SendPayload
  <2>3. OneRound
    BY <2>1 DEF OneRound, Init, RoundKeys, Party
  <2>4. SentTells /\ ForgedTells
    BY DEF Init, SentTells, ForgedTells, Party
  <2> QED
    BY <2>2, <2>3, <2>4, InitType DEF Inv
<1>2. Inv /\ [Next]_vars => Inv'
  <2> SUFFICES ASSUME Inv, [Next]_vars PROVE Inv'
    OBVIOUS
  <2> USE DEF Inv
  <2>1. ASSUME NEW p \in Party, Send(p) PROVE Inv'
    BY <2>1, SendType, SendsA, SendsB DEF Party
  <2>2. ASSUME NEW p \in Party, NEW m \in sent, Receive(p, m) PROVE Inv'
    BY <2>2, ReceiveType, ReceivesA, ReceivesB DEF Party
  <2>3. ASSUME NEW m \in sent, Corrupt(m) PROVE Inv'
    BY <2>3, CorruptType, Corrupts
  <2>4. CASE UNCHANGED vars
    BY <2>4 DEF vars, TypeOK, PhasesAgree, OneRound, SentTells, ForgedTells, A, B
  <2> QED
    BY <2>1, <2>2, <2>3, <2>4 DEF Next, Deliver
<1> QED
  BY <1>1, <1>2, PTL DEF Spec

-----------------------------------------------------------------------------
(* What it shows of every session.                                         *)

\* A party stops sending a stream, and drops its decoder for it, only when
\* the peer is done with it: no loss, delay, repetition or damage can leave
\* one side waiting for chunks nobody sends any more.
THEOREM StreamsHandedOver == Spec => []PhasesAgree
BY Invariance, PTL DEF Inv

\* Two parties that run states.rs never start a second round: recv_step
\* leaves the EK sender in the epoch it has just finished (states.rs:277),
\* so the epoch+1 message that Ct2Sampled waits for (:357) is never sent.
THEOREM OnlyOneRound == Spec => []OneRound
BY Invariance, PTL DEF Inv

\* A party with a key has decoded no corrupt chunk.
THEOREM GenuineKeys == Spec => []KeysGenuine
<1>1. Inv => KeysGenuine
  <2> SUFFICES ASSUME Inv, NEW i \in 1..Len(keys) PROVE ~forged[keys[i].party]
    BY DEF KeysGenuine
  <2>1. keys = RoundKeys(A, B) /\ ~forged["B"] /\ (A = "NoHeaderReceived" => ~forged["A"])
    BY DEF Inv, OneRound, ForgedTells
  <2>2. CASE B \in {"NoHeaderReceived", "HeaderReceived"}
    <3>1. keys = <<>>
      BY <2>1, <2>2 DEF RoundKeys
    <3> QED
      BY <3>1
  <2>3. CASE B \notin {"NoHeaderReceived", "HeaderReceived"} /\ A = "NoHeaderReceived"
    <3>1. keys = <<CtKey, EkKey>> \/ keys = <<CtKey>>
      BY <2>1, <2>3 DEF RoundKeys
    <3>2. keys[i] \in {CtKey, EkKey}
      BY <3>1
    <3> QED
      BY <2>1, <2>3, <3>2 DEF CtKey, EkKey
  <2>4. CASE B \notin {"NoHeaderReceived", "HeaderReceived"} /\ A # "NoHeaderReceived"
    <3>1. keys = <<CtKey>>
      BY <2>1, <2>4 DEF RoundKeys
    <3>2. keys[i] = CtKey
      BY <3>1
    <3> QED
      BY <2>1, <3>2 DEF CtKey
  <2> QED
    BY <2>2, <2>3, <2>4
<1> QED
  BY <1>1, Invariance, PTL

\* Nothing an honest peer sends is ever out of range, and recv_step returns
\* None only when a check it completes covers a corrupt chunk.
THEOREM RejectsOnlyDamage == Spec => []OnlyDamageRejected
<1>1. Inv => OnlyDamageRejected
  <2> SUFFICES ASSUME Inv, NEW p \in Party, NEW m \in sent, m.from = Peer(p), ~Verdict(p, m).ok
               PROVE  ~AllGood(Held(p, m)) \/ forged[p]
    BY DEF OnlyDamageRejected
  <2>1. m.epoch = 0 /\ st[p].epoch = 0
    BY DEF Inv, SentTells, OneRound
  <2>2. ~OutOfRange(st[p], m.epoch)
    BY <2>1 DEF OutOfRange
  <2>3. ~Accept(p, m)
    BY <2>2 DEF Verdict, RecvStep, Rejects
  <2> QED
    BY <2>3 DEF Accept
<1> QED
  BY <1>1, Invariance, PTL

\* Every step of a session is a step of SpqrRounds or leaves the keys alone.
LEMMA RoundStep == Inv /\ [Next]_vars => [Rounds!Next]_keys
<1> SUFFICES ASSUME Inv, [Next]_vars, keys' # keys PROVE Rounds!Next
  OBVIOUS
<1>1. /\ Phases(A, B) /\ keys = RoundKeys(A, B)
      /\ st["A"].epoch = 0 /\ st["B"].epoch = 0
  BY DEF Inv, PhasesAgree, OneRound, Party
<1>2. ~Send("A")
  BY <1>1, SendA DEF Send, SendStep, A
<1>3. ASSUME Send("B") PROVE Rounds!Encapsulate
  <2>1. SendKey(B) /\ keys' = Append(keys, CtKey)
    BY <1>1, <1>3 DEF Send, SendStep, B, CtKey
  <2>2. keys = <<>>
    BY <1>1, <2>1, SendBKeys
  <2>3. Len(keys) = 0 /\ 0 % 2 = 0 /\ 0 \div 2 = 0
    BY <2>2
  <2> QED
    BY <2>1, <2>3 DEF Rounds!Encapsulate, Rounds!CtSender, CtKey
<1>4. ASSUME NEW m \in sent, Receive("A", m) PROVE Rounds!Decapsulate
  <2>1. /\ m.payload \in Emitted("B", B) /\ Done("A", m) \in BOOLEAN
        /\ keys' = IF RecvKey(A, m.payload, Done("A", m)) THEN Append(keys, EkKey) ELSE keys
    BY <1>4, Delivery DEF Party, Peer, A, B, EkKey
  <2>2. keys = <<CtKey>> /\ keys' = Append(keys, EkKey)
    BY <1>1, <2>1, RecvAKeys
  <2>3. Len(keys) = 1 /\ 1 % 2 = 1 /\ 1 \div 2 = 0 /\ 0 % 2 = 0
    BY <2>2
  <2> QED
    BY <2>2, <2>3 DEF Rounds!Decapsulate, Rounds!EkSender, EkKey
<1>5. ASSUME NEW m \in sent, Receive("B", m) PROVE FALSE
  <2>1. /\ m.payload \in Emitted("A", A) /\ Done("B", m) \in BOOLEAN
        /\ RecvKey(B, m.payload, Done("B", m)) \/ keys' = keys
    BY <1>5, Delivery DEF Party, Peer, A, B
  <2> QED
    BY <1>1, <2>1, RecvB
<1>6. ASSUME NEW m \in sent, Corrupt(m) PROVE FALSE
  BY <1>6 DEF Corrupt
<1> QED
  BY <1>2, <1>3, <1>4, <1>5, <1>6 DEF Next, Deliver, Party, vars, Rounds!Next

\* The session implements SpqrRounds: for every number of chunks and of
\* corrupted messages, the keys of send_step and recv_step come ct first, ek
\* second, once each, from the party whose turn it is.
THEOREM SessionImplementsRounds == Spec => RoundsSpec
<1>1. Init => Rounds!Init
  BY DEF Init, Rounds!Init
<1> QED
  BY <1>1, RoundStep, Invariance, PTL DEF Spec, RoundsSpec, Rounds!Spec

-----------------------------------------------------------------------------
(* The MACs.                                                               *)

LEMMA CompareBits ==
  /\ NoBit \notin SomeBit /\ SomeBit # {}
  /\ \A c \in SomeBit : compare(c, NoBit) # 0 /\ compare(NoBit, c) # 0
  /\ compare(NoBit, NoBit) = 0
<1>1. MACSIZE = 32
  BY DEF MACSIZE
<1>2. NoBit \in [0..(MACSIZE - 1) -> Byte8]
  BY DEF NoBit, Byte8
<1>3. ASSUME NEW c \in SomeBit PROVE c \in [0..(MACSIZE - 1) -> Byte8] /\ c # NoBit
  <2>1. PICK i \in {0, 15, MACSIZE - 1}, b \in {0, 7} : c = [NoBit EXCEPT ![i] = {b}]
    BY DEF SomeBit
  <2>2. i \in 0..(MACSIZE - 1) /\ {b} \in Byte8
    BY <1>1 DEF Byte8
  <2>3. c \in [0..(MACSIZE - 1) -> Byte8] /\ c[i] = {b}
    BY <1>2, <2>1, <2>2
  <2>4. NoBit[i] = {}
    BY <2>2 DEF NoBit
  <2> QED
    BY <2>3, <2>4
<1>4. [NoBit EXCEPT ![0] = {0}] \in SomeBit
  BY DEF SomeBit
<1> QED
  BY <1>2, <1>3, <1>4, CompareExact

\* The verdicts on a MAC that is right, and on one that is not.
LEMMA VerdictsDecide ==
  ASSUME NEW c, NEW m, NEW intact \in BOOLEAN
  PROVE  Verdicts(c, m, intact) = {c = m /\ intact}
<1>1. CASE c = m /\ intact
  <2>1. Verdicts(c, m, intact) = {compare(NoBit, NoBit) = 0}
    BY <1>1 DEF Verdicts
  <2> QED
    BY <1>1, <2>1, CompareBits
<1>2. CASE c = m /\ ~intact
  <2>1. Verdicts(c, m, intact) = {compare(NoBit, r) = 0 : r \in SomeBit}
    BY <1>2 DEF Verdicts
  <2>2. \A r \in SomeBit : (compare(NoBit, r) = 0) = FALSE
    BY CompareBits
  <2> QED
    BY <1>2, <2>1, <2>2, CompareBits
<1>3. CASE c # m
  <2>1. Verdicts(c, m, intact) = {compare(r, NoBit) = 0 : r \in SomeBit}
    BY <1>3 DEF Verdicts
  <2>2. \A r \in SomeBit : (compare(r, NoBit) = 0) = FALSE
    BY CompareBits
  <2> QED
    BY <1>3, <2>1, <2>2, CompareBits
<1> QED
  BY <1>1, <1>2, <1>3

LEMMA PartsDiffer ==
  ASSUME NEW v, NEW n, NEW a \in BOOLEAN, NEW b \in BOOLEAN, Part(v, a, n) = Part(v, b, n)
  PROVE  a = b
<1>1. Part(v, a, n).v = (IF a THEN <<v>> ELSE <<"SPOILT", v>>)
      /\ Part(v, b, n).v = (IF b THEN <<v>> ELSE <<"SPOILT", v>>)
  BY DEF Part, Piece
<1>2. <<v>> # <<"SPOILT", v>>
  <2>1. Len(<<v>>) = 1 /\ Len(<<"SPOILT", v>>) = 2
    OBVIOUS
  <2> QED
    BY <2>1
<1> QED
  BY <1>1, <1>2

\* The two buffers the MACs cover fill their lengths exactly.
LEMMA HdrData ==
  ASSUME NEW ok \in BOOLEAN
  PROVE  /\ Buffer(Hdr(ok)) /\ Buffer(mac_hdr_data(0, Hdr(ok)))
         /\ Bytes(mac_hdr_data(0, Hdr(ok))) = 105
         /\ Take(mac_hdr_data(0, Hdr(ok)), 105) = mac_hdr_data(0, Hdr(ok))
<1> DEFINE x == mac_hdr_data(0, Hdr(ok))
<1>1. Buffer(<<HDR_LABEL, epoch_to_be_bytes(0)>>)
      /\ Bytes(<<HDR_LABEL, epoch_to_be_bytes(0)>>) = 33 + 8
  BY BytesOfTwo DEF HDR_LABEL, epoch_to_be_bytes
<1>2. Buffer(Hdr(ok)) /\ Bytes(Hdr(ok)) = 64
  BY BytesOfOne DEF Hdr, Part
<1>3. Buffer(x) /\ Bytes(x) = (33 + 8) + 64
  BY <1>1, <1>2, BytesOfBoth DEF mac_hdr_data
<1> HIDE DEF x
<1>4. Take(x, 105) = x
  BY <1>3, TakeExact
<1> QED
  BY <1>2, <1>3, <1>4 DEF x

CtLen == 1131

LEMMA MacCt ==
  ASSUME NEW auth, NEW ep, NEW ct
  PROVE  mac_ct(auth, ep, ct) = hmac_sha256_var(auth.mac_key, mac_ct_data(ep, ct), CtLen)
BY DEF mac_ct, CtLen

LEMMA CtData ==
  ASSUME NEW ok1, NEW ok2
  PROVE  /\ Buffer(Ct(ok1, ok2)) /\ Buffer(mac_ct_data(0, Ct(ok1, ok2)))
         /\ Bytes(mac_ct_data(0, Ct(ok1, ok2))) = CtLen
         /\ Take(mac_ct_data(0, Ct(ok1, ok2)), CtLen) = mac_ct_data(0, Ct(ok1, ok2))
<1> DEFINE x == mac_ct_data(0, Ct(ok1, ok2))
<1>1. Buffer(<<CT_LABEL, epoch_to_be_bytes(0)>>)
      /\ Bytes(<<CT_LABEL, epoch_to_be_bytes(0)>>) = 35 + 8
  BY BytesOfTwo DEF CT_LABEL, epoch_to_be_bytes
<1>2. Buffer(Ct(ok1, ok2)) /\ Bytes(Ct(ok1, ok2)) = 960 + 128
  BY BytesOfTwo DEF Ct, Part
<1>3. Buffer(x) /\ Bytes(x) = (35 + 8) + (960 + 128)
  BY <1>1, <1>2, BytesOfBoth DEF mac_ct_data
<1> HIDE DEF x
<1>4. Bytes(x) = CtLen /\ CtLen \in Nat
  BY <1>3 DEF CtLen
<1>5. Take(x, CtLen) = x
  BY <1>3, <1>4, TakeExact
<1> QED
  BY <1>2, <1>3, <1>4, <1>5 DEF x

\* A spoilt header has another MAC under the same key.
LEMMA HdrMacTells == \A ok \in BOOLEAN : HdrMac(ok) = HdrMac(TRUE) <=> ok
<1> SUFFICES ASSUME NEW ok \in BOOLEAN, HdrMac(ok) = HdrMac(TRUE) PROVE ok
  BY Zenon
<1> DEFINE k == Root.mac_key
           x == mac_hdr_data(0, Hdr(ok))
           y == mac_hdr_data(0, Hdr(TRUE))
<1>0. TRUE \in BOOLEAN
  OBVIOUS
<1>1. hmac_sha256_var(k, x, 105) = hmac_sha256_var(k, y, 105)
  BY <1>0, Zenon DEF HdrMac, mac_hdr
<1>2. /\ Buffer(x) /\ Take(x, 105) = x /\ Buffer(y) /\ Take(y, 105) = y
      /\ Buffer(Hdr(ok)) /\ Buffer(Hdr(TRUE))
  BY <1>0, HdrData, Zenon
<1>3. x = y => SameAfterTwo(HDR_LABEL, epoch_to_be_bytes(0), Hdr(ok),
                            HDR_LABEL, epoch_to_be_bytes(0), Hdr(TRUE))
  BY Zenon DEF SameAfterTwo, mac_hdr_data
<1> HIDE DEF k, x, y
<1>4. Take(x, 105) = Take(y, 105)
  BY <1>1, <1>2, HmacTells
<1>5. Hdr(ok) = Hdr(TRUE)
  BY <1>2, <1>3, <1>4, TwoPiecesCancel
<1>6. Part("HDR", ok, 64) = Part("HDR", TRUE, 64)
  BY <1>5 DEF Hdr
<1> QED
  BY <1>0, <1>6, PartsDiffer, Zenon

\* Equal MACs of ciphertexts cover the same ciphertext, whatever the keys.
LEMMA CtCovered ==
  ASSUME NEW k, NEW l, NEW s, NEW t, NEW x, NEW y,
         Buffer(s), x = mac_ct_data(0, s), Buffer(x), Take(x, CtLen) = x,
         Buffer(t), y = mac_ct_data(0, t), Buffer(y), Take(y, CtLen) = y,
         hmac_sha256_var(k, x, CtLen) = hmac_sha256_var(l, y, CtLen)
  PROVE  s = t
<1>1. x = y
  <2>1. Take(x, CtLen) = Take(y, CtLen)
    <3>1. CtLen \in Nat
      BY DEF CtLen
    <3> QED
      BY <3>1, HmacTells
  <2> QED
    BY <2>1, Zenon
<1>2. SameAfterTwo(CT_LABEL, epoch_to_be_bytes(0), s, CT_LABEL, epoch_to_be_bytes(0), t)
  BY <1>1, Zenon DEF SameAfterTwo, mac_ct_data
<1> QED
  BY <1>2, TwoPiecesCancel

\* So does a spoilt ct1 or ct2, whatever key comes of decapsulating it.
LEMMA CtMacTells ==
  \A ok1, ok2 \in BOOLEAN : CtMac(ok1, ok2) = CtMac(TRUE, TRUE) <=> ok1 /\ ok2
<1> TAKE ok1, ok2 \in BOOLEAN
<1> DEFINE k == update(Root, 0, Secret(ok1 /\ ok2)).mac_key
           l == update(Root, 0, Secret(TRUE /\ TRUE)).mac_key
           s == Ct(ok1, ok2)
           t == Ct(TRUE, TRUE)
           x == mac_ct_data(0, s)
           y == mac_ct_data(0, t)
           same == CtMac(ok1, ok2) = CtMac(TRUE, TRUE)
<1>1. ok1 /\ ok2 => same
  BY Zenon
<1>2. same => hmac_sha256_var(k, x, CtLen) = hmac_sha256_var(l, y, CtLen)
  BY MacCt, Zenon DEF CtMac
<1>3. Buffer(s) /\ Buffer(x) /\ Take(x, CtLen) = x
  BY CtData
<1>4. Buffer(t) /\ Buffer(y) /\ Take(y, CtLen) = y
  BY CtData
<1>5. s = t => (ok1 <=> TRUE) /\ (ok2 <=> TRUE)
  <2> DEFINE m == 960
             n == 128
  <2>1. s = <<Part("CT1", ok1, m), Part("CT2", ok2, n)>>
        /\ t = <<Part("CT1", TRUE, m), Part("CT2", TRUE, n)>>
    BY DEF Ct
  <2> HIDE DEF m, n
  <2>2. Part("CT1", ok1, m) = Part("CT1", TRUE, m) => (ok1 <=> TRUE)
    BY PartsDiffer
  <2>3. Part("CT2", ok2, n) = Part("CT2", TRUE, n) => (ok2 <=> TRUE)
    BY PartsDiffer
  <2> DEFINE a == Part("CT1", ok1, m)
             b == Part("CT2", ok2, n)
             c == Part("CT1", TRUE, m)
             d == Part("CT2", TRUE, n)
  <2>4. <<a, b>> = <<c, d>> => a = c /\ b = d
    <3> HIDE DEF a, b, c, d
    <3> QED
      OBVIOUS
  <2>5. s = <<a, b>> /\ t = <<c, d>>
    BY <2>1
  <2> HIDE DEF s, t, a, b, c, d
  <2>6. s = t => a = c /\ b = d
    BY <2>4, <2>5
  <2> QED
    BY <2>2, <2>3, <2>6 DEF a, b, c, d
<1> HIDE DEF k, l
<1>6. same => s = t
  <2>1. ASSUME same PROVE s = t
    <3>1. x = mac_ct_data(0, s) /\ y = mac_ct_data(0, t)
      OBVIOUS
    <3>2. hmac_sha256_var(k, x, CtLen) = hmac_sha256_var(l, y, CtLen)
      BY <1>2, <2>1
    <3> HIDE DEF same, s, t, x, y
    <3> QED
      BY <1>3, <1>4, <3>1, <3>2, CtCovered
  <2> HIDE DEF same
  <2> QED
    BY <2>1
<1>7. same <=> ok1 /\ ok2
  <2> HIDE DEF same, s, t
  <2> QED
    BY <1>1, <1>5, <1>6
<1> QED
  BY <1>7 DEF same

\* What decides recv_step, that everything the check covers arrived as it was
\* sent, is what compare says of the MACs: every damage, the unchecked ct1
\* included, is turned away and nothing else is (states.rs:202,
\* authenticator.rs:205-213).
THEOREM TheoremMacsDecide == Spec => []MacsDecide
<1>1. Inv => MacsDecide
  <2> DEFINE Right(p, m, d) ==
               /\ st[p].kind = "NoHeaderReceived" =>
                    Verdicts(HdrMac(d.body), HdrMac(TRUE), d.mac) = {Accept(p, m)}
               /\ st[p].kind = "EkSentCt1Received" =>
                    Verdicts(CtMac(~forged[p], d.body), CtMac(TRUE, TRUE), d.mac) = {Accept(p, m)}
  <2>0. (\A p \in Party, m \in sent : \A d \in Damage(p, m) : Right(p, m, d)) => MacsDecide
    BY DEF MacsDecide
  <2> SUFFICES ASSUME Inv, NEW p \in Party, NEW m \in sent, NEW d \in Damage(p, m)
               PROVE  Right(p, m, d)
    <3> HIDE DEF Right
    <3> QED
      BY <2>0
  <2>1. d.body \in BOOLEAN /\ d.mac \in BOOLEAN /\ (d.body /\ d.mac <=> AllGood(Held(p, m)))
    <3> DEFINE g == AllGood(Held(p, m))
               whole == [body |-> TRUE, mac |-> TRUE]
    <3>1. d \in IF g THEN {whole} ELSE [body : BOOLEAN, mac : BOOLEAN] \ {whole}
      BY DEF Damage
    <3>2. g \in BOOLEAN
      BY DEF AllGood
    <3> HIDE DEF g
    <3>3. CASE g
      <4>1. d = whole
        BY <3>1, <3>3
      <4> QED
        BY <3>3, <4>1 DEF g
    <3>4. CASE ~g
      <4>1. d \in [body : BOOLEAN, mac : BOOLEAN] /\ d # whole
        BY <3>1, <3>4
      <4>2. d = [body |-> d.body, mac |-> d.mac] /\ d.body \in BOOLEAN /\ d.mac \in BOOLEAN
        BY <4>1
      <4>3. ~(d.body /\ d.mac)
        BY <4>1, <4>2
      <4> QED
        BY <3>4, <4>2, <4>3 DEF g
    <3> QED
      BY <3>2, <3>3, <3>4
  <2>2. forged[p] \in BOOLEAN /\ (st[p].kind = "NoHeaderReceived" => ~forged[p])
    BY DEF Inv, TypeOK, ForgedTells, Party, A
  <2>3. Verdicts(HdrMac(d.body), HdrMac(TRUE), d.mac) = {d.body /\ d.mac}
    <3>1. (HdrMac(d.body) = HdrMac(TRUE)) = d.body
      BY <2>1, HdrMacTells, Zenon
    <3> QED
      BY <2>1, <3>1, VerdictsDecide, Zenon
  <2>4. Verdicts(CtMac(~forged[p], d.body), CtMac(TRUE, TRUE), d.mac)
          = {(~forged[p] /\ d.body) /\ d.mac}
    <3>1. (CtMac(~forged[p], d.body) = CtMac(TRUE, TRUE)) = (~forged[p] /\ d.body)
      BY <2>1, <2>2, CtMacTells, Zenon
    <3> QED
      BY <2>1, <3>1, VerdictsDecide, Zenon
  <2>5. Accept(p, m) <=> d.body /\ d.mac /\ ~forged[p]
    BY <2>1 DEF Accept
  <2>6. Accept(p, m) = ((~forged[p] /\ d.body) /\ d.mac)
    BY <2>1, <2>2 DEF Accept
  <2>7. st[p].kind = "NoHeaderReceived" => (d.body /\ d.mac) = Accept(p, m)
    BY <2>1, <2>2 DEF Accept
  <2> QED
    BY <2>3, <2>4, <2>6, <2>7, Zenon
<1> QED
  BY <1>1, Invariance, PTL
=============================================================================
