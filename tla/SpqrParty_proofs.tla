-------------------------- MODULE SpqrParty_proofs --------------------------
(***************************************************************************)
(* SpqrParty for every bound on the epochs: its types, the order of its    *)
(* output keys, and what vulnerable_epoch says of them.                    *)
(***************************************************************************)
EXTENDS SpqrParty, TLAPS

\* The kinds a step of send_step and recv_step can lead to are kinds.
LEMMA StepKinds ==
  ASSUME NEW k \in Kinds, NEW p \in Payloads, NEW done \in BOOLEAN
  PROVE  /\ SendKind(k) \in Kinds
         /\ RecvKind(k, p, done) \in Kinds
BY DEF Kinds, EkKinds, CtKinds, SendKind, RecvKind, EkSuccessor

\* The stage of the keys moves exactly when a key is established.
LEMMA SendStage ==
  ASSUME NEW k \in Kinds
  PROVE  Stage(SendKind(k)) = Stage(k) + (IF SendKey(k) THEN 1 ELSE 0)
BY DEF Kinds, EkKinds, CtKinds, SendKind, SendKey, Stage

LEMMA RecvStage ==
  ASSUME NEW k \in Kinds, NEW p \in Payloads, NEW done \in BOOLEAN
  PROVE  Stage(RecvKind(k, p, done))
           = Stage(k) + (IF RecvKey(k, p, done) THEN 1 ELSE 0)
<1>1. CASE k \in EkKinds
  BY <1>1 DEF EkKinds, RecvKind, RecvKey, Stage
<1>2. CASE k \in CtKinds
  <2>1. CASE k \in {"NoHeaderReceived", "HeaderReceived"}
    BY <2>1 DEF EkKinds, RecvKind, RecvKey, Stage
  <2>2. CASE k \in CtKinds \ {"NoHeaderReceived", "HeaderReceived"}
    <3>1. RecvKind(k, p, done) \in CtKinds \ {"NoHeaderReceived", "HeaderReceived"}
      BY <2>2 DEF CtKinds, RecvKind, EkSuccessor
    <3> QED
      BY <2>2, <3>1 DEF EkKinds, CtKinds, RecvKey, Stage
  <2> QED
    BY <1>2, <2>1, <2>2
<1> QED
  BY <1>1, <1>2 DEF Kinds

\* The only step to a later epoch is to the next one, from Ct2Sampled.
LEMMA RecvEpoch ==
  ASSUME NEW s \in State, NEW e \in Nat, NEW p \in Payloads,
         NEW done \in BOOLEAN, NEW accept \in BOOLEAN,
         ~Rejects(s, e, p, done, accept), e > s.epoch
  PROVE  e = s.epoch + 1 /\ s.kind = "Ct2Sampled"
BY DEF State, Rejects, OutOfRange

Inv == TypeOK /\ KeyLogExact

\* Appending the key of the next rank keeps the log exact.
LEMMA AppendKey ==
  ASSUME Inv, NEW k \in Key, Rank(k) = Len(keys) + 1 + Skip,
         NEW new, new = Append(keys, k)
  PROVE  /\ new \in Seq(Key)
         /\ Len(new) = Len(keys) + 1
         /\ \A i \in 1..Len(new) : Rank(new[i]) = i + Skip
BY DEF Inv, TypeOK, KeyLogExact

LEMMA SendInv == Inv /\ Send => Inv'
<1> SUFFICES ASSUME Inv, Send PROVE Inv'
  OBVIOUS
<1> USE MaxEpochAssumption
<1>1. st \in [kind : Kinds, epoch : 0..MaxEpoch] /\ side \in {"A", "B"}
  BY DEF Inv, TypeOK
<1>2. /\ st' = [st EXCEPT !.kind = SendKind(@)]
      /\ keys' = IF SendKey(st.kind) THEN Append(keys, KeyOf("ct", st)) ELSE keys
      /\ side' = side
  BY DEF Send, SendStep
<1>3. st' \in [kind : Kinds, epoch : 0..MaxEpoch] /\ st'.epoch = st.epoch
      /\ st'.kind = SendKind(st.kind)
  BY <1>1, <1>2, SendKind(st.kind) \in Kinds DEF Kinds, EkKinds, CtKinds, SendKind
<1>4. Stage(st'.kind) = Stage(st.kind) + (IF SendKey(st.kind) THEN 1 ELSE 0)
  BY <1>1, <1>3, SendStage
<1>5. Skip' = Skip /\ Skip \in {0, 1} /\ Len(keys) \in Nat
  BY <1>2 DEF Inv, TypeOK, Skip
<1>6. CASE ~SendKey(st.kind)
  <2>1. keys' = keys /\ Stage(st'.kind) = Stage(st.kind)
    BY <1>2, <1>4, <1>6, Stage(st.kind) \in 0..2 DEF Stage
  <2>2. KeyLogExact'
    BY <1>3, <1>5, <2>1 DEF Inv, KeyLogExact
  <2> QED
    BY <1>2, <1>3, <2>1, <2>2 DEF Inv, TypeOK
<1>7. CASE SendKey(st.kind)
  <2> DEFINE k == KeyOf("ct", st)
  <2>1. k \in Key /\ k.role = "ct" /\ k.epoch = st.epoch
    BY <1>1 DEF KeyOf, Key
  <2>2. Stage(st.kind) = 1 /\ Stage(st'.kind) = 2
    BY <1>4, <1>7 DEF SendKey, Stage, EkKinds
  <2>3. Len(keys) + Skip = 2 * st.epoch + 1
    BY <2>2 DEF Inv, KeyLogExact
  <2>4. Rank(k) = Len(keys) + 1 + Skip
    BY <1>1, <1>5, <2>1, <2>3 DEF Rank
  <2>5. /\ keys' \in Seq(Key)
        /\ Len(keys') = Len(keys) + 1
        /\ \A i \in 1..Len(keys') : Rank(keys'[i]) = i + Skip
    BY <1>2, <1>7, <2>1, <2>4, AppendKey
  <2>6. Len(keys') + Skip' = 2 * st'.epoch + Stage(st'.kind)
    BY <1>1, <1>3, <1>5, <2>2, <2>3, <2>5
  <2>7. KeyLogExact'
    BY <1>5, <2>5, <2>6 DEF KeyLogExact
  <2> QED
    BY <1>1, <1>2, <1>3, <2>5, <2>7 DEF Inv, TypeOK
<1> QED
  BY <1>6, <1>7

LEMMA ReceiveInv ==
  ASSUME Inv, NEW e \in 0..MaxEpoch, NEW p \in Payloads,
         NEW done \in BOOLEAN, NEW accept \in BOOLEAN,
         Receive(e, p, done, accept)
  PROVE  Inv'
<1> USE MaxEpochAssumption
<1>1. /\ st \in [kind : Kinds, epoch : 0..MaxEpoch] /\ side \in {"A", "B"}
      /\ st \in State
  BY DEF Inv, TypeOK, State
<1>2. CASE Rejects(st, e, p, done, accept)
  <2>1. st' = st /\ keys' = keys /\ side' = side
    BY <1>2 DEF Receive, RecvStep
  <2> QED
    BY <2>1 DEF Inv, TypeOK, KeyLogExact, Skip, Stage
<1>3. CASE ~Rejects(st, e, p, done, accept)
  <2> DEFINE key == e = st.epoch /\ RecvKey(st.kind, p, done)
  <2>1. /\ st' = RecvState(st, e, p, done)
        /\ keys' = IF key THEN Append(keys, KeyOf("ek", st)) ELSE keys
        /\ side' = side
    BY <1>3 DEF Receive, RecvStep
  <2>2. CASE e > st.epoch
    <3>1. st' = [kind |-> "KeysUnsampled", epoch |-> e]
          /\ keys' = keys
      BY <1>1, <2>1, <2>2 DEF RecvState
    <3>2. e = st.epoch + 1 /\ st.kind = "Ct2Sampled"
      BY <1>1, <1>3, <2>2, RecvEpoch
    <3>3. Stage(st.kind) = 2 /\ Stage(st'.kind) = 0
      BY <3>1, <3>2 DEF Stage, EkKinds
    <3>4. TypeOK'
      BY <1>1, <2>1, <3>1 DEF Inv, TypeOK, Kinds, EkKinds
    <3>5. KeyLogExact'
      <4>1. Skip' = Skip /\ Skip \in {0, 1} /\ Len(keys) \in Nat
        BY <2>1 DEF Inv, TypeOK, Skip
      <4>2. Len(keys) + Skip = 2 * st.epoch + 2
        BY <1>1, <3>3 DEF Inv, KeyLogExact
      <4>3. Len(keys) + Skip = 2 * st'.epoch + Stage(st'.kind)
        BY <1>1, <3>1, <3>2, <3>3, <4>1, <4>2
      <4> QED
        BY <3>1, <4>1, <4>3 DEF Inv, KeyLogExact
    <3> QED
      BY <3>4, <3>5 DEF Inv
  <2>3. CASE e = st.epoch
    <3>1. st' = [st EXCEPT !.kind = RecvKind(@, p, done)]
      BY <1>1, <2>1, <2>3 DEF RecvState
    <3>2. /\ st' \in [kind : Kinds, epoch : 0..MaxEpoch]
          /\ st'.epoch = st.epoch /\ st'.kind = RecvKind(st.kind, p, done)
      <4>1. RecvKind(st.kind, p, done) \in Kinds
        BY <1>1, StepKinds
      <4> QED
        BY <1>1, <3>1, <4>1
    <3>3. Stage(st'.kind)
            = Stage(st.kind) + (IF RecvKey(st.kind, p, done) THEN 1 ELSE 0)
      BY <1>1, <3>2, RecvStage
    <3>4. CASE ~key
      <4>1. keys' = keys /\ Skip' = Skip /\ Stage(st'.kind) = Stage(st.kind)
        BY <2>1, <2>3, <3>3, <3>4, Stage(st.kind) \in 0..2 DEF Skip, Stage
      <4>2. KeyLogExact'
        BY <3>2, <4>1 DEF Inv, KeyLogExact
      <4> QED
        BY <2>1, <3>2, <4>1, <4>2 DEF Inv, TypeOK
    <3>5. CASE key
      <4> DEFINE k == KeyOf("ek", st)
      <4>1. k \in Key /\ k.role = "ek" /\ k.epoch = st.epoch
        BY <1>1 DEF KeyOf, Key
      <4>2. Stage(st.kind) = 0
        BY <3>5 DEF RecvKey, Stage, EkKinds
      <4>3. Rank(k) = Len(keys) + 1 + Skip
        BY <4>1, <4>2, <1>1 DEF Rank, Inv, TypeOK, KeyLogExact, Skip
      <4>4. /\ keys' \in Seq(Key)
            /\ Len(keys') = Len(keys) + 1
            /\ \A i \in 1..Len(keys') : Rank(keys'[i]) = i + Skip
        BY <2>1, <3>5, <4>1, <4>3, AppendKey
      <4>5. Stage(st'.kind) = 1 /\ Skip' = Skip /\ Skip \in {0, 1}
        BY <2>1, <3>3, <3>5, <4>2 DEF Skip
      <4>6. Len(keys) + Skip = 2 * st.epoch
        BY <1>1, <4>2, <4>5 DEF Inv, TypeOK, KeyLogExact
      <4>7. Len(keys) \in Nat
        BY DEF Inv, TypeOK
      <4>8. Len(keys') + Skip' = 2 * st'.epoch + Stage(st'.kind)
        BY <1>1, <3>2, <4>4, <4>5, <4>6, <4>7
      <4>9. KeyLogExact'
        BY <4>4, <4>5, <4>8 DEF KeyLogExact
      <4> QED
        BY <1>1, <2>1, <3>2, <4>4, <4>9 DEF Inv, TypeOK
    <3> QED
      BY <3>4, <3>5
  <2>4. CASE e < st.epoch
    <3>1. st' = st /\ keys' = keys
      BY <1>1, <2>1, <2>4 DEF RecvState
    <3> QED
      BY <2>1, <3>1 DEF Inv, TypeOK, KeyLogExact, Skip, Stage
  <2> QED
    BY <1>1, <2>2, <2>3, <2>4
<1> QED
  BY <1>2, <1>3

\* The invariant is inductive.
LEMMA Invariance == Spec => []Inv
<1>1. Init => Inv
  <2> SUFFICES ASSUME Init PROVE Inv
    OBVIOUS
  <2>1. TypeOK
    <3>1. InitA \in [kind : Kinds, epoch : 0..MaxEpoch]
      BY MaxEpochAssumption DEF InitA, Kinds, EkKinds
    <3>2. InitB \in [kind : Kinds, epoch : 0..MaxEpoch]
      BY MaxEpochAssumption DEF InitB, Kinds, CtKinds
    <3>3. keys = <<>> /\ <<>> \in Seq(Key)
      BY DEF Init
    <3> QED
      BY <3>1, <3>2, <3>3 DEF Init, TypeOK
  <2>2. Len(keys) = 0 /\ 1..Len(keys) = {}
    BY DEF Init
  <2>3. Skip = 2 * st.epoch + Stage(st.kind)
    BY DEF Init, InitA, InitB, Skip, Stage, EkKinds
  <2>4. KeyLogExact
    BY <2>2, <2>3 DEF KeyLogExact, Skip
  <2> QED
    BY <2>1, <2>4 DEF Inv
<1>2. Inv /\ [Next]_vars => Inv'
  <2>1. Inv /\ Send => Inv'
    BY SendInv
  <2>2. ASSUME Inv, NEW e \in 0..MaxEpoch, NEW p \in Payloads,
               NEW done \in BOOLEAN, NEW accept \in BOOLEAN,
               Receive(e, p, done, accept)
        PROVE  Inv'
    BY <2>2, ReceiveInv
  <2>3. Inv /\ UNCHANGED vars => Inv'
    BY DEF vars, Inv, TypeOK, KeyLogExact, Skip, Stage
  <2> QED
    BY <2>1, <2>2, <2>3 DEF Next
<1> QED
  BY <1>1, <1>2, PTL DEF Spec

\* The types of SpqrParty: the state and the keys never leave the epochs the
\* messages carry (send_step and recv_step return a State of states.rs:72-76).
THEOREM TypeCorrect == Spec => []TypeOK
BY Invariance, PTL DEF Inv

\* Whatever an adversary schedules, and for every bound on the epochs, the
\* output keys of send_step and recv_step come as ek 0, ct 0, ek 1, ct 1, ...
\* with none repeated and none skipped.
THEOREM KeysInOrder == Spec => []KeyLogExact
BY Invariance, PTL DEF Inv

\* A key the log holds has the rank of its place, so the keys of a role and
\* an epoch are held or not according to the length of the log.
LEMMA HoldsByRank ==
  ASSUME Inv, NEW role \in {"ek", "ct"}
  PROVE  /\ Holds(role, st.epoch) =>
              Rank([role |-> role, epoch |-> st.epoch]) =< Len(keys) + Skip
         /\ role = "ct" /\ Stage(st.kind) = 2 => Holds(role, st.epoch)
<1> USE MaxEpochAssumption
<1>1. st.epoch \in 0..MaxEpoch /\ keys \in Seq(Key) /\ Skip \in {0, 1}
  BY DEF Inv, TypeOK, Skip
<1>2. ASSUME Holds(role, st.epoch)
      PROVE  Rank([role |-> role, epoch |-> st.epoch]) =< Len(keys) + Skip
  <2>1. PICK i \in 1..Len(keys) : keys[i] = [role |-> role, epoch |-> st.epoch]
    BY <1>2 DEF Holds
  <2>2. Rank(keys[i]) = i + Skip
    BY DEF Inv, KeyLogExact
  <2>3. Len(keys) \in Nat /\ i =< Len(keys)
    BY <1>1
  <2> QED
    BY <1>1, <2>1, <2>2, <2>3
<1>3. ASSUME role = "ct", Stage(st.kind) = 2
      PROVE  Holds(role, st.epoch)
  <2> DEFINE n == Len(keys)
  <2>1. n \in Nat /\ n + Skip = 2 * st.epoch + 2
    BY <1>1, <1>3 DEF Inv, KeyLogExact
  <2>2. n \in 1..Len(keys)
    BY <1>1, <2>1
  <2>3. Rank(keys[n]) = 2 * st.epoch + 2
    BY <2>1, <2>2 DEF Inv, KeyLogExact
  <2>4. keys[n] \in Key
    BY <1>1, <2>2
  <2>5. keys[n].role = "ct" /\ keys[n].epoch = st.epoch
    BY <1>1, <2>3, <2>4 DEF Rank, Key
  <2>6. keys[n] = [role |-> "ct", epoch |-> st.epoch]
    BY <2>4, <2>5 DEF Key
  <2> QED
    BY <1>3, <2>2, <2>6 DEF Holds
<1> QED
  BY <1>2, <1>3

\* vulnerable_epoch is exact for every bound on the epochs: an EK sender is
\* vulnerable only before its key of the epoch, a CT sender only, and always,
\* after it.
THEOREM VulnerableExact == Spec => []VulnerableWindow
<1>1. Inv => VulnerableWindow
  <2> SUFFICES ASSUME Inv PROVE VulnerableWindow
    OBVIOUS
  <2> USE MaxEpochAssumption
  <2>1. st.epoch \in 0..MaxEpoch /\ st.kind \in Kinds /\ Skip \in {0, 1}
        /\ Len(keys) + Skip = 2 * st.epoch + Stage(st.kind)
    BY DEF Inv, TypeOK, KeyLogExact, Skip
  <2>2. ASSUME st.kind \in EkKinds PROVE ~Holds("ek", st.epoch)
    <3>1. Stage(st.kind) = 0
      BY <2>2 DEF Stage, EkKinds
    <3> QED
      BY <2>1, <3>1, HoldsByRank DEF Rank
  <2>3. ASSUME st.kind \in CtKinds
        PROVE  VulnerableEpoch(st) # {} <=> Holds("ct", st.epoch)
    <3>1. CASE st.kind \in {"NoHeaderReceived", "HeaderReceived"}
      <4>1. Stage(st.kind) = 1 /\ VulnerableEpoch(st) = {}
        BY <3>1 DEF Stage, EkKinds, VulnerableEpoch
      <4> QED
        BY <2>1, <4>1, HoldsByRank DEF Rank
    <3>2. CASE st.kind \notin {"NoHeaderReceived", "HeaderReceived"}
      <4>1. Stage(st.kind) = 2 /\ VulnerableEpoch(st) # {}
        BY <2>3, <3>2 DEF Stage, EkKinds, CtKinds, VulnerableEpoch
      <4> QED
        BY <4>1, HoldsByRank
    <3> QED
      BY <3>1, <3>2
  <2> QED
    BY <2>2, <2>3 DEF VulnerableWindow
<1> QED
  BY <1>1, Invariance, PTL
=============================================================================
