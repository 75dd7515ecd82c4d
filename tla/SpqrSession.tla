---------------------------- MODULE SpqrSession -----------------------------
(***************************************************************************)
(* Two parties running demos/rust/spqr/states.rs against each other.  The  *)
(* caller of send_step and recv_step is not in the repository; what it     *)
(* does is taken from their interface and is external here:                *)
(*   - a message carries the epoch of its sender's state and, but for      *)
(*     NoneP and Ct1Ack, a chunk of the sender's current stream;           *)
(*   - the codec's `dec' is Done once Need distinct chunks of a stream are *)
(*     held, and `accept' is TRUE when everything the check covers arrived *)
(*     as it was sent.                                                     *)
(* The network loses (a message need never be delivered), duplicates and   *)
(* reorders (a message sent stays deliverable) and may corrupt chunks.     *)
(***************************************************************************)
EXTENDS SpqrStates, Sequences, FiniteSets

CONSTANTS Need,         \* chunks that complete a decode
          Chunks,       \* distinct chunks of a stream before they repeat
          MaxCorrupt    \* bound on the corrupted messages in the network

ASSUME BoundsAssumption ==
  Need \in Nat \ {0} /\ Chunks \in Nat \ {0} /\ MaxCorrupt \in Nat

Party   == {"A", "B"}
Peer(p) == IF p = "A" THEN "B" ELSE "A"

VARIABLES st,       \* st[p]: the party's State
          enc,      \* enc[p]: chunks sent so far of the stream being sent
          rx,       \* rx[p]: chunks held of the stream being received
          forged,   \* forged[p]: p decoded a corrupt chunk, not yet noticed
          sent,     \* every message ever in the network
          keys      \* the output keys established, in order

vars == <<st, enc, rx, forged, sent, keys>>

-----------------------------------------------------------------------------
(* The codec's streams.                                                    *)

\* The stream a payload carries a chunk of; EkCt1Ack carries an ek chunk.
Stream(p) == CASE p = "Hdr"                -> "hdr"
               [] p \in {"Ek", "EkCt1Ack"} -> "ek"
               [] p = "Ct1"                -> "ct1"
               [] p = "Ct2"                -> "ct2"
               [] OTHER                    -> "none"

Outgoing(kind) == Stream(SendPayload[kind])

\* The stream a kind collects; the others drop every chunk they are sent.
Incoming(kind) ==
  CASE kind \in {"KeysSampled", "HeaderSent"}         -> "ct1"
    [] kind \in {"Ct1Received", "EkSentCt1Received"}  -> "ct2"
    [] kind = "NoHeaderReceived"                      -> "hdr"
    [] kind \in {"Ct1Sampled", "Ct1Acknowledged"}     -> "ek"
    [] OTHER                                          -> "nothing"

Chunk == [idx : 1..Chunks, good : BOOLEAN]

\* A message that carries no chunk has index 0.
Message == {m \in [from : Party, epoch : Nat, payload : Payloads,
                   idx : 0..Chunks, good : BOOLEAN] :
              m.idx = 0 <=> Stream(m.payload) = "none"}

\* The decoder keeps the first chunk it is given of an index.
Add(held, c) == IF \E d \in held : d.idx = c.idx THEN held ELSE held \cup {c}

AllGood(held) == \A c \in held : c.good

-----------------------------------------------------------------------------
Init == /\ st = [p \in Party |-> IF p = "A" THEN InitA ELSE InitB]
        /\ enc = [p \in Party |-> 0]
        /\ rx = [p \in Party |-> {}]
        /\ forged = [p \in Party |-> FALSE]
        /\ sent = {}
        /\ keys = <<>>

\* Wrong on purpose: the encoder runs past its last point.
NextIdxNoWrap(p) == IF Outgoing(st[p].kind) = "none" THEN 0 ELSE enc[p] + 1

\* The index of the next chunk: the encoder's points, then round again.
NextIdx(p) == IF Outgoing(st[p].kind) = "none" THEN 0 ELSE (enc[p] % Chunks) + 1

\* p's application asks for a message and the network takes it.
Send(p) ==
  LET r == SendStep(st[p]) IN
    /\ st' = [st EXCEPT ![p] = r.state]
    /\ sent' = sent \cup {[from |-> p, epoch |-> st[p].epoch,
                           payload |-> r.payload, idx |-> NextIdx(p),
                           good |-> TRUE]}
    /\ enc' = [enc EXCEPT ![p] = NextIdx(p)]
    /\ keys' = IF r.key
               THEN Append(keys, [party |-> p, role |-> "ct", epoch |-> st[p].epoch])
               ELSE keys
    /\ UNCHANGED <<rx, forged>>

\* Does the state collect the chunk this message carries?
Collects(s, m) == m.epoch = s.epoch /\ Stream(m.payload) = Incoming(s.kind)

\* What p's decoder holds once the message is added.
Held(p, m) == IF Collects(st[p], m)
              THEN Add(rx[p], [idx |-> m.idx, good |-> m.good])
              ELSE rx[p]

Done(p, m) == Collects(st[p], m) /\ Cardinality(Held(p, m)) >= Need

\* The MAC and chain checks cover what was decoded, earlier parts included:
\* the MAC on ct2 is over ct1 and ct2 (authenticator.rs:154-156).
Accept(p, m) == AllGood(Held(p, m)) /\ ~forged[p]

Verdict(p, m) ==
  RecvStep(st[p], m.epoch, m.payload, Done(p, m), Accept(p, m))

\* The network hands p a message of its peer.  On None the caller keeps the
\* old state, codec included.
Receive(p, m) ==
  LET r        == Verdict(p, m)
      newIn    == Incoming(r.state.kind)  # Incoming(st[p].kind)
      newOut   == Outgoing(r.state.kind) # Outgoing(st[p].kind)
  IN
    /\ m.from = Peer(p)
    /\ r.ok
    /\ st' = [st EXCEPT ![p] = r.state]
    /\ rx' = [rx EXCEPT ![p] = IF newIn THEN {} ELSE Held(p, m)]
    /\ forged' = [forged EXCEPT ![p] = @ \/ (newIn /\ ~AllGood(Held(p, m)))]
    /\ enc' = [enc EXCEPT ![p] = IF newOut THEN 0 ELSE @]
    /\ keys' = IF r.key
               THEN Append(keys, [party |-> p, role |-> "ek", epoch |-> st[p].epoch])
               ELSE keys
    /\ UNCHANGED sent

Deliver(p) == \E m \in sent : Receive(p, m)

\* A chunk is damaged on its way; the copy sent may still arrive as well.
Corrupt(m) ==
  /\ m.idx > 0 /\ m.good
  /\ Cardinality({n \in sent : ~n.good}) < MaxCorrupt
  /\ sent' = sent \cup {[m EXCEPT !.good = FALSE]}
  /\ UNCHANGED <<st, enc, rx, forged, keys>>

Next == \/ \E p \in Party : Send(p) \/ Deliver(p)
        \/ \E m \in sent : Corrupt(m)

Spec == Init /\ [][Next]_vars

\* The application keeps asking for messages, and of the messages that would
\* still change the receiver one is delivered in the end.
Fairness == \A p \in Party : WF_vars(Send(p)) /\ WF_vars(Deliver(p))

FairSpec == Spec /\ Fairness
-----------------------------------------------------------------------------
TypeOK == /\ st \in [Party -> State]
          /\ enc \in [Party -> 0..Chunks]
          /\ rx \in [Party -> SUBSET Chunk]
          /\ forged \in [Party -> BOOLEAN]
          /\ sent \subseteq Message
          /\ keys \in Seq([party : Party, role : {"ct", "ek"}, epoch : Nat])

\* The two kinds, of A and of B, that may go together.
Phases(a, b) ==
  /\ a \in EkKinds \cup {"NoHeaderReceived"} /\ b \in CtKinds
  /\ Outgoing(a) # "hdr" => b \notin {"NoHeaderReceived", "HeaderReceived"}
  /\ b # "NoHeaderReceived" => a # "KeysUnsampled"
  /\ b = "EkReceivedCt1Sampled" => Outgoing(a) # "hdr"
  /\ b \in {"Ct1Acknowledged", "Ct2Sampled"} =>
       a \in {"Ct1Received", "EkSentCt1Received", "NoHeaderReceived"}
  /\ a \in {"EkSentCt1Received", "NoHeaderReceived"} => b = "Ct2Sampled"

\* The keys of a first round that has come as far as the kinds a and b.
CtKey == [party |-> "B", role |-> "ct", epoch |-> 0]
EkKey == [party |-> "A", role |-> "ek", epoch |-> 0]

RoundKeys(a, b) ==
  CASE b \in {"NoHeaderReceived", "HeaderReceived"}      -> <<>>
    [] a = "NoHeaderReceived" /\ b = "Ct2Sampled"        -> <<CtKey, EkKey>>
    [] OTHER                                             -> <<CtKey>>

A == st["A"].kind
B == st["B"].kind

\* Hand-over of the streams: a party stops sending a stream, and lets its
\* chunks go, only when its peer has decoded it.  The header is dropped once
\* B has it, ct1 once A has it, ek once B has it, and A takes the round for
\* finished only when B has nothing left to receive.
PhasesAgree == Phases(A, B)

\* No two parties ever leave the first round: both stay in epoch 0, and the
\* keys are those of that one round, ct before ek, as far as it has come.
OneRound == /\ \A p \in Party : st[p].epoch = 0
            /\ keys = RoundKeys(A, B)

\* Every key is derived from what the peer really sent: a party that holds a
\* key has decoded no corrupt chunk, ct1 -- which no check of its own covers
\* when it is decoded -- included.
KeysGenuine == \A i \in 1..Len(keys) : ~forged[keys[i].party]

\* recv_step refuses damage and nothing else: whatever the order, delay or
\* repetition, a message is rejected only if a chunk it completes a decode
\* with, or one decoded before, is corrupt.
OnlyDamageRejected ==
  \A p \in Party, m \in sent :
    m.from = Peer(p) /\ ~Verdict(p, m).ok => ~AllGood(Held(p, m)) \/ forged[p]

\* The session implements the rounds of SpqrRounds, key by key.
Rounds     == INSTANCE SpqrRounds
RoundsSpec == Rounds!Spec

\* Lost, repeated and reordered chunks do not stop a round, nor do corrupt
\* ones that a check turns away: if from some point on no party holds a
\* corrupt chunk, both sides hold the key of epoch 0 in the end.
Clean          == \A p \in Party : AllGood(rx[p]) /\ ~forged[p]
RoundCompletes == <>[]Clean => <>(Len(keys) = 2)

\* states.rs:193-194 and :356: a new round starts -- the epoch advances at
\* Ct2Sampled, on a message of epoch ep+1.
NewRoundStarts == <>(\E p \in Party : st[p].epoch = 1)
=============================================================================
