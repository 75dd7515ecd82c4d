----------------------------- MODULE SpqrStates -----------------------------
(***************************************************************************)
(* The transition functions of the SPQR typestate, demos/rust/spqr/        *)
(* states.rs: send_step, recv_step, its two dispatch helpers and           *)
(* vulnerable_epoch.  A state is a record [kind, epoch]; a step is a pure  *)
(* function of it, so this module has no variables.                        *)
(*                                                                         *)
(* The 11 match arms of each function are written as tables over the kind: *)
(* an arm that leaves the state as it is has no row.                       *)
(***************************************************************************)
EXTENDS Naturals

\* The EK sender's five kinds and the CT sender's six (StateKind).
EkKinds == {"KeysUnsampled", "KeysSampled", "HeaderSent", "Ct1Received",
            "EkSentCt1Received"}
CtKinds == {"NoHeaderReceived", "HeaderReceived", "Ct1Sampled",
            "EkReceivedCt1Sampled", "Ct1Acknowledged", "Ct2Sampled"}
Kinds   == EkKinds \cup CtKinds

State == [kind : Kinds, epoch : Nat]

\* PayloadKind; the two values of Ct1Ack(bool) are two payloads.
Payloads == {"NoneP", "Hdr", "Ek", "EkCt1Ack", "Ct1AckTrue", "Ct1AckFalse",
             "Ct1", "Ct2"}

InitA == [kind |-> "KeysUnsampled",    epoch |-> 0]
InitB == [kind |-> "NoHeaderReceived", epoch |-> 0]

-----------------------------------------------------------------------------
(* send_step: next kind, payload emitted, output key established.          *)

SendKind(k) == CASE k = "KeysUnsampled"  -> "KeysSampled"
                 [] k = "HeaderReceived" -> "Ct1Sampled"
                 [] OTHER                -> k

\* Wrong on purpose: A keeps sending plain ek chunks after it has ct1.
SendPayloadNoAck ==
  [KeysUnsampled     |-> "Hdr",        KeysSampled          |-> "Hdr",
   HeaderSent        |-> "Ek",         Ct1Received          |-> "Ek",
   EkSentCt1Received |-> "Ct1AckTrue", NoHeaderReceived     |-> "NoneP",
   HeaderReceived    |-> "Ct1",        Ct1Sampled           |-> "Ct1",
   Ct1Acknowledged   |-> "NoneP",      EkReceivedCt1Sampled |-> "Ct1",
   Ct2Sampled        |-> "Ct2"]

SendPayload ==
  [KeysUnsampled     |-> "Hdr",        KeysSampled          |-> "Hdr",
   HeaderSent        |-> "Ek",         Ct1Received          |-> "EkCt1Ack",
   EkSentCt1Received |-> "Ct1AckTrue", NoHeaderReceived     |-> "NoneP",
   HeaderReceived    |-> "Ct1",        Ct1Sampled           |-> "Ct1",
   Ct1Acknowledged   |-> "NoneP",      EkReceivedCt1Sampled |-> "Ct1",
   Ct2Sampled        |-> "Ct2"]

\* Wrong on purpose: every repetition of ct1 derives the key again.
SendKeyAgain(k) == k \in {"HeaderReceived", "Ct1Sampled"}

SendKey(k) == k = "HeaderReceived"

SendStep(s) == [state   |-> [s EXCEPT !.kind = SendKind(@)],
                payload |-> SendPayload[s.kind],
                key     |-> SendKey(s.kind)]

-----------------------------------------------------------------------------
(* recv_step on a message of the party's own epoch.  `done' is the codec's *)
(* Decode, `accept' the verdict of the MAC and chain checks.               *)

\* Wrong on purpose: a decoded ek ends the ct1 stream, acknowledged or not.
EkSuccessorNoAck(done, ack) ==
  CASE  done         -> "Ct2Sampled"
    [] ~done /\  ack -> "Ct1Acknowledged"
    [] ~done /\ ~ack -> "Ct1Sampled"

\* recv_ek_dispatch: the product of "ek decoded" and the payload's ack bit.
EkSuccessor(done, ack) ==
  CASE  done /\  ack -> "Ct2Sampled"
    []  done /\ ~ack -> "EkReceivedCt1Sampled"
    [] ~done /\  ack -> "Ct1Acknowledged"
    [] ~done /\ ~ack -> "Ct1Sampled"

\* The kind an accepted message leads to; every row not listed stays.
RecvKind(k, p, done) ==
  CASE k = "KeysSampled" /\ p = "Ct1"                 -> "HeaderSent"
    [] k = "HeaderSent" /\ p = "Ct1" /\ done          -> "Ct1Received"
    [] k = "Ct1Received" /\ p = "Ct2"                 -> "EkSentCt1Received"
    [] k = "EkSentCt1Received" /\ p = "Ct2" /\ done   -> "NoHeaderReceived"
    [] k = "NoHeaderReceived" /\ p = "Hdr" /\ done    -> "HeaderReceived"
    [] k = "Ct1Sampled" /\ p \in {"Ek", "EkCt1Ack"}   ->
         EkSuccessor(done, p = "EkCt1Ack")
    [] k = "EkReceivedCt1Sampled"
         /\ p \in {"Ct1AckTrue", "EkCt1Ack"}          -> "Ct2Sampled"
    [] k = "Ct1Acknowledged" /\ p \in {"Ek", "EkCt1Ack"} /\ done
                                                      -> "Ct2Sampled"
    [] OTHER                                          -> k

\* Wrong on purpose: the check on ct2 is not consulted.
AuthenticatedNoCt2(k, p) ==
  \/ k = "NoHeaderReceived"  /\ p = "Hdr"
  \/ k \in {"Ct1Sampled", "Ct1Acknowledged"} /\ p \in {"Ek", "EkCt1Ack"}

\* The four arms whose completed decode runs a MAC or chain check.
Authenticated(k, p) ==
  \/ k = "EkSentCt1Received" /\ p = "Ct2"
  \/ k = "NoHeaderReceived"  /\ p = "Hdr"
  \/ k \in {"Ct1Sampled", "Ct1Acknowledged"} /\ p \in {"Ek", "EkCt1Ack"}

\* Wrong on purpose: the key is reported on every ct2 chunk.
RecvKeyEarly(k, p, done) == k = "EkSentCt1Received" /\ p = "Ct2"

RecvKey(k, p, done) == k = "EkSentCt1Received" /\ p = "Ct2" /\ done

-----------------------------------------------------------------------------
(* recv_step: the three-way comparison of the epochs.                      *)

\* Wrong on purpose (a mutant of the runs): any later epoch starts a round.
OutOfRangeAnyLater(s, e) == e > s.epoch /\ s.kind # "Ct2Sampled"

\* Wrong on purpose: the party's own epoch counts as out of range.
OutOfRangeOwn(s, e) == e >= s.epoch /\ s.kind # "Ct2Sampled"

\* A later epoch is an error, but for a finished CT sender's next round.
OutOfRange(s, e) ==
  e > s.epoch /\ ~(s.kind = "Ct2Sampled" /\ e - s.epoch = 1)

Rejects(s, e, p, done, accept) ==
  \/ OutOfRange(s, e)
  \/ e = s.epoch /\ Authenticated(s.kind, p) /\ done /\ ~accept

RecvState(s, e, p, done) ==
  CASE e > s.epoch -> [kind |-> "KeysUnsampled", epoch |-> e]
    [] e = s.epoch -> [s EXCEPT !.kind = RecvKind(@, p, done)]
    [] e < s.epoch -> s

\* The Option<(State, bool)>: `ok' is FALSE for None, and the caller then
\* keeps the state it had.
RecvStep(s, e, p, done, accept) ==
  IF Rejects(s, e, p, done, accept)
  THEN [ok |-> FALSE, state |-> s, key |-> FALSE]
  ELSE [ok    |-> TRUE,
        state |-> RecvState(s, e, p, done),
        key   |-> e = s.epoch /\ RecvKey(s.kind, p, done)]

-----------------------------------------------------------------------------
\* Wrong on purpose: a received header counts as a live secret.
VulnerableEpochHdr(s) ==
  IF s.kind \in {"KeysUnsampled", "NoHeaderReceived"} THEN {} ELSE {s.epoch}

\* vulnerable_epoch, as the set of epochs exposed (empty or one epoch).
VulnerableEpoch(s) ==
  IF s.kind \in {"KeysUnsampled", "NoHeaderReceived", "HeaderReceived"}
  THEN {} ELSE {s.epoch}
=============================================================================
