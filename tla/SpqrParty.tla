----------------------------- MODULE SpqrParty ------------------------------
(***************************************************************************)
(* One party of the SPQR typestate under an adversarial schedule: between  *)
(* any two of its own sends it may be handed a message of any epoch and    *)
(* payload, with any decode outcome and any verdict of the MAC check --    *)
(* the quantification demos/rust/spqr/states.rs:6-9 and :197-207 give      *)
(* recv_step's arguments.  The party starts as init_a or init_b.           *)
(***************************************************************************)
EXTENDS SpqrStates, Sequences

CONSTANT MaxEpoch   \* bound on the epochs the messages carry

ASSUME MaxEpochAssumption == MaxEpoch \in Nat

VARIABLES side,   \* "A" or "B": which of init_a and init_b started the party
          st,     \* its State
          keys    \* the output keys it has established, in order

vars == <<side, st, keys>>

KeyOf(role, s) == [role |-> role, epoch |-> s.epoch]

Init == \/ side = "A" /\ st = InitA /\ keys = <<>>
        \/ side = "B" /\ st = InitB /\ keys = <<>>

\* send_step: the CT sender logs the key of its epoch.
Send ==
  LET r == SendStep(st) IN
    /\ st' = r.state
    /\ keys' = IF r.key THEN Append(keys, KeyOf("ct", st)) ELSE keys
    /\ UNCHANGED side

\* recv_step on one message; None leaves the caller with the state it had.
Receive(e, p, done, accept) ==
  LET r == RecvStep(st, e, p, done, accept) IN
    /\ st' = r.state
    /\ keys' = IF r.key THEN Append(keys, KeyOf("ek", st)) ELSE keys
    /\ UNCHANGED side

Next == \/ Send
        \/ \E e \in 0..MaxEpoch, p \in Payloads, done, accept \in BOOLEAN :
              Receive(e, p, done, accept)

Spec == Init /\ [][Next]_vars

-----------------------------------------------------------------------------
Key == [role : {"ek", "ct"}, epoch : 0..MaxEpoch]

\* The type invariant: the epoch of the party and of every key it logs stays
\* within the epochs its messages carry (State of states.rs:72-76).
TypeOK == /\ side \in {"A", "B"}
          /\ st \in [kind : Kinds, epoch : 0..MaxEpoch]
          /\ keys \in Seq(Key)

\* A party's keys come in one order: ek 0, ct 0, ek 1, ct 1, ...  A key's
\* place in it is its rank; the party started as B skips ek 0.
Rank(k) == 2 * k.epoch + (IF k.role = "ek" THEN 1 ELSE 2)
Skip    == IF side = "B" THEN 1 ELSE 0

\* How many of the current epoch's two keys the kind says are established.
Stage(kind) == CASE kind \in EkKinds                                -> 0
                 [] kind \in {"NoHeaderReceived", "HeaderReceived"} -> 1
                 [] OTHER                                           -> 2

\* Whatever the schedule, the keys a party establishes are exactly a prefix
\* of ek 0, ct 0, ek 1, ct 1, ...: no key is established twice, none is
\* skipped, no epoch is left before its CT key, and the state alone tells how
\* many there are (output-key timing of send_step and recv_step).
KeyLogExact ==
  /\ \A i \in 1..Len(keys) : Rank(keys[i]) = i + Skip
  /\ Len(keys) + Skip = 2 * st.epoch + Stage(st.kind)

Holds(role, e) == \E i \in 1..Len(keys) : keys[i] = [role |-> role, epoch |-> e]

\* vulnerable_epoch tells the truth about the secrets in the state: as EK
\* sender a party exposes an epoch only while that epoch's key is still to
\* come, and as CT sender exactly from the derivation of the CT key on.
VulnerableWindow ==
  /\ st.kind \in EkKinds /\ VulnerableEpoch(st) # {} => ~Holds("ek", st.epoch)
  /\ st.kind \in CtKinds => (VulnerableEpoch(st) # {} <=> Holds("ct", st.epoch))

\* demos/lean/Demos/Spqr/StatesGraph.lean:31-32 says that whenever a
\* transition emits an output key, the state it lands in is vulnerable at
\* the emitting party's epoch (:184-189 concedes that a receive is different).
EmissionLandsVulnerable ==
  [][keys' # keys => VulnerableEpoch(st') = {st.epoch}]_vars
=============================================================================
