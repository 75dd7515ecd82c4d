----------------------------- MODULE SpqrRounds -----------------------------
(***************************************************************************)
(* What the SPQR typestate promises two parties: output keys come in       *)
(* rounds, one epoch each.  The CT sender of the epoch derives its key     *)
(* first, the EK sender derives the same key second, and the roles swap    *)
(* from one epoch to the next, A being the EK sender of epoch 0.           *)
(* (demos/rust/spqr/states.rs:10-13: when an output key is established.)   *)
(***************************************************************************)
EXTENDS Naturals, Sequences

VARIABLE keys   \* every key established, in order

EkSender(e) == IF e % 2 = 0 THEN "A" ELSE "B"
CtSender(e) == IF e % 2 = 0 THEN "B" ELSE "A"

Init == keys = <<>>

\* The CT sender encapsulates: the epoch before is complete on both sides.
Encapsulate ==
  LET e == Len(keys) \div 2 IN
    /\ Len(keys) % 2 = 0
    /\ keys' = Append(keys, [party |-> CtSender(e), role |-> "ct", epoch |-> e])

\* The EK sender decapsulates what its peer encapsulated.
Decapsulate ==
  LET e == Len(keys) \div 2 IN
    /\ Len(keys) % 2 = 1
    /\ keys' = Append(keys, [party |-> EkSender(e), role |-> "ek", epoch |-> e])

Next == Encapsulate \/ Decapsulate

Spec == Init /\ [][Next]_keys
=============================================================================
