---------------------------- MODULE AuthSession -----------------------------
(***************************************************************************)
(* A session whose two MACs are computed, as the authenticator would: the  *)
(* hdr stream ends with the MAC of the header under the keys both parties  *)
(* start with, the ct2 stream with the MAC of ct1 and ct2 under the keys   *)
(* updated with the epoch secret, which the CT sender has from             *)
(* encapsulating and the EK sender from decapsulating what it decoded.     *)
(* When the methods are called is external, as the codec is.               *)
(***************************************************************************)
EXTENDS SpqrSession, Authenticator

Root   == update(new, 0, <<Piece(<<"AUTHKEY">>, 32)>>)
Part(v, ok, n) == Piece(IF ok THEN <<v>> ELSE <<"SPOILT", v>>, n)

Hdr(ok)      == <<Part("HDR", ok, 64)>>
Ct(ok1, ok2) == <<Part("CT1", ok1, 960), Part("CT2", ok2, 128)>>

\* Decapsulating a spoilt ciphertext gives another secret.
Secret(ok) == <<Piece(<<IF ok THEN "SHARED" ELSE "REJECTED">>, 32)>>

\* What the receiver computes, by whether what it decoded is intact; what the
\* sender computed is the value for TRUE.
HdrMac(ok)      == mac_hdr(Root, 0, Hdr(ok))
CtMac(ok1, ok2) == mac_ct(update(Root, 0, Secret(ok1 /\ ok2)), 0, Ct(ok1, ok2))

\* Which bits of two MACs differ: none, or any one bit of the first, a middle
\* or the last byte.
NoBit   == [i \in 0..(MACSIZE - 1) |-> {}]
SomeBit == {[NoBit EXCEPT ![i] = {b}] : i \in {0, 15, MACSIZE - 1}, b \in {0, 7}}

\* The verdicts there can be on a MAC that was computed, given the one that was
\* sent and whether it arrived intact.
Verdicts(computed, mac, intact) ==
  {compare(c, r) = 0 : c \in IF computed = mac THEN {NoBit} ELSE SomeBit,
                       r \in IF intact \/ computed # mac THEN {NoBit} ELSE SomeBit}

\* Damage in a stream may be in what is covered, in the MAC, or in both.
Damage(p, m) == IF AllGood(Held(p, m)) THEN {[body |-> TRUE, mac |-> TRUE]}
                ELSE [body : BOOLEAN, mac : BOOLEAN] \ {[body |-> TRUE, mac |-> TRUE]}

\* The authenticator's verdict is the one recv_step is handed (states.rs:202):
\* every damage to what the hdr or the ct2 check covers, the unchecked ct1
\* included, is turned away by compare, and nothing else is.
MacsDecide == \A p \in Party, m \in sent :
  m.from = Peer(p) /\ Done(p, m) =>
    \A d \in Damage(p, m) :
      /\ st[p].kind = "NoHeaderReceived" =>
           Verdicts(HdrMac(d.body), HdrMac(TRUE), d.mac) = {Accept(p, m)}
      /\ st[p].kind = "EkSentCt1Received" =>
           Verdicts(CtMac(~forged[p], d.body), CtMac(TRUE, TRUE), d.mac) = {Accept(p, m)}
=============================================================================
