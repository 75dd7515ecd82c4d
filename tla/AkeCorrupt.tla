----------------------------- MODULE AkeCorrupt -----------------------------
(***************************************************************************)
(* The game of demos/lean/Demos/Demo6AkeCorrupt.lean over the byte core of *)
(* ke.rs: AkeGame with parties whose keys can be corrupted, partnered      *)
(* sessions and cleanness.  As in AkeGame, session indices are one more    *)
(* than the code's, with 0 for an index outside the table and for no       *)
(* partner; party indices are the code's, with NParties for one outside.   *)
(***************************************************************************)
EXTENDS Ke, Sequences

CONSTANTS NParties,      \* registered parties
          MaxSessions    \* bound on the sessions opened

ASSUME PartiesAssumption == NParties \in Nat \ {0} /\ MaxSessions \in Nat

VARIABLES parties,       \* the parties' key pairs, and who is corrupted
          sessions,      \* the table of sessions
          told           \* the answers that depend on a secret

vars == <<parties, sessions, told>>

Registered == 0..(NParties - 1)
PartyId    == 0..NParties
None       == 0

\* `default', what getD reads outside a table: its peer is party 0.
NoParty   == [pk |-> {}, sk |-> {}, corrupted |-> FALSE]
NoSession == [owner |-> 0, peer |-> 0, role |-> FALSE, sid |-> {}, key |-> {},
              partner |-> None, revealed |-> FALSE, tested |-> FALSE]

party(p)   == IF p \in Registered THEN parties[p] ELSE NoParty
session(i) == IF i \in DOMAIN sessions THEN sessions[i] ELSE NoSession

-----------------------------------------------------------------------------
(* Partners and cleanness.                                                 *)

\* Wrong on purpose: the owner and the peer are matched one way only.
compatible_one_way(s, t) == s.peer = t.owner /\ s.role # t.role /\ s.sid = t.sid
compatible(s, t) ==
  s.peer = t.owner /\ t.peer = s.owner /\ s.role # t.role /\ s.sid = t.sid

findPartner(ss, s) ==
  LET P == {j \in DOMAIN ss : compatible(s, ss[j])}
  IN IF P = {} THEN None ELSE CHOOSE j \in P : \A k \in P : j <= k

\* Wrong on purpose: the clause keys off the owner, not the peer.
freshAtEnd_owner(s) == /\ ~s.revealed
                       /\ s.partner # None => ~session(s.partner).revealed
                       /\ ~party(s.owner).corrupted
freshAtEnd(s) == /\ ~s.revealed
                 /\ s.partner # None => ~session(s.partner).revealed
                 /\ ~party(s.peer).corrupted

\* Wrong on purpose: clause (c) is missing, a session is challenged again.
cleanIn_again(s) == freshAtEnd(s)
cleanIn(s) == freshAtEnd(s) /\ ~s.tested

finalClean == \A i \in DOMAIN sessions : sessions[i].tested => freshAtEnd(sessions[i])

Challenge(i) == IF <<"challenge", i>> \in told THEN <<"again", i>> ELSE <<"challenge", i>>

-----------------------------------------------------------------------------
(* The queries.                                                            *)

Init ==
  /\ \E seed \in [Registered -> Block] :
       parties = [p \in Registered |-> [pk |-> keygen(seed[p]).pk, sk |-> keygen(seed[p]).sk,
                                        corrupted |-> FALSE]]
  /\ sessions = <<>>
  /\ told = {}

Send(owner, peer, role, coins) ==
  LET cs == encaps(party(peer).pk, coins)
      s  == [NoSession EXCEPT !.owner = owner, !.peer = peer, !.role = role, !.sid = cs.ct,
                              !.key = derive_session_key(cs.shared)]
  IN /\ Len(sessions) < MaxSessions
     /\ sessions' = Append(sessions, [s EXCEPT !.partner = findPartner(sessions, s)])
     /\ UNCHANGED <<parties, told>>

\* Outside the tables Reveal and Corrupt answer a constant and change nothing.
Reveal(i) ==
  /\ sessions' = [sessions EXCEPT ![i].revealed = TRUE]
  /\ told' = told \cup {<<"key", i>>}
  /\ UNCHANGED parties

Corrupt(p) ==
  /\ parties' = [parties EXCEPT ![p].corrupted = TRUE]
  /\ told' = told \cup {<<"sk", p>>}
  /\ UNCHANGED sessions

\* A session that is not clean gets a constant and nothing changes.
Test(i) ==
  /\ cleanIn(session(i))
  /\ sessions' = IF i \in DOMAIN sessions THEN [sessions EXCEPT ![i].tested = TRUE]
                                          ELSE sessions
  /\ told' = told \cup {Challenge(i)}
  /\ UNCHANGED parties

Next == \/ \E owner, peer \in PartyId, role \in BOOLEAN, coins \in Block :
              Send(owner, peer, role, coins)
        \/ \E i \in DOMAIN sessions : Reveal(i)
        \/ \E p \in Registered : Corrupt(p)
        \/ \E i \in {0} \cup DOMAIN sessions : Test(i)

Spec == Init /\ [][Next]_vars

-----------------------------------------------------------------------------
(* Correctness.                                                            *)

CSession == [owner : PartyId, peer : PartyId, role : BOOLEAN,
             sid : Block, key : Block, partner : Nat, revealed : BOOLEAN, tested : BOOLEAN]
Answer   == {"key", "sk", "challenge", "again"} \X Nat

TypeOK == /\ parties \in [Registered -> [pk : Block, sk : Block, corrupted : BOOLEAN]]
          /\ sessions \in Seq(CSession)
          /\ told \subseteq Answer

Crossed(s, t) == /\ s.owner = t.peer /\ s.peer = t.owner
                 /\ s.role = ~t.role /\ s.sid = t.sid

FirstCrossed(ss, j) == LET i == ss[j].partner IN
  IF i = None THEN \A k \in 1..(j - 1) : ~Crossed(ss[k], ss[j])
  ELSE i \in 1..(j - 1) /\ Crossed(ss[i], ss[j]) /\ \A k \in 1..(i - 1) : ~Crossed(ss[k], ss[j])

\* The partner on record is the first earlier session with crossed owner and
\* peer, the other role and the same ciphertext, and a session has none only
\* when there is no such session before it: the clause that reads the partner's
\* flag reads the right session, whatever was opened since (findPartner).
PartnersOnRecord == \A j \in DOMAIN sessions : FirstCrossed(sessions, j)

\* The registered peer of a session can derive the session's key from what was
\* sent and its own secret (Send's encaps against ke.rs decaps).
PeerDerivesKey == \A i \in DOMAIN sessions : LET s == sessions[i] IN
  s.peer \in Registered => derive_session_key(decaps(parties[s.peer].sk, s.sid)) = s.key

\* Partners hold the same key exactly when their peers' public keys agree
\* outside the ciphertext: ke.rs binds the key to the public key as well.
PartnersShareKey == \A j \in DOMAIN sessions : LET s == sessions[j]  t == session(s.partner) IN
  s.partner # None =>
    (key_eq(s.key, t.key) <=> party(s.peer).pk \ s.sid = party(t.peer).pk \ s.sid)

\* A final state that is scored has no challenge on a session whose key, whose
\* partner's key or whose peer's secret was ever handed out, before or after the
\* challenge, and no session challenged twice (finalClean, cleanIn).
ScoredIsUnspoilt == finalClean =>
  \A i \in DOMAIN sessions : <<"challenge", i>> \in told =>
    {<<"key", i>>, <<"key", sessions[i].partner>>, <<"sk", sessions[i].peer>>, <<"again", i>>}
      \cap told = {}

\* Without parties and partners it is the game of Demo6Ake.lean: corruption and
\* partners only ever take challenges away.
Game == INSTANCE AkeGame WITH
  PublicKeys <- Block, MaxSessions <- MaxSessions, Bits <- Bits,
  sessions <- [i \in DOMAIN sessions |->
                 [cStar |-> sessions[i].sid, key |-> sessions[i].key,
                  revealed |-> sessions[i].revealed, tested |-> sessions[i].tested]],
  told <- {t \in told : t[1] # "sk"}
RefinesGame == Game!Spec
=============================================================================
