------------------------------ MODULE AkeGame -------------------------------
(***************************************************************************)
(* The multi-session key-indistinguishability game of                      *)
(* demos/lean/Demos/Demo6Ake.lean over the byte core of ke.rs.  The hidden *)
(* bit and the sampled keys are left out: what a query's answer depends on *)
(* is recorded in `told'.  A session's index here is one more than in the  *)
(* code, and 0 stands for any index outside the table.                     *)
(***************************************************************************)
EXTENDS Ke, Sequences

CONSTANTS PublicKeys,    \* responder keys: one in the program's game
          MaxSessions    \* bound on the sessions opened

VARIABLES sessions,      \* the table of sessions
          told           \* the answers that depend on a secret: see Challenge

vars == <<sessions, told>>

\* `default', what getD reads outside the table.
NoSession  == [cStar |-> {}, key |-> {}, revealed |-> FALSE, tested |-> FALSE]
session(i) == IF i \in DOMAIN sessions THEN sessions[i] ELSE NoSession

fresh(s) == ~s.revealed /\ ~s.tested

\* A set of answers cannot count: a second challenge is told apart.
Challenge(i) == IF <<"challenge", i>> \in told THEN <<"again", i>> ELSE <<"challenge", i>>

Init == sessions = <<>> /\ told = {}

Send(pk, coins) ==
  LET cs == encaps(pk, coins)
  IN /\ Len(sessions) < MaxSessions
     /\ sessions' = Append(sessions, [cStar |-> cs.ct, key |-> derive_session_key(cs.shared),
                                      revealed |-> FALSE, tested |-> FALSE])
     /\ UNCHANGED told

\* Outside the table Reveal answers a constant and changes nothing.
Reveal(i) ==
  /\ sessions' = [sessions EXCEPT ![i].revealed = TRUE]
  /\ told' = told \cup {<<"key", i>>}

\* A session that is not fresh gets a constant and nothing changes.
Test(i) ==
  /\ fresh(session(i))
  /\ sessions' = IF i \in DOMAIN sessions THEN [sessions EXCEPT ![i].tested = TRUE]
                                          ELSE sessions
  /\ told' = told \cup {Challenge(i)}

Next == \/ \E pk \in PublicKeys, coins \in Block : Send(pk, coins)
        \/ \E i \in DOMAIN sessions : Reveal(i)
        \/ \E i \in {0} \cup DOMAIN sessions : Test(i)

Spec == Init /\ [][Next]_vars

-----------------------------------------------------------------------------
\* Every challenge is a challenge on a session of the table: "`Test' returns
\* the real or random session key (or a default on a non-fresh / out-of-range
\* session)" (Demo6Ake.lean, akeSpec).
ChallengesInTable == \A t \in told : t[1] = "challenge" => t[2] \in DOMAIN sessions
=============================================================================
