# TLA+ models of aeneas-vcvio-demos

The repository holds Rust mirrors of pieces of Signal's key exchange
(`demos/rust`), which Charon and Aeneas translate to Lean for proofs about
single functions, and the scripts that run the development. What the Lean
proofs say little about is what happens *between* the functions: two parties
that call them in turn over a network that loses, repeats and damages messages,
points that arrive in any order, agents that run the scripts in parallel and are
killed halfway. That is what is modelled here in TLA+, checked with TLC on small
instances, and proved with TLAPS for every value of the constants where that
matters most.

Source paths are relative to the repository's root.

## 1. Inventory

| Component | Source | State it keeps | Operations |
|---|---|---|---|
| SPQR typestate | `demos/rust/spqr/states.rs` | a party's `State`: one of eleven kinds with an epoch | `init_a`, `init_b`, `send_step`, `recv_step` (through `step_send_ct`, `step_recv_ek`), `vulnerable_epoch` |
| SPQR Reed-Solomon codec | `demos/rust/spqr/gf.rs` | none across calls; arrays filled in place | GF(2^16) arithmetic, `poly_*`, `mult_xdiff_trailing`, `prepare`, `complete`, the interpolation kernel, `decode_value_at` |
| SPQR authenticator | `demos/rust/spqr/authenticator.rs` | root key and MAC key | ratchet, header and ciphertext MACs, `inz` and the comparison |
| PQXDH | `demos/rust/pqxdh/pqxdh.rs` | none across calls | `pqxdh_initiate`, `pqxdh_accept`, the secret-input and key layouts, EC codec, associated data |
| Hashing and channel | `demos/rust/crypto/sha256.rs` | a chain key and its counter | SHA-256, HMAC, HKDF, the chain step, encrypt-then-MAC |
| Key-exchange demo and its games | `demos/rust/ke.rs`, `demos/lean/Demos/Demo6Ake.lean`, `Demo6AkeCorrupt.lean` | in the games: parties' key pairs, a table of sessions with partner, revealed and tested flags | `keygen`, `encaps`, `decaps`, `derive_session_key`, `key_eq`; the games' queries send, reveal, corrupt, test |
| Byte loops | `demos/rust/{ratchet,mac,stream,otp}.rs` | none across calls | output split, constant-time compare, stream combine, xor |
| ChaCha20 block | `demos/rust/chacha.rs` | a 16-word working state | quarter round, rounds, feed-forward |
| Worktree scripts | `scripts/dev-worktree.sh`, `scripts/teardown-worktree.sh` | directories, git's worktree metadata, branches, symlinks | create a worktree; gate, remove, prune and delete its branch |
| Audit gate, build | `scripts/audit.sh`, `Makefile` | the recorded roster and axiom lists | compare the Lean audit's output with what is recorded |
| Lean proofs | `demos/lean` | none | proof scripts, checked by Lean's kernel |

**How they interact.** A caller that is *not* in the repository drives the SPQR
typestate: it asks `send_step` for a payload, takes the chunk from an encoder of
the codec, sends both, and on the other side hands `recv_step` the payload with
two facts it has computed, whether the codec has completed (`dec`) and whether the
authenticator's check passed (`accept`). `recv_step` returns `None` for a rejected
message, and the caller then keeps the state it had. PQXDH hands its three derived
keys to the ratchets (the chain key) and to SPQR (`pqr_key`, the authenticator's
first secret); the hash functions it derives them with are opaque there. The
authenticator's builders and the chain step take their keys from the functions of
`sha256.rs`. The two games of the Lean development drive `ke.rs` and keep the tables
that its proofs are about. The two
scripts meet in git's metadata and the file system, and the names of different
agents meet in one command, the global `git worktree prune`.

**What is hard, and what makes each part correct.**

- *SPQR typestate.* Two parties send at any time, and messages are lost, repeated,
  reordered and damaged; an ek may complete before or after the acknowledgement of
  ct1, a message of an earlier phase may come late, and checks may fail after a
  decode has completed. Correct means: every epoch's key is established once on
  either side, in order, from genuine data; no party stops sending a stream its peer
  still needs; nothing but damage is rejected; a round completes; and
  `vulnerable_epoch` tells which secrets the state exposes.
- *Codec.* Index arithmetic in place, a table-driven reduction in two folds that
  feed each other, a division ladder one round short of the field's width. Correct
  means: what the kernel interpolates passes through every point held, any N
  genuine points in any order decode the message, and division inverts.
- *PQXDH.* The two sides name each agreement by different keys, the one-time prekey
  is optional on each side separately, and only one of two public keys is checked
  to be canonical. Correct means: honest runs agree, agreement implies matching
  views, keys of different runs and purposes differ, and the keys are protected by
  each pair of secrets they are meant to mix.
- *Worktree scripts.* A gate is passed and then the world changes; a script is
  killed between two commands or inside one; a sibling prunes. Correct means: no
  unforced teardown destroys unmerged commits or uncommitted edits, metadata never
  outlives its branch, a sibling is left alone, and a re-run finishes the job.
- *Authenticator.* The keys that check ct1 and ct2 come from ct1 and ct2, the MAC of ct1
  arrives long after ct1 is used, and a branch-free comparison works through a 16-bit
  negation. Correct means: every damage to what a check covers is turned away, nothing
  else is.
- *Hashing and channel.* Padding at the block boundary, buffers of fixed capacity, a
  counter at its limit, truncated tags. Correct means: padding is as the standard asks
  and injective; what is opened is what was sealed; keys never repeat; keys handed out
  earlier cannot be worked out later.
- *Key-exchange games.* Flags are read at a challenge and may change after it; a partner is
  recorded once and sessions keep opening; indices are unchecked. Correct means: what is
  recorded is the true history, and a run that is scored has no spoilt challenge.

## 2. Modules

```
SpqrStates ─┬─ SpqrParty ──── SpqrParty_proofs
            └─ SpqrSession ─┐
                            ├─ AuthSession ── AuthSession_proofs (and Hashing_proofs)
Sha256 ── Hashing ─┬─ Authenticator ── Hashing_proofs
                   └─ Channel ─────── Channel_proofs    (and Hashing_proofs)
Ke ─┬─ AkeGame                        AkeCorrupt INSTANCEs AkeGame,
    └─ AkeCorrupt ── AkeCorrupt_proofs     SpqrSession INSTANCEs SpqrRounds
Gf ─┬─ GfLadder ─┬─ RsCodec_proofs
    └─ RsCodec ──┘
Worktree ── Worktree_proofs
Pqxdh ───── Pqxdh_proofs
```

An operator or action has the name it has in the code where TLA+ allows it. The
operators marked "wrong on purpose" are plausible mistakes, each beside the
definition it would replace; with it in place, TLC finds the property it is meant
for violated. No specification uses them.

### SpqrStates: the transition functions

`SendStep` and `RecvStep` are `send_step` and `recv_step`: they return the new
state, the payload or the verdict, and whether an output key is established.
`SendPayload`, `SendKind`, `RecvKind`, `EkSuccessor` are the arms of the `match`
expressions; the epoch comparison comes first, and a later epoch is only taken in
`Ct2Sampled`, without looking at `accept`, as in the code. `VulnerableEpoch` is
`vulnerable_epoch`.

### SpqrParty: one party under any schedule

`Send` and `Receive(e, p, done, accept)` call the functions with every argument the
code's contract quantifies over: any epoch, payload, decode outcome and verdict, at
any time. `keys` logs the output keys (history).

### SpqrSession: two parties over an unreliable network

`Send(p)` puts the next chunk of the outgoing stream in the network; `Deliver(p)` hands
p any message its peer ever sent, so messages are lost (never delivered), repeated
and reordered; `Corrupt(m)` adds a damaged copy. The caller is external and modelled
from the interface: a decode is done at `Need` distinct chunks, and a check passes
when every chunk it covers is genuine. ct1 is decoded without a check of its own;
the later MAC on ct2 covers it, which is what `forged` remembers. A rejected message
leaves state and codec as they were.

### SpqrRounds: what a session promises

The abstract specification: keys come in rounds, the CT sender of an epoch first,
the EK sender second, roles swapping from epoch to epoch. `SpqrSession` instantiates it
with its own `keys`, and `RoundsSpec` is checked as a property and proved.

### Authenticator and AuthSession: the verdicts computed

`Authenticator` is `authenticator.rs`: the inputs of the MACs and of the key update as
sequences of labelled pieces, `update_split`, and `inz` and `compare` on bytes, a byte
being the set of its bits. `new`, `update`, `mac_hdr` and `mac_ct` are the methods that
would call them. `AuthSession` adds no state to `SpqrSession`: it computes the MACs from
what each party has decoded. The header's is taken under the initial keys, the ciphertext's
under keys updated with the epoch secret (`HdrMac`, `CtMac`), which the EK sender gets by decapsulating the very
ct1 and ct2 the MAC is to check. `MacsDecide` then says that the comparison gives exactly the verdict
`Accept` that `SpqrSession` assumes, for damage in the body of a stream, in its MAC or in both.

### Sha256 and Hashing: from bytes to symbols

`Sha256` is the padding and the splitting into blocks, on real offsets and at the
program's sizes (2048, 1536 and 256 bytes); the compression is the symbol of the blocks it absorbed.
`Hashing` builds HMAC, HKDF, the chain step and encrypt-then-MAC on top. A buffer is a
sequence of pieces of known length, so that lengths passed to a function, the bytes beyond them
and the order of concatenation are all told apart, and a digest is the symbol of what was hashed.
The chain counter wraps at `U32`, as `ctr + 1` does in a release build; with overflow
checks the step panics instead, which is a step not taken.

### Channel: two ends of a chain

`Step(p)` is a party's chain step, `Seal` and `Open` are `etm_encrypt_var` and
`etm_decrypt_var` under an output key; `Damage` puts a copy in the network with another
length, another ciphertext, the tag of another message or flipped tag bits. The receiver
may try any key it holds on any message at any time, which is how losing, repeating and
reordering look to it. The application around the functions is external.
What a key is made of is followed digest by digest (`Within`) down to `MaxDepth` terms inside each
other: a step of the chain adds four, the derivation from the secret the rest, and TLC confirmed for
one to four steps that the deepest term lies exactly there. `Known` closes what is given under hashing
and concatenation as often.

### Ke, AkeGame, AkeCorrupt: the key exchange and its games

`Ke` is `ke.rs` bit by bit: a block is the set of its 1 bits. `AkeGame` and `AkeCorrupt` are the
two stateful handlers of the Lean files, one action per query. The challenge bit and the
random key are left out; the history variable `told` records what each answer depended on
(`"key"`, `"sk"`, `"challenge"`), and `"again"` a second challenge on one session.
Queries that change nothing and answer a constant are stuttering. `AkeCorrupt` instantiates `AkeGame`
with its sessions cut down to four fields, and `RefinesGame` says that
it implements it.

### Gf, GfLadder, RsCodec: the codec

A field element is the set of its bits, addition the symmetric difference; `Gf` takes
the width (`2 * Half` bits, the code's byte being `Half` bits) and `Poly` as constants, so
the same definitions describe the code's field and the small ones TLC enumerates.
`REDUCE` is the table, and the reduction folds the two upper bytes in the code's
order, the second fold reading what the first changed. `GfLadder` runs `gf_div` one
round per step (`LadderSpec`) for every numerator and denominator; its reference is reduction by
`Poly` one bit at a time. In `RsCodec` points of a message arrive in any order, up to
one of them corrupt, and `prepare`, `complete` and the kernel are computed on what is
held, array writes included: `mult_xdiff_trailing` writes `out[i - 1]` from an
`out[i]` that is still old.

### Worktree: the two scripts

One action per command of each script, one label per program point; `set -e` ends a
script at a failing command. `TdMergedGate` and `TdDirtyGate` are the gates,
`TdRemove`, `TdPrune`, `TdRm`, `TdBranch` the commands after them; `registered` is the
script's variable, read once at the start, so that by `git worktree remove` a sibling may have
cleared the entry and the command fails (`TdRemoveFails`). `git worktree add` fails on stale
metadata (`DevAddFails`), `ln` and `mkdir` for any reason of the file system's (`DevLinkFails`).
`Kill` and `KillRemove` are kills between two commands and inside `git worktree remove`; `Edit`,
`Commit`, `Merge`, `MoveAside`, `MoveBack` are what agents do meanwhile. `lost`, `past` and a
run's `edited` and `unmerged` are history: what unforced teardowns destroyed, whether the script that
set the directory up was cut short and whether the name lost its entry while the directory was around,
and what a teardown found at its start that has not been committed or merged since.

### Pqxdh: the handshake

`pqxdh_initiate` and `pqxdh_accept` are operators; buffers are sequences of 32-byte blocks,
in the order in which the code writes them. The primitives are symbols: an agreement is the unordered
pair of private keys, a KEM secret belongs to the key and the coins, decapsulating a
foreign ciphertext gives a secret of one's own, a derived key is its input, label and
position. `Initiate(n)` records run n between any two parties, with a genuine, a
foreign or no one-time prekey; `Accept(r)` hands any party any message sent, as it was or with
one field replaced (the other encoding of a key, another key, a wrong type byte, another prekey id or
ciphertext), as often as `MaxAccepts` allows distinct outcomes.

## 3. What is checked

| Run | Question | Bounds, and why they are enough |
|---|---|---|
| `spqr_party` | Under any schedule, are a party's keys one gapless sequence, and is `vulnerable_epoch` exact about them? | Epochs 0..9. A step looks only at how a message's epoch compares with the party's: earlier, equal, next or later; ten epochs give a party each role several times |
| `spqr_party_emission` | Does every transition that establishes a key land in a vulnerable state? *No*, see 6 | one epoch |
| `spqr_session` | Do two parties hand over streams, agree on genuine keys, reject only damage, get their verdicts from the MACs, implement `SpqrRounds`, and complete a round under fair sending and delivery? | `Need` 2, `Chunks` 2, one corrupt message: a decode can be half done, wait for a chunk that has to be sent again, and be spoilt. The invariants are proved for every number of chunks |
| `spqr_second_round` | Does a second round start? *No*, see 6 | one chunk a stream, no damage |
| `gf_ladder` | Is the table-driven product the true remainder, does the ladder keep its invariant, does division invert? | `Half` 2, `Poly` {0, 3, 4}, 16 elements, all pairs: both folds happen, and the first changes the part the second reads |
| `rs_codec` | Do points in any order decode, do interpolants pass through the points, does a corrupt point spoil the rest? | GF(4), N = 3 points of capacity 4, all messages, all orders, one corrupt point |
| `worktree` | Are commits and visible edits kept, is metadata consistent, is a prune confined, does re-running an interrupted teardown finish? | Two agents, one kill or failing link: one pruning sibling, one interruption |
| `worktree_edits` | Are edits kept in *any* worktree? *No*, see 6 | two agents, no kill needed |
| `pqxdh` | Do keys agree exactly when views do, are they separate and protected? | Two parties, two runs, one prekey id, two outcomes: roles can be mirrored or repeated, fields mixed between runs, messages replayed |
| `channel` | Is what is opened what was sealed, are keys new, are old keys out of reach, does every hash fit? | The secret input of 192 bytes, three chain steps each with a counter that wraps after two, two messages of 0, 56 or 1536 bytes (56 is where the length needs another block, 1536 the capacity), one damaged copy |
| `ake` | Are partners and keys what they should be, is a scored run unspoilt, is the game without corruption implemented? | Two parties and an index beyond them, two sessions and an index beyond them, one bit of the blocks (one where the key derivation's constant is set): every order of queries on a pair of partners |
| `ake_out_of_range` | Is a challenge always one on a session of the table? *No*, see 6 | two sessions, one bit |

`CHECK_DEADLOCK FALSE` stands where the system ends: the ladder has done its rounds,
N points are held, the bounds on outcomes, messages or sessions are reached. A session and the scripts never
stop, and deadlock is checked there.

**The properties.** `KeyLogExact` counts keys against the state alone, so that a key derived
twice, an epoch left too early or a key skipped all break it. `PhasesAgree`
relates the two parties' kinds: it says which pairs may meet, and so that a stream is dropped
only once the peer has decoded it. `OneRound` says how far a session ever gets (see 6).
`KeysGenuine` and `OnlyDamageRejected` are the two sides of the checks. `CommitsKept` says that no
unforced teardown deletes commits main does not have, at the deletion of the branch, nor takes a worktree away that
it found ahead of main, at the merge gate. `EditsKept` lets edits the script found go in one
case only: the name had lost its entry while the directory was around, to a sibling's prune or in an
interrupted remove, and the script therefore saw no registered worktree. That case is a defect, and
`NoEditsLost`, which does not except it, is violated (see 6). `PruneScoped` is an action property about
whose metadata a prune may clear; it too allows the one coincidence the script documents.
`SharesBoth` asks both links of every worktree at rest whose dev script was not cut short, by a kill or by a
command that failed.
`HonestRunsAgree` and `ViewsMatch` are the two directions of the key agreement;
`TranscriptBound` adds the associated data, which tells apart what the keys do not (an
identity in its other encoding). `KeysSeparate` and `KeysProtected` read the byte layouts:
a leg written over another one leaves both sides in agreement and is seen only by what an
outsider could compute. `KeysProtected` has a pair of secrets for each leg and one for the KEM, so that
each of the hand-written offsets has a conjunct that fails without it.
`KeysNeverRepeat` compares the chain key a party holds with all it has stepped past (`spent`, history), with every
output key and with the keys of the handshake.
`ForwardSecret` asks whether an output key both parties have moved past can be computed, by
hashing, from everything they still hold and the other keys of the handshake. `BuffersHold` takes the length of every hash
that a session really computed to the padding at the program's sizes, down to the number of bits in
its last 8 bytes (`LengthRight`).
`PartnersOnRecord` ties the partner field to the history it was computed from, through
sessions opened since; `ScoredIsUnspoilt` says of a final state that is scored what was never handed
out, before or after the challenge. Two limits: in a run of two sessions there is at most one
earlier candidate for a partner (three sessions of two parties are beyond a run of a few minutes), so that
`PartnersOnRecord` picks the *first* of several only in its theorem, which holds for any number
of sessions; and `ScoredIsUnspoilt` reads the partner on record, as the game does, which only the later session of
a pair has, and speaks of challenges on sessions of the table, those beyond it being the subject of
`ake_out_of_range` (see 6).

**Fairness.** *SPQR*: each party's application keeps asking for messages (`WF` on
`Send(p)`), and as long as some message in the network would still change the receiver,
one that does is delivered in the end (`WF` on `Deliver(p)`, whose stuttering deliveries
do not count). Nothing is assumed of a particular message, of order or of damage, and
`RoundCompletes` is conditional: a party that already holds a corrupt chunk can not
complete that decode, so the property speaks of behaviours in which, from some point on, no party holds one. Corrupt messages that the checks
turn away do not count against it. *Worktree*: a script that runs gets to its next
command (`WF`), a directory is moved aside only for a while (`WF` on `MoveBack`), and an
agent runs its teardown again whenever it could (`SF` on `TdStart`, since editing and
developing can disable it in between). Kills and failing links are never fair and are bounded. `Finishes` asks for the whole job: directory, entry and branch gone. The header of
`teardown-worktree.sh` promises the outcome for exactly that: re-running.

## 4. What is proved

All for every value of the constants (under the named `ASSUME`s: bounds are natural
numbers, `Need` and `Chunks` are positive, `None` is none of the other values).

- **SpqrParty_proofs**: `TypeCorrect`, `KeysInOrder` (`KeyLogExact`), `VulnerableExact`. The
  invariant is that the rank of the last key is determined by epoch and kind; lemmas
  `SendStage` and `RecvStage` say that a step moves the stage by one exactly when it establishes a key.
- **AuthSession_proofs**: `TypeCorrect`, `StreamsHandedOver` (`PhasesAgree`), `OnlyOneRound`,
  `GenuineKeys`, `RejectsOnlyDamage`, `SessionImplementsRounds` and `TheoremMacsDecide` (`MacsDecide`). `PhasesAgree` is not inductive: a
  delivered message may be as old as the session. The strengthening says that every message in the network is of epoch 0
  and of a payload its sender can have sent by the time it is in its present kind (`SentTells`), so that a late
  message is known to be harmless, and that only A, while its round is not finished,
  can hold a corrupt decode that no check has covered yet (`ForgedTells`). The MACs come last:
  a MAC is a term, `HmacTells` reads key, length and bytes back from it, and labels, epochs and bodies
  are read back from the bytes, so that a MAC computed from damaged data is another one; `CompareExact`
  and the bits of a byte do the rest.
- **Worktree_proofs**: `TypeCorrect`, `UnmergedCommitsKept` (`CommitsKept`), `SeenEditsKept`
  (`EditsKept`), `ListedBranches` (`ListedHasBranch`), `WorktreesShare` (`SharesBoth`) and the action
  property `PrunesAreScoped` (`PruneScoped`), for any number of agents and faults. The
  invariant `Knows` adds, for each running script, what its program point knows: past the gates of
  an unforced run a registered worktree has no edits the run found, and no commits it found are unmerged;
  a run that found no entry for a directory that is around has `past` say so. A second one, `Links`, follows
  the directory: it is absent until `git worktree add`, what is removed was listed, and a directory that
  no dev script is setting up has both links or had its script cut short.
- **Pqxdh_proofs**: `TypeCorrect`, `HonestAgreement` (`HonestRunsAgree`),
  `AgreementMeansMatchingViews` (`ViewsMatch`), `TranscriptIsBound` (`TranscriptBound`),
  `KeysAreSeparate` (`KeysSeparate`) and `KeysAreProtected` (`KeysProtected`), for any parties, runs, prekeys and number of outcomes. The invariant (`Recorded`) says every record is
  one the two sides produce; then equal keys come from equal secret inputs, and equal
  secret inputs determine the views (`SameSecretSameView`). For `KeysProtected` the proof names, for each of the five pairs,
  the leg of the secret input that needs one of the two (`WithoutThePair`, `OutOfReach`).

- **AkeCorrupt_proofs**: `KemCorrect`, `TypeCorrect`, `PartnersCorrect` (`PartnersOnRecord`),
  `PeersDeriveKeys`, `PartnersKeysExact` (`PartnersShareKey`), `ScoredRunsUnspoilt`
  (`ScoredIsUnspoilt`) and `CorruptGameRefines` (`RefinesGame`), for any set of bits, any number
  of parties and sessions. `PartnersOnRecord` is inductive, since sessions are appended and
  a partner's index is below its session's; `KeysTell` says of every session which coins it was
  made with; `FlagsTell` says that the flags are exactly the answers given (a key was told iff its
  session is marked, and so on), from which the clauses read at the end speak of the whole history.
- **Hashing_proofs**: `PaddingIsRight` for every length the buffer allows, with the length field's value
  (`LengthIsRight`: its last two bytes are the digits of the bit length to base 256, the others 0), `PaddingInjective`
  (two messages with the same blocks are the same message: the length is read back from the last
  block, whose place the number of blocks gives), `CallersFit`, and `InzExact` and `CompareExact`: the
  comparison is 0 exactly for equal MACs, all 2^512 pairs of them, where `MacsDecide` looks at single
  bits. These are about the program's own sizes. `HmacTells` is the fact everything symbolic rests
  on: equal MACs have the same key and cover the same bytes of as long a message. Under it
  lies the arithmetic of buffers: what a fold over the pieces adds up to, what `Take` keeps.
- **Channel_proofs**: `TheoremKeysNeverRepeat` (`KeysNeverRepeat`), `TheoremOpensExactly`
  (`OpensExactlyWhatWasSealed`), `TheoremForwardSecret` (`ForwardSecret`) and `TheoremBuffersHold`
  (`BuffersHold`), for any number of steps, messages and damaged copies, any lengths and any width of
  the counter. The program keeps only a party's last chain key, so the invariant (`HistoryInv`) says that there is
  a history: the states the chain went through, from the one derived from the handshake, with the keys
  stepped past along it (`TrailInv`). Two
  equal chain keys of one history come from equal keys one step earlier, and so down to the first,
  which covers more bytes than any later one: a contradiction that does not look at the counter. `SealInv`
  says that every message in the network is well formed and has a tag made of some MAC that was
  taken. For `ForwardSecret` the proof names, for each key the parties have moved past, the set of
  everything that can only be worked out with a key behind it (`Lost`), shows that its members are made of
  each other and of the secret alone (`Shut`), that nothing a party still holds mentions one, and that learning never gets into such
  a set. For `BuffersHold`, a term fits when it lies in some set closed under taking digests apart, all of
  whose hashes fit (`Fits`); every constructor of the chain and of a tag keeps that.
- **RsCodec_proofs**, the arithmetic, for every width and polynomial: `TheoremProductExact` (`ProductExact`),
  `TheoremLadderExact` (`LadderExact`) and, in a field, `TheoremDivisionInverts` (`DivisionInverts`). Both folds
  of the reduction are shown to keep the residue; the ladder's invariant is inductive. `IsField` is
  Fermat's equation for every element but zero; `CodeIsField` proves it of the code's own field, 16 bits and
  0x1100b: sixteen squarings give every element back, squaring being linear and the basis
  being computed once, and only 0 and 1 are their own squares.
- **RsCodec_proofs**, the kernel, over any width and polynomial and with any capacity: `TheoremCodecInv`
  (the points held are pairwise different and fit, and the polynomial kept is their interpolant),
  `TheoremInterpolates`, `TheoremDecodes` and `TheoremDamageSpreads` over a field, `TheoremEvaluatorsAgree` and
  `TheoremEncodingLinear` over any ring of words. `mult_xdiff_trailing` is shown to multiply in place by X - x,
  `complete` to divide the full product by one factor (`denominator` being what is left at the point) and scale, the sum to
  pass through every point, and a polynomial of degree below N to be determined by N values.

The proofs about recursive definitions (the folds over pieces, the arrays filled in a loop, the powers) all
follow one pattern: the library's induction theorem takes an operator and cannot be used, so induction
is stated for *sets* of numbers and proved from the well-foundedness of `<` on `Nat` (`LeastElement`,
`Induction`); that a recursive function exists is itself proved by induction. The models
use recursive functions and folds and no `RECURSIVE` operator wherever something is proved.

**Only model-checked**: liveness (`RoundCompletes`, `Finishes`), which TLAPS cannot treat
under fairness. Conversely, `HistoryInv`, `SealInv` and `Fits` say that there is a history, a sequence or a
set of terms, over no set TLC could enumerate, and are not invariants of a run; what they are for
is.

## 5. Assumptions and limits

- *External code*, modelled from how the source uses it: the caller of `send_step` and
  `recv_step`, the encoder and decoder around the kernel, the network, git and the
  file system, PQXDH's bundles, key stores and message parsing.
- *SPQR*: authentication of whole messages is outside `states.rs` and outside the model;
  what is damaged is a chunk. A message carries the epoch of its sender's state.
  The chunks of a stream repeat after `Chunks` of them.
- *Codec*: which points of a message are sent and which arrive is up to the external
  encoder, decoder and network; the model takes every set and order of them. The code's own
  field (16 bits) and capacity (36) are out of TLC's reach: the runs use 4 and 2 bits and capacity
  4, and the theorems hold for every width and capacity, with `CodeIsField` for the code's polynomial.
- *Worktree*: the main checkout is on `main`; an agent does not move a directory while its
  script runs, and one agent works per name; edits made after the dirty gate are not
  counted as lost by `EditsKept`, because no gate could have seen them (the window is
  listed as a hazard); a kill inside `git worktree remove` has the two outcomes the
  script's comments document.
- *PQXDH*: the primitives are ideal, so nothing is said about degenerate points or
  collisions; that the KEM secret is bound to the key is the assumption the
  repository states of it. A bundle's identity, signed prekey and Kyber prekey are authentic, its
  one-time prekey is unsigned; a party has one signed and one Kyber prekey; a public
  key has one other encoding; at most one field of a message is altered. One-time
  prekeys are not deleted here, since the code that deletes them is not in the repository,
  and a replay of a message is accepted with the same keys.
- *Authenticator*: when the methods are called, and with what, is taken from the comments of
  `authenticator.rs` (the MAC covers ct1 and ct2, the key is updated before it) and is external;
  two different MACs are assumed not to collide, and a damaged MAC not to hit the right one.
- *Hashing and channel*: digests are ideal, so there are no collisions, and truncated tags of different
  MACs differ. The compression function, its constants and `H0` are not
  modelled. The secret input is one piece of its
  real length, 160 or 192 bytes (`SecretLen`; the run has 192, the proofs both). Which output key protects which message, and what keystream and MAC key
  it gives, is external. `len` beyond 1536 panics in the code and is not a state here.
- *Games*: nothing is said about advantages or reductions, which are what the Lean files prove; blocks have
  one bit in the run and any number in the proofs. `send` has no range check on its parties:
  contrary to the comment at `Demo6AkeCorrupt.lean:203-205`, a session with an out-of-range peer does arise, with the
  default (empty) public key, and the properties are stated so that they hold of it too.
- *Not modelled*: `ratchet.rs`, `mac.rs`, `stream.rs`, `otp.rs` (one loop or operator each, no state; the
  Lean proofs say all there is to say of a single call); `chacha.rs` (straight-line arithmetic, where
  a model would be a second transcription compared with itself); the audit gate and
  `Makefile` (text filters: what can go wrong is the parsing, which a model of sets of names
  leaves out); the Lean proofs themselves.
- *Constant-time behaviour and timing* are not modelled anywhere.

## 6. Where the code and its documents disagree

- **A second round never starts** (`spqr_second_round`, `NewRoundStarts`). The EK sender that
  completes a round goes to `NoHeaderReceived(ep)` (`states.rs:277`), keeping the
  epoch, while its peer waits in `Ct2Sampled(ep)` for a message of `ep + 1`
  (`states.rs:353-362`). No party ever sends one. `states.rs:193-194` and `:356` say that the
  epoch advances there. `OnlyOneRound` proves the consequence for every number of chunks: both
  parties stay in epoch 0, with the two keys of one round.
- **A key without a vulnerable state** (`spqr_party_emission`, `EmissionLandsVulnerable`).
  `StatesGraph.lean:31-32` says that a transition that emits a key lands in a state vulnerable at
  the emitter's epoch; the EK sender's lands in `NoHeaderReceived`, for which `vulnerable_epoch`
  is `None`. The same file concedes the exception at `:184-189`, where the lemma about that receive is
  stated for the state it does land in; the general claim at its head (and at `:170-173`) stands uncorrected.
  `VulnerableWindow` is what does hold.
- **Uncommitted edits can be destroyed without `--force`** (`worktree_edits`, `NoEditsLost`). A worktree whose directory
  is aside while a sibling's teardown prunes is no longer listed; back in place, its
  unforced teardown skips the dirty gate (`teardown-worktree.sh:74`) and `rm -rf` destroys
  its edits, against `teardown-worktree.sh:13-21`. `EditsKept` is the promise the script keeps: edits it
  found are destroyed in no other case than a lost entry.
- **A test beyond the table is a challenge** (`ake_out_of_range`, `ChallengesInTable`). `Demo6Ake.lean:665-667` says
  that an out-of-range `test` returns a default. `akeImpl` reads the table with `getD i default`
  (`:689`), the default session is fresh, and the update of an index outside the table changes
  nothing: such a test is answered with a challenge, and again each time it is asked.
- Three comments of `Demo6AkeCorrupt.lean` say more than holds, and the properties that pass are the exact
  statements. `:33-34` and `:328-329`: partnered sessions share a key; they do exactly when their peers' public keys
  agree outside the ciphertext (`PartnersShareKey`), because `ke.rs` binds the key to the public
  key. `:407-409`: partners are mutual; the relation is, the recorded field is not: of two partners only the later has the
  other on record (`PartnersOnRecord`), so that a reveal of the later one is not seen when the
  earlier is tested. `:203-205`: see section 5.

## 7. Plan

The order put first what interacts: the typestate, alone and then as two parties with their abstract
specification, the scripts, the codec and the handshake; then the hash functions and the channel on
top of them, the authenticator composed with the session, and the key exchange under its games. Proofs
followed in the same order. Every safety invariant and action property of the passing runs is now a
theorem, and so are both refinements. What is left: the safety half of the liveness
properties, that in every reachable state of a session in which no corrupt chunk is held, and of a script
that was interrupted, some step still makes progress.
