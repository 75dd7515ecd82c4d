------------------------------ MODULE Worktree ------------------------------
(***************************************************************************)
(* scripts/dev-worktree.sh and scripts/teardown-worktree.sh run by         *)
(* parallel agents.  Every worktree name belongs to one agent: it runs the *)
(* scripts for that name one at a time, while its editor may still write   *)
(* to the worktree and commit.  The names meet in one place, the global    *)
(* `git worktree prune' of teardown-worktree.sh:101.  A script can be      *)
(* killed between any two of its commands, or inside `git worktree         *)
(* remove', a link may fail to be made, and `set -e' ends a script at a    *)
(* command that fails.                                                     *)
(*                                                                         *)
(* The git commands are external: they do what the scripts' comments say.  *)
(* The main checkout is on `main', and a directory that is away (moved     *)
(* aside by its agent, with no script running) comes back unchanged.       *)
(***************************************************************************)
EXTENDS Naturals

CONSTANTS Name,       \* the worktree names, one agent each
          MaxFaults   \* bound on the scripts killed and the links that fail

ASSUME FaultsAssumption == MaxFaults \in Nat

VARIABLES dir,      \* dir[n]: where .worktrees/n is
          reg,      \* the names `git worktree list' shows
          dirty,    \* the worktrees with uncommitted changes to tracked files
          branch,   \* branch[n]: absent, merged into main, or ahead of it
          links,    \* links[n]: the shared symlinks the worktree has
          run,      \* run[n]: the script running for n
          built,    \* the main checkout has its package cache
          faults,   \* how many scripts were killed or had a link fail
          past,     \* past[n]: what befell the directory of n (history only)
          lost      \* lost[n]: what unforced teardowns of n destroyed

tree == <<dir, reg, dirty, branch, links>>
vars == <<dir, reg, dirty, branch, links, run, built, faults, past, lost>>

Shared == {"deps", "packages"}

\* at: the next command; force, registered: the script's own variables;
\* edited, unmerged: it found edits that are still not committed, commits
\* that are still not merged (history only).
Idle == [at |-> "idle", force |-> FALSE, registered |-> FALSE,
         edited |-> FALSE, unmerged |-> FALSE]

Init == /\ dir = [n \in Name |-> "absent"]
        /\ reg = {}
        /\ dirty = {}
        /\ branch = [n \in Name |-> "absent"]
        /\ links = [n \in Name |-> {}]
        /\ run = [n \in Name |-> Idle]
        /\ built = FALSE
        /\ faults = 0
        /\ past = [n \in Name |-> {}]
        /\ lost = [n \in Name |-> {}]

At(n, label)   == run[n].at = label
GoTo(n, label) == run' = [run EXCEPT ![n].at = label]
Exit(n)        == run' = [run EXCEPT ![n] = Idle]

-----------------------------------------------------------------------------
(* dev-worktree.sh                                                         *)

\* The two checks; either exits before anything has changed.
DevStart(n) ==
  /\ At(n, "idle") /\ dir[n] = "absent" /\ built
  /\ run' = [run EXCEPT ![n] = [Idle EXCEPT !.at = "show-ref"]]
  /\ UNCHANGED <<tree, built, faults, past, lost>>

\* Attach the branch if there is one, else create it.
DevShowRef(n) ==
  /\ At(n, "show-ref")
  /\ GoTo(n, IF branch[n] = "absent" THEN "create" ELSE "attach")
  /\ UNCHANGED <<tree, built, faults, past, lost>>

\* `git worktree add' refuses a name whose stale metadata is still listed.
DevAdd(n) ==
  /\ \/ At(n, "attach") /\ UNCHANGED branch
     \/ At(n, "create") /\ branch' = [branch EXCEPT ![n] = "merged"]
  /\ n \notin reg
  /\ dir' = [dir EXCEPT ![n] = "present"]
  /\ reg' = reg \cup {n}
  /\ GoTo(n, "link deps")
  /\ UNCHANGED <<dirty, links, built, faults, past, lost>>

\* It fails after -b has created the branch.
DevAddFails(n) ==
  /\ \/ At(n, "attach") /\ UNCHANGED branch
     \/ At(n, "create") /\ branch' = [branch EXCEPT ![n] = "merged"]
  /\ n \in reg
  /\ Exit(n)
  /\ UNCHANGED <<dir, reg, dirty, links, built, faults, past, lost>>

DevLink(n, target, label, next) ==
  /\ At(n, label)
  /\ links' = [links EXCEPT ![n] = @ \cup {target}]
  /\ GoTo(n, next)
  /\ UNCHANGED <<dir, reg, dirty, branch, built, faults, past, lost>>

\* Wrong on purpose: the package cache is not linked.
DevLinkDepsOnly(n) == DevLink(n, "deps", "link deps", "ready")

DevLinkDeps(n)     == DevLink(n, "deps", "link deps", "link packages")
DevLinkPackages(n) == DevLink(n, "packages", "link packages", "ready")

\* A script that ends while it links leaves a directory that is half made.
CutShort(n) ==
  past' = [past EXCEPT ![n] = @ \cup
             IF run[n].at \in {"link deps", "link packages"} THEN {"cut short"} ELSE {}]

\* Wrong on purpose: the script goes on past a link it could not make.
DevLinkFailsUnnoticed(n) ==
  /\ run[n].at \in {"link deps", "link packages"} /\ faults < MaxFaults
  /\ faults' = faults + 1
  /\ GoTo(n, IF At(n, "link deps") THEN "link packages" ELSE "ready")
  /\ UNCHANGED <<tree, built, past, lost>>

\* `ln' or `mkdir' fails, and `set -e' ends the script.
DevLinkFails(n) ==
  /\ run[n].at \in {"link deps", "link packages"} /\ faults < MaxFaults
  /\ faults' = faults + 1
  /\ CutShort(n)
  /\ Exit(n)
  /\ UNCHANGED <<tree, built, lost>>

\* Print `worktree ready' and end.
DevReady(n) ==
  /\ At(n, "ready")
  /\ Exit(n)
  /\ UNCHANGED <<tree, built, faults, past, lost>>

Dev(n) == \/ DevStart(n) \/ DevShowRef(n) \/ DevAdd(n) \/ DevAddFails(n)
          \/ DevLinkDeps(n) \/ DevLinkPackages(n) \/ DevLinkFails(n) \/ DevReady(n)

-----------------------------------------------------------------------------
(* teardown-worktree.sh                                                    *)

\* Arguments, name guard, and the look at `git worktree list'.
TdStart(n, force) ==
  /\ At(n, "idle") /\ dir[n] # "away"
  /\ run' = [run EXCEPT ![n] = [at |-> "merged?", force |-> force,
                                registered |-> n \in reg, edited |-> n \in dirty,
                                unmerged |-> branch[n] = "ahead"]]
  /\ UNCHANGED <<tree, built, faults, past, lost>>

\* Wrong on purpose: a branch that is there passes for merged.
IsAncestorAlways(n) == TRUE

\* merge-base --is-ancestor, of a branch that is there.
IsAncestor(n) == branch[n] # "ahead"

\* The merge gate: refuse a branch with commits that main does not have.
TdMergedGate(n) ==
  /\ At(n, "merged?")
  /\ IF ~IsAncestor(n) /\ ~run[n].force THEN Exit(n) ELSE GoTo(n, "clean?")
  /\ UNCHANGED <<tree, built, faults, past, lost>>

\* Wrong on purpose: the gate's condition never holds.
InspectsNothing(n) == FALSE

\* The dirty gate looks only at a registered worktree that is there.
Inspects(n) == run[n].registered /\ dir[n] = "present"

\* Wrong on purpose: prune whatever was removed; remove only the directory.
AfterGatesPrune(n)  == IF run[n].registered THEN "remove" ELSE "prune"
AfterGatesRmOnly(n) == "rm"

\* Wrong on purpose: a directory that is not registered ends the script.
AfterGatesListed(n) == IF run[n].registered THEN "remove" ELSE "torn down"

\* Only a registered worktree is removed and followed by the prune.
AfterGates(n) == IF run[n].registered THEN "remove" ELSE "rm"

TdDirtyGate(n) ==
  /\ At(n, "clean?")
  /\ IF Inspects(n) /\ n \in dirty /\ ~run[n].force THEN Exit(n) ELSE GoTo(n, AfterGates(n))
  /\ UNCHANGED <<tree, built, faults, past, lost>>

Losses == {"commits", "unmerged", "edits", "unlisted edits"}

\* What a run that was not forced destroys with the directory of n: a worktree
\* it found ahead of main, edits it found there; the last are told apart
\* where the name had lost its entry while the directory was still around.
Destroyed(n) ==
  LET found    == run[n].edited /\ n \in dirty
      unlisted == ~run[n].registered /\ "unlisted" \in past[n]
  IN  {what \in Losses :
         /\ ~run[n].force
         /\ \/ what = "unmerged" /\ run[n].unmerged
            \/ what = "edits" /\ found /\ ~unlisted
            \/ what = "unlisted edits" /\ found /\ unlisted}

\* Wrong on purpose: the edits outlive their directory.
DropDirKeepsEdits(n) == /\ dir' = [dir EXCEPT ![n] = "absent"]
                        /\ links' = [links EXCEPT ![n] = {}]
                        /\ past' = [past EXCEPT ![n] = {}]
                        /\ UNCHANGED <<dirty, lost>>

DropDir(n) == /\ dir' = [dir EXCEPT ![n] = "absent"]
              /\ dirty' = dirty \ {n}
              /\ links' = [links EXCEPT ![n] = {}]
              /\ past' = [past EXCEPT ![n] = {}]
              /\ lost' = [lost EXCEPT ![n] = @ \cup Destroyed(n)]

\* git worktree remove --force
TdRemove(n) ==
  /\ At(n, "remove") /\ n \in reg
  /\ DropDir(n)
  /\ reg' = reg \ {n}
  /\ GoTo(n, "prune")
  /\ UNCHANGED <<branch, built, faults>>

\* It fails when a sibling's prune has cleared the entry since line 57.
TdRemoveFails(n) ==
  /\ At(n, "remove") /\ n \notin reg
  /\ Exit(n)
  /\ UNCHANGED <<tree, built, faults, past, lost>>

\* git worktree prune: every name whose directory is missing just now.
TdPrune(n) ==
  /\ At(n, "prune")
  /\ reg' = {m \in reg : dir[m] = "present"}
  /\ past' = [m \in Name |->
       past[m] \cup IF m \in reg /\ dir[m] = "away" THEN {"unlisted"} ELSE {}]
  /\ GoTo(n, "rm")
  /\ UNCHANGED <<dir, dirty, branch, links, built, faults, lost>>

\* rm -rf of a directory a prior run left behind.
TdRm(n) ==
  /\ At(n, "rm")
  /\ IF dir[n] = "present" THEN DropDir(n) ELSE UNCHANGED <<dir, dirty, links, past, lost>>
  /\ GoTo(n, "branch")
  /\ UNCHANGED <<reg, branch, built, faults>>

\* Wrong on purpose: -D whether forced or not.
DeletesAlways(n) == TRUE

\* branch -D when forced; branch -d keeps a branch that is not merged.
Deletes(n) == run[n].force \/ branch[n] = "merged"

TdBranch(n) ==
  /\ At(n, "branch")
  /\ IF Deletes(n)
       THEN /\ branch' = [branch EXCEPT ![n] = "absent"]
            /\ lost' = [lost EXCEPT ![n] = @ \cup
                 IF branch[n] = "ahead" /\ ~run[n].force THEN {"commits"} ELSE {}]
       ELSE UNCHANGED <<branch, lost>>
  /\ GoTo(n, "torn down")
  /\ UNCHANGED <<dir, reg, dirty, links, built, faults, past>>

TdDone(n) ==
  /\ At(n, "torn down")
  /\ Exit(n)
  /\ UNCHANGED <<tree, built, faults, past, lost>>

Teardown(n) == \/ \E force \in BOOLEAN : TdStart(n, force)
               \/ TdMergedGate(n) \/ TdDirtyGate(n) \/ TdRemove(n)
               \/ TdRemoveFails(n) \/ TdPrune(n) \/ TdRm(n) \/ TdBranch(n) \/ TdDone(n)

-----------------------------------------------------------------------------
(* Kills, the agents' own work, and main.                                  *)

Kill(n) ==
  /\ ~At(n, "idle") /\ faults < MaxFaults
  /\ faults' = faults + 1
  /\ CutShort(n)
  /\ Exit(n)
  /\ UNCHANGED <<tree, built, lost>>

\* Inside `git worktree remove': stale metadata or a lingering directory.
KillRemove(n) ==
  /\ At(n, "remove") /\ n \in reg /\ faults < MaxFaults
  /\ faults' = faults + 1
  /\ Exit(n)
  /\ \/ DropDir(n) /\ UNCHANGED reg
     \/ /\ reg' = reg \ {n}
        /\ past' = [past EXCEPT ![n] = @ \cup
                      IF dir[n] = "present" THEN {"unlisted"} ELSE {}]
        /\ UNCHANGED <<dir, dirty, links, lost>>
  /\ UNCHANGED <<branch, built>>

Edit(n) == /\ dir[n] = "present"
           /\ dirty' = dirty \cup {n}
           /\ UNCHANGED <<dir, reg, branch, links, run, built, faults, past, lost>>

Commit(n) == /\ dir[n] = "present" /\ n \in reg /\ n \in dirty
             /\ branch[n] # "absent"
             /\ dirty' = dirty \ {n}
             /\ branch' = [branch EXCEPT ![n] = "ahead"]
             /\ run' = [run EXCEPT ![n].edited = FALSE]
             /\ UNCHANGED <<dir, reg, links, built, faults, past, lost>>

Merge(n) == /\ branch[n] = "ahead"
            /\ branch' = [branch EXCEPT ![n] = "merged"]
            /\ run' = [run EXCEPT ![n].unmerged = FALSE]
            /\ UNCHANGED <<dir, reg, dirty, links, built, faults, past, lost>>

MoveAside(n) == /\ dir[n] = "present" /\ At(n, "idle")
                /\ dir' = [dir EXCEPT ![n] = "away"]
                /\ UNCHANGED <<reg, dirty, branch, links, run, built, faults, past, lost>>

MoveBack(n) == /\ dir[n] = "away"
               /\ dir' = [dir EXCEPT ![n] = "present"]
               /\ UNCHANGED <<reg, dirty, branch, links, run, built, faults, past, lost>>

\* make in the main checkout fills demos/lean/.lake/packages.
Build == /\ ~built /\ built' = TRUE
         /\ UNCHANGED <<tree, run, faults, past, lost>>

Agent(n) == Edit(n) \/ Commit(n) \/ Merge(n) \/ MoveAside(n) \/ MoveBack(n)

Next == \/ Build
        \/ \E n \in Name : Dev(n) \/ Teardown(n) \/ Kill(n) \/ KillRemove(n) \/ Agent(n)

Spec == Init /\ [][Next]_vars

\* A script's next command is eventually run, a directory is away only for a
\* while, and an agent keeps coming back to run its teardown again.
Script(n) == \/ DevShowRef(n) \/ DevAdd(n) \/ DevAddFails(n)
             \/ DevLinkDeps(n) \/ DevLinkPackages(n) \/ DevReady(n)
             \/ TdMergedGate(n) \/ TdDirtyGate(n) \/ TdRemove(n)
             \/ TdRemoveFails(n) \/ TdPrune(n) \/ TdRm(n) \/ TdBranch(n) \/ TdDone(n)

FairSpec == Spec /\ \A n \in Name : /\ WF_vars(Script(n))
                                   /\ WF_vars(MoveBack(n))
                                   /\ SF_vars(TdStart(n, FALSE))

-----------------------------------------------------------------------------
DevLabels == {"show-ref", "attach", "create", "link deps", "link packages", "ready"}
TdLabels  == {"merged?", "clean?", "remove", "prune", "rm", "branch", "torn down"}
Label     == {"idle"} \cup DevLabels \cup TdLabels
Run == [at : Label, force : BOOLEAN, registered : BOOLEAN,
        edited : BOOLEAN, unmerged : BOOLEAN]

\* The type invariant: every script is at one of its commands, and what
\* git and the file system hold is about known names.
TypeOK ==
  /\ dir \in [Name -> {"absent", "present", "away"}]
  /\ reg \subseteq Name
  /\ dirty \subseteq {n \in Name : dir[n] # "absent"}
  /\ branch \in [Name -> {"absent", "merged", "ahead"}]
  /\ links \in [Name -> SUBSET Shared]
  /\ run \in [Name -> Run]
  /\ built \in BOOLEAN
  /\ faults \in 0..MaxFaults
  /\ past \in [Name -> SUBSET {"cut short", "unlisted"}]
  /\ lost \in [Name -> SUBSET Losses]

\* No unforced teardown deletes commits that main does not have, not even
\* those made after its merge gate, or removes a worktree whose branch was
\* ahead of main from its start (teardown-worktree.sh:61-71, :105-116).
CommitsKept == \A n \in Name : lost[n] \cap {"commits", "unmerged"} = {}

\* No unforced teardown destroys the edits it could have seen, unless the
\* name had lost its entry while the directory was around: to a sibling's
\* prune, or in an interrupted remove (teardown-worktree.sh:73-85).
EditsKept == \A n \in Name : "edits" \notin lost[n]

\* teardown-worktree.sh:13-21 promises it of any worktree: the script refuses
\* to destroy anything unless there are no uncommitted changes.
NoEditsLost == \A n \in Name : lost[n] \cap {"edits", "unlisted edits"} = {}

\* Metadata never outlives its branch: a listed worktree has one, through
\* kills, prunes and re-runs (the order of teardown-worktree.sh:87-116).
ListedHasBranch == \A n \in reg : branch[n] # "absent"

\* A worktree no script is working on shares both the toolchain and the
\* package cache, unless the script that was to link them was killed or had a
\* command fail (dev-worktree.sh:23, :42-47).
SharesBoth ==
  \A n \in Name :
    At(n, "idle") /\ dir[n] # "absent" => links[n] = Shared \/ "cut short" \in past[n]

\* A name leaves `git worktree list' only by its own teardown, or, while its
\* directory is missing, by a sibling that has just removed its own entry
\* (teardown-worktree.sh:97-100).
PruneScoped ==
  [][\A n \in reg \ reg' :
       \/ At(n, "remove")
       \/ dir[n] # "present" /\ \E m \in Name : At(m, "prune") /\ run[m].registered]_vars

\* Re-running after a partial failure finishes the job unless new work has
\* appeared in the meantime (teardown-worktree.sh:35-36).
Finishes ==
  \A n \in Name :
    At(n, "remove") ~> \/ dir[n] = "absent" /\ n \notin reg /\ branch[n] = "absent"
                       \/ n \in dirty
                       \/ branch[n] = "ahead"
=============================================================================
