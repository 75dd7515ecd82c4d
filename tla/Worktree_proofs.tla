-------------------------- MODULE Worktree_proofs ---------------------------
(***************************************************************************)
(* The two worktree scripts for any number of agents and of faults: what an *)
(* unforced teardown never destroys, and that listed worktrees have their  *)
(* branch.                                                                 *)
(***************************************************************************)
EXTENDS Worktree, TLAPS

\* What each command of a teardown knows of its own worktree.  A sibling's
\* prune can only shrink reg; the agent's own work can only add edits and
\* commits, and no directory moves while its script runs.
Knows(n) ==
  /\ ~At(n, "idle") => dir[n] # "away"
  /\ At(n, "attach") => branch[n] # "absent"
  /\ dir[n] # "absent" => n \in reg \/ "unlisted" \in past[n]
  /\ run[n].at \in {"merged?", "clean?"} =>
       /\ run[n].registered \/ n \notin reg
       /\ run[n].edited => n \in dirty
  /\ At(n, "merged?") /\ run[n].unmerged => branch[n] = "ahead"
  /\ run[n].at \in {"clean?", "remove", "prune", "rm"} /\ run[n].unmerged => run[n].force
  /\ run[n].at \in {"remove", "prune", "rm"} /\ run[n].registered /\ run[n].edited =>
       run[n].force
  /\ At(n, "remove") => run[n].registered
  /\ run[n].at \in {"prune", "rm", "branch"} => n \notin reg

IInv == /\ TypeOK
        /\ ListedHasBranch /\ CommitsKept /\ EditsKept
        /\ \A n \in Name : Knows(n)

Labels == DevLabels \cup TdLabels

\* The two ways a script moves: to its next command, or to its end.
LEMMA RunGoesTo ==
  ASSUME TypeOK, NEW n \in Name, NEW l \in Label, GoTo(n, l)
  PROVE  /\ run' \in [Name -> Run]
         /\ run'[n].at = l
         /\ run'[n].force = run[n].force
         /\ run'[n].registered = run[n].registered
         /\ run'[n].edited = run[n].edited
         /\ run'[n].unmerged = run[n].unmerged
         /\ \A m \in Name \ {n} : run'[m] = run[m]
<1>1. run \in [Name -> Run]
  BY DEF TypeOK
<1>2. run' = [run EXCEPT ![n].at = l]
  BY DEF GoTo
<1>3. [run[n] EXCEPT !.at = l] \in Run
  BY <1>1 DEF Run
<1> QED
  BY <1>1, <1>2, <1>3 DEF Run

LEMMA RunExits ==
  ASSUME TypeOK, NEW n \in Name, Exit(n)
  PROVE  /\ run' \in [Name -> Run]
         /\ run'[n] = Idle
         /\ \A m \in Name \ {n} : run'[m] = run[m]
<1>1. Idle \in Run
  BY DEF Idle, Run, Label
<1> QED
  BY <1>1 DEF TypeOK, Exit

\* Dropping a directory keeps the types and touches nobody else's.
LEMMA DirDropped ==
  ASSUME TypeOK, NEW n \in Name, DropDir(n)
  PROVE  /\ dir' \in [Name -> {"absent", "present", "away"}]
         /\ dirty' \subseteq {m \in Name : dir'[m] # "absent"}
         /\ links' \in [Name -> SUBSET Shared]
         /\ past' \in [Name -> SUBSET {"cut short", "unlisted"}]
         /\ lost' \in [Name -> SUBSET Losses]
<1>1. lost' = [lost EXCEPT ![n] = @ \cup Destroyed(n)]
  BY DEF DropDir
<1>2. Destroyed(n) \subseteq Losses
  BY DEF Destroyed
<1>3. lost' \in [Name -> SUBSET Losses]
  BY <1>1, <1>2 DEF TypeOK
<1> QED
  BY <1>3 DEF TypeOK, DropDir

\* Marking what befell a directory keeps the type of the marks.
LEMMA Marked ==
  ASSUME TypeOK, NEW n \in Name, NEW mark \in SUBSET {"cut short", "unlisted"},
         past' = [past EXCEPT ![n] = @ \cup mark]
  PROVE  past' \in [Name -> SUBSET {"cut short", "unlisted"}]
BY DEF TypeOK

LEMMA CutMarked ==
  ASSUME TypeOK, NEW n \in Name, CutShort(n)
  PROVE  /\ past' \in [Name -> SUBSET {"cut short", "unlisted"}]
         /\ \A m \in Name : past[m] \subseteq past'[m]
         /\ \A m \in Name \ {n} : past'[m] = past[m]
         /\ run[n].at \in {"link deps", "link packages"} => "cut short" \in past'[n]
<1> DEFINE mark == IF run[n].at \in {"link deps", "link packages"} THEN {"cut short"} ELSE {}
<1>1. mark \in SUBSET {"cut short", "unlisted"}
  OBVIOUS
<1>2. past' = [past EXCEPT ![n] = @ \cup mark]
  BY DEF CutShort
<1>3. run[n].at \in {"link deps", "link packages"} => "cut short" \in mark
  OBVIOUS
<1> HIDE DEF mark
<1> QED
  BY <1>1, <1>2, <1>3, Marked DEF TypeOK

LEMMA TypeInit == Init => TypeOK
<1> USE FaultsAssumption
<1> SUFFICES ASSUME Init PROVE TypeOK
  OBVIOUS
<1>1. Idle \in Run
  BY DEF Idle, Run, Label
<1>2. run \in [Name -> Run]
  BY <1>1 DEF Init
<1>3. faults \in 0..MaxFaults
  BY DEF Init
<1> QED
  BY <1>2, <1>3 DEF Init, TypeOK

LEMMA TypeStep == TypeOK /\ [Next]_vars => TypeOK'
<1> USE FaultsAssumption
<1> SUFFICES ASSUME TypeOK, [Next]_vars PROVE TypeOK'
  OBVIOUS
<1>1. CASE Build
  BY <1>1 DEF Build, tree, TypeOK
<1>2. ASSUME NEW n \in Name, Dev(n) PROVE TypeOK'
  <2>1. CASE DevStart(n)
    <3>1. [Idle EXCEPT !.at = "show-ref"] \in Run
      BY DEF Idle, Run, Label, DevLabels
    <3>2. run' \in [Name -> Run]
      BY <2>1, <3>1 DEF DevStart, TypeOK
    <3> QED
      BY <2>1, <3>2 DEF DevStart, tree, TypeOK
  <2>2. CASE DevShowRef(n)
    <3>1. run' \in [Name -> Run]
      BY <2>2, RunGoesTo DEF DevShowRef, Label, DevLabels
    <3> QED
      BY <2>2, <3>1 DEF DevShowRef, tree, TypeOK
  <2>3. CASE DevAdd(n)
    <3>1. run' \in [Name -> Run]
      BY <2>3, RunGoesTo DEF DevAdd, Label, DevLabels
    <3> QED
      BY <2>3, <3>1 DEF DevAdd, TypeOK
  <2>4. CASE DevAddFails(n)
    <3>1. run' \in [Name -> Run]
      BY <2>4, RunExits DEF DevAddFails
    <3> QED
      BY <2>4, <3>1 DEF DevAddFails, TypeOK
  <2>5. CASE DevLinkDeps(n) \/ DevLinkPackages(n)
    <3>1. run' \in [Name -> Run]
      BY <2>5, RunGoesTo DEF DevLinkDeps, DevLinkPackages, DevLink, Label, DevLabels
    <3>2. PICK target \in Shared : links' = [links EXCEPT ![n] = @ \cup {target}]
      BY <2>5 DEF DevLinkDeps, DevLinkPackages, DevLink, Shared
    <3>3. links' \in [Name -> SUBSET Shared]
      BY <3>2 DEF TypeOK
    <3> QED
      BY <2>5, <3>1, <3>3 DEF DevLinkDeps, DevLinkPackages, DevLink, TypeOK
  <2>6. CASE DevReady(n)
    <3>1. run' \in [Name -> Run]
      BY <2>6, RunExits DEF DevReady
    <3> QED
      BY <2>6, <3>1 DEF DevReady, tree, TypeOK
  <2>7. CASE DevLinkFails(n)
    <3>1. run' \in [Name -> Run]
      BY <2>7, RunExits DEF DevLinkFails
    <3>2. past' \in [Name -> SUBSET {"cut short", "unlisted"}]
      BY <2>7, CutMarked DEF DevLinkFails
    <3>3. faults < MaxFaults /\ faults' = faults + 1 /\ faults \in 0..MaxFaults
      BY <2>7 DEF DevLinkFails, TypeOK
    <3>4. faults' \in 0..MaxFaults
      BY <3>3
    <3> QED
      BY <2>7, <3>1, <3>2, <3>4 DEF DevLinkFails, tree, TypeOK
  <2> QED
    BY <1>2, <2>1, <2>2, <2>3, <2>4, <2>5, <2>6, <2>7 DEF Dev
<1>3. ASSUME NEW n \in Name, Teardown(n) PROVE TypeOK'
  <2>1. ASSUME NEW force \in BOOLEAN, TdStart(n, force) PROVE TypeOK'
    <3>1. [at |-> "merged?", force |-> force, registered |-> n \in reg,
           edited |-> n \in dirty, unmerged |-> branch[n] = "ahead"] \in Run
      BY DEF Run, Label, TdLabels
    <3>2. run' \in [Name -> Run]
      BY <2>1, <3>1 DEF TdStart, TypeOK
    <3> QED
      BY <2>1, <3>2 DEF TdStart, tree, TypeOK
  <2>2. CASE TdMergedGate(n) \/ TdDirtyGate(n)
    <3>1. run' \in [Name -> Run]
      BY <2>2, RunGoesTo, RunExits
      DEF TdMergedGate, TdDirtyGate, AfterGates, Label, TdLabels
    <3> QED
      BY <2>2, <3>1 DEF TdMergedGate, TdDirtyGate, tree, TypeOK
  <2>3. CASE TdRemove(n)
    <3>1. run' \in [Name -> Run]
      BY <2>3, RunGoesTo DEF TdRemove, Label, TdLabels
    <3> QED
      BY <2>3, <3>1, DirDropped DEF TdRemove, TypeOK
  <2>4. CASE TdPrune(n)
    <3>1. run' \in [Name -> Run]
      BY <2>4, RunGoesTo DEF TdPrune, Label, TdLabels
    <3>2. past' \in [Name -> SUBSET {"cut short", "unlisted"}]
      BY <2>4 DEF TdPrune, TypeOK
    <3> QED
      BY <2>4, <3>1, <3>2 DEF TdPrune, TypeOK
  <2>5. CASE TdRm(n)
    <3>1. run' \in [Name -> Run]
      BY <2>5, RunGoesTo DEF TdRm, Label, TdLabels
    <3> QED
      BY <2>5, <3>1, DirDropped DEF TdRm, TypeOK
  <2>6. CASE TdBranch(n)
    <3>1. run' \in [Name -> Run]
      BY <2>6, RunGoesTo DEF TdBranch, Label, TdLabels
    <3>2. branch' \in [Name -> {"absent", "merged", "ahead"}]
      BY <2>6 DEF TdBranch, TypeOK
    <3>3. CASE Deletes(n)
      <4> DEFINE new == IF branch[n] = "ahead" /\ ~run[n].force
                          THEN {"commits"} ELSE {}
      <4>1. new \subseteq Losses
        BY DEF Losses
      <4>2. lost' = [lost EXCEPT ![n] = @ \cup new]
        BY <2>6, <3>3 DEF TdBranch
      <4> QED
        BY <2>6, <3>1, <3>2, <4>1, <4>2 DEF TdBranch, TypeOK
    <3>4. CASE ~Deletes(n)
      BY <2>6, <3>1, <3>2, <3>4 DEF TdBranch, TypeOK
    <3> QED
      BY <3>3, <3>4
  <2>7. CASE TdDone(n) \/ TdRemoveFails(n)
    <3>1. run' \in [Name -> Run]
      BY <2>7, RunExits DEF TdDone, TdRemoveFails
    <3> QED
      BY <2>7, <3>1 DEF TdDone, TdRemoveFails, tree, TypeOK
  <2> QED
    BY <1>3, <2>1, <2>2, <2>3, <2>4, <2>5, <2>6, <2>7 DEF Teardown
<1>4. ASSUME NEW n \in Name, Kill(n) \/ KillRemove(n) PROVE TypeOK'
  <2>1. run' \in [Name -> Run]
    BY <1>4, RunExits DEF Kill, KillRemove
  <2>2. faults < MaxFaults /\ faults' = faults + 1 /\ faults \in 0..MaxFaults
    BY <1>4 DEF Kill, KillRemove, TypeOK
  <2>3. faults' \in 0..MaxFaults
    BY <2>2
  <2>4. CASE Kill(n)
    BY <2>1, <2>3, <2>4, CutMarked DEF Kill, tree, TypeOK
  <2>5. CASE KillRemove(n)
    <3>1. CASE DropDir(n) /\ UNCHANGED reg
      BY <2>1, <2>3, <2>5, <3>1, DirDropped DEF KillRemove, TypeOK
    <3>2. CASE /\ reg' = reg \ {n}
               /\ past' = [past EXCEPT ![n] = @ \cup
                             IF dir[n] = "present" THEN {"unlisted"} ELSE {}]
               /\ UNCHANGED <<dir, dirty, links, lost>>
      <4> DEFINE mark == IF dir[n] = "present" THEN {"unlisted"} ELSE {}
      <4>1. mark \in SUBSET {"cut short", "unlisted"}
        OBVIOUS
      <4>2. past' \in [Name -> SUBSET {"cut short", "unlisted"}]
        BY <3>2, <4>1, Marked
      <4> QED
        BY <2>1, <2>3, <2>5, <3>2, <4>2 DEF KillRemove, TypeOK
    <3> QED
      BY <2>5, <3>1, <3>2 DEF KillRemove
  <2> QED
    BY <1>4, <2>4, <2>5
<1>5. ASSUME NEW n \in Name, Agent(n) PROVE TypeOK'
  <2>1. CASE Commit(n)
    <3>1. [run[n] EXCEPT !.edited = FALSE] \in Run
      BY DEF TypeOK, Run
    <3> QED
      BY <2>1, <3>1 DEF Commit, TypeOK
  <2>2. CASE Merge(n)
    <3>1. [run[n] EXCEPT !.unmerged = FALSE] \in Run
      BY DEF TypeOK, Run
    <3> QED
      BY <2>2, <3>1 DEF Merge, TypeOK
  <2>3. CASE Edit(n) \/ MoveAside(n) \/ MoveBack(n)
    BY <2>3 DEF Edit, MoveAside, MoveBack, TypeOK
  <2> QED
    BY <1>5, <2>1, <2>2, <2>3 DEF Agent
<1>6. CASE UNCHANGED vars
  BY <1>6 DEF vars, TypeOK
<1> QED
  BY <1>1, <1>2, <1>3, <1>4, <1>5, <1>6 DEF Next

\* The scripts are at their commands and the tree holds known names, for any
\* number of agents.
THEOREM TypeCorrect == Spec => []TypeOK
<1>1. TypeOK /\ [Next]_vars => TypeOK'
  BY TypeStep
<1> QED
  BY <1>1, TypeInit, PTL DEF Spec

-----------------------------------------------------------------------------
\* A step of one agent leaves what another's script knows alone: of the
\* shared state it changes only its own entries, or prunes.
LEMMA SiblingKnows ==
  ASSUME NEW m \in Name, Knows(m), run'[m] = run[m], dir'[m] = dir[m],
         branch'[m] = branch[m], m \in dirty => m \in dirty',
         m \in reg' => m \in reg, past[m] \subseteq past'[m],
         m \in reg \ reg' /\ dir[m] # "absent" => "unlisted" \in past'[m]
  PROVE  Knows(m)'
BY DEF Knows, At

\* The gates have made sure of what an unforced run destroys with a listed
\* directory, and an unlisted one that is there has lost its entry.
LEMMA Drops ==
  ASSUME IInv, NEW n \in Name, DropDir(n), At(n, "remove") \/ At(n, "rm")
  PROVE  /\ dir'[n] = "absent" /\ EditsKept' /\ CommitsKept'
         /\ \A m \in Name \ {n} : /\ dir'[m] = dir[m] /\ past'[m] = past[m]
                                  /\ m \in dirty => m \in dirty'
<1>0. Knows(n) /\ TypeOK
  BY DEF IInv
<1>1. "commits" \notin Destroyed(n)
  BY DEF Destroyed
<1>2. "unmerged" \notin Destroyed(n)
  BY <1>0 DEF Destroyed, Knows, At
<1>3. "edits" \notin Destroyed(n)
  <2>1. CASE run[n].registered
    <3>1. run[n].edited => run[n].force
      BY <1>0, <2>1 DEF Knows, At
    <3> QED
      BY <3>1 DEF Destroyed
  <2>2. CASE ~run[n].registered
    <3>1. n \notin reg
      BY <1>0, <2>2 DEF Knows, At
    <3>2. n \in dirty => "unlisted" \in past[n]
      BY <1>0, <3>1 DEF Knows, TypeOK
    <3> QED
      BY <2>2, <3>2 DEF Destroyed
  <2> QED
    BY <2>1, <2>2
<1>4. lost' = [lost EXCEPT ![n] = @ \cup Destroyed(n)]
  BY DEF DropDir
<1>5. EditsKept' /\ CommitsKept'
  BY <1>1, <1>2, <1>3, <1>4 DEF IInv, TypeOK, EditsKept, CommitsKept
<1> QED
  BY <1>0, <1>5 DEF TypeOK, DropDir

\* What a step of n's script leaves of the others.
Others(n) ==
  \A m \in Name \ {n} :
    /\ run'[m] = run[m] /\ dir'[m] = dir[m] /\ branch'[m] = branch[m]
    /\ m \in dirty => m \in dirty'
    /\ m \in reg' => m \in reg
    /\ past[m] \subseteq past'[m]
    /\ m \in reg \ reg' /\ dir[m] # "absent" => "unlisted" \in past'[m]

LEMMA DevStep ==
  ASSUME IInv, NEW n \in Name, Dev(n)
  PROVE  /\ ListedHasBranch' /\ CommitsKept' /\ EditsKept'
         /\ Knows(n)' /\ Others(n)
<1> USE DEF ListedHasBranch, CommitsKept, EditsKept, Others
<1>0. Knows(n) /\ reg \subseteq Name
  BY DEF IInv, TypeOK
<1>1. CASE DevStart(n)
  <2>1. run'[n] = [Idle EXCEPT !.at = "show-ref"]
        /\ \A m \in Name \ {n} : run'[m] = run[m]
    BY <1>1 DEF DevStart, IInv, TypeOK
  <2> QED
    BY <1>1, <2>1 DEF DevStart, tree, IInv, Knows, At, Idle
<1>2. CASE DevShowRef(n)
  <2>1. TypeOK /\ {"create", "attach"} \subseteq Label
    BY DEF IInv, Label, DevLabels
  <2>2. /\ run'[n].at \in {"create", "attach"}
        /\ run'[n].at = "attach" => branch[n] # "absent"
        /\ \A m \in Name \ {n} : run'[m] = run[m]
    BY <1>2, <2>1, RunGoesTo DEF DevShowRef
  <2> QED
    BY <1>2, <2>2 DEF DevShowRef, tree, IInv, Knows, At
<1>3. CASE DevAdd(n)
  <2>1. TypeOK /\ "link deps" \in Label
    BY DEF IInv, Label, DevLabels
  <2>2. run'[n].at = "link deps" /\ \A m \in Name \ {n} : run'[m] = run[m]
    BY <1>3, <2>1, RunGoesTo DEF DevAdd
  <2>3. /\ branch'[n] # "absent" /\ dir'[n] = "present"
        /\ \A m \in Name \ {n} : branch'[m] = branch[m] /\ dir'[m] = dir[m]
    BY <1>3 DEF DevAdd, IInv, TypeOK, Knows, At
  <2>4. reg' = reg \cup {n} /\ dirty' = dirty /\ lost' = lost /\ past' = past
    BY <1>3 DEF DevAdd
  <2>5. Knows(n)'
    BY <2>2, <2>3, <2>4 DEF Knows, At
  <2> QED
    BY <1>0, <2>2, <2>3, <2>4, <2>5 DEF IInv
<1>4. CASE DevAddFails(n)
  <2>1. run'[n] = Idle /\ \A m \in Name \ {n} : run'[m] = run[m]
    BY <1>4, RunExits DEF DevAddFails, IInv
  <2>2. /\ branch'[n] # "absent"
        /\ \A m \in Name \ {n} : branch'[m] = branch[m]
    BY <1>4 DEF DevAddFails, IInv, TypeOK, Knows, At
  <2>3. Knows(n)'
    BY <1>0, <2>1, <1>4 DEF DevAddFails, Knows, At, Idle
  <2>4. UNCHANGED <<dir, reg, dirty, past, lost>>
    BY <1>4 DEF DevAddFails
  <2> QED
    BY <1>0, <2>1, <2>2, <2>3, <2>4 DEF IInv
<1>5. CASE DevLinkDeps(n) \/ DevLinkPackages(n)
  <2>1. TypeOK /\ {"link packages", "ready"} \subseteq Label
    BY DEF IInv, Label, DevLabels
  <2>2. /\ run'[n].at \in {"link packages", "ready"} /\ ~At(n, "idle")
        /\ \A m \in Name \ {n} : run'[m] = run[m]
    BY <1>5, <2>1, RunGoesTo DEF DevLinkDeps, DevLinkPackages, DevLink, At
  <2>3. UNCHANGED <<dir, reg, dirty, branch, past, lost>>
    BY <1>5 DEF DevLinkDeps, DevLinkPackages, DevLink
  <2>4. Knows(n)'
    BY <1>0, <2>2, <2>3 DEF Knows, At
  <2> QED
    BY <2>2, <2>3, <2>4 DEF IInv
<1>6. CASE DevReady(n)
  <2>1. run'[n] = Idle /\ \A m \in Name \ {n} : run'[m] = run[m]
    BY <1>6, RunExits DEF DevReady, IInv
  <2> QED
    BY <1>6, <2>1 DEF DevReady, tree, IInv, Knows, At, Idle
<1>7. CASE DevLinkFails(n)
  <2>1. run'[n] = Idle /\ \A m \in Name \ {n} : run'[m] = run[m]
    BY <1>7, RunExits DEF DevLinkFails, IInv
  <2>2. \A m \in Name : past[m] \subseteq past'[m]
    BY <1>7, CutMarked DEF DevLinkFails, IInv
  <2>3. UNCHANGED <<dir, reg, dirty, branch, lost>>
    BY <1>7 DEF DevLinkFails, tree
  <2>4. Knows(n)'
    BY <1>0, <2>1, <2>2, <2>3 DEF Knows, At, Idle
  <2> QED
    BY <2>1, <2>2, <2>3, <2>4 DEF IInv
<1> QED
  BY <1>1, <1>2, <1>3, <1>4, <1>5, <1>6, <1>7 DEF Dev

LEMMA TeardownStep ==
  ASSUME IInv, NEW n \in Name, Teardown(n)
  PROVE  /\ ListedHasBranch' /\ CommitsKept' /\ EditsKept'
         /\ Knows(n)' /\ Others(n)
<1> USE DEF Others
<1>0. TypeOK /\ TdLabels \subseteq Label /\ Knows(n) /\ reg \subseteq Name
  BY DEF IInv, TypeOK, Label
<1>1. ASSUME NEW force \in BOOLEAN, TdStart(n, force)
      PROVE  ListedHasBranch' /\ CommitsKept' /\ EditsKept' /\ Knows(n)' /\ Others(n)
  <2>1. /\ run'[n] = [at |-> "merged?", force |-> force, registered |-> n \in reg,
                      edited |-> n \in dirty, unmerged |-> branch[n] = "ahead"]
        /\ \A m \in Name \ {n} : run'[m] = run[m]
    BY <1>0, <1>1 DEF TdStart, TypeOK
  <2>2. UNCHANGED <<dir, reg, dirty, branch, past, lost>> /\ dir[n] # "away"
    BY <1>1 DEF TdStart, tree
  <2>3. /\ run'[n].at = "merged?"
        /\ run'[n].registered \/ n \notin reg
        /\ run'[n].edited => n \in dirty
        /\ run'[n].unmerged => branch[n] = "ahead"
    <3>1. run'[n].at = "merged?"
      BY <2>1
    <3>2. ASSUME n \in reg PROVE run'[n].registered
      <4>1. (n \in reg) = TRUE
        BY <3>2
      <4>2. run'[n] = [at |-> "merged?", force |-> force, registered |-> TRUE,
                       edited |-> n \in dirty, unmerged |-> branch[n] = "ahead"]
        BY <2>1, <4>1
      <4> QED
        BY <4>2
    <3>3. ASSUME n \notin dirty PROVE ~run'[n].edited
      <4>1. (n \in dirty) = FALSE
        BY <3>3
      <4>2. run'[n] = [at |-> "merged?", force |-> force, registered |-> n \in reg,
                       edited |-> FALSE, unmerged |-> branch[n] = "ahead"]
        BY <2>1, <4>1
      <4> QED
        BY <4>2
    <3>4. ASSUME branch[n] # "ahead" PROVE ~run'[n].unmerged
      <4>1. (branch[n] = "ahead") = FALSE
        BY <3>4
      <4>2. run'[n] = [at |-> "merged?", force |-> force, registered |-> n \in reg,
                       edited |-> n \in dirty, unmerged |-> FALSE]
        BY <2>1, <4>1
      <4> QED
        BY <4>2
    <3> QED
      BY <3>1, <3>2, <3>3, <3>4
  <2>4. Knows(n)'
    BY <1>0, <2>2, <2>3 DEF Knows, At
  <2> QED
    BY <2>1, <2>2, <2>4 DEF IInv, ListedHasBranch, CommitsKept, EditsKept
<1>2. CASE TdMergedGate(n)
  <2>1. \/ run'[n] = Idle
        \/ /\ run'[n].at = "clean?" /\ run'[n].force = run[n].force
           /\ run'[n].registered = run[n].registered /\ run'[n].edited = run[n].edited
           /\ run'[n].unmerged = run[n].unmerged /\ (branch[n] = "ahead" => run[n].force)
    BY <1>0, <1>2, RunGoesTo, RunExits DEF TdMergedGate, IsAncestor, TdLabels
  <2>2. \A m \in Name \ {n} : run'[m] = run[m]
    BY <1>0, <1>2, RunGoesTo, RunExits DEF TdMergedGate, TdLabels
  <2>3. UNCHANGED <<dir, reg, dirty, branch, past, lost>> /\ At(n, "merged?")
    BY <1>2 DEF TdMergedGate, tree
  <2>4. Knows(n)'
    BY <1>0, <2>1, <2>3 DEF Knows, At, Idle
  <2> QED
    BY <2>2, <2>3, <2>4 DEF IInv, ListedHasBranch, CommitsKept, EditsKept
<1>3. CASE TdDirtyGate(n)
  <2>1. \/ run'[n] = Idle
        \/ /\ run'[n].at = AfterGates(n) /\ run'[n].force = run[n].force
           /\ run'[n].registered = run[n].registered /\ run'[n].edited = run[n].edited
           /\ run'[n].unmerged = run[n].unmerged
           /\ ~(Inspects(n) /\ n \in dirty /\ ~run[n].force)
    BY <1>0, <1>3, RunGoesTo, RunExits DEF TdDirtyGate, AfterGates, TdLabels
  <2>2. \A m \in Name \ {n} : run'[m] = run[m]
    BY <1>0, <1>3, RunGoesTo, RunExits DEF TdDirtyGate, AfterGates, TdLabels
  <2>3. UNCHANGED <<dir, reg, dirty, branch, past, lost>> /\ At(n, "clean?")
    BY <1>3 DEF TdDirtyGate, tree
  <2>4. n \in dirty => dir[n] = "present"
    BY <1>0, <2>3 DEF TypeOK, Knows, At
  <2>5. ASSUME run'[n] = Idle PROVE Knows(n)'
    BY <1>0, <2>3, <2>5 DEF Knows, At, Idle
  <2>6. ASSUME run'[n] # Idle PROVE Knows(n)'
    <3>1. run[n].registered /\ run[n].edited => run[n].force
      BY <1>0, <2>1, <2>3, <2>4, <2>6 DEF Knows, At, Inspects
    <3>2. run'[n].at \in {"remove", "rm"} /\ (run'[n].at = "rm" <=> ~run[n].registered)
      BY <2>1, <2>6 DEF AfterGates
    <3> QED
      BY <1>0, <2>1, <2>3, <2>6, <3>1, <3>2 DEF Knows, At
  <2> QED
    BY <2>2, <2>3, <2>5, <2>6 DEF IInv, ListedHasBranch, CommitsKept, EditsKept
<1>4. CASE TdRemove(n)
  <2>1. /\ run'[n].at = "prune" /\ run'[n].force = run[n].force
        /\ run'[n].registered = run[n].registered /\ run'[n].edited = run[n].edited
        /\ run'[n].unmerged = run[n].unmerged
        /\ \A m \in Name \ {n} : run'[m] = run[m]
    BY <1>0, <1>4, RunGoesTo DEF TdRemove, TdLabels
  <2>2. reg' = reg \ {n} /\ branch' = branch /\ At(n, "remove") /\ DropDir(n)
    BY <1>4 DEF TdRemove
  <2>3. /\ dir'[n] = "absent" /\ EditsKept' /\ CommitsKept'
        /\ \A m \in Name \ {n} : /\ dir'[m] = dir[m] /\ past'[m] = past[m]
                                 /\ m \in dirty => m \in dirty'
    BY <2>2, Drops
  <2>4. Knows(n)'
    BY <1>0, <2>1, <2>2, <2>3 DEF Knows, At
  <2> QED
    BY <1>0, <2>1, <2>2, <2>3, <2>4 DEF IInv, ListedHasBranch
<1>5. CASE TdPrune(n)
  <2>1. /\ run'[n].at = "rm" /\ run'[n].force = run[n].force
        /\ run'[n].registered = run[n].registered /\ run'[n].edited = run[n].edited
        /\ run'[n].unmerged = run[n].unmerged
        /\ \A m \in Name \ {n} : run'[m] = run[m]
    BY <1>0, <1>5, RunGoesTo DEF TdPrune, TdLabels
  <2>2. reg' \subseteq reg /\ UNCHANGED <<dir, dirty, branch, lost>> /\ At(n, "prune")
    BY <1>5 DEF TdPrune
  <2>3. ASSUME NEW m \in Name
        PROVE  /\ past[m] \subseteq past'[m]
               /\ m \in reg \ reg' /\ dir[m] # "absent" => "unlisted" \in past'[m]
    BY <1>0, <1>5 DEF TdPrune, TypeOK
  <2>4. Knows(n)'
    BY <1>0, <2>1, <2>2, <2>3 DEF Knows, At
  <2> QED
    BY <2>1, <2>2, <2>3, <2>4 DEF IInv, ListedHasBranch, CommitsKept, EditsKept
<1>6. CASE TdRm(n)
  <2>1. run'[n].at = "branch" /\ \A m \in Name \ {n} : run'[m] = run[m]
    BY <1>0, <1>6, RunGoesTo DEF TdRm, TdLabels
  <2>2. UNCHANGED <<reg, branch>> /\ At(n, "rm")
    BY <1>6 DEF TdRm
  <2>3. /\ dir'[n] = "absent" /\ EditsKept' /\ CommitsKept'
        /\ \A m \in Name \ {n} : /\ dir'[m] = dir[m] /\ past'[m] = past[m]
                                 /\ m \in dirty => m \in dirty'
    <3>1. CASE DropDir(n)
      BY <2>2, <3>1, Drops
    <3>2. CASE dir[n] # "present" /\ UNCHANGED <<dir, dirty, links, past, lost>>
      BY <1>0, <2>2, <3>2 DEF Knows, At, TypeOK, IInv, EditsKept, CommitsKept
    <3> QED
      BY <1>6, <3>1, <3>2 DEF TdRm
  <2>4. Knows(n)'
    BY <1>0, <2>1, <2>2, <2>3 DEF Knows, At
  <2> QED
    BY <1>0, <2>1, <2>2, <2>3, <2>4 DEF IInv, ListedHasBranch
<1>7. CASE TdBranch(n)
  <2>1. run'[n].at = "torn down" /\ \A m \in Name \ {n} : run'[m] = run[m]
    BY <1>0, <1>7, RunGoesTo DEF TdBranch, TdLabels
  <2>2. UNCHANGED <<dir, reg, dirty, past>> /\ At(n, "branch") /\ n \notin reg
    BY <1>0, <1>7 DEF TdBranch, Knows, At
  <2>3. \A m \in Name \ {n} : branch'[m] = branch[m]
    BY <1>0, <1>7 DEF TdBranch, TypeOK
  <2>4. lost' = lost
    <3>1. CASE Deletes(n)
      <4>1. ~(branch[n] = "ahead" /\ ~run[n].force)
        BY <3>1 DEF Deletes
      <4>2. lost' = [lost EXCEPT ![n] = @ \cup {}]
        BY <1>7, <3>1, <4>1 DEF TdBranch
      <4> QED
        BY <1>0, <4>2 DEF TypeOK
    <3> QED
      BY <1>7, <3>1 DEF TdBranch
  <2>5. Knows(n)'
    BY <1>0, <2>1, <2>2 DEF Knows, At
  <2> QED
    BY <1>0, <2>1, <2>2, <2>3, <2>4, <2>5 DEF IInv, ListedHasBranch, CommitsKept, EditsKept
<1>8. CASE TdDone(n) \/ TdRemoveFails(n)
  <2>1. run'[n] = Idle /\ \A m \in Name \ {n} : run'[m] = run[m]
    BY <1>0, <1>8, RunExits DEF TdDone, TdRemoveFails
  <2>2. UNCHANGED <<dir, reg, dirty, branch, past, lost>>
    BY <1>8 DEF TdDone, TdRemoveFails, tree
  <2>3. Knows(n)'
    BY <1>0, <2>1, <2>2 DEF Knows, At, Idle
  <2> QED
    BY <2>1, <2>2, <2>3 DEF IInv, ListedHasBranch, CommitsKept, EditsKept
<1> QED
  BY <1>1, <1>2, <1>3, <1>4, <1>5, <1>6, <1>7, <1>8 DEF Teardown

LEMMA KillStep ==
  ASSUME IInv, NEW n \in Name, Kill(n) \/ KillRemove(n)
  PROVE  /\ ListedHasBranch' /\ CommitsKept' /\ EditsKept'
         /\ Knows(n)' /\ Others(n)
<1>0. Knows(n) /\ TypeOK
  BY DEF IInv
<1>1. /\ run'[n] = Idle /\ branch' = branch
      /\ \A m \in Name \ {n} : run'[m] = run[m]
  BY RunExits DEF Kill, KillRemove, tree, IInv
<1>2. ASSUME dir'[n] # "absent" => n \in reg' \/ "unlisted" \in past'[n]
      PROVE  Knows(n)'
  BY <1>1, <1>2 DEF Knows, At, Idle
<1>3. CASE Kill(n)
  <2>1. UNCHANGED <<dir, reg, dirty, lost>> /\ CutShort(n)
    BY <1>3 DEF Kill, tree
  <2>2. \A m \in Name : past[m] \subseteq past'[m]
    BY <1>0, <2>1, CutMarked
  <2>3. Knows(n)'
    BY <1>0, <1>2, <2>1, <2>2 DEF Knows
  <2>4. Others(n)
    BY <1>1, <2>1, <2>2 DEF Others
  <2> QED
    BY <1>1, <2>1, <2>3, <2>4 DEF IInv, ListedHasBranch, CommitsKept, EditsKept
<1>4. CASE KillRemove(n) /\ reg' = reg \ {n} /\ UNCHANGED <<dir, dirty, lost>>
           /\ past' = [past EXCEPT ![n] = @ \cup
                          IF dir[n] = "present" THEN {"unlisted"} ELSE {}]
  <2>1. dir[n] # "away" /\ dir[n] \in {"absent", "present", "away"}
    BY <1>0, <1>4 DEF KillRemove, Knows, At, TypeOK
  <2>2. /\ dir'[n] # "absent" => "unlisted" \in past'[n]
        /\ \A m \in Name \ {n} : past'[m] = past[m]
    BY <1>0, <1>4, <2>1 DEF TypeOK
  <2>3. Knows(n)'
    BY <1>2, <2>2
  <2>4. Others(n)
    BY <1>1, <1>4, <2>2 DEF Others
  <2> QED
    BY <1>1, <1>4, <2>3, <2>4 DEF IInv, ListedHasBranch, CommitsKept, EditsKept
<1>5. CASE DropDir(n) /\ UNCHANGED reg /\ At(n, "remove")
  <2>1. /\ dir'[n] = "absent" /\ EditsKept' /\ CommitsKept'
        /\ \A m \in Name \ {n} : /\ dir'[m] = dir[m] /\ past'[m] = past[m]
                                 /\ m \in dirty => m \in dirty'
    BY <1>5, Drops
  <2>2. Knows(n)'
    BY <1>2, <2>1
  <2>3. Others(n)
    BY <1>1, <1>5, <2>1 DEF Others
  <2> QED
    BY <1>1, <1>5, <2>1, <2>2, <2>3 DEF IInv, ListedHasBranch
<1> QED
  BY <1>3, <1>4, <1>5 DEF KillRemove

\* The agent's own work: it can come in the middle of its own script.
LEMMA AgentStep ==
  ASSUME IInv, NEW n \in Name, Agent(n)
  PROVE  /\ ListedHasBranch' /\ CommitsKept' /\ EditsKept'
         /\ Knows(n)' /\ Others(n)
<1> USE DEF IInv, TypeOK, Others, ListedHasBranch, CommitsKept, EditsKept
<1>1. CASE Edit(n)
  BY <1>1 DEF Edit, Knows, At
<1>2. CASE Commit(n)
  <2>1. /\ run'[n] = [run[n] EXCEPT !.edited = FALSE]
        /\ \A m \in Name \ {n} : run'[m] = run[m]
    BY <1>2 DEF Commit
  <2>2. /\ run'[n].at = run[n].at /\ run'[n].registered = run[n].registered
        /\ run'[n].edited = FALSE /\ run'[n].unmerged = run[n].unmerged
        /\ run'[n].force = run[n].force
    <3>1. run[n] \in Run
      OBVIOUS
    <3> HIDE DEF IInv, TypeOK
    <3> QED
      BY <2>1, <3>1 DEF Run
  <2>3. /\ branch'[n] = "ahead" /\ UNCHANGED <<dir, reg, past, lost>> /\ dirty' = dirty \ {n}
        /\ \A m \in Name \ {n} : branch'[m] = branch[m]
    BY <1>2 DEF Commit
  <2>4. Knows(n)'
    BY <2>2, <2>3 DEF Knows, At
  <2> QED
    BY <2>1, <2>3, <2>4
<1>3. CASE Merge(n)
  <2>1. /\ run'[n] = [run[n] EXCEPT !.unmerged = FALSE]
        /\ \A m \in Name \ {n} : run'[m] = run[m]
    BY <1>3 DEF Merge
  <2>2. /\ run'[n].at = run[n].at /\ run'[n].registered = run[n].registered
        /\ run'[n].edited = run[n].edited /\ ~run'[n].unmerged
        /\ run'[n].force = run[n].force
    <3>1. run[n] \in Run
      OBVIOUS
    <3> HIDE DEF IInv, TypeOK
    <3> QED
      BY <2>1, <3>1 DEF Run
  <2>3. /\ branch'[n] = "merged" /\ UNCHANGED <<dir, reg, dirty, past, lost>>
        /\ \A m \in Name \ {n} : branch'[m] = branch[m]
    BY <1>3 DEF Merge
  <2>4. Knows(n)'
    BY <2>2, <2>3 DEF Knows, At
  <2> QED
    BY <2>1, <2>3, <2>4
<1>4. CASE MoveAside(n)
  BY <1>4 DEF MoveAside, Knows, At
<1>5. CASE MoveBack(n)
  BY <1>5 DEF MoveBack, Knows, At
<1> QED
  BY <1>1, <1>2, <1>3, <1>4, <1>5 DEF Agent

LEMMA Invariance == Spec => []IInv
<1>1. Init => IInv
  BY TypeInit DEF Init, IInv, Knows, At, Idle, ListedHasBranch, CommitsKept, EditsKept
<1>2. IInv /\ [Next]_vars => IInv'
  <2> SUFFICES ASSUME IInv, [Next]_vars PROVE IInv'
    OBVIOUS
  <2>1. TypeOK'
    BY TypeStep DEF IInv
  <2>2. ASSUME NEW n \in Name, Dev(n) \/ Teardown(n) \/ Kill(n) \/ KillRemove(n) \/ Agent(n)
        PROVE  IInv'
    <3>1. ListedHasBranch' /\ CommitsKept' /\ EditsKept' /\ Knows(n)' /\ Others(n)
      BY <2>2, DevStep, TeardownStep, KillStep, AgentStep
    <3>2. ASSUME NEW m \in Name \ {n} PROVE Knows(m)'
      BY <3>1, SiblingKnows DEF Others, IInv
    <3> QED
      BY <2>1, <3>1, <3>2 DEF IInv
  <2>3. CASE UNCHANGED <<dir, reg, dirty, branch, run, past, lost>>
    <3>1. ListedHasBranch' /\ CommitsKept' /\ EditsKept'
      BY <2>3 DEF IInv, ListedHasBranch, CommitsKept, EditsKept
    <3>2. \A m \in Name : Knows(m)'
      BY <2>3 DEF IInv, Knows, At
    <3> QED
      BY <2>1, <3>1, <3>2 DEF IInv
  <2> QED
    BY <2>2, <2>3 DEF Next, Build, tree, vars
<1> QED
  BY <1>1, <1>2, PTL DEF Spec

\* No unforced teardown deletes commits that main does not have or removes a
\* worktree it found ahead of main, for any number of agents: branch -d closes
\* the window the merge gate leaves open.
THEOREM UnmergedCommitsKept == Spec => []CommitsKept
<1>1. IInv => CommitsKept
  BY DEF IInv
<1> QED
  BY <1>1, Invariance, PTL

\* No unforced teardown destroys the edits it found, but in a worktree that
\* had lost its entry.
THEOREM SeenEditsKept == Spec => []EditsKept
<1>1. IInv => EditsKept
  BY DEF IInv
<1> QED
  BY <1>1, Invariance, PTL

\* Metadata never outlives its branch.
THEOREM ListedBranches == Spec => []ListedHasBranch
<1>1. IInv => ListedHasBranch
  BY DEF IInv
<1> QED
  BY <1>1, Invariance, PTL
-----------------------------------------------------------------------------
\* How far the script of n has come with the directory: what it removes was
\* listed; a directory no dev script is still setting up is gone, has both
\* links, or had its script cut short.
Links(n) ==
  /\ run[n].at \in {"remove", "prune"} => run[n].registered
  /\ run[n].at \in {"show-ref", "attach", "create"} => dir[n] = "absent"
  /\ At(n, "link packages") => "deps" \in links[n]
  /\ At(n, "ready") => links[n] = Shared
  /\ run[n].at \in {"idle"} \cup TdLabels =>
       dir[n] = "absent" \/ links[n] = Shared \/ "cut short" \in past[n]

LInv == TypeOK /\ \A n \in Name : Links(n)

\* A step of n's own leaves the others' directories, links and scripts alone.
Apart(n) ==
  \A m \in Name \ {n} : /\ run'[m] = run[m] /\ dir'[m] = dir[m] /\ links'[m] = links[m]
                         /\ past[m] \subseteq past'[m]

LEMMA SiblingLinks ==
  ASSUME NEW n \in Name, NEW m \in Name \ {n}, Links(m), Apart(n)
  PROVE  Links(m)'
BY DEF Links, At, Apart

LEMMA DropLinks ==
  ASSUME TypeOK, NEW n \in Name, DropDir(n)
  PROVE  /\ dir'[n] = "absent"
         /\ \A m \in Name \ {n} :
              dir'[m] = dir[m] /\ links'[m] = links[m] /\ past'[m] = past[m]
BY DEF TypeOK, DropDir

LEMMA DevLinks ==
  ASSUME LInv, NEW n \in Name, Dev(n)
  PROVE  Links(n)' /\ Apart(n)
<1>0. TypeOK /\ Links(n) /\ DevLabels \subseteq Label
  BY DEF LInv, Label
<1>1. CASE DevStart(n)
  <2>1. run'[n] = [Idle EXCEPT !.at = "show-ref"]
        /\ \A m \in Name \ {n} : run'[m] = run[m]
    BY <1>0, <1>1 DEF DevStart, TypeOK
  <2>2. run'[n].at = "show-ref" /\ dir[n] = "absent" /\ UNCHANGED <<dir, links, past>>
    BY <1>1, <2>1 DEF DevStart, tree, Idle
  <2> QED
    BY <2>1, <2>2 DEF Links, At, Apart, TdLabels
<1>2. CASE DevShowRef(n)
  <2>1. run'[n].at \in {"create", "attach"} /\ \A m \in Name \ {n} : run'[m] = run[m]
    BY <1>0, <1>2, RunGoesTo DEF DevShowRef, DevLabels
  <2>2. At(n, "show-ref") /\ UNCHANGED <<dir, links, past>>
    BY <1>2 DEF DevShowRef, tree
  <2> QED
    BY <1>0, <2>1, <2>2 DEF Links, At, Apart, TdLabels
<1>3. CASE DevAdd(n)
  <2>1. run'[n].at = "link deps" /\ \A m \in Name \ {n} : run'[m] = run[m]
    BY <1>0, <1>3, RunGoesTo DEF DevAdd, DevLabels
  <2>2. UNCHANGED <<links, past>> /\ \A m \in Name \ {n} : dir'[m] = dir[m]
    BY <1>0, <1>3 DEF DevAdd, TypeOK
  <2> QED
    BY <2>1, <2>2 DEF Links, At, Apart, TdLabels
<1>4. CASE DevAddFails(n)
  <2>1. run'[n] = Idle /\ \A m \in Name \ {n} : run'[m] = run[m]
    BY <1>0, <1>4, RunExits DEF DevAddFails
  <2>2. run[n].at \in {"attach", "create"} /\ UNCHANGED <<dir, links, past>>
    BY <1>4 DEF DevAddFails, At
  <2>3. run'[n].at = "idle"
    BY <2>1 DEF Idle
  <2>4. dir[n] = "absent"
    BY <1>0, <2>2 DEF Links
  <2>5. Links(n)'
    BY <2>2, <2>3, <2>4 DEF Links, At
  <2> QED
    BY <2>1, <2>2, <2>5 DEF Apart
<1>5. CASE DevLinkDeps(n)
  <2>1. run'[n].at = "link packages" /\ \A m \in Name \ {n} : run'[m] = run[m]
    BY <1>0, <1>5, RunGoesTo DEF DevLinkDeps, DevLink, DevLabels
  <2>2. /\ UNCHANGED <<dir, past>> /\ "deps" \in links'[n]
        /\ \A m \in Name \ {n} : links'[m] = links[m]
    BY <1>0, <1>5 DEF DevLinkDeps, DevLink, TypeOK
  <2> QED
    BY <2>1, <2>2 DEF Links, At, Apart, TdLabels
<1>6. CASE DevLinkPackages(n)
  <2>1. run'[n].at = "ready" /\ \A m \in Name \ {n} : run'[m] = run[m]
    BY <1>0, <1>6, RunGoesTo DEF DevLinkPackages, DevLink, DevLabels
  <2>2. /\ UNCHANGED <<dir, past>> /\ links'[n] = links[n] \cup {"packages"}
        /\ At(n, "link packages") /\ links[n] \subseteq Shared
        /\ \A m \in Name \ {n} : links'[m] = links[m]
    BY <1>0, <1>6 DEF DevLinkPackages, DevLink, TypeOK
  <2>3. links'[n] = Shared
    BY <1>0, <2>2 DEF Links, Shared
  <2> QED
    BY <2>1, <2>2, <2>3 DEF Links, At, Apart, TdLabels
<1>7. CASE DevReady(n)
  <2>1. run'[n] = Idle /\ \A m \in Name \ {n} : run'[m] = run[m]
    BY <1>0, <1>7, RunExits DEF DevReady
  <2>2. At(n, "ready") /\ UNCHANGED <<dir, links, past>>
    BY <1>7 DEF DevReady, tree
  <2>3. run'[n].at = "idle" /\ Apart(n)
    BY <2>1, <2>2 DEF Idle, Apart
  <2>4. links'[n] = Shared
    BY <1>0, <2>2 DEF Links
  <2> QED
    BY <2>3, <2>4 DEF Links, At
<1>8. CASE DevLinkFails(n)
  <2>1. run'[n] = Idle /\ \A m \in Name \ {n} : run'[m] = run[m]
    BY <1>0, <1>8, RunExits DEF DevLinkFails
  <2>2. "cut short" \in past'[n] /\ \A m \in Name : past[m] \subseteq past'[m]
    BY <1>0, <1>8, CutMarked DEF DevLinkFails
  <2>3. UNCHANGED <<dir, links>>
    BY <1>8 DEF DevLinkFails, tree
  <2>4. run'[n].at = "idle"
    BY <2>1 DEF Idle
  <2>5. Apart(n)
    BY <2>1, <2>2, <2>3 DEF Apart
  <2> QED
    BY <2>2, <2>4, <2>5 DEF Links, At
<1> QED
  BY <1>1, <1>2, <1>3, <1>4, <1>5, <1>6, <1>7, <1>8 DEF Dev

\* A teardown is at one of its labels until it ends, so the last conjunct of
\* Links carries over wherever the directory and its links stay.
LEMMA TeardownLinks ==
  ASSUME LInv, NEW n \in Name, Teardown(n)
  PROVE  Links(n)' /\ Apart(n)
<1>0. TypeOK /\ Links(n) /\ TdLabels \subseteq Label
  BY DEF LInv, Label
<1>a. ASSUME run'[n].at \in {"idle"} \cup TdLabels, run[n].at \in {"idle"} \cup TdLabels,
             run'[n].at \in {"remove", "prune"} => run'[n].registered,
             \/ dir'[n] = "absent"
             \/ /\ dir'[n] = dir[n] /\ links'[n] = links[n]
                /\ past[n] \subseteq past'[n]
      PROVE  Links(n)'
  BY <1>0, <1>a DEF Links, At, TdLabels
<1>1. ASSUME NEW force \in BOOLEAN, TdStart(n, force) PROVE Links(n)' /\ Apart(n)
  <2>1. /\ run'[n] = [at |-> "merged?", force |-> force, registered |-> n \in reg,
                      edited |-> n \in dirty, unmerged |-> branch[n] = "ahead"]
        /\ \A m \in Name \ {n} : run'[m] = run[m]
    BY <1>0, <1>1 DEF TdStart, TypeOK
  <2>2. run'[n].at = "merged?" /\ At(n, "idle") /\ UNCHANGED <<dir, links, past>>
    BY <1>1, <2>1 DEF TdStart, tree
  <2> QED
    BY <1>a, <2>1, <2>2 DEF At, Apart, TdLabels
<1>2. CASE TdMergedGate(n) \/ TdDone(n) \/ TdRemoveFails(n)
  <2>1. run'[n] = Idle \/ run'[n].at = "clean?"
    BY <1>0, <1>2, RunGoesTo, RunExits DEF TdMergedGate, TdDone, TdRemoveFails, TdLabels
  <2>2. \A m \in Name \ {n} : run'[m] = run[m]
    BY <1>0, <1>2, RunGoesTo, RunExits DEF TdMergedGate, TdDone, TdRemoveFails, TdLabels
  <2>3. run[n].at \in TdLabels /\ UNCHANGED <<dir, links, past>>
    BY <1>2 DEF TdMergedGate, TdDone, TdRemoveFails, tree, At, TdLabels
  <2>4. run'[n].at \in {"idle", "clean?"}
    BY <2>1 DEF Idle
  <2> QED
    BY <1>a, <2>2, <2>3, <2>4 DEF Apart, TdLabels
<1>3. CASE TdDirtyGate(n)
  <2>1. \/ run'[n] = Idle
        \/ run'[n].at = AfterGates(n) /\ run'[n].registered = run[n].registered
    BY <1>0, <1>3, RunGoesTo, RunExits DEF TdDirtyGate, AfterGates, TdLabels
  <2>2. \A m \in Name \ {n} : run'[m] = run[m]
    BY <1>0, <1>3, RunGoesTo, RunExits DEF TdDirtyGate, AfterGates, TdLabels
  <2>3. run[n].at \in TdLabels /\ UNCHANGED <<dir, links, past>>
    BY <1>3 DEF TdDirtyGate, tree, At, TdLabels
  <2>4. /\ run'[n].at \in {"idle", "remove", "rm"}
        /\ run'[n].at = "remove" => run'[n].registered
    BY <2>1 DEF AfterGates, Idle
  <2> QED
    BY <1>a, <2>2, <2>3, <2>4 DEF Apart, TdLabels
<1>4. CASE TdRemove(n)
  <2>1. /\ run'[n].at = "prune" /\ run'[n].registered = run[n].registered
        /\ \A m \in Name \ {n} : run'[m] = run[m]
    BY <1>0, <1>4, RunGoesTo DEF TdRemove, TdLabels
  <2>2. run[n].at = "remove" /\ DropDir(n)
    BY <1>4 DEF TdRemove, At
  <2>3. run[n].registered
    BY <1>0, <2>2 DEF Links
  <2> QED
    BY <1>0, <1>a, <2>1, <2>2, <2>3, DropLinks DEF Apart, TdLabels
<1>5. CASE TdPrune(n) \/ TdBranch(n)
  <2>1. /\ run'[n].at \in {"rm", "torn down"}
        /\ \A m \in Name \ {n} : run'[m] = run[m]
    BY <1>0, <1>5, RunGoesTo DEF TdPrune, TdBranch, TdLabels
  <2>2. /\ run[n].at \in TdLabels /\ UNCHANGED <<dir, links>>
        /\ \A m \in Name : past[m] \subseteq past'[m]
    BY <1>5 DEF TdPrune, TdBranch, At, TdLabels
  <2> QED
    BY <1>a, <2>1, <2>2 DEF Apart, TdLabels
<1>6. CASE TdRm(n)
  <2>1. run'[n].at = "branch" /\ \A m \in Name \ {n} : run'[m] = run[m]
    BY <1>0, <1>6, RunGoesTo DEF TdRm, TdLabels
  <2>2. run[n].at = "rm"
    BY <1>6 DEF TdRm, At
  <2>3. /\ \/ dir'[n] = "absent"
           \/ dir'[n] = dir[n] /\ links'[n] = links[n] /\ past'[n] = past[n]
        /\ \A m \in Name \ {n} :
             dir'[m] = dir[m] /\ links'[m] = links[m] /\ past'[m] = past[m]
    <3>1. CASE DropDir(n)
      BY <1>0, <3>1, DropLinks
    <3>2. CASE UNCHANGED <<dir, dirty, links, past, lost>>
      BY <3>2
    <3> QED
      BY <1>6, <3>1, <3>2 DEF TdRm
  <2> QED
    BY <1>a, <2>1, <2>2, <2>3 DEF Apart, TdLabels
<1> QED
  BY <1>1, <1>2, <1>3, <1>4, <1>5, <1>6 DEF Teardown

\* A kill while linking is marked, and one inside the removal either drops
\* the directory or leaves it with its links.
LEMMA KillLinks ==
  ASSUME LInv, NEW n \in Name, Kill(n) \/ KillRemove(n)
  PROVE  Links(n)' /\ Apart(n)
<1>0. TypeOK /\ Links(n)
  BY DEF LInv
<1>1. run'[n].at = "idle" /\ \A m \in Name \ {n} : run'[m] = run[m]
  BY RunExits DEF Kill, KillRemove, LInv, Idle
<1>2. CASE Kill(n)
  <2>1. UNCHANGED <<dir, links>> /\ CutShort(n)
    BY <1>2 DEF Kill, tree
  <2>2. /\ \A m \in Name : past[m] \subseteq past'[m]
        /\ run[n].at \in {"link deps", "link packages"} => "cut short" \in past'[n]
    BY <1>0, <2>1, CutMarked
  <2>3. run[n].at \in Label
    BY <1>0 DEF TypeOK, Run
  <2> QED
    BY <1>0, <1>1, <2>1, <2>2, <2>3 DEF Links, At, Apart, Label, DevLabels
<1>3. CASE KillRemove(n)
  <2>1. run[n].at = "remove"
    BY <1>3 DEF KillRemove, At
  <2>2. CASE DropDir(n)
    BY <1>1, <2>2, <1>0, DropLinks DEF Links, At, Apart
  <2>3. CASE UNCHANGED <<dir, links>> /\ \A m \in Name : past[m] \subseteq past'[m]
    BY <1>0, <1>1, <2>1, <2>3 DEF Links, At, Apart, TdLabels
  <2>4. CASE /\ past' = [past EXCEPT ![n] = @ \cup
                          IF dir[n] = "present" THEN {"unlisted"} ELSE {}]
             /\ UNCHANGED <<dir, links>>
    <3> DEFINE mark == IF dir[n] = "present" THEN {"unlisted"} ELSE {}
    <3>1. past' = [past EXCEPT ![n] = @ \cup mark]
      BY <2>4
    <3> HIDE DEF mark
    <3>2. \A m \in Name : past[m] \subseteq past'[m]
      BY <1>0, <3>1 DEF TypeOK
    <3> QED
      BY <2>3, <2>4, <3>2
  <2> QED
    BY <1>3, <2>2, <2>4 DEF KillRemove
<1> QED
  BY <1>2, <1>3

LEMMA AgentLinks ==
  ASSUME LInv, NEW n \in Name, Agent(n)
  PROVE  Links(n)' /\ Apart(n)
<1>0. TypeOK /\ Links(n)
  BY DEF LInv
<1>1. CASE Edit(n)
  BY <1>0, <1>1 DEF Edit, Links, At, Apart
<1>2. CASE Commit(n)
  <2>1. /\ run'[n] = [run[n] EXCEPT !.edited = FALSE]
        /\ \A m \in Name \ {n} : run'[m] = run[m]
    BY <1>0, <1>2 DEF Commit, TypeOK
  <2>2. run'[n].at = run[n].at /\ run'[n].registered = run[n].registered
    <3>1. run[n] \in Run
      BY <1>0 DEF TypeOK
    <3> QED
      BY <2>1, <3>1 DEF Run
  <2>3. UNCHANGED <<dir, links, past>>
    BY <1>2 DEF Commit
  <2> QED
    BY <1>0, <2>1, <2>2, <2>3 DEF Links, At, Apart
<1>5. CASE Merge(n)
  <2>1. /\ run'[n] = [run[n] EXCEPT !.unmerged = FALSE]
        /\ \A m \in Name \ {n} : run'[m] = run[m]
    BY <1>0, <1>5 DEF Merge, TypeOK
  <2>2. run'[n].at = run[n].at /\ run'[n].registered = run[n].registered
    <3>1. run[n] \in Run
      BY <1>0 DEF TypeOK
    <3> QED
      BY <2>1, <3>1 DEF Run
  <2>3. UNCHANGED <<dir, links, past>>
    BY <1>5 DEF Merge
  <2> QED
    BY <1>0, <2>1, <2>2, <2>3 DEF Links, At, Apart
<1>3. CASE MoveAside(n)
  BY <1>0, <1>3 DEF MoveAside, TypeOK, Links, At, Apart, TdLabels
<1>4. CASE MoveBack(n)
  BY <1>0, <1>4 DEF MoveBack, TypeOK, Links, At, Apart, TdLabels
<1> QED
  BY <1>1, <1>2, <1>3, <1>4, <1>5 DEF Agent

LEMMA LinksInvariance == Spec => []LInv
<1>1. Init => LInv
  <2> SUFFICES ASSUME Init PROVE LInv
    OBVIOUS
  <2>1. ASSUME NEW n \in Name PROVE Links(n)
    <3>1. run[n].at = "idle" /\ dir[n] = "absent"
      BY DEF Init, Idle
    <3> QED
      BY <3>1 DEF Links, At
  <2> QED
    BY <2>1, TypeInit DEF LInv
<1>2. LInv /\ [Next]_vars => LInv'
  <2> SUFFICES ASSUME LInv, [Next]_vars PROVE LInv'
    OBVIOUS
  <2>1. TypeOK'
    BY TypeStep DEF LInv
  <2>2. ASSUME NEW n \in Name, Dev(n) \/ Teardown(n) \/ Kill(n) \/ KillRemove(n) \/ Agent(n)
        PROVE  LInv'
    <3>1. Links(n)' /\ Apart(n)
      BY <2>2, DevLinks, TeardownLinks, KillLinks, AgentLinks
    <3>2. ASSUME NEW m \in Name \ {n} PROVE Links(m)'
      BY <3>1, SiblingLinks DEF LInv
    <3> QED
      BY <2>1, <3>1, <3>2 DEF LInv
  <2>3. CASE UNCHANGED <<dir, links, run, past>>
    <3>1. \A m \in Name : Links(m)'
      BY <2>3 DEF LInv, Links, At
    <3> QED
      BY <2>1, <3>1 DEF LInv
  <2> QED
    BY <2>2, <2>3 DEF Next, Build, tree, vars
<1> QED
  BY <1>1, <1>2, PTL DEF Spec

\* Every worktree that no script is working on shares both the toolchain and
\* the package cache, or had the script that links them cut short.
THEOREM WorktreesShare == Spec => []SharesBoth
<1>1. LInv => SharesBoth
  BY DEF LInv, Links, SharesBoth, At
<1> QED
  BY <1>1, LinksInvariance, PTL

\* A name leaves the list by its own teardown, or while its directory is
\* missing by the prune of a sibling that has removed its own entry.
THEOREM PrunesAreScoped == Spec => PruneScoped
<1>1. LInv /\ [Next]_vars =>
        [\A n \in reg \ reg' :
           \/ At(n, "remove")
           \/ dir[n] # "present" /\ \E m \in Name : At(m, "prune") /\ run[m].registered]_vars
  <2> SUFFICES ASSUME LInv, Next, NEW n \in reg \ reg'
        PROVE  \/ At(n, "remove")
               \/ /\ dir[n] # "present"
                  /\ \E m \in Name : At(m, "prune") /\ run[m].registered
    OBVIOUS
  <2>1. PICK k \in Name : TdRemove(k) \/ TdPrune(k) \/ KillRemove(k)
    BY DEF Next, Build, Dev, DevStart, DevShowRef, DevAdd, DevAddFails, DevLinkDeps,
           DevLinkPackages, DevLink, DevLinkFails, DevReady, Teardown, TdStart, TdMergedGate,
           TdDirtyGate, TdRemoveFails, TdRm, TdBranch, TdDone, Kill, Agent, Edit, Commit, Merge,
           MoveAside, MoveBack, tree
  <2>2. CASE TdRemove(k) \/ KillRemove(k)
    BY <2>2 DEF TdRemove, KillRemove, At
  <2>3. CASE TdPrune(k)
    <3>1. At(k, "prune") /\ dir[n] # "present"
      BY <2>3 DEF TdPrune
    <3>2. run[k].registered
      BY <3>1 DEF LInv, Links, At
    <3> QED
      BY <3>1, <3>2
  <2> QED
    BY <2>1, <2>2, <2>3
<1> QED
  BY <1>1, LinksInvariance, PTL DEF Spec, PruneScoped
=============================================================================
