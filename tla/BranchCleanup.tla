---------------------------- MODULE BranchCleanup ----------------------------
(* scripts/cleanup_duplicate_branches.py: one sweep of the branch-hygiene    *)
(* workflow over a repository that people go on using.  The sweep lists the  *)
(* branches, reads the open and the merged pull requests, asks GitHub to     *)
(* compare branches one after another, and then deletes the refs it chose,   *)
(* by name and one at a time, whatever their tips are by then.               *)
(*                                                                           *)
(* A commit is the set of the pieces of work it contains: equal sets are the *)
(* same commit, a subset is an ancestor.  A dry run only reads, and          *)
(* --merged-branch can name only what the plan deletes anyway               *)
(* (can_delete_merged_branch), so neither is an action.                      *)
EXTENDS Naturals, Sequences, FiniteSets, FiniteSetsExt

CONSTANTS
    BranchNames,   \* the names of branches, in the order GitHub lists them
    Default,       \* DEFAULT_BRANCH
    Canonical,     \* disposable name -> the name without its suffix
    NameLength,    \* length of each name, which decides between duplicates
    Kept,          \* --keep
    Work,          \* pieces of work
    Repositories,  \* what a sweep may start from: [refs, open, merged]
    MaxMoves       \* bound: changes people make during the sweep

Branches == {BranchNames[i] : i \in 1..Len(BranchNames)}

(* The tips of some of the branches. *)
Tips == UNION {[D -> SUBSET Work] : D \in SUBSET Branches}

ASSUME CleanupAssumption ==
    /\ BranchNames \in Seq(STRING) /\ NameLength \in [Branches -> Nat]
    /\ Default \in Branches
    /\ DOMAIN Canonical \subseteq Branches
    /\ \A r \in Repositories :
          r.refs \in Tips /\ Default \in DOMAIN r.refs /\ r.open \subseteq DOMAIN r.refs

VARIABLES
    refs,    \* branch -> its tip, for the branches there are
    pulls,   \* [open, merged]: heads of open, <<head, tip>> of merged requests
    moves,   \* changes people made
    sweep    \* cleanup's variables, and the step it is at

cleanupVars == <<refs, pulls, moves, sweep>>

NameOrder(b) == CHOOSE i \in 1..Len(BranchNames) : BranchNames[i] = b
Disposable(b) == b \in DOMAIN Canonical
First(names) == CHOOSE b \in names : \A c \in names : NameOrder(b) <= NameOrder(c)

CleanupInit ==
    /\ \E r \in Repositories :
          /\ refs = r.refs
          /\ pulls = [open |-> r.open, merged |-> r.merged]
    /\ moves = 0
    /\ sweep = [at |-> "list", listed |-> refs, left |-> {}, open |-> {},
                heads |-> {}, contained |-> {}, superseded |-> {}, crossed |-> FALSE]

(* A branch that no rule of the sweep may touch. *)
Protected(s, b) == b = Default \/ b \in s.open \/ b \in Kept

(* A duplicate that is preferred: a real name, then a short, then a late one. *)
PreferredTo(b, c) ==
    \/ ~ Disposable(b) /\ Disposable(c)
    \/ /\ Disposable(b) = Disposable(c)
       /\ \/ NameLength[b] < NameLength[c]
          \/ NameLength[b] = NameLength[c] /\ NameOrder(b) > NameOrder(c)

(* The one of a group of branches on the same commit that stays for them all. *)
KeeperOf(s, group) ==
    LET protected == {b \in group : Protected(s, b)} IN
    IF protected # {} THEN First(protected)
    ELSE CHOOSE b \in group : \A c \in group \ {b} : PreferredTo(b, c)

DuplicateGroups(s) ==
    {g \in {{c \in DOMAIN s.listed : s.listed[c] = s.listed[b]} : b \in DOMAIN s.listed} :
        Cardinality(g) > 1 /\ \E b \in g : ~ Protected(s, b)}

Staying(s) == {KeeperOf(s, g) : g \in DuplicateGroups(s)}

Deletions(s) ==
    {b \in DOMAIN s.listed :
        /\ ~ Protected(s, b)
        /\ b \notin Staying(s)
        /\ \/ \E g \in DuplicateGroups(s) : b \in g
           \/ b \in s.superseded \cup s.heads \cup s.contained}

(* The sweep's requests, one action each; a loop takes the branches in order. *)
ListBranches ==
    /\ sweep.at = "list"
    /\ sweep' = [sweep EXCEPT !.at = "open", !.listed = refs, !.crossed = FALSE]
    /\ UNCHANGED <<refs, pulls, moves>>

ListOpenPulls ==
    /\ sweep.at = "open"
    /\ sweep' = [sweep EXCEPT !.at = "heads", !.open = pulls.open,
                              !.left = DOMAIN sweep.listed]
    /\ UNCHANGED <<refs, pulls, moves>>

(* The branches a loop asks GitHub about: with each one, one request. *)
Compared(s) == {b \in DOMAIN s.listed : ~ Protected(s, b)}

Snapshots(s) ==
    {b \in Compared(s) :
        /\ Disposable(b)
        /\ Canonical[b] \in DOMAIN s.listed \ ({Default} \cup s.open)
        /\ ~ Disposable(Canonical[b])}

(* From one loop to the next that has anything to ask. *)
ToDelete(s) == [s EXCEPT !.at = "delete", !.left = Deletions(s)]

ToSuperseded(s) ==
    IF Snapshots(s) = {} THEN ToDelete(s)
    ELSE [s EXCEPT !.at = "superseded", !.left = Snapshots(s)]

ToContained(s) ==
    IF Compared(s) = {} THEN ToSuperseded(s)
    ELSE [s EXCEPT !.at = "contained", !.left = Compared(s)]

BranchAsked(s) == First(s.left)
Done(s) == [s EXCEPT !.left = @ \ {BranchAsked(s)}]

(* commits/sha/pulls: the tip that was listed is the head of a merged request. *)
ReadMergedHeads ==
    /\ sweep.at = "heads"
    /\ LET b == BranchAsked(sweep)
           found == <<b, sweep.listed[b]>> \in pulls.merged
           s == [Done(sweep) EXCEPT !.heads = IF found THEN @ \cup {b} ELSE @]
       IN  sweep' = IF s.left = {} THEN ToContained(s) ELSE s
    /\ UNCHANGED <<refs, pulls, moves>>

(* compare/main...b, by name: how the branches are now, not as listed. *)
CompareWithDefault ==
    /\ sweep.at = "contained"
    /\ LET b == BranchAsked(sweep)
           s == [Done(sweep) EXCEPT
                   !.contained = IF refs[b] \subseteq refs[Default] THEN @ \cup {b} ELSE @]
       IN  sweep' = IF s.left = {} THEN ToSuperseded(s) ELSE s
    /\ UNCHANGED <<refs, pulls, moves>>

(* compare/b...c: c is ahead and not behind; to the mutant ahead is enough. *)
AheadOfSnapshot(b, c) == ~ refs[c] \subseteq refs[b]
ContainsSnapshot(b, c) == refs[b] \subseteq refs[c] /\ refs[b] # refs[c]

CompareWithSibling ==
    /\ sweep.at = "superseded"
    /\ LET b == BranchAsked(sweep)
           s == [Done(sweep) EXCEPT
                   !.superseded = IF ContainsSnapshot(b, Canonical[b]) THEN @ \cup {b} ELSE @]
       IN  sweep' = IF s.left = {} THEN ToDelete(s) ELSE s
    /\ UNCHANGED <<refs, pulls, moves>>

DeleteRef ==
    /\ sweep.at = "delete" /\ sweep.left # {}
    /\ LET b == First(sweep.left) IN
       /\ refs' = [c \in DOMAIN refs \ {b} |-> refs[c]]
       /\ sweep' = [sweep EXCEPT !.left = @ \ {b}]
    /\ UNCHANGED <<pulls, moves>>

(* BranchCleanupError: a request fails and the sweep ends where it is. *)
AbortSweep ==
    /\ sweep.at # "failed"
    /\ sweep.at = "delete" => sweep.left # {}
    /\ sweep' = [sweep EXCEPT !.at = "failed"]
    /\ UNCHANGED <<refs, pulls, moves>>

(* People: a push of new work, a branch merged into another, and a pull      *)
(* request opened, closed, or merged with a merge commit or squashed.  Refs  *)
(* only move forward, and people delete none.                                *)
Person(change) == moves < MaxMoves /\ moves' = moves + 1 /\ change

Push(b, w) ==
    /\ \A c \in DOMAIN refs : w \notin refs[c]
    /\ refs' = [refs EXCEPT ![b] = @ \cup {w}]
    /\ UNCHANGED <<pulls, sweep>>

Bring(from, b) ==
    /\ b # Default /\ ~ refs[from] \subseteq refs[b]
    /\ refs' = [refs EXCEPT ![b] = @ \cup refs[from]]
    /\ sweep' = [sweep EXCEPT !.crossed = TRUE]
    /\ UNCHANGED pulls

OpenPull(b) ==
    /\ b \notin pulls.open \cup {Default}
    /\ pulls' = [pulls EXCEPT !.open = @ \cup {b}]
    /\ UNCHANGED <<refs, sweep>>

MergePull(b, squash) ==
    /\ b \in pulls.open
    /\ pulls' = [open |-> pulls.open \ {b}, merged |-> pulls.merged \cup {<<b, refs[b]>>}]
    /\ refs' = IF squash THEN refs ELSE [refs EXCEPT ![Default] = @ \cup refs[b]]
    /\ UNCHANGED sweep

People ==
    \E b \in DOMAIN refs :
        \/ \E w \in Work : Person(Push(b, w))
        \/ \E c \in DOMAIN refs : Person(Bring(c, b))
        \/ Person(OpenPull(b))
        \/ \E squash \in BOOLEAN : Person(MergePull(b, squash))

CleanupNext ==
    \/ ListBranches \/ ListOpenPulls \/ ReadMergedHeads \/ CompareWithDefault
    \/ CompareWithSibling \/ DeleteRef \/ AbortSweep \/ People

CleanupSpec == CleanupInit /\ [][CleanupNext]_cleanupVars
-----------------------------------------------------------------------------
CleanupTypeOK ==
    /\ Default \in DOMAIN refs
    /\ \A b \in DOMAIN refs : b \in Branches /\ refs[b] \subseteq Work
    /\ pulls.open \subseteq Branches
    /\ sweep.left \cup sweep.heads \cup sweep.contained \cup sweep.superseded
         \subseteq DOMAIN sweep.listed

(* Until somebody brings a branch into another after the listing, whatever  *)
(* else people do and wherever the sweep stops, all work it listed is in a  *)
(* branch that is left or was merged: the rules, each safe by itself, do    *)
(* not delete a branch and the one that made its deletion safe.  (Work      *)
(* pushed after the listing has no such promise: build_cleanup_plan.)       *)
CleanupKeepsListedWork ==
    sweep.at # "list" /\ ~ sweep.crossed =>
        UNION {sweep.listed[b] : b \in DOMAIN sweep.listed}
            \subseteq (UNION {refs[b] : b \in DOMAIN refs})
                        \cup (UNION {p[2] : p \in pulls.merged})
=============================================================================
