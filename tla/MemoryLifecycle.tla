--------------------------- MODULE MemoryLifecycle ---------------------------
(***************************************************************************)
(* Project memory: the store with its revision check, duplicate compaction  *)
(* (plan, then apply, which reads and writes one memory at a time), and the *)
(* promotion of memories of one run to reusable knowledge.  Several threads *)
(* work on the store at once and may die between two statements.            *)
(***************************************************************************)
EXTENDS Naturals, FiniteSets, FiniteSetsExt

CONSTANTS
    Keepers,     \* threads that edit, compact or promote
    MemoryIds,   \* naturals, ordered like the ids
    Scopes,      \* a scope and kind together
    Contents,
    Normalized,  \* content -> what MemoryCompactor._normalize makes of it
    Refs,        \* provenance references
    Changes,     \* what editors do: "refs", "content", "confidence", "archive"
    Proposals,   \* learning proposals: [id, sources, scope, content, minimum]
    MaxRevision, \* bound: updates of one memory
    MaxPlans,    \* bound: compaction plans of one history
    Absent

MemoryRows ==
    [scope: Scopes, content: Contents, refs: (SUBSET Refs) \ {{}},
     confidence: 1..2, status: {"active", "archived"}, revision: Nat]

(* The id of a proposal is a digest of what it says and of its sources, but *)
(* not of the confidence it asks for.                                       *)
ASSUME MemoryAssumption ==
    /\ MemoryIds \subseteq Nat /\ Absent \notin MemoryRows
    /\ Normalized \in [Contents -> Contents]
    /\ Changes \subseteq {"refs", "content", "confidence", "archive"}
    /\ \A p \in Proposals :
          /\ p.id \in MemoryIds /\ p.sources \subseteq MemoryIds \ {p.id} /\ p.sources # {}
          /\ p.scope \in Scopes /\ p.content \in Contents /\ p.minimum \in 1..2
          /\ \A q \in Proposals : q.id = p.id => q.sources = p.sources

VARIABLES
    memory,        \* memory id -> its row
    plans,         \* the CompactionGroups that were made
    keeper,        \* keeper -> how far its call is
    acknowledged,  \* history: memory id -> the updates that returned
    held           \* history: pairs of a memory and a reference it had while active

memoryVars == <<memory, plans, keeper, acknowledged, held>>

Learned == {p.id : p \in Proposals}

Record(scope, content, refs, confidence) ==
    [scope |-> scope, content |-> content, refs |-> refs, confidence |-> confidence,
     status |-> "active", revision |-> 0]

Idling == [stage |-> "idle"]
Continue(k, state) == keeper' = [keeper EXCEPT ![k] = state]

MemoryInit ==
    /\ memory = [m \in MemoryIds |-> Absent]
    /\ plans = {}
    /\ keeper = [k \in Keepers |-> Idling]
    /\ acknowledged = [m \in MemoryIds |-> 0]
    /\ held = {}

Present(m) == memory[m] # Absent

Store(m, row) ==
    /\ memory' = [memory EXCEPT ![m] = row]
    /\ held' = IF row.status = "active" THEN held \cup ({m} \X row.refs) ELSE held

create(m, row) ==
    /\ ~ Present(m)
    /\ Store(m, row)

(* update: UPDATE ... WHERE memory_id = ? AND revision = ? *)
(* (Mutant: the revision of the row is not compared.) *)
updateBlindly(m, row, expected) ==
    /\ Store(m, row)
    /\ acknowledged' = [acknowledged EXCEPT ![m] = @ + 1]

update(m, row, expected) ==
    /\ row.revision = expected + 1
    /\ memory[m].revision = expected
    /\ Store(m, row)
    /\ acknowledged' = [acknowledged EXCEPT ![m] = @ + 1]

Advanced(row) == [row EXCEPT !.revision = @ + 1]

AddMemory(m, scope, content, ref, confidence) ==
    /\ m \notin Learned
    /\ create(m, Record(scope, content, {ref}, confidence))
    /\ UNCHANGED <<plans, keeper, acknowledged>>

(* get, which every change starts with. *)
Read(k, m) ==
    /\ keeper[k] = Idling
    /\ Present(m)
    /\ memory[m].revision < MaxRevision
    /\ Continue(k, [stage |-> "edit", id |-> m, row |-> memory[m]])
    /\ UNCHANGED <<memory, plans, acknowledged, held>>

Changed(row, change, content, ref) ==
    CASE change = "refs" -> [row EXCEPT !.refs = @ \cup {ref}]
      [] change = "content" -> [row EXCEPT !.content = content]
      [] change = "confidence" -> [row EXCEPT !.confidence = 2]
      [] change = "archive" -> [row EXCEPT !.status = "archived"]

(* update or archive with the row that was read; a stale revision is an error. *)
Write(k, change, content, ref) ==
    /\ keeper[k].stage = "edit"
    /\ LET m == keeper[k].id
           row == keeper[k].row
       IN  \/ update(m, Advanced(Changed(row, change, content, ref)), row.revision)
           \/ /\ memory[m].revision # row.revision
              /\ UNCHANGED <<memory, acknowledged, held>>
    /\ Continue(k, Idling)
    /\ UNCHANGED plans

---------------------------------------------------------------------------
(* plan: the active memories with the same scope, kind and normalized       *)
(* content; the most trusted is canonical and gets everyone's references.   *)
(* (History: seen, the rows the plan was made from.)                        *)
Duplicates(m) ==
    {n \in MemoryIds :
        /\ Present(n)
        /\ memory[n].status = "active"
        /\ memory[n].scope = memory[m].scope
        /\ Normalized[memory[n].content] = Normalized[memory[m].content]}

(* Everyone's references; the mutant forgets those of the redundant. *)
CanonicalRefs(m) == memory[m].refs
MergedRefs(m) == UNION {memory[n].refs : n \in Duplicates(m)}

MoreTrusted(m, n) ==
    \/ memory[m].confidence > memory[n].confidence
    \/ memory[m].confidence = memory[n].confidence /\ m < n

Plan(m) ==
    /\ Cardinality(plans) < MaxPlans
    /\ Present(m)
    /\ memory[m].status = "active"
    /\ Cardinality(Duplicates(m)) >= 2
    /\ \A n \in Duplicates(m) \ {m} : MoreTrusted(m, n)
    /\ plans' = plans \cup
         {[scope |-> memory[m].scope, canonical |-> m, redundant |-> Duplicates(m) \ {m},
           merged |-> MergedRefs(m),
           seen |-> [n \in Duplicates(m) |-> memory[n]]]}
    /\ UNCHANGED <<memory, keeper, acknowledged, held>>

(* apply: the canonical memory is read, then each redundant one is read and  *)
(* checked; any that moved stops the whole.                                 *)
ApplyPlan(k, plan) ==
    /\ keeper[k] = Idling
    /\ \A n \in plan.redundant \cup {plan.canonical} : memory[n].revision < MaxRevision
    /\ memory[plan.canonical].scope = plan.scope
    /\ Continue(k, [stage |-> "check", plan |-> plan, row |-> memory[plan.canonical],
                    todo |-> plan.redundant])
    /\ UNCHANGED <<memory, plans, acknowledged, held>>

CheckRedundant(k) ==
    /\ keeper[k].stage = "check"
    /\ keeper[k].todo # {}
    /\ LET n == Min(keeper[k].todo) IN
         Continue(k,
           IF /\ memory[n].scope = keeper[k].plan.scope
              /\ Normalized[memory[n].content] = Normalized[keeper[k].row.content]
           THEN [keeper[k] EXCEPT !.todo = @ \ {n}]
           ELSE Idling)
    /\ UNCHANGED <<memory, plans, acknowledged, held>>

(* The canonical memory takes the plan's references in place of its own. *)
UpdateCanonical(k) ==
    /\ keeper[k].stage = "check"
    /\ keeper[k].todo = {}
    /\ LET plan == keeper[k].plan
           row == keeper[k].row
       IN  \/ /\ update(plan.canonical, Advanced([row EXCEPT !.refs = plan.merged]), row.revision)
              /\ Continue(k, [stage |-> "archive", plan |-> plan, todo |-> plan.redundant])
           \/ /\ memory[plan.canonical].revision # row.revision
              /\ Continue(k, Idling)
              /\ UNCHANGED <<memory, acknowledged, held>>
    /\ UNCHANGED plans

(* Each redundant memory is read again, and archived as it is by then.  A   *)
(* write between that read and the archive refuses the archive, which ends  *)
(* the call as the death of the keeper does.                                *)
ArchiveRedundant(k) ==
    /\ keeper[k].stage = "archive"
    /\ keeper[k].todo # {}
    /\ LET n == Min(keeper[k].todo) IN
         /\ update(n, Advanced([memory[n] EXCEPT !.status = "archived"]), memory[n].revision)
         /\ Continue(k, [keeper[k] EXCEPT !.todo = @ \ {n}])
    /\ UNCHANGED plans

EndApply(k) ==
    /\ keeper[k].stage = "archive"
    /\ keeper[k].todo = {}
    /\ Continue(k, Idling)
    /\ UNCHANGED <<memory, plans, acknowledged, held>>

---------------------------------------------------------------------------
(* promote: the sources are read one after another, then checked. *)
Promote(k, proposal) ==
    /\ keeper[k] = Idling
    /\ \A s \in proposal.sources : Present(s)
    /\ Continue(k, [stage |-> "sources", proposal |-> proposal, todo |-> proposal.sources,
                    refs |-> {}, confidence |-> 2])
    /\ UNCHANGED <<memory, plans, acknowledged, held>>

(* A source that is not usable ends the promotion; to the mutant all are. *)
UsableIfActive(row, minimum) == row.status = "active"
Usable(row, minimum) == row.status = "active" /\ row.confidence >= minimum

ReadSource(k) ==
    /\ keeper[k].stage = "sources"
    /\ keeper[k].todo # {}
    /\ LET s == Min(keeper[k].todo)
           row == memory[s]
       IN  Continue(k,
             IF Usable(row, keeper[k].proposal.minimum)
             THEN [keeper[k] EXCEPT !.todo = @ \ {s}, !.refs = @ \cup row.refs,
                                    !.confidence = IF row.confidence < @ THEN row.confidence ELSE @]
             ELSE Idling)
    /\ UNCHANGED <<memory, plans, acknowledged, held>>

(* The id is that of the proposal: where it exists, the memory that has it  *)
(* is returned if it says the same, and the promotion fails if not.         *)
CreateLearned(k) ==
    /\ keeper[k].stage = "sources"
    /\ keeper[k].todo = {}
    /\ LET proposal == keeper[k].proposal IN
         \/ create(proposal.id, Record(proposal.scope, proposal.content, keeper[k].refs,
                                       keeper[k].confidence))
         \/ Present(proposal.id) /\ UNCHANGED <<memory, held>>
    /\ Continue(k, Idling)
    /\ UNCHANGED <<plans, acknowledged>>

KeeperDies(k) ==
    /\ keeper[k] # Idling
    /\ Continue(k, Idling)
    /\ UNCHANGED <<memory, plans, acknowledged, held>>

MemoryNext ==
    \/ \E m \in MemoryIds, s \in Scopes, c \in Contents, r \in Refs : AddMemory(m, s, c, r, 1)
    \/ \E m \in MemoryIds : Plan(m)
    \/ \E k \in Keepers :
          \/ \E m \in MemoryIds : Read(k, m)
          \/ \E change \in Changes, c \in Contents, r \in Refs : Write(k, change, c, r)
          \/ \E plan \in plans : ApplyPlan(k, plan)
          \/ CheckRedundant(k) \/ UpdateCanonical(k) \/ ArchiveRedundant(k) \/ EndApply(k)
          \/ \E p \in Proposals : Promote(k, p)
          \/ ReadSource(k) \/ CreateLearned(k) \/ KeeperDies(k)

MemorySpec == MemoryInit /\ [][MemoryNext]_memoryVars

---------------------------------------------------------------------------
MemoryTypeOK ==
    \A m \in MemoryIds : Present(m) => memory[m] \in MemoryRows

(* No two acknowledged updates were made from the same row: a memory's      *)
(* revision is the number of updates that returned, whether an editor's, a  *)
(* compaction's or an archive's (SQLiteMemoryStore.update).                 *)
NoUpdateLost == \A m \in MemoryIds : Present(m) => memory[m].revision = acknowledged[m]

Members(plan) == plan.redundant \cup {plan.canonical}

(* What a compaction has archived so far, and whatever is still to come, is *)
(* kept: when the canonical memory and an archived one moved by its writes  *)
(* alone since the plan, the canonical memory is active, says the same and  *)
(* has every reference the archived one had, whatever became of the other   *)
(* members in between (plan, apply).                                        *)
QuietCompactionIsLossless ==
    \A k \in Keepers : keeper[k].stage = "archive" =>
        LET plan == keeper[k].plan
            canonical == memory[plan.canonical]
        IN  \A n \in plan.redundant \ keeper[k].todo :
              (\A m \in {n, plan.canonical} :
                    memory[m].revision = plan.seen[m].revision + 1)
              => /\ canonical.status = "active" /\ memory[n].status = "archived"
                 /\ memory[n].refs \subseteq canonical.refs
                 /\ Normalized[memory[n].content] = Normalized[canonical.content]

(* What was learned is backed: each reference of a promoted memory is one a *)
(* source had while it was active, each source gave one, and it is as       *)
(* trusted as a proposal for it asked (CrossRunLearning.promote).           *)
LearningIsBacked ==
    \A p \in Proposals :
        Present(p.id) /\ memory[p.id].revision = 0 =>
            /\ \A r \in memory[p.id].refs : \E s \in p.sources : <<s, r>> \in held
            /\ \A s \in p.sources : \E r \in memory[p.id].refs : <<s, r>> \in held
            /\ \E q \in Proposals : q.id = p.id /\ memory[p.id].confidence >= q.minimum
=============================================================================
