----------------------------- MODULE ProjectSync -----------------------------
(***************************************************************************)
(* GitHubProjectsSynchronizer: refresh copies the items of a project to the *)
(* local store one at a time, ensure_export adds a content to the project   *)
(* unless the store knows it.  People change the project meanwhile, several *)
(* syncs run at once, a request may fail with or without having its effect, *)
(* and a sync may die between two writes.                                   *)
(***************************************************************************)
EXTENDS Naturals, FiniteSets, FiniteSetsExt

CONSTANTS
    Syncers,     \* threads that refresh or export
    ProjectIssues, \* contents that can be exported
    Draft,       \* the content of an item that has none: the empty id
    PageSize,    \* items of one page; list_items asks for the first only
    MaxRemote,   \* bound: changes of the project in one history
    MaxItems,    \* bound: items the project ever has
    Unknown

ASSUME SyncAssumption == Draft \notin ProjectIssues /\ PageSize \in Nat \ {0}

VARIABLES
    project,   \* the project on GitHub: item -> [content, revision, archived]
    changes,   \* the changes it has seen, which is also its clock
    items,     \* project_item: content -> the item saved for it
    syncState, \* project_sync_state of this project
    syncer     \* syncer -> how far its call is

syncVars == <<project, changes, items, syncState, syncer>>

ItemIds == 1..MaxItems
ContentIds == ProjectIssues \cup {Draft}
AtRest == [stage |-> "resting"]
Proceed(s, state) == syncer' = [syncer EXCEPT ![s] = state]

SyncInit ==
    /\ project = <<>>
    /\ changes = 0
    /\ items = [c \in ContentIds |-> Unknown]
    /\ syncState = Unknown
    /\ syncer = [s \in Syncers |-> AtRest]

---------------------------------------------------------------------------
(* The project: an issue has at most one item, drafts any number. *)
ItemsOf(c) == {i \in DOMAIN project : project[i].content = c}

(* Items are numbered in the order they are made; a new one has the content. *)
WithItem(c, at) ==
    [i \in DOMAIN project \cup {at} |->
        IF i = at THEN [content |-> c, revision |-> changes + 1, archived |-> FALSE]
        ELSE project[i]]

(* The lowest number that was never used: removed items keep theirs. *)
NewItem(i) == i \in ItemIds /\ i = changes + 1

PersonAdds(c) ==
    /\ changes < MaxRemote
    /\ c \in ProjectIssues => ItemsOf(c) = {}
    /\ \E i \in ItemIds : NewItem(i) /\ project' = WithItem(c, i)
    /\ changes' = changes + 1
    /\ UNCHANGED <<items, syncState, syncer>>

PersonArchives(i) ==
    /\ changes < MaxRemote
    /\ i \in DOMAIN project /\ ~ project[i].archived
    /\ project' = [project EXCEPT ![i].archived = TRUE, ![i].revision = changes + 1]
    /\ changes' = changes + 1
    /\ UNCHANGED <<items, syncState, syncer>>

PersonRemoves(i) ==
    /\ changes < MaxRemote
    /\ i \in DOMAIN project
    /\ project' = [j \in DOMAIN project \ {i} |-> project[j]]
    /\ changes' = changes + 1
    /\ UNCHANGED <<items, syncState, syncer>>

---------------------------------------------------------------------------
ItemOf(i) == [item |-> i, content |-> project[i].content, revision |-> project[i].revision,
              archived |-> project[i].archived]

(* list_items: the first page, in any order GitHub gives it, then sorted. *)
FirstPage(page) ==
    /\ page \subseteq DOMAIN project
    /\ Cardinality(page) = Min({PageSize, Cardinality(DOMAIN project)})

MaxRevisionOf(listed) == Max({0} \cup {x.revision : x \in listed})

(* refresh: a request that fails raises, and leaves no trace in the store. *)
RefreshStart(s, page) ==
    /\ syncer[s] = AtRest
    /\ FirstPage(page)
    /\ Proceed(s, [stage |-> "saving", listed |-> {ItemOf(i) : i \in page},
                   todo |-> {ItemOf(i) : i \in page}, alone |-> TRUE])
    /\ UNCHANGED <<project, changes, items, syncState>>

(* save_item: a row of its content is overwritten, whatever it said; the     *)
(* mutant keeps the one that is there.                                       *)
save_new_item(c, x) == items' = [items EXCEPT ![c] = IF @ = Unknown THEN x ELSE @]
save_item(c, x) == items' = [items EXCEPT ![c] = x]

(* History: a refresh is disturbed by any other writer of the store. *)
Disturbed(s, state) ==
    [t \in Syncers |->
        IF t = s THEN state
        ELSE IF syncer[t].stage \in {"saving", "refreshed"}
             THEN [syncer[t] EXCEPT !.alone = FALSE]
             ELSE syncer[t]]

SaveListed(s) ==
    /\ syncer[s].stage = "saving"
    /\ syncer[s].todo # {}
    /\ LET x == CHOOSE y \in syncer[s].todo : \A z \in syncer[s].todo : y.item <= z.item
       IN  /\ save_item(x.content, x)
           /\ syncer' = Disturbed(s, [syncer[s] EXCEPT !.todo = @ \ {x}])
    /\ UNCHANGED <<project, changes, syncState>>

SaveState(s) ==
    /\ syncer[s].stage = "saving"
    /\ syncer[s].todo = {}
    /\ syncState' = [revision |-> MaxRevisionOf(syncer[s].listed), status |-> "success"]
    /\ syncer' = Disturbed(s, [syncer[s] EXCEPT !.stage = "refreshed"])
    /\ UNCHANGED <<project, changes, items>>

RefreshReturns(s) ==
    /\ syncer[s].stage = "refreshed"
    /\ Proceed(s, AtRest)
    /\ UNCHANGED <<project, changes, items, syncState>>

(* ensure_export: a content the store knows is answered from it (or with a  *)
(* conflict, when another revision was expected).                           *)
ExportStart(s, c) ==
    /\ syncer[s] = AtRest
    /\ items[c] = Unknown
    /\ Proceed(s, [stage |-> "add", content |-> c])
    /\ UNCHANGED <<project, changes, items, syncState>>

(* The POST.  GitHub keeps one item for an issue; the answer may be lost.   *)
AddItem(s, answered) ==
    /\ syncer[s].stage = "add"
    /\ LET c == syncer[s].content
           fresh == ItemsOf(c) = {}
           at == IF fresh THEN changes + 1 ELSE Min(ItemsOf(c))
       IN  /\ fresh => changes < MaxRemote /\ NewItem(at)
           /\ IF fresh
              THEN project' = WithItem(c, at) /\ changes' = changes + 1
              ELSE UNCHANGED <<project, changes>>
           /\ Proceed(s, IF answered
                         THEN [stage |-> "added", content |-> c,
                               item |-> [item |-> at, content |-> c, archived |-> FALSE,
                                         revision |-> project'[at].revision]]
                         ELSE AtRest)
    /\ UNCHANGED <<items, syncState>>

SaveCreated(s) ==
    /\ syncer[s].stage = "added"
    /\ save_item(syncer[s].content, syncer[s].item)
    /\ syncer' = Disturbed(s, [syncer[s] EXCEPT !.stage = "state"])
    /\ UNCHANGED <<project, changes, syncState>>

(* The state's remote revision becomes that of the one item just created. *)
SaveExportState(s) ==
    /\ syncer[s].stage = "state"
    /\ syncState' = [revision |-> syncer[s].item.revision, status |-> "success"]
    /\ syncer' = Disturbed(s, AtRest)
    /\ UNCHANGED <<project, changes, items>>

SyncFails(s) ==
    /\ syncer[s].stage \in {"saving", "add", "added", "state"}
    /\ Proceed(s, AtRest)
    /\ UNCHANGED <<project, changes, items, syncState>>

SyncNext ==
    \/ \E c \in ContentIds : PersonAdds(c)
    \/ \E i \in ItemIds : PersonArchives(i) \/ PersonRemoves(i)
    \/ \E s \in Syncers :
          \/ \E page \in SUBSET ItemIds : RefreshStart(s, page)
          \/ SaveListed(s) \/ SaveState(s) \/ RefreshReturns(s)
          \/ \E c \in ProjectIssues : ExportStart(s, c)
          \/ \E answered \in BOOLEAN : AddItem(s, answered)
          \/ SaveCreated(s) \/ SaveExportState(s) \/ SyncFails(s)

SyncSpec == SyncInit /\ [][SyncNext]_syncVars

---------------------------------------------------------------------------
SyncTypeOK ==
    /\ DOMAIN project \subseteq ItemIds
    /\ \A c \in ContentIds : items[c] # Unknown =>
          items[c].content = c /\ items[c].item \in ItemIds /\ items[c].revision <= changes

(* A refresh no other sync disturbed leaves the store as the project was    *)
(* when it was listed: every issue listed has its item, revision and flag,  *)
(* and the state names the latest revision (refresh, save_item, save_state).*)
(* Drafts share one row and are left out; so are items past the first page. *)
QuietRefreshIsComplete ==
    \A s \in Syncers :
        syncer[s].stage = "refreshed" /\ syncer[s].alone =>
            /\ \A x \in syncer[s].listed : x.content \in ProjectIssues => items[x.content] = x
            /\ syncState.revision = MaxRevisionOf(syncer[s].listed)
=============================================================================
