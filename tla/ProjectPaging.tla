---------------------------- MODULE ProjectPaging ----------------------------
(* scripts/github_project_v2.py set: fetch_project reads the fields and the  *)
(* items of a project page by page, both in one query, with one cursor each; *)
(* main then resolves one item and one field among what was read and sends   *)
(* one mutation.  A page stands for the nodes on it.  An answer has the page *)
(* after the cursor of its variables, the first one for a null cursor.       *)
EXTENDS Naturals

CONSTANTS MaxPages   \* bound: pages of fields, and of items, of a project

ASSUME PagingAssumption == MaxPages \in Nat

VARIABLES
    size,   \* [fields, items]: how many pages the project has of each
    fetch   \* fetch_project's variables, and the step main is at

pagingVars == <<size, fetch>>

Null == 0

PagingInit ==
    /\ size \in [fields : 1..MaxPages, items : 1..MaxPages]
    /\ fetch = [at |-> "fetching", fieldCursor |-> Null, itemCursor |-> Null,
                fields |-> [p \in 1..size.fields |-> 0],
                items |-> [p \in 1..size.items |-> 0]]

(* endCursor if hasNextPage, else None: after page p of n. *)
CursorPastEnd(p, n) == IF p <= n THEN p ELSE Null   \* mutant: off by one
CursorAfter(p, n) == IF p < n THEN p ELSE Null

(* One turn of the loop: a page of each connection is read and appended. *)
FetchPages ==
    /\ fetch.at = "fetching"
    /\ LET f == fetch.fieldCursor + 1
           i == fetch.itemCursor + 1
           nextField == CursorAfter(f, size.fields)
           nextItem == CursorAfter(i, size.items)
       IN fetch' = [at |-> IF nextField = Null /\ nextItem = Null THEN "resolving"
                           ELSE "fetching",
                    fieldCursor |-> nextField,
                    itemCursor |-> nextItem,
                    fields |-> [fetch.fields EXCEPT ![f] = @ + 1],
                    items |-> [fetch.items EXCEPT ![i] = @ + 1]]
    /\ UNCHANGED size

(* resolve_item, resolve_field: exactly one match, or the command fails. *)
Resolve(f, i) ==
    /\ fetch.at = "resolving"
    /\ fetch' = [fetch EXCEPT !.at = IF fetch.fields[f] = 1 /\ fetch.items[i] = 1
                                     THEN "updating" ELSE "refused"]
    /\ UNCHANGED size

(* update_item_field; any request may fail, and the command with it. *)
UpdateField ==
    /\ fetch.at = "updating"
    /\ fetch' = [fetch EXCEPT !.at = "updated"]
    /\ UNCHANGED size

RequestFails ==
    /\ fetch.at \in {"fetching", "updating"}
    /\ fetch' = [fetch EXCEPT !.at = "failed"]
    /\ UNCHANGED size

PagingNext ==
    \/ FetchPages \/ UpdateField \/ RequestFails
    \/ \E f \in 1..size.fields, i \in 1..size.items : Resolve(f, i)

PagingSpec == PagingInit /\ [][PagingNext]_pagingVars
-----------------------------------------------------------------------------
(* The cursors stay in their connections, and the loop ends: a page of one   *)
(* connection is read once for each page of the other at most.               *)
PagingTypeOK ==
    /\ fetch.fieldCursor \in 0..size.fields - 1
    /\ fetch.itemCursor \in 0..size.items - 1
    /\ \A p \in 1..size.fields : fetch.fields[p] <= size.items
    /\ \A p \in 1..size.items : fetch.items[p] <= size.fields

(* "Resolve the issue/PR by repository + number and the field by its         *)
(* human-readable name": a field and an item the project has, each of a name *)
(* of its own, are never refused for matching more than one.                 *)
EveryNodeResolves == fetch.at # "refused"
=============================================================================
