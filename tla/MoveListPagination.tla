------------------------- MODULE MoveListPagination -------------------------
(***************************************************************************)
(* Paging through the modules or the resources of a Move account           *)
(* (rest/move_list/v3.rs).  A page walks a snapshot of the account's index *)
(* of state keys from the cursor, while the executor adds keys to the      *)
(* index and items to resource groups; a group is read when the walk       *)
(* reaches its key.  One client asks for page after page with the cursor   *)
(* of the page before.                                                     *)
(***************************************************************************)
EXTENDS Integers, Sequences, FiniteSets, SequencesExt

CONSTANTS
  Kind,      \* the kind of each state key: "code", "resource" or "group"
  Items,     \* the positions of the struct tags a resource group may hold
  Present,   \* the keys of the index when the client starts
  MaxCount,  \* bound: the largest page asked for
  None

Keys == DOMAIN Kind

VARIABLES
  index,     \* the keys under the account's prefix in move_state_index
  groups,    \* the items each resource group holds
  query,     \* MoveListQuery of the client: "Modules" or "Resources"
  request,   \* the MoveListBuilder of the page in progress, or None
  cursor,    \* the cursor the client holds, or None
  returned,  \* what the client was given so far
  done,      \* the client got a page shorter than it asked for
  added      \* entries a group got since the client started

vars == <<index, groups, query, request, cursor, returned, done, added>>

InOrder(S) == SetToSortSeq(S, <)

\* What one state key contributes to the list the client is building.
Listing(key) ==
  CASE query = "Modules" /\ Kind[key] = "code"       -> <<<<key, None>>>>
    [] query = "Resources" /\ Kind[key] = "resource" -> <<<<key, None>>>>
    [] query = "Resources" /\ Kind[key] = "group"    ->
         [n \in 1 .. Cardinality(groups[key]) |-> <<key, InOrder(groups[key])[n]>>]
    [] OTHER -> <<>>

Init ==
  /\ index = Present
  /\ groups \in [{k \in Keys : Kind[k] = "group"} -> SUBSET Items \ {{}}]
  /\ query \in {"Modules", "Resources"}
  /\ request = None
  /\ cursor = None
  /\ returned = <<>>
  /\ done = FALSE
  /\ added = {}

walk_skips_group(from) ==
  LET keys == InOrder({k \in index : from = None \/ k >= from.key})
  IN  IF from # None /\ keys # <<>> THEN Tail(keys) ELSE keys

\* The keys a page visits: from the cursor's key on, without it unless the
\* cursor stands inside a resource group.
walk(from) ==
  LET keys == InOrder({k \in index : from = None \/ k >= from.key})
  IN  IF from # None /\ from.item = None /\ keys # <<>> THEN Tail(keys) ELSE keys

\* MoveListBuilder::new and the start of build_move_list.
NewPage(count) ==
  /\ request = None /\ ~done
  /\ request' = [cursor |-> cursor, count |-> count, max_items_to_return |-> count, list |-> <<>>,
                 iter |-> IF count = 0 THEN <<>> ELSE walk(cursor)]
  /\ UNCHANGED <<index, groups, query, cursor, returned, done, added>>

\* maybe_append_resource and maybe_append_module for one key: the items taken,
\* and the position in the group the next page starts from.
append_entry(key, item, max_items) ==
  LET list  == Listing(key)
      start == IF item = None THEN 0 ELSE item
      end   == IF start + max_items < Len(list) THEN start + max_items ELSE Len(list)
  IN  IF Kind[key] # "group" \/ query = "Modules" \/ start >= Len(list)
      THEN [taken |-> IF Kind[key] = "group" THEN <<>> ELSE list, item |-> item]
      ELSE [taken |-> SubSeq(list, start + 1, end), item |-> end]

VisitEntry ==
  /\ request # None /\ request.iter # <<>> /\ request.max_items_to_return > 0
  /\ LET key   == Head(request.iter)
         item  == IF request.cursor # None /\ request.cursor.key = key
                  THEN request.cursor.item ELSE None
         entry == append_entry(key, item, request.max_items_to_return)
     IN  request' = [request EXCEPT
           !.iter = Tail(@),
           !.list = @ \o entry.taken,
           !.max_items_to_return = IF Len(entry.taken) > @ THEN 0 ELSE @ - Len(entry.taken),
           !.cursor = [key |-> key, item |-> entry.item]]
  /\ UNCHANGED <<index, groups, query, cursor, returned, done, added>>

\* The page goes back to the client, which stops at a short page.
FinishPage ==
  /\ request # None
  /\ request.iter = <<>> \/ request.max_items_to_return = 0
  /\ returned' = returned \o request.list
  /\ cursor' = request.cursor
  /\ done' = (Len(request.list) < request.count)
  /\ request' = None
  /\ UNCHANGED <<index, groups, query, added>>

\* The executor publishes a module or a resource under a new key.
PublishKey(key) ==
  /\ key \notin index
  /\ index' = index \union {key}
  /\ UNCHANGED <<groups, query, request, cursor, returned, done, added>>

\* The executor moves one more resource into a group of the account.
GrowGroup(key, item) ==
  /\ item \notin groups[key]
  /\ groups' = [groups EXCEPT ![key] = @ \union {item}]
  /\ added' = added \union {<<key, item>>}
  /\ UNCHANGED <<index, query, request, cursor, returned, done>>

Next ==
  \/ \E count \in 0 .. MaxCount : NewPage(count)
  \/ VisitEntry
  \/ FinishPage
  \/ \E key \in Keys : PublishKey(key)
  \/ \E key \in DOMAIN groups, item \in Items : GrowGroup(key, item)

Spec == Init /\ [][Next]_vars

(***************************************************************************)
(* Properties                                                              *)
(***************************************************************************)

Times(entry) == Cardinality({n \in 1 .. Len(returned) : returned[n] = entry})

Listed == UNION {ToSet(Listing(k)) : k \in Present}

\* When the client has reached the end, no page boundary lost an entry that was
\* there from the start, wherever a page ended: between two keys or inside a
\* resource group, and whatever was published meanwhile.
NothingLost == done => \A entry \in Listed \ added : Times(entry) >= 1

\* An entry is listed twice only if its resource group got a new item while the
\* client was paging: the cursor counts items, and these shift.
NothingRepeated ==
  \A n \in 1 .. Len(returned) :
    Times(returned[n]) = 1 \/ \E entry \in added : entry[1] = returned[n][1]

\* The pages together are the list: each of its entries exactly once.
PagesAreExact == NothingLost /\ NothingRepeated

=============================================================================
