------------------------------ MODULE TaskList ------------------------------
(***************************************************************************)
(* The task list of list.c as every other module uses it: the items of a   *)
(* list, from the one after the end item to the one before it, are a       *)
(* sequence, kept in ascending order of the items' values.  A list whose   *)
(* cursor (task_item) matters is a record of that sequence and the cursor, *)
(* where End stands for the end item.                                      *)
(***************************************************************************)
EXTENDS Integers, Sequences, FiniteSetsExt

(* Where the walk of a list stops: the first of the places I, or 0.        *)
FirstOf(I) == IF I = {} THEN 0 ELSE Min(I)
IndexOf(s, e) == FirstOf({i \in 1 .. Len(s) : s[i] = e})

InsertAt(s, i, e) == SubSeq(s, 1, i - 1) \o <<e>> \o SubSeq(s, i, Len(s))
RemoveAt(s, i) == SubSeq(s, 1, i - 1) \o SubSeq(s, i + 1, Len(s))

(* dos_task_item_insert: behind every item whose value is not greater.     *)
InsertItem(s, value, e) ==
  LET j == FirstOf({i \in 1 .. Len(s) : value[s[i]] > value[e]})
  IN  IF j = 0 THEN Append(s, e) ELSE InsertAt(s, j, e)

(* dos_task_item_del: nothing happens when the item is on no list.         *)
DeleteItem(s, e) ==
  LET i == IndexOf(s, e)
  IN  IF i = 0 THEN s ELSE RemoveAt(s, i)

(* dos_task_list_init. *)
EmptyList(End) == [items |-> << >>, task_item |-> End]

ListInsert(l, value, e) == [l EXCEPT !.items = InsertItem(@, value, e)]

(* dos_task_item_del on a list with a cursor: a cursor that is on the      *)
(* deleted item steps back to the previous one.                            *)
ListDelete(l, e, End) ==
  LET i == IndexOf(l.items, e)
  IN  [items     |-> DeleteItem(l.items, e),
       task_item |-> IF l.task_item # e THEN l.task_item
                     ELSE IF i <= 1 THEN End ELSE l.items[i - 1]]

(* dos_get_first_task: the end item itself when the list is empty. *)
FirstItem(s, End) == IF s = << >> THEN End ELSE Head(s)

(* Fault: the cursor is ignored.                                           *)
NextItemFault(l, End) == FirstItem(l.items, End)

(* dos_get_next_task: the item after the cursor, skipping the end item.    *)
NextItem(l, End) ==
  LET i == IndexOf(l.items, l.task_item)
  IN  IF i < Len(l.items) THEN l.items[i + 1] ELSE FirstItem(l.items, End)

(* The items of a list are in ascending order of their values.             *)
Sorted(s, value) ==
  \A i, j \in 1 .. Len(s) : i < j => value[s[i]] <= value[s[j]]

=============================================================================
