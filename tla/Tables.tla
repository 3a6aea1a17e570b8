------------------------------- MODULE Tables -------------------------------
(***************************************************************************)
(* The two PostgreSQL tables behind the service and the db:: operations of *)
(* DbManager.h, each written as a function from a table to a table.  Every *)
(* db:: operation that writes opens its own transaction and commits it, so *)
(* one operator here is one commit.                                        *)
(*                                                                         *)
(* A row keeps the columns the handlers decide on: type, size, date and    *)
(* parentId.  The url column is written and read back but never tested, so *)
(* it is left out.                                                         *)
(***************************************************************************)
EXTENDS Integers, Sequences

CONSTANTS
  Ids,      \* the item identifiers clients may use
  Dates,    \* the valid dates of requests
  Null,     \* the SQL NULL of parentId (an item at the top of the forest)
  NoRow,    \* items[id] = NoRow: the items table has no row with this id
  MaxInt    \* the largest value of an INT column and of a C++ int

MinInt == -MaxInt - 1
Int32 == MinInt .. MaxInt

(* What static_cast<int> and a wrapping int operation make of n. *)
Wrap(n) == ((n - MinInt) % (2 * (MaxInt + 1))) + MinInt

Types == {"FILE", "FOLDER"}
Parents == Ids \cup {Null}
Row == [type : Types, size : Int32, date : Dates, parent : Parents]

ASSUME TablesAssumption ==
  /\ MaxInt \in Nat
  /\ Null \notin Ids
  /\ NoRow \notin Row

(***************************************************************************)
(* The items table has id as PRIMARY KEY.  The history table has no key:   *)
(* the rows with one id are kept in the order of their insertion.          *)
(***************************************************************************)
ItemTable == [Ids -> Row \cup {NoRow}]
HistoryTable == [Ids -> Seq(Row)]

EmptyItems == [id \in Ids |-> NoRow]
EmptyHistory == [id \in Ids |-> <<>>]
-----------------------------------------------------------------------------
(* Reads. *)

ItemExists(items, id) == items[id] # NoRow

GetType(items, id) == IF ItemExists(items, id) THEN items[id].type ELSE ""

GetChildren(items, id) ==
  {c \in Ids : ItemExists(items, c) /\ items[c].parent = id}

(* Writes to the items table. *)

InsertItem(items, id, row) == [items EXCEPT ![id] = row]

UpdateItem(items, id, row) == [items EXCEPT ![id] = row]

(* A slip for the mutation runs: the UPDATE without its WHERE. *)
AddSizeEverywhere(items, id, n) ==
  [x \in Ids |-> IF ItemExists(items, x) THEN [items[x] EXCEPT !.size = @ + n]
                 ELSE items[x]]

(* UPDATE ... WHERE id = id changes nothing when there is no such row. *)
AddSize(items, id, n) ==
  IF ItemExists(items, id) THEN [items EXCEPT ![id].size = @ + n] ELSE items

SetDate(items, id, date) ==
  IF ItemExists(items, id) THEN [items EXCEPT ![id].date = date] ELSE items

DeleteItem(items, id) == [items EXCEPT ![id] = NoRow]

(* Writes to the history table, after two slips: a history that keeps one  *)
(* row an item, and one that outlives the item.                            *)

ReplaceInHistory(history, id, row) == [history EXCEPT ![id] = <<row>>]
KeepHistory(history, id) == history

InsertIntoHistory(history, id, row) == [history EXCEPT ![id] = Append(@, row)]

DeleteFromHistory(history, id) == [history EXCEPT ![id] = <<>>]
=============================================================================
