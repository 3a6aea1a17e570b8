---------------------------- MODULE MCHandlers ----------------------------
(***************************************************************************)
(* Instances of Handlers for TLC: three ids that may be files or folders.  *)
(***************************************************************************)
EXTENDS HandlersProps

CONSTANTS a, b, c

MCIds == {a, b, c}

FileItem(id, parent, size) ==
  [id |-> id, type |-> "FILE", parent |-> parent, size |-> size,
   form |-> "wellformed"]
FolderItem(id, parent) ==
  [id |-> id, type |-> "FOLDER", parent |-> parent, size |-> 0,
   form |-> "wellformed"]

Import(date, its) == [kind |-> "imports", date |-> date, items |-> its]
Delete(date, id) == [kind |-> "delete", date |-> date, id |-> id]

FileItems(S, sizes) ==
  {FileItem(id, p, s) : id \in S, p \in MCIds \cup {Null}, s \in sizes}
FolderItems(S) == {FolderItem(id, p) : id \in S, p \in MCIds \cup {Null}}

(* Two items in one request: a folder and an item put into it. *)
FolderAndChild(date, sizes) ==
  {Import(date, <<FolderItem(f, Null), it>>) :
     f \in MCIds, it \in FileItems(MCIds, sizes) \cup FolderItems(MCIds)}

InFolder(requests) ==
  {r \in requests : r.items[2].parent = r.items[1].id}

(* Requests the validation refuses, and one it throws on. *)
Refused(date) ==
  UNION {{
    Import(BadDate, <<FolderItem(x, Null)>>),
    Import(date, <<FolderItem(x, Null), FileItem(x, Null, 1)>>),
    Import(date, <<FileItem(x, Null, 0)>>),
    Import(date, <<[FolderItem(x, Null) EXCEPT !.form = "malformed"]>>),
    Import(date, <<[FileItem(x, Null, 1) EXCEPT !.form = "nullfield"]>>),
    Delete(BadDate, x) } : x \in MCIds}
  \cup {Import(date, <<FileItem(x, y, 1), FolderItem(y, Null)>>) :
          x \in MCIds, y \in MCIds}
  \cup {Import(date, <<>>)}

(* The process may be killed at any step: every kind of request. *)
CrashRequests ==
  {Import(1, <<it>>) : it \in FileItems(MCIds, {2}) \cup FolderItems(MCIds)}
  \cup InFolder(FolderAndChild(1, {1}))
  \cup Refused(1)
  \cup {Import(1, <<FileItem(x, Null, 9)>>) : x \in MCIds}
  \cup {Delete(1, id) : id \in MCIds}

Bounded == served = MaxRequests /\ pc = "idle" /\ UNCHANGED vars

MCCrashSpec == Init /\ [][Next \/ Bounded]_vars

-----------------------------------------------------------------------------
CalmRequests ==
  {Import(d, <<it>>) :
     d \in Dates, it \in FileItems(MCIds, {1, 2}) \cup FolderItems(MCIds)}
  \cup InFolder(FolderAndChild(1, {1}))
  \cup {Delete(d, id) : d \in Dates, id \in MCIds}

MCCalmSpec ==
  Init /\ [][CalmNext \/ Bounded]_vars /\ WF_vars(HandlerStep)

-----------------------------------------------------------------------------
(***************************************************************************)
(* Requests outside that discipline; nothing crashes.                      *)
(***************************************************************************)
MCPlainSpec ==
  Init /\ [][(\E r \in Requests : Arrive(r)) \/ HandlerStep \/ Bounded]_vars

(* A file is sent again with another parent and another size; or an import *)
(* is sent again, by a client that did not get the answer.                 *)
MoveAndResizeRequests ==
  {Import(1, <<FolderItem(a, Null), FolderItem(c, Null), FileItem(b, a, 1)>>),
   Import(1, <<FileItem(b, c, 2)>>)}

Symmetry == Permutations(MCIds)
=============================================================================
