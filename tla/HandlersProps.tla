--------------------------- MODULE HandlersProps ---------------------------
(***************************************************************************)
(* Properties of Handlers that need the whole forest: the abstract         *)
(* specification the handlers implement, what a request may touch, and the *)
(* sizes and dates of folders.                                             *)
(***************************************************************************)
EXTENDS Handlers

(* The two values for what is not there are not taken for what is.         *)
ASSUME ShapeAssumption ==
  /\ Null \notin Requests
  /\ NoRow \notin [type : Types, parent : Parents]

(* An item and its ancestors, the least set that has the item and the      *)
(* parent of whatever it has; an item and its descendants.                 *)
ClosedAbove(tbl, S) ==
  \A x \in S : ItemExists(tbl, x) => tbl[x].parent \in S \cup {Null}
Ancestors(tbl, id) ==
  {x \in Ids : \A S \in SUBSET Ids : id \in S /\ ClosedAbove(tbl, S) => x \in S}

ClosedBelow(tbl, S) ==
  \A x \in Ids : ItemExists(tbl, x) /\ tbl[x].parent \in S => x \in S
Descendants(tbl, id) ==
  {x \in Ids : \A S \in SUBSET Ids : id \in S /\ ClosedBelow(tbl, S) => x \in S}

Shape(tbl) ==
  [id \in Ids |-> IF ItemExists(tbl, id)
                  THEN [type |-> tbl[id].type, parent |-> tbl[id].parent]
                  ELSE NoRow]

(* Every behaviour of the handlers, crashes, overflows and restarts        *)
(* included, is a behaviour of FileTree: requests take effect whole, or    *)
(* are cut short the way FileTree says (Main.cpp:72-139).                  *)
Tree == INSTANCE FileTree WITH tree <- Shape(before)
ImplementsFileTree == Tree!Spec

(***************************************************************************)
(* Ids whose rows the request may have changed so far: the items it names  *)
(* or, for a deletion, the subtree; and the ancestors, in the forest       *)
(* before it or now, of the named items.                                   *)
(***************************************************************************)
NamedIds ==
  CASE req = Null           -> {}
    [] req.kind = "imports" -> {req.items[j].id : j \in DOMAIN req.items}
    [] OTHER                -> {req.id}

Footprint ==
  (UNION {Ancestors(before, id) \cup Ancestors(items, id) : id \in NamedIds})
  \cup (IF req # Null /\ req.kind = "delete" THEN Descendants(before, req.id)
        ELSE {})

(* A request, finished or not, leaves every other item exactly as it was:  *)
(* no recursion strays to another branch of the forest                     *)
(* (Main.cpp:62-70, 96-102, 107-112, 133-136).                             *)
TouchesOnlyFootprint ==
  \A id \in Ids : items[id] # before[id] => id \in Footprint

-----------------------------------------------------------------------------
FileSize(tbl, id) ==
  IF ItemExists(tbl, id) /\ tbl[id].type = "FILE" THEN tbl[id].size ELSE 0

(* The sum of the sizes of the files below an item, which no code computes. *)
SizeBelow(tbl, id) ==
  SumFunctionOnSet([f \in Ids |-> FileSize(tbl, f)], Descendants(tbl, id))

(* The size of a folder is the sum of the sizes of the files below it.     *)
(* The code never computes the sum: it keeps it up to date by deltas       *)
(* (Main.cpp:62-70, 87-102, 109-115, 134-136).                             *)
SizesAreSums ==
  pc = "idle" =>
    \A id \in Ids :
      ItemExists(items, id) /\ items[id].type = "FOLDER" =>
        items[id].size = SizeBelow(items, id)

(* When a request has been carried out, every folder above an item it      *)
(* named, on the old path and on the new one, bears the date of the        *)
(* request, and so does every item it imported (Main.cpp:67, 81, 96-102).  *)
AncestorsDated ==
  [][pc = "next" /\ pc' = "idle" =>
       \A id \in NamedIds :
         \A a \in Ancestors(before, id) \cup Ancestors(items, id) :
           ItemExists(items, a) /\ (a # id \/ req.kind = "imports")
             => items[a].date = req.date]_vars

(* A request that is begun is answered, and with "ok": the recursion comes *)
(* back and no statement fails.                                            *)
EveryRequestDone ==
  [](pc \notin Quiet => <>(pc = "idle" /\ reply = "ok"))
-----------------------------------------------------------------------------
(***************************************************************************)
(* What a request has done so far, seen from the forest before it: the     *)
(* inductive invariants behind the properties above.                       *)
(***************************************************************************)
Handling(kind) == pc \notin Quiet /\ req.kind = kind

(* The items of the import that are stored. *)
Stored == FirstToStore - 1

(* The last answer is given away when a request begins, and none is given  *)
(* before it ends; between requests nothing is left to compare.            *)
AnswerPending ==
  /\ pc \in Quiet => items = before
  /\ pc \notin Quiet => reply = "none"

(* An import has stored its first items, each under an id of its own, and  *)
(* changed no other item's place.                                          *)
ImportSoFar ==
  Handling("imports") =>
    /\ \A j, k \in DOMAIN req.items : req.items[j].id = req.items[k].id => j = k
    /\ Shape(items) = Tree!Imported(req.items, Stored)

(* A deletion removes nothing but the subtree, which its calls never       *)
(* leave, and comes to its end only without the item.                      *)
DeletionSoFar ==
  Handling("delete") =>
    LET subtree == Descendants(before, req.id)
    IN  /\ ItemExists(before, req.id)
        /\ \A id \in Ids :
             IF ItemExists(items, id) THEN Shape(items)[id] = Shape(before)[id]
             ELSE ItemExists(before, id) => id \in subtree
        /\ IF pc \in DeleteSteps
           THEN /\ frames[1].id = req.id
                /\ \A n \in DOMAIN frames :
                     frames[n].id \in subtree /\ frames[n].todo \subseteq subtree
           ELSE ~ItemExists(items, req.id)

ProgressInvariant ==
  /\ AnswerPending
  /\ ImportSoFar
  /\ DeletionSoFar

(* The calls of ChangeSize start inside the footprint and climb inside it. *)
CallsInFootprint ==
  /\ Range(stack) \subseteq Footprint
  /\ \A n \in DOMAIN calls : calls[n].id \in Footprint

(* The items the request has dated. *)
Dated == {id \in Ids : ItemExists(items, id) => items[id].date = req.date}

(* The forest before the request without the items the request names: what *)
(* an import cannot move.                                                  *)
Unmoved == [id \in Ids |-> IF id \in NamedIds THEN NoRow ELSE before[id]]

(* The parents of an item before the request and now. *)
ParentsOf(id) ==
  {tbl[id].parent : tbl \in {t \in {before, items} : ItemExists(t, id)}} \ {Null}

(* The item whose former and present parents the calls are for. *)
Subject == IF req.kind = "imports" THEN CurrentItem.id ELSE req.id

(* An imported item bears the date of the request, and so does whatever is *)
(* above its former and its present parent, up to the first item that the  *)
(* request names; that one sees to the rest of the path.  For the item at  *)
(* work, a call of ChangeSize is on its way or everything above is dated.  *)
PathsDated ==
  pc \notin Quiet =>
    /\ req.kind = "imports" =>
         /\ \A j \in 1 .. Stored : req.items[j].id \in Dated
         /\ \A j \in 1 .. idx - 1 : \A p \in ParentsOf(req.items[j].id) :
              Ancestors(Unmoved, p) \subseteq Dated
    /\ pc # "store" =>
         \A p \in ParentsOf(Subject) :
           \/ \E n \in DOMAIN calls : calls[n].id = p
           \/ Ancestors(items, p) \subseteq Dated

(* ChangeSize climbs from parent to parent; once it has reached the top,   *)
(* what is above its first item is on its stack or dated.                  *)
StackIsPath ==
  /\ pc = "climb" =>
       /\ stack[1] = Head(calls).id
       /\ \A n \in 1 .. Len(stack) - 1 :
            ItemExists(items, stack[n]) /\ items[stack[n]].parent = stack[n + 1]
  /\ pc \in {"resize", "redate", "record"} =>
       Ancestors(items, Head(calls).id) \subseteq Range(stack) \cup Dated
  /\ pc = "record" => Last(stack) \in Dated

DatesInvariant ==
  /\ PathsDated
  /\ StackIsPath
-----------------------------------------------------------------------------
(***************************************************************************)
(* The discipline under which the sizes are right, and which the requests  *)
(* of the repository's tests follow but for one (test_updates.py:61-71).   *)
(* An import may create any item; it may send an existing file again with  *)
(* a new size or moved out of a folder, not both; and it may send an       *)
(* existing folder again while its size is 0, before the files of the      *)
(* request and not below itself.                                           *)
(***************************************************************************)
Disciplined(its, j) ==
  ItemExists(items, its[j].id) =>
    LET old == items[its[j].id]
    IN  /\ old.type = its[j].type
        /\ its[j].type = "FILE" =>
             old.parent \in {Null, its[j].parent} \/ old.size = its[j].size
        /\ its[j].type = "FOLDER" =>
             /\ old.size = 0
             /\ \A k \in 1 .. j - 1 : its[k].type = "FOLDER"
             /\ its[j].parent \notin Descendants(items, its[j].id)

CalmArrival ==
  \E r \in Requests :
    /\ r.kind = "imports" => \A j \in DOMAIN r.items : Disciplined(r.items, j)
    /\ Arrive(r)

(* Disciplined requests, and nothing that ends the process from outside.   *)
CalmNext == CalmArrival \/ HandlerStep
CalmSpec == Init /\ [][CalmNext]_vars

(***************************************************************************)
(* Why the sizes are right: the inductive invariant behind SizesAreSums.   *)
(***************************************************************************)

(* Items lie in folders only, and no file has a negative size.             *)
FoldersHoldItems ==
  \A id \in Ids : ItemExists(items, id) =>
    /\ items[id].parent # Null => GetType(items, items[id].parent) = "FOLDER"
    /\ items[id].type = "FILE" => items[id].size >= 0

(* What is left of an import still keeps the discipline, and its parents   *)
(* are or will be folders.                                                 *)
RestDisciplined ==
  Handling("imports") =>
    \A j \in FirstToStore .. Len(req.items) :
      LET it == req.items[j]
      IN  /\ \/ it.parent = Null
             \/ GetType(items, it.parent) = "FOLDER"
             \/ \E k \in FirstToStore .. j - 1 :
                  req.items[k].type = "FOLDER" /\ req.items[k].id = it.parent
          /\ ItemExists(items, it.id) =>
               /\ items[it.id].type = it.type
               /\ it.type = "FILE" =>
                    \/ items[it.id].parent \in {Null, it.parent}
                    \/ items[it.id].size = it.size
               /\ it.type = "FOLDER" =>
                    /\ items[it.id].size = 0
                    /\ \A k \in 1 .. j - 1 : req.items[k].type = "FOLDER"

(* Calls of ChangeSize go to folders, at most two of them; those of an     *)
(* imported folder change no size, and a deletion has one, for the parent. *)
CallsToFolders ==
  /\ Len(calls) <= 2
  /\ pc = "store" => calls = <<>>
  /\ \A n \in DOMAIN calls : GetType(items, calls[n].id) = "FOLDER"
  /\ pc # "store" /\ Handling("imports") /\ CurrentItem.type = "FOLDER" =>
       \A n \in DOMAIN calls : calls[n].delta = 0
  /\ pc \in DeleteSteps =>
       IF before[req.id].parent = Null THEN calls = <<>>
       ELSE /\ Len(calls) = 1
            /\ calls[1].id = before[req.id].parent
            /\ calls[1].delta \in Int32

(* The recursion of ChangeSize stays above the item it was called for, and *)
(* comes to an item once.                                                  *)
StackAbove ==
  pc \in {"climb", "resize", "redate", "record"} =>
    /\ Range(stack) \subseteq Ancestors(items, Head(calls).id)
    /\ pc # "climb" => IsInjective(stack)

(* The items a call has yet to resize, and what the calls owe to an item.  *)
Unresized(n) ==
  CASE n = 1 /\ pc = "resize"               -> Range(stack)
    [] n = 1 /\ pc \in {"redate", "record"} -> Range(Front(stack))
    [] OTHER                                -> Ancestors(items, calls[n].id)
Owed(n, id) ==
  IF n \in DOMAIN calls /\ id \in Unresized(n) THEN calls[n].delta ELSE 0

(* The size of a folder and what the calls owe it make the sum of its      *)
(* files; folders of a subtree that is being deleted are past that.        *)
SizesOwed ==
  \A id \in Ids :
    GetType(items, id) = "FOLDER"
      /\ (pc \in DeleteSteps => id \notin Descendants(before, req.id))
    => items[id].size + Owed(1, id) + Owed(2, id) = SizeBelow(items, id)

SizesInvariant ==
  /\ FoldersHoldItems
  /\ RestDisciplined
  /\ CallsToFolders
  /\ StackAbove
  /\ pc # "down" => SizesOwed
=============================================================================
