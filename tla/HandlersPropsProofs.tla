------------------------ MODULE HandlersPropsProofs ------------------------
(***************************************************************************)
(* Proofs about HandlersProps: the handlers implement FileTree, a request  *)
(* touches only what it may, and when it is carried out the folders above  *)
(* the items it named bear its date.                                       *)
(***************************************************************************)
EXTENDS HandlersProps, HandlersProofs
-----------------------------------------------------------------------------
(* Lemmas about paths in a table. *)

(* The ancestors of an item are closed under taking the parent, and are in *)
(* every set that is.                                                      *)
LEMMA AncestorsFacts ==
  ASSUME NEW tbl \in ItemTable, NEW id \in Ids
  PROVE  /\ Ancestors(tbl, id) \subseteq Ids
         /\ id \in Ancestors(tbl, id)
         /\ ClosedAbove(tbl, Ancestors(tbl, id))
<1>1. \A x \in Ids : ItemExists(tbl, x) => tbl[x].parent \in Ids \cup {Null}
  BY DEF ItemTable, ItemExists, Row, Parents
<1>2. ASSUME NEW x \in Ancestors(tbl, id), ItemExists(tbl, x), tbl[x].parent # Null
      PROVE  tbl[x].parent \in Ancestors(tbl, id)
  <2>1. x \in Ids /\ tbl[x].parent \in Ids
    BY <1>1, <1>2 DEF Ancestors
  <2>2. ASSUME NEW S \in SUBSET Ids, id \in S, ClosedAbove(tbl, S)
        PROVE  tbl[x].parent \in S
    <3>1. x \in S
      BY <2>2 DEF Ancestors
    <3> QED
      BY <1>2, <2>2, <3>1 DEF ClosedAbove
  <2> QED
    BY <2>1, <2>2 DEF Ancestors
<1> QED
  BY <1>2 DEF Ancestors, ClosedAbove

(* They are in every such set.                                             *)
LEMMA AncestorsLeast ==
  ASSUME NEW tbl, NEW id, NEW S \in SUBSET Ids, id \in S, ClosedAbove(tbl, S)
  PROVE  Ancestors(tbl, id) \subseteq S
BY DEF Ancestors

(* A table with some of the rows has some of the ancestors.                *)
LEMMA FewerAncestors ==
  ASSUME NEW small \in ItemTable, NEW large \in ItemTable, NEW id \in Ids,
         \A x \in Ids : ItemExists(small, x) =>
           ItemExists(large, x) /\ large[x].parent = small[x].parent
  PROVE  Ancestors(small, id) \subseteq Ancestors(large, id)
<1>1. /\ Ancestors(large, id) \in SUBSET Ids /\ id \in Ancestors(large, id)
      /\ ClosedAbove(large, Ancestors(large, id))
  BY AncestorsFacts
<1>2. ClosedAbove(small, Ancestors(large, id))
  BY <1>1 DEF ClosedAbove
<1> QED
  BY <1>1, <1>2, AncestorsLeast

(* The descendants of an item are the item and, as long as they exist, the *)
(* children of descendants.                                                *)
LEMMA DescendantsFacts ==
  ASSUME NEW tbl \in ItemTable, NEW id \in Ids
  PROVE  /\ Descendants(tbl, id) \subseteq Ids
         /\ id \in Descendants(tbl, id)
         /\ ClosedBelow(tbl, Descendants(tbl, id))
         /\ \A x \in Descendants(tbl, id) \ {id} :
              ItemExists(tbl, x) /\ tbl[x].parent \in Descendants(tbl, id)
<1>1. Descendants(tbl, id) \subseteq Ids /\ id \in Descendants(tbl, id)
  BY DEF Descendants
<1>2. ClosedBelow(tbl, Descendants(tbl, id))
  <2>1. SUFFICES ASSUME NEW x \in Ids, ItemExists(tbl, x),
                        tbl[x].parent \in Descendants(tbl, id),
                        NEW S \in SUBSET Ids, id \in S, ClosedBelow(tbl, S)
                 PROVE  x \in S
    BY DEF ClosedBelow, Descendants
  <2>2. tbl[x].parent \in S
    BY <2>1 DEF Descendants
  <2> QED
    BY <2>1, <2>2 DEF ClosedBelow
<1>3. ASSUME NEW x \in Descendants(tbl, id) \ {id},
             ~(ItemExists(tbl, x) /\ tbl[x].parent \in Descendants(tbl, id))
      PROVE  FALSE
  <2>1. PICK S : S = Descendants(tbl, id) \ {x}
    OBVIOUS
  <2>2. S \in SUBSET Ids /\ id \in S /\ x \notin S
    BY <1>1, <1>3, <2>1
  <2>3. ClosedBelow(tbl, S)
    BY <1>2, <1>3, <2>1 DEF ClosedBelow
  <2> QED
    BY <1>3, <2>2, <2>3 DEF Descendants
<1> QED
  BY <1>1, <1>2, <1>3

(* They are in every such set.                                             *)
LEMMA DescendantsLeast ==
  ASSUME NEW tbl, NEW id, NEW S \in SUBSET Ids, id \in S, ClosedBelow(tbl, S)
  PROVE  Descendants(tbl, id) \subseteq S
BY DEF Descendants
-----------------------------------------------------------------------------
(* Lemmas about the shape of the forest, and what FileTree says of it.     *)

(* The shape of a row is its type and its parent.                          *)
LEMMA ShapeFacts ==
  ASSUME NEW tbl \in ItemTable, NEW id \in Ids
  PROVE  /\ Shape(tbl)[id] = NoRow <=> ~ItemExists(tbl, id)
         /\ ItemExists(tbl, id) =>
              /\ Shape(tbl)[id] = [type |-> tbl[id].type, parent |-> tbl[id].parent]
              /\ Shape(tbl)[id].type = tbl[id].type
              /\ Shape(tbl)[id].parent = tbl[id].parent
<1>1. ItemExists(tbl, id) =>
        [type |-> tbl[id].type, parent |-> tbl[id].parent]
          \in [type : Types, parent : Parents]
  BY DEF ItemTable, ItemExists, Row
<1> QED
  BY <1>1, ShapeAssumption DEF Shape

(* Two tables with the same item in the same place. *)
LEMMA SamePlace ==
  ASSUME NEW t1 \in ItemTable, NEW t2 \in ItemTable, NEW id \in Ids,
         Shape(t1)[id] = Shape(t2)[id]
  PROVE  /\ ItemExists(t1, id) <=> ItemExists(t2, id)
         /\ ItemExists(t1, id) => /\ t1[id].type = t2[id].type
                                  /\ t1[id].parent = t2[id].parent
BY ShapeFacts

(* What FileTree calls the subtree of an item are its descendants before   *)
(* the request.                                                            *)
LEMMA SubtreeIsDescendants ==
  ASSUME before \in ItemTable, NEW id \in Ids
  PROVE  Tree!Subtree(id) = Descendants(before, id)
<1>1. ASSUME NEW S \in SUBSET Ids
      PROVE  Tree!ClosedBelow(S) <=> ClosedBelow(before, S)
  BY ShapeFacts DEF Tree!ClosedBelow, Tree!Exists, ClosedBelow
<1> QED
  BY <1>1 DEF Tree!Subtree, Descendants

Place(it) == [type |-> it.type, parent |-> it.parent]

(* The forest after the first items of an import with ids of their own.    *)
LEMMA ImportedFacts ==
  ASSUME NEW its \in Seq(Item), NEW k \in 0 .. Len(its),
         \A i, j \in DOMAIN its : its[i].id = its[j].id => i = j
  PROVE  /\ \A j \in 1 .. k : Tree!Imported(its, k)[its[j].id] = Place(its[j])
         /\ \A id \in Ids : (\A j \in 1 .. k : its[j].id # id) =>
              Tree!Imported(its, k)[id] = Shape(before)[id]
<1>1. 1 .. k \subseteq DOMAIN its
  OBVIOUS
<1>2. ASSUME NEW j \in 1 .. k
      PROVE  Tree!Imported(its, k)[its[j].id] = Place(its[j])
  <2>1. its[j] \in Item
    BY <1>1, <1>2
  <2>2. (CHOOSE i \in 1 .. k : its[i].id = its[j].id) = j
    BY <1>1, <1>2
  <2> QED
    BY <2>1, <2>2 DEF Tree!Imported, Place, Item
<1>3. ASSUME NEW id \in Ids, \A j \in 1 .. k : its[j].id # id
      PROVE  Tree!Imported(its, k)[id] = Shape(before)[id]
  BY <1>3 DEF Tree!Imported
<1> QED
  BY <1>2, <1>3

(* Storing the next item of an import is the next step of Imported.        *)
LEMMA ImportedNext ==
  ASSUME NEW its \in Seq(Item), NEW k \in 1 .. Len(its), NEW tbl \in ItemTable,
         \A i, j \in DOMAIN its : its[i].id = its[j].id => i = j,
         Shape(tbl) = Tree!Imported(its, k - 1),
         NEW tbl2 \in ItemTable, Shape(tbl2)[its[k].id] = Place(its[k]),
         \A id \in Ids \ {its[k].id} : tbl2[id] = tbl[id]
  PROVE  Shape(tbl2) = Tree!Imported(its, k)
<1>1. k - 1 \in 0 .. Len(its) /\ k \in 0 .. Len(its) /\ k \in 1 .. k
      /\ 1 .. k = (1 .. k - 1) \cup {k} /\ DOMAIN its = 1 .. Len(its)
  OBVIOUS
<1>2. /\ \A j \in 1 .. k - 1 : Tree!Imported(its, k - 1)[its[j].id] = Place(its[j])
      /\ \A id \in Ids : (\A j \in 1 .. k - 1 : its[j].id # id) =>
           Tree!Imported(its, k - 1)[id] = Shape(before)[id]
  BY <1>1, ImportedFacts
<1>3. /\ \A j \in 1 .. k : Tree!Imported(its, k)[its[j].id] = Place(its[j])
      /\ \A id \in Ids : (\A j \in 1 .. k : its[j].id # id) =>
           Tree!Imported(its, k)[id] = Shape(before)[id]
  BY <1>1, ImportedFacts
<1>4. \A id \in Ids \ {its[k].id} : Shape(tbl2)[id] = Shape(tbl)[id]
  BY DEF Shape, ItemExists
<1>5. ASSUME NEW id \in Ids
      PROVE  Shape(tbl2)[id] = Tree!Imported(its, k)[id]
  <2>1. CASE id = its[k].id
    BY <1>1, <1>3, <2>1
  <2>2. CASE id # its[k].id /\ \E j \in 1 .. k - 1 : its[j].id = id
    <3>1. PICK j \in 1 .. k - 1 : its[j].id = id
      BY <2>2
    <3>2. j \in 1 .. k
      BY <1>1, <3>1
    <3> QED
      BY <1>2, <1>3, <1>4, <2>2, <3>1, <3>2
  <2>3. CASE id # its[k].id /\ \A j \in 1 .. k - 1 : its[j].id # id
    <3>1. \A j \in 1 .. k : its[j].id # id
      BY <1>1, <2>3
    <3> QED
      BY <1>2, <1>3, <1>4, <2>3, <3>1
  <2> QED
    BY <2>1, <2>2, <2>3
<1>6. PICK f : f = Tree!Imported(its, k)
  OBVIOUS
<1>7. f = [id \in Ids |-> f[id]]
  BY <1>6 DEF Tree!Imported
<1>8. Shape(tbl2) = [id \in Ids |-> Shape(tbl2)[id]]
  BY DEF Shape
<1> QED
  BY <1>5, <1>6, <1>7, <1>8

(* With nothing stored the forest is as it was before.                     *)
LEMMA ImportedNone ==
  ASSUME NEW its
  PROVE  Tree!Imported(its, 0) = Shape(before)
<1>1. PICK f : f = Shape(before)
  OBVIOUS
<1>2. f = [id \in Ids |-> f[id]]
  BY <1>1 DEF Shape
<1>3. 1 .. 0 = {}
  OBVIOUS
<1> QED
  BY <1>1, <1>2, <1>3 DEF Tree!Imported

(* ChangeSize leaves every item in its place. *)
LEMMA ChangeKeepsShape ==
  ASSUME TypeInv, Resize \/ Redate
  PROVE  Shape(items') = Shape(items) /\ items' \in ItemTable
<1>1. pc \in ChangeSteps \ {"next"}
  BY DEF Resize, Redate, ChangeSteps
<1>2. /\ Last(stack) \in Ids /\ Head(calls) \in Call /\ req.date \in Dates
      /\ items \in ItemTable /\ items' \in ItemTable
  BY <1>1, ClimbFacts, ChangeSizeStepTypeInv DEF TypeInv, TypeOK
<1>3. /\ \A id \in Ids : ItemExists(items', id) <=> ItemExists(items, id)
      /\ \A id \in Ids : ItemExists(items, id) =>
           items'[id].parent = items[id].parent
  BY ChangedRows
<1>4. ASSUME NEW id \in Ids, ItemExists(items, id)
      PROVE  items'[id].type = items[id].type
  <2>1. items[id] \in Row
    BY <1>2, <1>4 DEF ItemTable, ItemExists
  <2>2. \/ items'[id] = items[id]
        \/ items'[id] = [items[id] EXCEPT !.size = @ + Head(calls).delta]
        \/ items'[id] = [items[id] EXCEPT !.date = req.date]
    BY <1>2 DEF Resize, Redate, AddSize, SetDate, ItemTable
  <2> QED
    BY <2>1, <2>2 DEF Row
<1> QED
  BY <1>2, <1>3, <1>4 DEF Shape
-----------------------------------------------------------------------------
(***************************************************************************)
(* What a request has done so far.                                         *)
(***************************************************************************)

ProgressInv == ForestInv /\ ProgressInvariant

(* The row an import stores, and what it leaves alone. *)
LEMMA StoreFacts ==
  ASSUME TypeInv, InsertNewItem \/ UpdateOldItem
  PROVE  /\ pc = "store" /\ pc' = "log" /\ idx' = idx /\ UNCHANGED <<req, before, reply>>
         /\ items \in ItemTable /\ items' \in ItemTable
         /\ req \in Requests /\ req.kind = "imports" /\ req.items \in Seq(Item)
         /\ req.date \in Dates
         /\ idx \in 1 .. Len(req.items)
         /\ CurrentItem = req.items[idx] /\ CurrentItem \in Item
         /\ CurrentItem.id \in Ids /\ CurrentItem.parent \in Parents
         /\ items'[CurrentItem.id] = ItemRow(CurrentItem)
         /\ ItemExists(items', CurrentItem.id)
         /\ \A id \in Ids \ {CurrentItem.id} : items'[id] = items[id]
<1>1. /\ pc = "store" /\ pc' = "log" /\ ItemSize(CurrentItem) \in Int32
      /\ UNCHANGED <<req, idx, before, reply>>
      /\ items' = [items EXCEPT ![CurrentItem.id] = ItemRow(CurrentItem)]
  BY DEF InsertNewItem, UpdateOldItem, InsertItem, UpdateItem
<1>2. /\ CurrentItem \in Item /\ req.date \in Dates /\ req.items \in Seq(Item)
      /\ req.kind = "imports" /\ idx \in DOMAIN req.items
  BY <1>1, CurrentItemFacts DEF ImportSteps
<1>3. items \in ItemTable /\ req \in Requests
  BY <1>1 DEF TypeInv, TypeOK, Control, Quiet
<1>4. ItemRow(CurrentItem) \in Row /\ ItemRow(CurrentItem) # NoRow
  BY <1>1, <1>2, ItemRowType
<1>5. CurrentItem.id \in Ids /\ CurrentItem.parent \in Parents
  BY <1>2 DEF Item
<1>6. items' \in ItemTable
  BY <1>1, <1>3, <1>4, <1>5 DEF ItemTable
<1>7. /\ items'[CurrentItem.id] = ItemRow(CurrentItem)
      /\ ItemExists(items', CurrentItem.id)
      /\ \A id \in Ids \ {CurrentItem.id} : items'[id] = items[id]
  BY <1>1, <1>3, <1>4, <1>5 DEF ItemTable, ItemExists
<1>8. CurrentItem = req.items[idx] /\ idx \in 1 .. Len(req.items)
  BY <1>2 DEF CurrentItem
<1> QED
  BY <1>1, <1>2, <1>3, <1>5, <1>6, <1>7, <1>8

(* A transaction that stores an item stores the next one.                  *)
LEMMA StoreProgress ==
  ASSUME ProgressInv, InsertNewItem \/ UpdateOldItem
  PROVE  ProgressInvariant'
<1>1. /\ pc = "store" /\ pc' = "log" /\ idx' = idx /\ UNCHANGED <<req, before, reply>>
      /\ items \in ItemTable /\ items' \in ItemTable
      /\ req \in Requests /\ req.kind = "imports" /\ req.items \in Seq(Item)
      /\ idx \in 1 .. Len(req.items)
      /\ CurrentItem = req.items[idx] /\ CurrentItem.id \in Ids
      /\ items'[CurrentItem.id] = ItemRow(CurrentItem)
      /\ ItemExists(items', CurrentItem.id)
      /\ \A id \in Ids \ {CurrentItem.id} : items'[id] = items[id]
  BY StoreFacts DEF ProgressInv, ForestInv
<1>2. Stored = idx - 1 /\ Stored' = idx
  BY <1>1 DEF Stored, FirstToStore
<1>3. /\ \A j, k \in DOMAIN req.items : req.items[j].id = req.items[k].id => j = k
      /\ Shape(items) = Tree!Imported(req.items, idx - 1)
  BY <1>1, <1>2 DEF ProgressInv, ProgressInvariant, ImportSoFar, Handling, Quiet
<1>4. Shape(items')[CurrentItem.id] = Place(CurrentItem)
  BY <1>1, ShapeFacts DEF ItemRow, Place
<1>5. Shape(items') = Tree!Imported(req.items, idx)
  BY <1>1, <1>3, <1>4, ImportedNext
<1>6. Tree!Imported(req.items, idx)' = Tree!Imported(req.items, idx)
  BY <1>1 DEF Tree!Imported, Shape
<1>7. ImportSoFar'
  BY <1>1, <1>2, <1>3, <1>5, <1>6 DEF ImportSoFar, Shape
<1>8. DeletionSoFar' /\ AnswerPending'
  BY <1>1 DEF DeletionSoFar, Handling, AnswerPending, Quiet, ProgressInv,
     ProgressInvariant
<1> QED
  BY <1>7, <1>8 DEF ProgressInvariant

(* Steps that keep every item in its place and DeleteIter where it is. *)
LEMMA FrameProgress ==
  ASSUME ProgressInv, UNCHANGED <<req, before, reply, frames>>,
         pc \notin Quiet, pc' \notin Quiet, pc \notin DeleteSteps,
         pc' \notin DeleteSteps, Stored' = Stored, Shape(items') = Shape(items),
         items' \in ItemTable
  PROVE  ProgressInvariant'
<1>1. items \in ItemTable /\ ProgressInvariant
  BY DEF ProgressInv, ForestInv, TypeInv, TypeOK
<1>2. AnswerPending'
  BY <1>1 DEF ProgressInvariant, AnswerPending
<1>3. ImportSoFar'
  <2>1. Tree!Imported(req.items, Stored)' = Tree!Imported(req.items, Stored)
    BY DEF Tree!Imported, Shape
  <2>2. Shape(items)' = Shape(items)
    BY DEF Shape
  <2> QED
    BY <1>1, <2>1, <2>2 DEF ProgressInvariant, ImportSoFar, Handling
<1>4. DeletionSoFar'
  <2> SUFFICES ASSUME Handling("delete")
               PROVE  /\ ItemExists(before, req.id)
                      /\ \A id \in Ids :
                           IF ItemExists(items', id)
                           THEN Shape(items')[id] = Shape(before)[id]
                           ELSE ItemExists(before, id)
                                  => id \in Descendants(before, req.id)
                      /\ ~ItemExists(items', req.id)
    BY DEF DeletionSoFar, Handling, Shape, ItemExists, Descendants, ClosedBelow
  <2>1. \A id \in Ids : ItemExists(items', id) <=> ItemExists(items, id)
    BY <1>1, SamePlace
  <2>2. req \in Requests /\ req.kind = "delete"
    BY DEF Handling, ProgressInv, ForestInv, TypeInv, Control
  <2>3. req.id \in Ids
    BY <2>2, RequestFacts
  <2> QED
    BY <1>1, <2>1, <2>3 DEF ProgressInvariant, DeletionSoFar
<1> QED
  BY <1>2, <1>3, <1>4 DEF ProgressInvariant

(* DeleteIter: it goes down to children, which are in the subtree, and the *)
(* row that goes is one of the subtree.                                    *)
LEMMA DeleteProgress ==
  ASSUME ProgressInv, TypeInv', DeleteStep
  PROVE  ProgressInvariant'
<1>1. /\ pc \in DeleteSteps /\ UNCHANGED <<req, before, reply>>
      /\ items \in ItemTable /\ items' \in ItemTable /\ before \in ItemTable
      /\ pc' \in DeleteSteps \cup {"next"}
      /\ frames' \in Seq(Frame)
  BY DEF DeleteStep, Descend, DeleteRow, EraseHistory, DeleteSteps, ProgressInv,
     ForestInv, TypeInv, TypeOK
<1>2. /\ frames \in Seq(Frame) /\ Len(frames) \in Nat \ {0}
      /\ Last(frames) \in Frame /\ Last(frames) = frames[Len(frames)]
      /\ Front(frames) \in Seq(Frame) /\ frames # <<>>
      /\ req \in Requests /\ req.kind = "delete"
  BY <1>1, DeleteFacts DEF ProgressInv, ForestInv, TypeInv, Control
<1>3. req.id \in Ids
  BY <1>2, RequestFacts
<1>4. PICK sub : sub = Descendants(before, req.id)
  OBVIOUS
<1>5. /\ sub \subseteq Ids /\ req.id \in sub /\ ClosedBelow(before, sub)
  BY <1>1, <1>3, <1>4, DescendantsFacts
<1>6. /\ ItemExists(before, req.id)
      /\ \A id \in Ids :
           IF ItemExists(items, id) THEN Shape(items)[id] = Shape(before)[id]
           ELSE ItemExists(before, id) => id \in sub
      /\ frames[1].id = req.id
      /\ \A n \in 1 .. Len(frames) : frames[n].id \in sub /\ frames[n].todo \subseteq sub
  BY <1>1, <1>2, <1>4 DEF ProgressInv, ProgressInvariant, DeletionSoFar, Handling,
     Quiet, DeleteSteps
<1>7. AnswerPending' /\ ImportSoFar'
  BY <1>1, <1>2 DEF AnswerPending, ImportSoFar, Handling, Quiet, DeleteSteps,
     ProgressInv, ProgressInvariant
<1>8. SUFFICES /\ \A id \in Ids :
                    IF ItemExists(items', id) THEN Shape(items')[id] = Shape(before)[id]
                    ELSE ItemExists(before, id) => id \in sub
               /\ IF pc' \in DeleteSteps
                  THEN /\ frames'[1].id = req.id
                       /\ \A n \in DOMAIN frames' :
                            frames'[n].id \in sub /\ frames'[n].todo \subseteq sub
                  ELSE ~ItemExists(items', req.id)
  <2>1. sub = Descendants(before', req'.id)
    BY <1>1, <1>4
  <2> QED
    BY <1>1, <1>6, <1>7, <2>1 DEF ProgressInvariant, DeletionSoFar, Shape, ItemExists
<1>9. CASE \E c \in Ids : Descend(c)
  <2>1. PICK c \in Ids : Descend(c)
    BY <1>9
  <2>2. /\ c \in Last(frames).todo /\ items' = items /\ pc' = pc
        /\ frames' = Append([frames EXCEPT ![Len(frames)].todo = @ \ {c}],
                            [id |-> c, todo |-> GetChildren(items, c)])
    BY <2>1 DEF Descend, tables
  <2>3. PICK e : e = [Last(frames) EXCEPT !.todo = @ \ {c}]
    OBVIOUS
  <2>4. e \in Frame /\ e.id = Last(frames).id /\ e.todo \subseteq Last(frames).todo
    BY <1>2, <2>3 DEF Frame
  <2>5. PICK f : f = [id |-> c, todo |-> GetChildren(items, c)]
    OBVIOUS
  <2>6. f \in Frame /\ f.id = c /\ f.todo = GetChildren(items, c)
    BY <2>5 DEF Frame, GetChildren
  <2>7. frames' = Append([frames EXCEPT ![Len(frames)] = e], f)
    BY <1>2, <2>2, <2>3, <2>5
  <2>8. /\ frames' \in Seq(Frame) /\ Len(frames') = Len(frames) + 1
        /\ frames'[Len(frames) + 1] = f /\ frames'[Len(frames)] = e
        /\ \A n \in 1 .. Len(frames) - 1 : frames'[n] = frames[n]
    BY <1>2, <2>4, <2>6, <2>7, CallFacts
  <2>9. c \in sub
    BY <1>2, <1>6, <2>2
  <2>10. f.todo \subseteq sub
    <3>1. ASSUME NEW x \in GetChildren(items, c)
          PROVE  x \in sub
      <4>1. x \in Ids /\ ItemExists(items, x) /\ items[x].parent = c
        BY <3>1 DEF GetChildren
      <4>2. ItemExists(before, x) /\ before[x].parent = c
        BY <1>1, <1>6, <4>1, SamePlace
      <4> QED
        BY <1>5, <2>9, <4>1, <4>2 DEF ClosedBelow
    <3> QED
      BY <2>6, <3>1
  <2>11. ASSUME NEW n \in 1 .. Len(frames')
         PROVE  frames'[n].id \in sub /\ frames'[n].todo \subseteq sub
    <3>1. CASE n = Len(frames) + 1
      BY <2>6, <2>8, <2>9, <2>10, <3>1
    <3>2. CASE n = Len(frames)
      <4>1. Last(frames).id \in sub /\ Last(frames).todo \subseteq sub
        BY <1>2, <1>6
      <4>2. frames'[n] = e
        BY <2>8, <3>2
      <4> QED
        BY <2>4, <4>1, <4>2
    <3>3. CASE n \in 1 .. Len(frames) - 1
      BY <1>2, <1>6, <2>8, <3>3
    <3> QED
      BY <1>2, <2>8, <3>1, <3>2, <3>3
  <2>12. frames'[1].id = req.id
    <3>1. CASE Len(frames) = 1
      BY <1>2, <1>6, <2>4, <2>8, <3>1
    <3>2. CASE Len(frames) # 1
      <4>1. 1 \in 1 .. Len(frames) - 1
        <5>1. Len(frames) \in Nat \ {0}
          BY <1>2
        <5>2. \A m \in Nat \ {0} : m # 1 => 1 \in 1 .. m - 1
          OBVIOUS
        <5> QED
          BY <3>2, <5>1, <5>2
      <4> QED
        BY <1>6, <2>8, <4>1
    <3> QED
      BY <3>1, <3>2
  <2>13. DOMAIN frames' = 1 .. Len(frames')
    BY <2>8
  <2> QED
    BY <1>1, <1>6, <2>2, <2>11, <2>12, <2>13
<1>10. CASE DeleteRow
  <2>1. /\ items' = [items EXCEPT ![Last(frames).id] = NoRow]
        /\ frames' = frames /\ pc' = "unlog"
    BY <1>10 DEF DeleteRow, DeleteItem
  <2>2. Last(frames).id \in Ids /\ Last(frames).id \in sub
    BY <1>2, <1>6 DEF Frame
  <2>3. /\ ~ItemExists(items', Last(frames).id)
        /\ \A id \in Ids \ {Last(frames).id} : items'[id] = items[id]
    BY <1>1, <2>1, <2>2 DEF ItemTable, ItemExists
  <2>4. DOMAIN frames = 1 .. Len(frames)
    BY <1>2
  <2> QED
    BY <1>6, <2>1, <2>2, <2>3, <2>4 DEF DeleteSteps, Shape, ItemExists
<1>11. CASE EraseHistory
  <2>1. /\ pc = "unlog" /\ items' = items /\ frames' = Front(frames)
        /\ pc' = IF Len(frames) = 1 THEN "next" ELSE "delete"
    BY <1>11 DEF EraseHistory
  <2>2. /\ Len(frames') = Len(frames) - 1
        /\ \A n \in 1 .. Len(frames) - 1 : frames'[n] = frames[n]
    BY <1>2, <2>1, FrontFacts
  <2>3. DOMAIN frames' = 1 .. Len(frames')
    BY <1>1
  <2>4. ~ItemExists(items, Last(frames).id)
    BY <2>1 DEF ProgressInv, ForestInv, TypeInv, HalfDone
  <2>5. CASE Len(frames) = 1
    BY <1>2, <1>6, <2>1, <2>4, <2>5 DEF DeleteSteps
  <2>6. CASE Len(frames) # 1
    <3>1. frames'[1].id = req.id
      BY <1>2, <1>6, <2>2, <2>6
    <3>2. \A n \in DOMAIN frames' : frames'[n].id \in sub /\ frames'[n].todo \subseteq sub
      BY <1>2, <1>6, <2>2, <2>3
    <3> QED
      BY <1>6, <2>1, <2>6, <3>1, <3>2 DEF DeleteSteps
  <2> QED
    BY <2>5, <2>6
<1> QED
  BY <1>9, <1>10, <1>11 DEF DeleteStep

(* A request begins where the last one ended.                              *)
LEMMA ArriveProgress ==
  ASSUME ProgressInv, TypeInv', NEW r \in Requests, Arrive(r)
  PROVE  ProgressInvariant'
<1> USE DEF Quiet, DeleteSteps
<1>1. pc = "idle" /\ items = before /\ UNCHANGED <<items, before>>
      /\ items \in ItemTable
  BY DEF Arrive, RejectImport, BeginImport, ThrowInValidation, RejectDelete,
     BeginDelete, Receive, AnswerAtOnce, tables, ProgressInv, ProgressInvariant,
     AnswerPending, ForestInv, TypeInv, TypeOK
<1>2. CASE RejectImport(r) \/ ThrowInValidation(r) \/ RejectDelete(r)
  <2>1. pc' \in Quiet
    BY <1>2 DEF RejectImport, ThrowInValidation, RejectDelete, Receive, AnswerAtOnce
  <2> QED
    BY <1>1, <2>1 DEF ProgressInvariant, AnswerPending, ImportSoFar, DeletionSoFar,
       Handling
<1>3. CASE BeginImport(r)
  <2>1. /\ r.kind = "imports" /\ ImportsValidate(r) = "accept"
        /\ pc' = "store" /\ req' = r /\ idx' = 1 /\ reply' = "none"
    BY <1>3 DEF BeginImport
  <2>2. r.items \in Seq(Item)
    BY <2>1, RequestFacts
  <2>3. \A j \in DOMAIN r.items : ItemVerdict(r.items, j) = "accept"
    BY <2>1 DEF ImportsValidate
  <2>4. \A j \in DOMAIN r.items : \A k \in 1 .. j - 1 : r.items[k].id # r.items[j].id
    BY <2>3 DEF ItemVerdict
  <2>5. \A j, k \in DOMAIN r.items : r.items[j].id = r.items[k].id => j = k
    BY <2>2, <2>4
  <2>6. Stored' = 0
    BY <2>1 DEF Stored, FirstToStore
  <2>7. Tree!Imported(r.items, 0) = Shape(before)
    BY ImportedNone
  <2>8. Tree!Imported(r.items, 0)' = Shape(before)
    BY <1>1, <2>7 DEF Tree!Imported, Shape
  <2>9. ImportSoFar'
    BY <1>1, <2>1, <2>5, <2>6, <2>8 DEF ImportSoFar
  <2> QED
    BY <2>1, <2>9 DEF ProgressInvariant, AnswerPending, DeletionSoFar, Handling
<1>4. CASE BeginDelete(r)
  <2>1. /\ r.kind = "delete" /\ ItemExists(items, r.id)
        /\ pc' = "delete" /\ req' = r /\ reply' = "none"
        /\ frames' = <<[id |-> r.id, todo |-> GetChildren(items, r.id)]>>
    BY <1>4 DEF BeginDelete
  <2>2. r.id \in Ids
    BY <2>1, RequestFacts
  <2>3. /\ r.id \in Descendants(before, r.id)
        /\ ClosedBelow(before, Descendants(before, r.id))
    BY <1>1, <2>2, DescendantsFacts
  <2>4. GetChildren(items, r.id) \subseteq Descendants(before, r.id)
    BY <1>1, <2>3 DEF GetChildren, ClosedBelow
  <2>5. Descendants(before', req'.id) = Descendants(before, r.id)
    BY <1>1, <2>1
  <2>6. DOMAIN frames' = {1} /\ frames'[1].id = r.id
        /\ frames'[1].todo = GetChildren(items, r.id)
    BY <2>1
  <2>7. DeletionSoFar'
    BY <1>1, <2>1, <2>3, <2>4, <2>5, <2>6 DEF DeletionSoFar, ItemExists, Shape
  <2> QED
    BY <2>1, <2>7 DEF ProgressInvariant, AnswerPending, ImportSoFar, Handling
<1> QED
  BY <1>2, <1>3, <1>4 DEF Arrive

(* Every step of the handlers keeps the progress.                          *)
LEMMA StepProgress == ProgressInv /\ [Next]_vars => ProgressInv'
<1> SUFFICES ASSUME ProgressInv, [Next]_vars
             PROVE  ProgressInv'
  OBVIOUS
<1>1. ForestInv /\ ForestInv' /\ TypeInv /\ TypeInv'
  BY StepForest DEF ProgressInv, ForestInv
<1>2. SUFFICES ProgressInvariant'
  BY <1>1 DEF ProgressInv
<1>3. CASE UNCHANGED vars
  <2>1. Tree!Imported(req.items, Stored)' = Tree!Imported(req.items, Stored)
        /\ Shape(items)' = Shape(items)
    BY <1>3 DEF Tree!Imported, Shape, Stored, FirstToStore, vars
  <2>2. ImportSoFar'
    BY <1>3, <2>1 DEF vars, ProgressInv, ProgressInvariant, ImportSoFar, Handling
  <2>3. AnswerPending' /\ DeletionSoFar'
    BY <1>3 DEF vars, ProgressInv, ProgressInvariant, AnswerPending, DeletionSoFar,
       Handling, Shape, ItemExists
  <2> QED
    BY <2>2, <2>3 DEF ProgressInvariant
<1>4. CASE \E r \in Requests : Arrive(r)
  BY <1>1, <1>4, ArriveProgress
<1>5. CASE InsertNewItem \/ UpdateOldItem
  BY <1>5, StoreProgress
<1>6. CASE DeleteStep
  BY <1>1, <1>6, DeleteProgress
<1>7. CASE Finish \/ Fault \/ Crash \/ Restart
  <2>1. pc' \in Quiet /\ items' = items /\ (before' = items \/ (before' = before /\ pc = "down"))
    BY <1>7 DEF Finish, Fault, Crash, Restart, Die, tables, Quiet
  <2> QED
    BY <2>1 DEF ProgressInv, ProgressInvariant, AnswerPending, ImportSoFar,
       DeletionSoFar, Handling, Quiet
<1>8. CASE LogItem \/ CallChangeSize \/ NextItem \/ Climb \/ Record \/ Resize \/ Redate
  <2>1. /\ UNCHANGED <<req, before, reply, frames>>
        /\ pc \notin Quiet /\ pc' \notin Quiet
        /\ pc \notin DeleteSteps /\ pc' \notin DeleteSteps
    BY <1>8 DEF LogItem, CallChangeSize, NextItem, Climb, Record, Resize, Redate,
       volatile, Quiet, DeleteSteps
  <2>2. idx \in Nat
    BY <1>1 DEF TypeInv, TypeOK
  <2>3. Stored' = Stored
    BY <1>8, <2>2 DEF LogItem, CallChangeSize, NextItem, Climb, Record, Resize, Redate,
       volatile, Stored, FirstToStore
  <2>4. Shape(items') = Shape(items) /\ items' \in ItemTable
    <3>1. CASE Resize \/ Redate
      BY <1>1, <3>1, ChangeKeepsShape
    <3>2. CASE items' = items
      BY <1>1, <3>2 DEF TypeInv, TypeOK
    <3> QED
      BY <1>8, <3>1, <3>2 DEF LogItem, CallChangeSize, NextItem, Climb, Record, tables
  <2> QED
    BY <2>1, <2>3, <2>4, FrameProgress
<1> QED
  BY <1>3, <1>4, <1>5, <1>6, <1>7, <1>8
     DEF Next, HandlerStep, ImportStep, ChangeSizeStep

(* It holds of the empty tables.                                           *)
LEMMA InitProgress == Init => ProgressInv
<1> SUFFICES ASSUME Init PROVE ProgressInv
  OBVIOUS
<1>1. ProgressInvariant
  BY DEF Init, ProgressInvariant, AnswerPending, ImportSoFar, DeletionSoFar,
     Handling, Quiet
<1> QED
  BY <1>1, InitForest DEF ProgressInv

(* An import has stored its first items and changed no other item's place, *)
(* a deletion has removed nothing but items of the subtree, and when it    *)
(* comes to the folders above the item is gone (Main.cpp:72-105, 107-117). *)
THEOREM ProgressHolds == Spec => []ProgressInvariant
<1>1. Spec => []ProgressInv
  BY InitProgress, StepProgress, PTL DEF Spec
<1>2. ProgressInv => ProgressInvariant
  BY DEF ProgressInv
<1> QED
  BY <1>1, <1>2, PTL
-----------------------------------------------------------------------------
(***************************************************************************)
(* The handlers implement FileTree.                                        *)
(***************************************************************************)

(* A size that is positive as an int is the size itself. *)
LEMMA WrapSmall ==
  ASSUME NEW n \in 1 .. MaxInt
  PROVE  Wrap(n) = n
<1>1. MaxInt \in Nat
  BY TablesAssumption
<1>2. n - MinInt \in 0 .. 2 * MaxInt + 1 /\ 2 * (MaxInt + 1) = 2 * MaxInt + 2
      /\ MinInt \in Int
  BY <1>1 DEF MinInt
<1>3. (n - MinInt) % (2 * MaxInt + 2) = n - MinInt
  BY <1>1, <1>2
<1> QED
  BY <1>2, <1>3 DEF Wrap

(* The validation lets through what FileTree accepts, and refuses nothing  *)
(* that FileTree calls acceptable and well formed (Main.cpp:22-58).        *)
LEMMA AcceptedIsAcceptable ==
  ASSUME before = items, items \in ItemTable, NEW r \in Requests,
         r.kind = "imports", ImportsValidate(r) = "accept"
  PROVE  Tree!Acceptable(r)
<1>1. r.items \in Seq(Item) /\ r.date # BadDate /\ r.items # <<>>
  BY RequestFacts DEF ImportsValidate
<1>2. \A j \in DOMAIN r.items : ItemVerdict(r.items, j) = "accept"
  BY DEF ImportsValidate
<1>3. ASSUME NEW j \in DOMAIN r.items
      PROVE  /\ \A k \in 1 .. j - 1 : r.items[k].id # r.items[j].id
             /\ ParentAccepted(r.items, j)
  BY <1>2 DEF ItemVerdict
<1>4. ASSUME NEW j \in DOMAIN r.items, GetType(items, r.items[j].parent) = "FOLDER",
             r.items[j].parent # Null
      PROVE  /\ Tree!Exists(r.items[j].parent)
             /\ Shape(before)[r.items[j].parent].type = "FOLDER"
  <2>1. r.items[j] \in Item
    BY <1>1
  <2>2. r.items[j].parent \in Ids
    BY <1>4, <2>1 DEF Item, Parents
  <2>3. ItemExists(items, r.items[j].parent)
        /\ items[r.items[j].parent].type = "FOLDER"
    BY <1>4 DEF GetType
  <2> QED
    BY <2>2, <2>3, ShapeFacts DEF Tree!Exists
<1>5. ASSUME NEW j \in DOMAIN r.items
      PROVE  \/ r.items[j].parent = Null
             \/ /\ Tree!Exists(r.items[j].parent)
                /\ Shape(before)[r.items[j].parent].type = "FOLDER"
             \/ \E k \in 1 .. j - 1 :
                  r.items[k].id = r.items[j].parent /\ r.items[k].type = "FOLDER"
  BY <1>3, <1>4 DEF ParentAccepted
<1>6. Tree!Importable(r.items)
  BY <1>1, <1>3, <1>5 DEF Tree!Importable
<1> QED
  BY <1>1, <1>6 DEF Tree!Acceptable

(* ImportsValidate accepts what FileTree finds acceptable and well         *)
(* formed, so that it refuses for a reason.                                *)
LEMMA RefusedForAReason ==
  ASSUME before = items, items \in ItemTable, NEW r \in Requests,
         r.kind = "imports", Tree!Acceptable(r),
         \A j \in DOMAIN r.items : Tree!WellFormed(r.items[j])
  PROVE  ImportsValidate(r) = "accept"
<1>1. r.items \in Seq(Item) /\ r.date # BadDate /\ Tree!Importable(r.items)
  BY RequestFacts DEF Tree!Acceptable
<1>2. ASSUME NEW j \in DOMAIN r.items
      PROVE  ItemVerdict(r.items, j) = "accept"
  <2>1. /\ r.items[j].form = "wellformed"
        /\ r.items[j].type = "FILE" => r.items[j].size \in 1 .. MaxInt
    BY <1>2 DEF Tree!WellFormed
  <2>2. r.items[j].type = "FILE" => Wrap(r.items[j].size) = r.items[j].size
    BY <2>1, WrapSmall
  <2>3. ~(r.items[j].type = "FILE" /\ Wrap(r.items[j].size) <= 0)
    BY <2>1, <2>2, TablesAssumption
  <2>4. \A k \in 1 .. j - 1 : r.items[k].id # r.items[j].id
    BY <1>1, <1>2 DEF Tree!Importable
  <2>5. ParentAccepted(r.items, j)
    <3>1. r.items[j] \in Item
      BY <1>1, <1>2
    <3>2. CASE /\ r.items[j].parent # Null /\ Tree!Exists(r.items[j].parent)
               /\ Shape(before)[r.items[j].parent].type = "FOLDER"
      <4>1. r.items[j].parent \in Ids
        BY <3>1, <3>2 DEF Item, Parents
      <4> QED
        BY <3>2, <4>1, ShapeFacts DEF Tree!Exists, ParentAccepted, GetType
    <3> QED
      BY <1>1, <1>2, <3>2 DEF Tree!Importable, ParentAccepted
  <2> QED
    BY <2>1, <2>3, <2>4, <2>5 DEF ItemVerdict
<1>3. r.items # <<>>
  BY <1>1 DEF Tree!Importable
<1> QED
  BY <1>1, <1>2, <1>3 DEF ImportsValidate

(* What an import has stored, and what a deletion has removed, is what     *)
(* FileTree allows at the end of a request and when it is cut short.       *)
LEMMA ImportMaps ==
  ASSUME ProgressInv, Handling("imports")
  PROVE  /\ req.items \in Seq(Item)
         /\ Stored \in 0 .. Len(req.items)
         /\ Shape(items) = Tree!Imported(req.items, Stored)
         /\ pc = "next" /\ idx >= Len(req.items) => Stored = Len(req.items)
<1>1. /\ req \in Requests /\ req.kind = "imports" /\ idx \in DOMAIN req.items
      /\ Shape(items) = Tree!Imported(req.items, Stored)
  BY DEF ProgressInv, ProgressInvariant, ImportSoFar, ForestInv, TypeInv, Control,
     Handling
<1>2. req.items \in Seq(Item)
  BY <1>1, RequestFacts
<1>3. idx \in 1 .. Len(req.items)
  BY <1>1, <1>2
<1> QED
  BY <1>1, <1>2, <1>3 DEF Stored, FirstToStore

(* What a deletion has removed so far is a set that FileTree may remove;   *)
(* when it is done, the whole subtree.                                     *)
LEMMA DeleteMaps ==
  ASSUME ProgressInv, Handling("delete")
  PROVE  \E S \in SUBSET Tree!Subtree(req.id) :
           /\ Tree!ClosedBelow(S)
           /\ Shape(items) = Tree!Without(S)
           /\ pc = "next" => S = Tree!Subtree(req.id)
<1>1. /\ req \in Requests /\ req.kind = "delete"
      /\ items \in ItemTable /\ before \in ItemTable /\ ParentExists
  BY DEF ProgressInv, ForestInv, TypeInv, TypeOK, Control, Handling
<1>2. req.id \in Ids
  BY <1>1, RequestFacts
<1>3. PICK sub : sub = Descendants(before, req.id)
  OBVIOUS
<1>4. /\ ItemExists(before, req.id)
      /\ \A id \in Ids :
           IF ItemExists(items, id) THEN Shape(items)[id] = Shape(before)[id]
           ELSE ItemExists(before, id) => id \in sub
      /\ pc = "next" => ~ItemExists(items, req.id)
  BY <1>3 DEF ProgressInv, ProgressInvariant, DeletionSoFar, DeleteSteps
<1>5. Tree!Subtree(req.id) = sub
  BY <1>1, <1>2, <1>3, SubtreeIsDescendants
<1>6. PICK S : S = {id \in Ids : ItemExists(before, id) /\ ~ItemExists(items, id)}
  OBVIOUS
<1>7. S \in SUBSET sub /\ S \in SUBSET Ids
  BY <1>4, <1>6
<1>8. ClosedBelow(before, S)
  <2>1. SUFFICES ASSUME NEW x \in Ids, ItemExists(before, x), before[x].parent \in S,
                        ItemExists(items, x)
                 PROVE  FALSE
    BY <1>6 DEF ClosedBelow
  <2>2. items[x].parent = before[x].parent
    BY <1>1, <1>4, <2>1, SamePlace
  <2>3. items[x].parent \in Ids /\ ~ItemExists(items, items[x].parent)
    BY <1>6, <2>1, <2>2
  <2>4. items[x].parent # Null
    BY <2>3, TablesAssumption
  <2> QED
    BY <1>1, <2>1, <2>3, <2>4 DEF ParentExists
<1>9. Tree!ClosedBelow(S)
  BY <1>1, <1>8, ShapeFacts DEF Tree!ClosedBelow, Tree!Exists, ClosedBelow
<1>10. Shape(items) = Tree!Without(S)
  <2>1. \A id \in Ids : Shape(items)[id] = IF id \in S THEN NoRow ELSE Shape(before)[id]
    BY <1>1, <1>4, <1>6, ShapeFacts
  <2>2. Shape(items) = [id \in Ids |-> Shape(items)[id]]
    BY DEF Shape
  <2> QED
    BY <2>1, <2>2 DEF Tree!Without
<1>11. pc = "next" => sub \subseteq S
  BY <1>2, <1>3, <1>4, <1>6, <1>7, <1>8, DescendantsLeast
<1> QED
  BY <1>5, <1>7, <1>9, <1>10, <1>11

(* A request that comes is accepted or refused as FileTree says, or ends   *)
(* the process.                                                            *)
LEMMA ArriveMaps ==
  ASSUME ProgressInv, NEW r \in Requests, Arrive(r)
  PROVE  Tree!Next
<1>1. /\ pc = "idle" /\ items = before /\ UNCHANGED before
      /\ items \in ItemTable /\ req = Null
  BY DEF Arrive, RejectImport, BeginImport, ThrowInValidation, RejectDelete,
     BeginDelete, Receive, AnswerAtOnce, ProgressInv, ProgressInvariant, Quiet,
     AnswerPending, ForestInv, TypeInv, TypeOK, Control
<1>2. Shape(before)' = Shape(before)
  BY <1>1 DEF Shape
<1>3. r # Null
  BY ShapeAssumption
<1>4. CASE RejectImport(r)
  <2>1. r.kind = "imports" /\ ImportsValidate(r) = "reject"
        /\ reply' = "bad_request" /\ req' = req
    BY <1>4 DEF RejectImport, AnswerAtOnce, volatile
  <2>2. ~(Tree!Acceptable(r) /\ \A j \in DOMAIN r.items : Tree!WellFormed(r.items[j]))
    BY <1>1, <2>1, RefusedForAReason
  <2>3. "bad_request" \in Tree!RefusalOf(r)
    BY <2>1, <2>2 DEF Tree!RefusalOf
  <2> QED
    BY <1>1, <1>2, <2>1, <2>3 DEF Tree!Next, Tree!Refuse
<1>5. CASE BeginImport(r)
  <2>1. r.kind = "imports" /\ ImportsValidate(r) = "accept" /\ req' = r
        /\ reply' = "none"
    BY <1>5 DEF BeginImport
  <2>2. Tree!Acceptable(r)
    BY <1>1, <2>1, AcceptedIsAcceptable
  <2> QED
    BY <1>1, <1>2, <1>3, <2>1, <2>2 DEF Tree!Next, Tree!Accept
<1>6. CASE ThrowInValidation(r)
  <2>1. req' = req /\ reply' = "fault"
    BY <1>6 DEF ThrowInValidation, volatile
  <2> QED
    BY <1>1, <1>2, <2>1 DEF Tree!Next, Tree!Idle
<1>7. CASE RejectDelete(r)
  <2>1. /\ r.kind = "delete" /\ req' = req
        /\ \/ r.date = BadDate /\ reply' = "bad_request"
           \/ r.date # BadDate /\ ~ItemExists(items, r.id) /\ reply' = "not_found"
    BY <1>7 DEF RejectDelete, AnswerAtOnce, volatile
  <2>2. r.id \in Ids
    BY <2>1, RequestFacts
  <2>3. Tree!Exists(r.id) <=> ItemExists(items, r.id)
    BY <1>1, <2>2, ShapeFacts DEF Tree!Exists
  <2>4. reply' \in Tree!RefusalOf(r)
    BY <2>1, <2>3 DEF Tree!RefusalOf, Tree!Acceptable
  <2> QED
    BY <1>1, <1>2, <2>1, <2>4 DEF Tree!Next, Tree!Refuse
<1>8. CASE BeginDelete(r)
  <2>1. r.kind = "delete" /\ r.date # BadDate /\ ItemExists(items, r.id)
        /\ req' = r /\ reply' = "none"
    BY <1>8 DEF BeginDelete
  <2>2. r.id \in Ids
    BY <2>1, RequestFacts
  <2>3. Tree!Acceptable(r)
    BY <1>1, <2>1, <2>2, ShapeFacts DEF Tree!Acceptable, Tree!Exists
  <2> QED
    BY <1>1, <1>2, <1>3, <2>1, <2>3 DEF Tree!Next, Tree!Accept
<1> QED
  BY <1>4, <1>5, <1>6, <1>7, <1>8 DEF Arrive

(* The answer "ok" is a request that took effect whole.                    *)
LEMMA FinishMaps ==
  ASSUME ProgressInv, Finish
  PROVE  Tree!Next
<1>1. /\ pc = "next" /\ req' = Null /\ reply' = "ok" /\ before' = items
      /\ req.kind = "imports" => idx >= Len(req.items)
  BY DEF Finish
<1>2. /\ req \in Requests /\ req # Null
      /\ Shape(before)' = Shape(items)
  BY <1>1, ShapeAssumption DEF ProgressInv, ForestInv, TypeInv, Control, Quiet, Shape
<1>3. CASE req.kind = "imports"
  BY <1>1, <1>2, <1>3, ImportMaps DEF Handling, Quiet, Tree!Next, Tree!Complete
<1>4. CASE req.kind = "delete"
  BY <1>1, <1>2, <1>4, DeleteMaps DEF Handling, Quiet, Tree!Next, Tree!Complete
<1> QED
  BY <1>2, <1>3, <1>4, RequestFacts

(* The end of the process is a request cut short, or no step of the        *)
(* forest if no request was being handled.                                 *)
LEMMA DieMaps ==
  ASSUME ProgressInv, Fault \/ Crash
  PROVE  Tree!Next \/ UNCHANGED Tree!treeVars
<1>1. /\ req' = Null /\ before' = items /\ Shape(before)' = Shape(items)
      /\ pc # "down" /\ reply' \in {reply, "fault"}
  BY DEF Fault, Crash, Die, Shape, MissingRow, OutOfRange, StackOverflow
<1>2. CASE pc \in Quiet
  <2>1. req = Null /\ items = before /\ UNCHANGED reply
    BY <1>2 DEF ProgressInv, ProgressInvariant, AnswerPending, ForestInv, TypeInv,
       Control, Quiet, Fault, Crash, MissingRow, OutOfRange, StackOverflow
  <2> QED
    BY <1>1, <2>1 DEF Tree!treeVars
<1>3. CASE pc \notin Quiet
  <2>1. /\ req \in Requests /\ req # Null /\ reply = "none"
    BY <1>3, ShapeAssumption DEF ProgressInv, ProgressInvariant, AnswerPending,
       ForestInv, TypeInv, Control
  <2>2. CASE req.kind = "imports"
    BY <1>1, <1>3, <2>1, <2>2, ImportMaps DEF Handling, Tree!Next, Tree!CutShort
  <2>3. CASE req.kind = "delete"
    BY <1>1, <1>3, <2>1, <2>3, DeleteMaps DEF Handling, Tree!Next, Tree!CutShort
  <2> QED
    BY <2>1, <2>2, <2>3, RequestFacts
<1> QED
  BY <1>2, <1>3

(* Every step of the handlers is one of FileTree, or none.                 *)
LEMMA StepMaps ==
  ProgressInv /\ [Next]_vars => [Tree!Next]_(Tree!treeVars)
<1> SUFFICES ASSUME ProgressInv, [Next]_vars
             PROVE  Tree!Next \/ UNCHANGED Tree!treeVars
  OBVIOUS
<1>1. CASE UNCHANGED <<before, req, reply>>
  BY <1>1 DEF Tree!treeVars, Shape
<1>2. CASE \E r \in Requests : Arrive(r)
  BY <1>2, ArriveMaps
<1>3. CASE Finish
  BY <1>3, FinishMaps
<1>4. CASE Fault \/ Crash
  BY <1>4, DieMaps
<1>5. CASE Restart
  <2>1. req = Null /\ UNCHANGED <<before, req>> /\ reply' = "none"
    BY <1>5 DEF Restart, volatile, ProgressInv, ForestInv, TypeInv, Control, Quiet
  <2> QED
    BY <2>1 DEF Tree!Next, Tree!Idle, Shape
<1> QED
  BY <1>1, <1>2, <1>3, <1>4, <1>5 DEF Next, HandlerStep, ImportStep, InsertNewItem,
     UpdateOldItem, LogItem, CallChangeSize, NextItem, ChangeSizeStep, Climb, Resize,
     Redate, Record, DeleteStep, Descend, DeleteRow, EraseHistory, volatile, vars

(* The handlers implement FileTree: a request that is answered has taken   *)
(* effect whole, and one that is cut short, by a crash, a failed statement *)
(* or a stack overflow, leaves the first items of the import, in order, or *)
(* a deletion without an item left below a removed one (Main.cpp:72-139).  *)
THEOREM HandlersImplementFileTree == Spec => ImplementsFileTree
<1>1. Init => Tree!Init
  BY DEF Init, Tree!Init, Shape, EmptyItems, ItemExists
<1>2. Spec => []ProgressInv
  BY InitProgress, StepProgress, PTL DEF Spec
<1> QED
  BY <1>1, <1>2, StepMaps, PTL DEF Spec, ImplementsFileTree, Tree!Spec
-----------------------------------------------------------------------------
(***************************************************************************)
(* What a request may touch.                                               *)
(***************************************************************************)

(* The ancestors of an item depend on the shape of the forest only.        *)
LEMMA SameAncestors ==
  ASSUME NEW t1 \in ItemTable, NEW t2 \in ItemTable, Shape(t1) = Shape(t2),
         NEW id \in Ids
  PROVE  Ancestors(t1, id) = Ancestors(t2, id)
<1>1. \A x \in Ids : /\ ItemExists(t1, x) <=> ItemExists(t2, x)
                     /\ ItemExists(t1, x) => t1[x].parent = t2[x].parent
  BY SamePlace
<1>2. Ancestors(t1, id) \subseteq Ancestors(t2, id)
  BY <1>1, FewerAncestors
<1>3. Ancestors(t2, id) \subseteq Ancestors(t1, id)
  BY <1>1, FewerAncestors
<1> QED
  BY <1>2, <1>3

(* The paths of some items in two tables that agree on all others: where   *)
(* one of the paths comes to, it goes on in the second table.              *)
Paths(t0, t1, N) == UNION {Ancestors(t0, n) \cup Ancestors(t1, n) : n \in N}

(* The items on the paths of the named ids, before and now, are closed     *)
(* under taking the parent now.                                            *)
LEMMA PathsClosed ==
  ASSUME NEW t0 \in ItemTable, NEW t1 \in ItemTable, NEW N \in SUBSET Ids,
         \A y \in Ids \ N : ItemExists(t1, y) =>
           ItemExists(t0, y) /\ t0[y].parent = t1[y].parent
  PROVE  /\ Paths(t0, t1, N) \subseteq Ids
         /\ N \subseteq Paths(t0, t1, N)
         /\ ClosedAbove(t1, Paths(t0, t1, N))
<1>1. \A n \in N : /\ Ancestors(t0, n) \subseteq Ids /\ n \in Ancestors(t0, n)
                   /\ ClosedAbove(t0, Ancestors(t0, n))
                   /\ Ancestors(t1, n) \subseteq Ids /\ n \in Ancestors(t1, n)
                   /\ ClosedAbove(t1, Ancestors(t1, n))
  BY AncestorsFacts
<1>2. ASSUME NEW n \in N, NEW y \in Ancestors(t1, n), ItemExists(t1, y)
      PROVE  t1[y].parent \in Ancestors(t1, n) \cup {Null}
  BY <1>1, <1>2 DEF ClosedAbove
<1>3. ASSUME NEW n \in N, NEW y \in Ancestors(t0, n), ItemExists(t1, y), y \notin N
      PROVE  t1[y].parent \in Ancestors(t0, n) \cup {Null}
  BY <1>1, <1>3 DEF ClosedAbove
<1>4. ASSUME NEW y \in N, ItemExists(t1, y)
      PROVE  t1[y].parent \in Ancestors(t1, y) \cup {Null}
  BY <1>1, <1>2, <1>4
<1>5. ClosedAbove(t1, Paths(t0, t1, N))
  BY <1>2, <1>3, <1>4 DEF ClosedAbove, Paths
<1> QED
  BY <1>1, <1>5 DEF Paths

(* When one of the items moves that had not moved before, its old path is  *)
(* one of the first table.                                                 *)
LEMMA PathsGrow ==
  ASSUME NEW t0 \in ItemTable, NEW t1 \in ItemTable, NEW t2 \in ItemTable,
         NEW N \in SUBSET Ids, NEW c \in N,
         \A y \in Ids \ N : ItemExists(t2, y) =>
           ItemExists(t0, y) /\ t0[y].parent = t2[y].parent,
         \A y \in Ids \ {c} : t2[y] = t1[y],
         ItemExists(t1, c) => ItemExists(t0, c) /\ t0[c].parent = t1[c].parent
  PROVE  Paths(t0, t1, N) \subseteq Paths(t0, t2, N)
<1>1. /\ Paths(t0, t2, N) \subseteq Ids /\ N \subseteq Paths(t0, t2, N)
      /\ ClosedAbove(t2, Paths(t0, t2, N))
  BY PathsClosed
<1>2. c \in Ancestors(t0, c) /\ ClosedAbove(t0, Ancestors(t0, c))
  BY AncestorsFacts
<1>3. Ancestors(t0, c) \subseteq Paths(t0, t2, N)
  BY DEF Paths
<1>4. ASSUME NEW y \in Paths(t0, t2, N), ItemExists(t1, y)
      PROVE  t1[y].parent \in Paths(t0, t2, N) \cup {Null}
  <2>1. CASE y = c
    BY <1>2, <1>3, <1>4, <2>1 DEF ClosedAbove
  <2>2. CASE y # c
    <3>1. t2[y] = t1[y] /\ ItemExists(t2, y)
      BY <1>1, <1>4, <2>2 DEF ItemExists
    <3> QED
      BY <1>1, <3>1 DEF ClosedAbove
  <2> QED
    BY <2>1, <2>2
<1>5. ClosedAbove(t1, Paths(t0, t2, N))
  BY <1>4 DEF ClosedAbove
<1>6. \A n \in N : Ancestors(t1, n) \subseteq Paths(t0, t2, N)
  BY <1>1, <1>5, AncestorsLeast
<1> QED
  BY <1>6 DEF Paths

(* The request being handled, the items it names and its footprint.        *)
LEMMA NamedFacts ==
  ASSUME TypeInv, pc \notin Quiet
  PROVE  /\ req \in Requests /\ req # Null
         /\ NamedIds \in SUBSET Ids
         /\ req.kind = "imports" =>
              /\ req.items \in Seq(Item) /\ idx \in 1 .. Len(req.items)
              /\ NamedIds = {req.items[j].id : j \in 1 .. Len(req.items)}
              /\ Footprint = Paths(before, items, NamedIds)
         /\ req.kind = "delete" =>
              /\ req.id \in Ids /\ NamedIds = {req.id}
              /\ Footprint = Paths(before, items, NamedIds)
                               \cup Descendants(before, req.id)
         /\ req.kind \in {"imports", "delete"}
<1>1. req \in Requests /\ req # Null /\ (req.kind = "imports" => idx \in DOMAIN req.items)
  BY ShapeAssumption DEF TypeInv, Control
<1>2. /\ req.kind \in {"imports", "delete"}
      /\ req.kind = "imports" => req.items \in Seq(Item)
      /\ req.kind = "delete" => req.id \in Ids
  BY <1>1, RequestFacts
<1>3. CASE req.kind = "imports"
  <2>1. NamedIds = {req.items[j].id : j \in DOMAIN req.items}
        /\ DOMAIN req.items = 1 .. Len(req.items)
    BY <1>1, <1>2, <1>3 DEF NamedIds
  <2>2. \A j \in DOMAIN req.items : req.items[j] \in Item
    BY <1>2, <1>3
  <2>3. NamedIds \in SUBSET Ids
    BY <2>1, <2>2 DEF Item
  <2>4. Footprint = Paths(before, items, NamedIds)
    BY <1>3 DEF Footprint, Paths
  <2> QED
    BY <1>1, <1>2, <1>3, <2>1, <2>3, <2>4
<1>4. CASE req.kind = "delete"
  <2>1. NamedIds = {req.id}
    BY <1>1, <1>4 DEF NamedIds
  <2>2. Footprint = Paths(before, items, NamedIds) \cup Descendants(before, req.id)
    BY <1>1, <1>4 DEF Footprint, Paths
  <2> QED
    BY <1>1, <1>2, <1>4, <2>1, <2>2
<1> QED
  BY <1>2, <1>3, <1>4

(* Items the request does not name stay in their places, or go; so do the  *)
(* items of an import that are not stored yet.                             *)
LEMMA NotStoredStay ==
  ASSUME ProgressInv, Handling("imports"), NEW id \in Ids,
         \A j \in 1 .. Stored : req.items[j].id # id
  PROVE  Shape(items)[id] = Shape(before)[id]
<1>1. /\ \A j, k \in DOMAIN req.items : req.items[j].id = req.items[k].id => j = k
      /\ Shape(items) = Tree!Imported(req.items, Stored)
      /\ req.items \in Seq(Item) /\ Stored \in 0 .. Len(req.items)
  BY ImportMaps DEF ProgressInv, ProgressInvariant, ImportSoFar
<1> QED
  BY <1>1, ImportedFacts

(* A request leaves the parents of items it does not name as they were.    *)
LEMMA UnnamedStay ==
  ASSUME ProgressInv, pc \notin Quiet
  PROVE  /\ items \in ItemTable /\ before \in ItemTable
         /\ \A y \in Ids \ NamedIds : ItemExists(items, y) =>
              ItemExists(before, y) /\ before[y].parent = items[y].parent
         /\ req.kind = "delete" =>
              \A y \in Ids : ItemExists(items, y) =>
                ItemExists(before, y) /\ before[y].parent = items[y].parent
<1>1. TypeInv /\ items \in ItemTable /\ before \in ItemTable
  BY DEF ProgressInv, ForestInv, TypeInv, TypeOK
<1>2. CASE req.kind = "imports"
  <2>1. Handling("imports") /\ req.items \in Seq(Item) /\ Stored \in 0 .. Len(req.items)
    BY <1>2, ImportMaps DEF Handling
  <2>2. NamedIds = {req.items[j].id : j \in 1 .. Len(req.items)}
    BY <1>1, <1>2, NamedFacts
  <2>3. ASSUME NEW y \in Ids \ NamedIds
        PROVE  Shape(items)[y] = Shape(before)[y]
    <3>1. \A j \in 1 .. Stored : req.items[j].id # y
      BY <2>1, <2>2, <2>3
    <3> QED
      BY <2>1, <3>1, NotStoredStay
  <2> QED
    BY <1>1, <1>2, <2>3, SamePlace
<1>3. CASE req.kind = "delete"
  <2>1. \A y \in Ids : ItemExists(items, y) => Shape(items)[y] = Shape(before)[y]
    BY <1>3 DEF ProgressInv, ProgressInvariant, DeletionSoFar, Handling
  <2> QED
    BY <1>1, <1>3, <2>1, SamePlace
<1> QED
  BY <1>1, <1>2, <1>3, NamedFacts

(* The footprint has the named items and the parents, in the forest as it  *)
(* is now, of the items in it.                                             *)
LEMMA FootprintFacts ==
  ASSUME ProgressInv, pc \notin Quiet
  PROVE  /\ Footprint \subseteq Ids
         /\ NamedIds \subseteq Footprint
         /\ ClosedAbove(items, Footprint)
<1>1. /\ items \in ItemTable /\ before \in ItemTable /\ TypeInv
      /\ \A y \in Ids \ NamedIds : ItemExists(items, y) =>
           ItemExists(before, y) /\ before[y].parent = items[y].parent
  BY UnnamedStay DEF ProgressInv, ForestInv
<1>2. PICK P : P = Paths(before, items, NamedIds)
  OBVIOUS
<1>3. P \subseteq Ids /\ NamedIds \subseteq P /\ ClosedAbove(items, P)
  BY <1>1, <1>2, NamedFacts, PathsClosed
<1>4. CASE req.kind = "imports"
  BY <1>1, <1>2, <1>3, <1>4, NamedFacts
<1>5. CASE req.kind = "delete"
  <2>1. /\ req.id \in Ids /\ NamedIds = {req.id}
        /\ Footprint = P \cup Descendants(before, req.id)
    BY <1>1, <1>2, <1>5, NamedFacts
  <2>2. /\ Descendants(before, req.id) \subseteq Ids
        /\ \A x \in Descendants(before, req.id) \ {req.id} :
             before[x].parent \in Descendants(before, req.id)
    BY <1>1, <2>1, DescendantsFacts
  <2>3. ASSUME NEW y \in Footprint, ItemExists(items, y)
        PROVE  items[y].parent \in Footprint \cup {Null}
    <3>1. CASE y \in P
      BY <1>3, <2>1, <2>3, <3>1 DEF ClosedAbove
    <3>2. CASE y \in Descendants(before, req.id) \ {req.id}
      BY <1>1, <2>1, <2>2, <2>3, <3>2
    <3> QED
      BY <1>3, <2>1, <3>1, <3>2
  <2> QED
    BY <1>3, <2>1, <2>2, <2>3 DEF ClosedAbove
<1> QED
  BY <1>1, <1>4, <1>5, NamedFacts

(* Elements of a sequence that has got or lost one at an end.              *)
LEMMA RangeFacts ==
  ASSUME NEW S, NEW s \in Seq(S)
  PROVE  /\ \A e \in S : Range(Append(s, e)) = Range(s) \cup {e}
         /\ s # <<>> => /\ Range(Front(s)) \subseteq Range(s)
                        /\ Last(s) \in Range(s)
                        /\ Range(s) = Range(Front(s)) \cup {Last(s)}
                        /\ Head(s) \in Range(s) /\ Head(s) = s[1]
                        /\ \A n \in DOMAIN Tail(s) :
                             Tail(s)[n] = s[n + 1] /\ n + 1 \in DOMAIN s
<1>1. ASSUME NEW e \in S
      PROVE  Range(Append(s, e)) = Range(s) \cup {e}
  <2>1. /\ Append(s, e) \in Seq(S) /\ Len(Append(s, e)) = Len(s) + 1 /\ Len(s) \in Nat
        /\ \A n \in 1 .. Len(s) : Append(s, e)[n] = s[n]
        /\ Append(s, e)[Len(s) + 1] = e
    OBVIOUS
  <2>2. DOMAIN Append(s, e) = DOMAIN s \cup {Len(s) + 1} /\ DOMAIN s = 1 .. Len(s)
    BY <2>1
  <2> QED
    BY <2>1, <2>2 DEF Range
<1>2. ASSUME s # <<>>
      PROVE  /\ Range(Front(s)) \subseteq Range(s)
             /\ Last(s) \in Range(s)
             /\ Range(s) = Range(Front(s)) \cup {Last(s)}
  <2>1. /\ Len(s) \in Nat \ {0} /\ Front(s) \in Seq(S) /\ Len(Front(s)) = Len(s) - 1
        /\ \A n \in 1 .. Len(s) - 1 : Front(s)[n] = s[n]
        /\ Last(s) = s[Len(s)]
    BY <1>2, FrontFacts DEF Last
  <2>2. DOMAIN s = DOMAIN Front(s) \cup {Len(s)} /\ DOMAIN Front(s) = 1 .. Len(s) - 1
    BY <2>1
  <2> QED
    BY <2>1, <2>2 DEF Range
<1>3. ASSUME s # <<>>
      PROVE  /\ Head(s) \in Range(s) /\ Head(s) = s[1]
             /\ \A n \in DOMAIN Tail(s) : Tail(s)[n] = s[n + 1] /\ n + 1 \in DOMAIN s
  <2>1. Head(s) = s[1] /\ 1 \in DOMAIN s
    BY <1>3
  <2>2. \A n \in DOMAIN Tail(s) : Tail(s)[n] = s[n + 1] /\ n + 1 \in DOMAIN s
    BY <1>3
  <2> QED
    BY <2>1, <2>2 DEF Range
<1> QED
  BY <1>1, <1>2, <1>3

(* One element or two, put one behind the other.                           *)
LEMMA OneOrTwo ==
  ASSUME NEW one, NEW two
  PROVE  /\ DOMAIN (<<one>> \o <<two>>) = {1, 2} /\ Len(<<one>> \o <<two>>) = 2
         /\ (<<one>> \o <<two>>)[1] = one /\ (<<one>> \o <<two>>)[2] = two
         /\ <<one>> \o <<>> = <<one>> /\ <<>> \o <<two>> = <<two>> /\ <<>> \o <<>> = <<>>
<1>1. /\ DOMAIN (<<one>> \o <<two>>) = {1, 2} /\ Len(<<one>> \o <<two>>) = 2
      /\ (<<one>> \o <<two>>)[1] = one /\ (<<one>> \o <<two>>)[2] = two
  <2>1. PICK s, t : s = <<one>> /\ t = <<two>>
    OBVIOUS
  <2>2. /\ s \in Seq({one, two}) /\ t \in Seq({one, two})
        /\ Len(s) = 1 /\ Len(t) = 1 /\ s[1] = one /\ t[1] = two
    BY <2>1
  <2>3. /\ s \o t \in Seq({one, two}) /\ Len(s \o t) = 2
        /\ (s \o t)[1] = one /\ (s \o t)[2] = two
    <3>1. 1 \in 1 .. Len(s) + Len(t) /\ 2 \in 1 .. Len(s) + Len(t)
      BY <2>2
    <3> QED
      BY <2>2, <3>1, ConcatProperties
  <2>4. DOMAIN (s \o t) = 1 .. 2
    BY <2>3
  <2>5. 1 .. 2 = {1, 2}
    OBVIOUS
  <2> QED
    BY <2>1, <2>3, <2>4, <2>5
<1>2. <<one>> \o <<>> = <<one>> /\ <<>> \o <<two>> = <<two>>
  <2>1. <<one>> \in Seq({one, two}) /\ <<two>> \in Seq({one, two})
    OBVIOUS
  <2> QED
    BY <2>1, ConcatEmptySeq
<1>3. <<>> \o <<>> = <<>>
  OBVIOUS
<1> QED
  BY <1>1, <1>2, <1>3

(* The calls of ChangeSize go to the parent of the item and to its former  *)
(* one, to both unless they are the same.                                  *)
LEMMA CallsAfterStore ==
  ASSUME NEW it \in Item, NEW p \in Parents, NEW d \in Int
  PROVE  \E cs : /\ cs = ChangeSizeCalls(p, it, d)
                 /\ \A n \in DOMAIN cs :
                      cs[n].id # Null /\ (cs[n].id = p \/ cs[n].id = it.parent)
                 /\ \A q : q # Null /\ (q = p \/ q = it.parent) =>
                          \E n \in DOMAIN cs : cs[n].id = q
<1>1. PICK one, two, size, cs :
        /\ cs = ChangeSizeCalls(p, it, d)
        /\ size = ItemSize(it)
        /\ one = [id |-> p, delta |-> -size]
        /\ two = [id |-> it.parent, delta |-> IF p # it.parent THEN size ELSE d]
  OBVIOUS
<1>2. one.id = p /\ two.id = it.parent
  BY <1>1
<1>3. cs = (IF p # it.parent /\ p # Null THEN <<one>> ELSE <<>>)
             \o (IF it.parent # Null THEN <<two>> ELSE <<>>)
  BY <1>1 DEF ChangeSizeCalls
<1>4. /\ DOMAIN (<<one>> \o <<two>>) = {1, 2}
      /\ (<<one>> \o <<two>>)[1] = one /\ (<<one>> \o <<two>>)[2] = two
      /\ <<one>> \o <<>> = <<one>> /\ <<>> \o <<two>> = <<two>> /\ <<>> \o <<>> = <<>>
  BY OneOrTwo
<1>5. CASE p # it.parent /\ p # Null /\ it.parent # Null
  <2>1. DOMAIN cs = {1, 2} /\ cs[1] = one /\ cs[2] = two
    BY <1>3, <1>4, <1>5
  <2> QED
    BY <1>1, <1>2, <1>5, <2>1
<1>6. CASE p # it.parent /\ p # Null /\ it.parent = Null
  <2>1. cs = <<one>>
    BY <1>3, <1>4, <1>6
  <2> QED
    BY <1>1, <1>2, <1>6, <2>1
<1>7. CASE (p = it.parent \/ p = Null) /\ it.parent # Null
  <2>1. cs = <<two>>
    BY <1>3, <1>4, <1>7
  <2> QED
    BY <1>1, <1>2, <1>7, <2>1
<1>8. CASE (p = it.parent \/ p = Null) /\ it.parent = Null
  <2>1. cs = <<>>
    BY <1>3, <1>4, <1>8
  <2> QED
    BY <1>1, <1>8, <2>1
<1> QED
  BY <1>5, <1>6, <1>7, <1>8

(* The calls made for an item: for the parent it had before the request    *)
(* and for the one it has got.                                             *)
LEMMA StoreCalls ==
  ASSUME ProgressInv, InsertNewItem \/ UpdateOldItem,
         NEW c, c = CurrentItem.id
  PROVE  /\ Shape(items)[c] = Shape(before)[c]
         /\ \A n \in DOMAIN calls' :
              \/ calls'[n].id = CurrentItem.parent /\ CurrentItem.parent # Null
              \/ /\ ItemExists(before, c) /\ before[c].parent # Null
                 /\ calls'[n].id = before[c].parent
         /\ CurrentItem.parent # Null =>
              \E n \in DOMAIN calls' : calls'[n].id = CurrentItem.parent
         /\ ItemExists(before, c) /\ before[c].parent # Null =>
              \E n \in DOMAIN calls' : calls'[n].id = before[c].parent
<1>1. /\ pc = "store" /\ items \in ItemTable
      /\ req \in Requests /\ req.kind = "imports" /\ req.items \in Seq(Item)
      /\ idx \in 1 .. Len(req.items)
      /\ CurrentItem = req.items[idx] /\ CurrentItem \in Item
      /\ c \in Ids /\ CurrentItem.parent \in Parents
      /\ before \in ItemTable
  BY StoreFacts DEF ProgressInv, ForestInv, TypeInv, TypeOK
<1>2. Stored = idx - 1 /\ Handling("imports")
  BY <1>1 DEF Stored, FirstToStore, Handling, Quiet
<1>3. \A j, k \in DOMAIN req.items : req.items[j].id = req.items[k].id => j = k
  BY <1>2 DEF ProgressInv, ProgressInvariant, ImportSoFar
<1>4. \A j \in 1 .. Stored : req.items[j].id # c
  BY <1>1, <1>2, <1>3
<1>5. Shape(items)[c] = Shape(before)[c]
  BY <1>1, <1>2, <1>4, NotStoredStay
<1>6. /\ ItemExists(items, c) <=> ItemExists(before, c)
      /\ ItemExists(items, c) => items[c].parent = before[c].parent
  BY <1>1, <1>5, SamePlace
<1>7. CASE InsertNewItem
  <2>1. ~ItemExists(items, c) /\ ItemSize(CurrentItem) \in Int32
        /\ calls' = ChangeSizeCalls(Null, CurrentItem, ItemSize(CurrentItem))
    BY <1>7 DEF InsertNewItem
  <2>2. Null \in Parents /\ ItemSize(CurrentItem) \in Int
    BY <2>1, TablesAssumption DEF Parents, Int32, MinInt
  <2>3. \E cs : /\ cs = calls'
                /\ \A n \in DOMAIN cs :
                     cs[n].id # Null /\ (cs[n].id = Null \/ cs[n].id = CurrentItem.parent)
                /\ \A q : q # Null /\ (q = Null \/ q = CurrentItem.parent) =>
                         \E n \in DOMAIN cs : cs[n].id = q
    <3>1. PICK it, p, d : it = CurrentItem /\ p = Null /\ d = ItemSize(CurrentItem)
      OBVIOUS
    <3>2. it \in Item /\ p \in Parents /\ d \in Int
      BY <1>1, <2>2, <3>1
    <3>3. \E cs : /\ cs = ChangeSizeCalls(p, it, d)
                  /\ \A n \in DOMAIN cs :
                       cs[n].id # Null /\ (cs[n].id = p \/ cs[n].id = it.parent)
                  /\ \A q : q # Null /\ (q = p \/ q = it.parent) =>
                           \E n \in DOMAIN cs : cs[n].id = q
      BY <3>2, CallsAfterStore, Zenon
    <3> QED
      BY <2>1, <3>1, <3>3
  <2> QED
    BY <1>5, <1>6, <2>1, <2>3
<1>8. CASE UpdateOldItem
  <2>1. PICK p, d : p = items[c].parent /\ d = Wrap(ItemSize(CurrentItem) - items[c].size)
    OBVIOUS
  <2>2. /\ ItemExists(items, c) /\ ItemSize(CurrentItem) \in Int32
        /\ calls' = ChangeSizeCalls(p, CurrentItem, d)
    BY <1>8, <2>1 DEF UpdateOldItem
  <2>3. items[c] \in Row
    BY <1>1, <2>2 DEF ItemTable, ItemExists
  <2>4. p \in Parents /\ ItemSize(CurrentItem) - items[c].size \in Int
    BY <2>1, <2>2, <2>3, TablesAssumption DEF Row, Int32, MinInt
  <2>5. d \in Int
    BY <2>1, <2>4, WrapType
  <2>6. \E cs : /\ cs = calls'
                /\ \A n \in DOMAIN cs :
                     cs[n].id # Null /\ (cs[n].id = p \/ cs[n].id = CurrentItem.parent)
                /\ \A q : q # Null /\ (q = p \/ q = CurrentItem.parent) =>
                         \E n \in DOMAIN cs : cs[n].id = q
    <3>1. PICK it : it = CurrentItem
      OBVIOUS
    <3>2. it \in Item
      BY <1>1, <3>1
    <3>3. \E cs : /\ cs = ChangeSizeCalls(p, it, d)
                  /\ \A n \in DOMAIN cs :
                       cs[n].id # Null /\ (cs[n].id = p \/ cs[n].id = it.parent)
                  /\ \A q : q # Null /\ (q = p \/ q = it.parent) =>
                           \E n \in DOMAIN cs : cs[n].id = q
      BY <2>4, <2>5, <3>2, CallsAfterStore, Zenon
    <3> QED
      BY <2>2, <3>1, <3>3
  <2> QED
    BY <1>5, <1>6, <2>1, <2>2, <2>6
<1> QED
  BY <1>7, <1>8

FootprintInv == ProgressInv /\ TouchesOnlyFootprint /\ CallsInFootprint

(* Between requests no row differs and nothing is called.                  *)
LEMMA QuietFootprint ==
  ASSUME TypeInv', ProgressInvariant', pc' \in Quiet
  PROVE  TouchesOnlyFootprint' /\ CallsInFootprint'
<1>1. items' = before' /\ stack' = <<>> /\ calls' = <<>>
  BY DEF TypeInv, Control, ProgressInvariant, AnswerPending, Quiet, ChangeSteps
<1>2. Range(stack') = {} /\ DOMAIN calls' = {}
  BY <1>1 DEF Range
<1> QED
  BY <1>1, <1>2 DEF TouchesOnlyFootprint, CallsInFootprint

(* A step that changes only rows of the footprint, which does not shrink,  *)
(* and makes its calls within it.                                          *)
LEMMA WithinFootprint ==
  ASSUME FootprintInv, UNCHANGED before, Footprint \subseteq Footprint',
         \A id \in Ids : items'[id] # items[id] => id \in Footprint',
         Range(stack') \subseteq Footprint',
         \A n \in DOMAIN calls' : calls'[n].id \in Footprint'
  PROVE  TouchesOnlyFootprint' /\ CallsInFootprint'
BY DEF FootprintInv, TouchesOnlyFootprint, CallsInFootprint

(* Storing an item stays inside the footprint, and so do the calls of      *)
(* ChangeSize that follow from it.                                         *)
LEMMA StoreFootprint ==
  ASSUME FootprintInv, ProgressInv', InsertNewItem \/ UpdateOldItem
  PROVE  TouchesOnlyFootprint' /\ CallsInFootprint'
<1>1. /\ pc = "store" /\ pc' = "log" /\ UNCHANGED <<req, before>>
      /\ items \in ItemTable /\ items' \in ItemTable
      /\ req.kind = "imports" /\ req.items \in Seq(Item)
      /\ idx \in 1 .. Len(req.items)
      /\ CurrentItem = req.items[idx] /\ CurrentItem.parent \in Parents
      /\ items'[CurrentItem.id] = ItemRow(CurrentItem)
      /\ ItemExists(items', CurrentItem.id)
      /\ \A id \in Ids \ {CurrentItem.id} : items'[id] = items[id]
  BY StoreFacts DEF FootprintInv, ProgressInv, ForestInv
<1>2. PICK c : c = CurrentItem.id
  OBVIOUS
<1>3. PICK N : N = NamedIds
  OBVIOUS
<1>4. TypeInv /\ before \in ItemTable /\ pc \notin Quiet
  BY <1>1 DEF FootprintInv, ProgressInv, ForestInv, TypeInv, TypeOK, Quiet
<1>5. /\ N \in SUBSET Ids /\ Footprint = Paths(before, items, N)
      /\ N = {req.items[j].id : j \in 1 .. Len(req.items)}
  BY <1>1, <1>3, <1>4, NamedFacts
<1>6. c \in N
  BY <1>1, <1>2, <1>5
<1>7. NamedIds' = N
  BY <1>1, <1>3 DEF NamedIds
<1>8. Footprint' = Paths(before, items', N)
  <2>1. Footprint' = UNION {Ancestors(before, id) \cup Ancestors(items', id) : id \in N}
    BY <1>1, <1>7 DEF Footprint
  <2> QED
    BY <2>1 DEF Paths
<1>9. \A y \in Ids \ N : ItemExists(items, y) =>
        ItemExists(before, y) /\ before[y].parent = items[y].parent
  BY <1>3, <1>4, UnnamedStay DEF FootprintInv
<1>10. \A y \in Ids \ N : ItemExists(items', y) =>
         ItemExists(before, y) /\ before[y].parent = items'[y].parent
  BY <1>1, <1>2, <1>6, <1>9 DEF ItemExists
<1>11. /\ Shape(items)[c] = Shape(before)[c]
       /\ \A n \in DOMAIN calls' :
            \/ calls'[n].id = CurrentItem.parent /\ CurrentItem.parent # Null
            \/ /\ ItemExists(before, c) /\ before[c].parent # Null
               /\ calls'[n].id = before[c].parent
  BY <1>2, StoreCalls DEF FootprintInv
<1>12. ItemExists(items, c) => ItemExists(before, c) /\ before[c].parent = items[c].parent
  BY <1>1, <1>4, <1>5, <1>6, <1>11, SamePlace
<1>13. Footprint \subseteq Footprint'
  BY <1>1, <1>2, <1>4, <1>5, <1>6, <1>8, <1>10, <1>12, PathsGrow
<1>14. N \subseteq Footprint' /\ ClosedAbove(items', Footprint')
  BY <1>1, <1>4, <1>5, <1>8, <1>10, PathsClosed
<1>15. ItemExists(before, c) => before[c].parent \in Footprint' \cup {Null}
  <2>1. c \in Ancestors(before, c) /\ ClosedAbove(before, Ancestors(before, c))
    BY <1>4, <1>5, <1>6, AncestorsFacts
  <2>2. Ancestors(before, c) \subseteq Footprint'
    BY <1>6, <1>8 DEF Paths
  <2> QED
    BY <2>1, <2>2 DEF ClosedAbove
<1>16. CurrentItem.parent \in Footprint' \cup {Null}
  <2>1. items'[c].parent = CurrentItem.parent
    BY <1>1, <1>2 DEF ItemRow
  <2> QED
    BY <1>1, <1>2, <1>6, <1>14, <2>1 DEF ClosedAbove
<1>17. stack' = <<>> /\ Range(stack') = {}
  <2>1. stack' = <<>>
    BY <1>1 DEF ProgressInv, ForestInv, TypeInv, Control, ChangeSteps
  <2> QED
    BY <2>1 DEF Range
<1>18. \A n \in DOMAIN calls' : calls'[n].id \in Footprint'
  BY <1>11, <1>15, <1>16
<1>19. \A id \in Ids : items'[id] # items[id] => id \in Footprint'
  BY <1>1, <1>2, <1>6, <1>14
<1> QED
  BY <1>1, <1>13, <1>17, <1>18, <1>19, WithinFootprint

(* When a request begins nothing is touched; the parent of an item that    *)
(* is deleted is above it.                                                 *)
LEMMA BeginFootprint ==
  ASSUME FootprintInv, ProgressInv', NEW r \in Requests, BeginImport(r) \/ BeginDelete(r)
  PROVE  TouchesOnlyFootprint' /\ CallsInFootprint'
<1>1. /\ pc = "idle" /\ items = before /\ UNCHANGED <<items, before, stack>>
      /\ items \in ItemTable /\ req' = r
      /\ calls = <<>> /\ stack = <<>>
  BY DEF BeginImport, BeginDelete, Receive, tables, FootprintInv, ProgressInv,
     ProgressInvariant, AnswerPending, ForestInv, TypeInv, TypeOK, Control, Quiet,
     ChangeSteps
<1>2. Range(stack') = {}
  BY <1>1 DEF Range
<1>3. TouchesOnlyFootprint'
  BY <1>1 DEF TouchesOnlyFootprint
<1>4. CASE BeginImport(r)
  <2>1. DOMAIN calls' = {}
    BY <1>1, <1>4 DEF BeginImport
  <2> QED
    BY <1>2, <1>3, <2>1 DEF CallsInFootprint
<1>5. CASE BeginDelete(r)
  <2>1. /\ r.kind = "delete" /\ ItemExists(items, r.id)
        /\ calls' = IF items[r.id].parent = Null THEN <<>>
                    ELSE <<[id |-> items[r.id].parent, delta |-> 0]>>
    BY <1>5 DEF BeginDelete
  <2>2. r.id \in Ids /\ r # Null
    BY <2>1, RequestFacts, ShapeAssumption
  <2>3. /\ r.id \in Ancestors(items, r.id)
        /\ ClosedAbove(items, Ancestors(items, r.id))
    BY <1>1, <2>2, AncestorsFacts
  <2>4. NamedIds' = {r.id}
    BY <1>1, <2>1, <2>2 DEF NamedIds
  <2>5. Ancestors(items, r.id) \subseteq Footprint'
    BY <1>1, <2>4 DEF Footprint
  <2>6. \A n \in DOMAIN calls' :
          calls'[n].id = items[r.id].parent /\ items[r.id].parent # Null
    BY <2>1
  <2> QED
    BY <1>2, <1>3, <2>1, <2>3, <2>5, <2>6 DEF CallsInFootprint, ClosedAbove
<1> QED
  BY <1>4, <1>5

(* ChangeSize stays above the item it was called for.                      *)
LEMMA ChangeSizeFootprint ==
  ASSUME FootprintInv, ProgressInv', CallChangeSize \/ ChangeSizeStep
  PROVE  TouchesOnlyFootprint' /\ CallsInFootprint'
<1>1. /\ pc \in ChangeSteps /\ pc \notin Quiet /\ UNCHANGED <<req, before>>
      /\ items \in ItemTable /\ items' \in ItemTable /\ before \in ItemTable
      /\ TypeInv /\ stack \in Seq(Ids) /\ calls \in Seq(Call)
  BY DEF CallChangeSize, ChangeSizeStep, Climb, Resize, Redate, Record, ChangeSteps,
     Quiet, volatile, FootprintInv, ProgressInv, ForestInv, TypeInv, TypeOK
<1>2. /\ Footprint \subseteq Ids /\ ClosedAbove(items, Footprint)
      /\ Range(stack) \subseteq Footprint
      /\ \A n \in DOMAIN calls : calls[n].id \in Footprint
  BY <1>1, FootprintFacts DEF FootprintInv, CallsInFootprint
<1>3. ASSUME items' = items
      PROVE  Footprint' = Footprint
  BY <1>1, <1>3 DEF Footprint, NamedIds
<1>4. CASE CallChangeSize
  <2>1. items' = items /\ calls' = calls /\ calls # <<>> /\ stack' = <<Head(calls).id>>
    BY <1>4 DEF CallChangeSize, tables
  <2>2. 1 \in DOMAIN calls /\ Head(calls) = calls[1]
    BY <1>1, <2>1
  <2>3. DOMAIN stack' = {1} /\ stack'[1] = calls[1].id
    BY <2>1, <2>2
  <2>4. Range(stack') = {calls[1].id}
    BY <2>3 DEF Range
  <2> QED
    BY <1>1, <1>2, <1>3, <2>1, <2>2, <2>4, WithinFootprint
<1>5. CASE Climb
  <2>1. /\ items' = items /\ calls' = calls
        /\ ItemExists(items, Last(stack))
        /\ \/ stack' = stack
           \/ /\ items[Last(stack)].parent # Null
              /\ stack' = Append(stack, items[Last(stack)].parent)
    BY <1>5 DEF Climb, tables
  <2>2. stack # <<>>
    BY <1>1, <1>5 DEF Climb, TypeInv, Control, ChangeSteps
  <2>3. Last(stack) \in Footprint
    BY <1>1, <1>2, <2>2, RangeFacts
  <2>4. items[Last(stack)].parent \in Footprint \cup {Null}
    BY <1>2, <2>1, <2>3 DEF ClosedAbove
  <2>5. Range(stack') \subseteq Footprint
    <3>1. CASE stack' = Append(stack, items[Last(stack)].parent)
               /\ items[Last(stack)].parent # Null
      <4>1. items[Last(stack)].parent \in Ids /\ items[Last(stack)].parent \in Footprint
        BY <1>2, <2>4, <3>1
      <4>2. Range(stack') = Range(stack) \cup {items[Last(stack)].parent}
        BY <1>1, <3>1, <4>1, RangeFacts
      <4> QED
        BY <1>2, <4>1, <4>2
    <3> QED
      BY <1>2, <2>1, <3>1
  <2> QED
    BY <1>1, <1>2, <1>3, <2>1, <2>5, WithinFootprint
<1>6. CASE Resize \/ Redate
  <2>1. Shape(items') = Shape(items) /\ UNCHANGED <<stack, calls>>
    BY <1>1, <1>6, ChangeKeepsShape DEF Resize, Redate, volatile
  <2>2. NamedIds' = NamedIds /\ NamedIds \subseteq Ids
    BY <1>1, NamedFacts DEF NamedIds
  <2>3. \A id \in Ids : Ancestors(items', id) = Ancestors(items, id)
    BY <1>1, <2>1, SameAncestors
  <2>4. \A id \in NamedIds : Ancestors(items', id) = Ancestors(items, id)
    BY <2>2, <2>3
  <2>5. Footprint' = Footprint
    <3>1. {Ancestors(before, id) \cup Ancestors(items', id) : id \in NamedIds}
            = {Ancestors(before, id) \cup Ancestors(items, id) : id \in NamedIds}
      BY <2>4
    <3>2. PICK A : A = {Ancestors(before, id) \cup Ancestors(items, id) : id \in NamedIds}
      OBVIOUS
    <3>3. PICK D : D = IF req # Null /\ req.kind = "delete"
                       THEN Descendants(before, req.id) ELSE {}
      OBVIOUS
    <3>4. Footprint = (UNION A) \cup D
      BY <3>2, <3>3 DEF Footprint
    <3>5. Footprint' = (UNION A) \cup D
      BY <1>1, <2>2, <3>1, <3>2, <3>3 DEF Footprint
    <3> QED
      BY <3>4, <3>5
  <2>6. stack # <<>> /\ Last(stack) \in Ids
    BY <1>1, <1>6, ClimbFacts DEF Resize, Redate, TypeInv, Control, ChangeSteps
  <2>7. Last(stack) \in Footprint
    BY <1>1, <1>2, <2>6, RangeFacts
  <2>8. \A id \in Ids : items'[id] # items[id] => id = Last(stack)
    BY <1>1, <1>6, <2>6 DEF Resize, Redate, AddSize, SetDate, ItemTable
  <2> QED
    BY <1>1, <1>2, <2>1, <2>5, <2>7, <2>8, WithinFootprint
<1>7. CASE Record
  <2>1. /\ items' = items /\ stack' = Front(stack) /\ calls' \in {calls, Tail(calls)}
        /\ stack # <<>> /\ calls # <<>>
    BY <1>1, <1>7 DEF Record, TypeInv, Control, ChangeSteps
  <2>2. Range(stack') \subseteq Footprint
    BY <1>1, <1>2, <2>1, RangeFacts
  <2>3. \A n \in DOMAIN calls' : calls'[n].id \in Footprint
    BY <1>1, <1>2, <2>1, RangeFacts
  <2> QED
    BY <1>1, <1>3, <2>1, <2>2, <2>3, WithinFootprint
<1> QED
  BY <1>4, <1>5, <1>6, <1>7 DEF ChangeSizeStep

(* A deletion stays inside the subtree.                                    *)
LEMMA DeleteFootprint ==
  ASSUME FootprintInv, ProgressInv', DeleteStep
  PROVE  TouchesOnlyFootprint' /\ CallsInFootprint'
<1>1. /\ pc \in DeleteSteps /\ pc \notin Quiet /\ UNCHANGED <<req, before, stack>>
      /\ items \in ItemTable /\ items' \in ItemTable /\ before \in ItemTable
      /\ TypeInv /\ calls \in Seq(Call)
  BY DEF DeleteStep, Descend, DeleteRow, EraseHistory, DeleteSteps, Quiet, FootprintInv,
     ProgressInv, ForestInv, TypeInv, TypeOK
<1>2. /\ req \in Requests /\ req.kind = "delete" /\ req # Null
      /\ req.id \in Ids /\ NamedIds = {req.id}
      /\ Footprint = Paths(before, items, NamedIds) \cup Descendants(before, req.id)
  BY <1>1, NamedFacts DEF TypeInv, Control
<1>3. /\ Range(stack) \subseteq Footprint
      /\ \A n \in DOMAIN calls : calls[n].id \in Footprint
  BY DEF FootprintInv, CallsInFootprint
<1>4. CASE items' = items /\ calls' = calls
  <2>1. Footprint' = Footprint
    BY <1>1, <1>4 DEF Footprint, NamedIds
  <2> QED
    BY <1>1, <1>3, <1>4, <2>1, WithinFootprint
<1>5. CASE DeleteRow
  <2>1. /\ items' = [items EXCEPT ![Last(frames).id] = NoRow]
        /\ \/ calls' = calls
           \/ calls # <<>> /\ \E d : calls' = [calls EXCEPT ![1].delta = d]
    BY <1>5 DEF DeleteRow, DeleteItem
  <2>2. PICK A, D : A = Ancestors(before, req.id) /\ D = Descendants(before, req.id)
    OBVIOUS
  <2>3. Last(frames).id \in D /\ Last(frames).id \in Ids
    <3>1. /\ frames \in Seq(Frame) /\ Len(frames) \in Nat \ {0}
          /\ Last(frames) \in Frame /\ Last(frames) = frames[Len(frames)]
      BY <1>1, DeleteFacts
    <3>2. Len(frames) \in DOMAIN frames
      BY <3>1
    <3>3. \A n \in DOMAIN frames : frames[n].id \in D
      BY <1>1, <1>2, <2>2 DEF FootprintInv, ProgressInv, ProgressInvariant,
         DeletionSoFar, Handling
    <3> QED
      BY <3>1, <3>2, <3>3 DEF Frame
  <2>4. /\ \A y \in Ids : ItemExists(items, y) =>
             ItemExists(before, y) /\ before[y].parent = items[y].parent
        /\ \A y \in Ids : ItemExists(items', y) =>
             ItemExists(before, y) /\ before[y].parent = items'[y].parent
    <3>1. \A y \in Ids : ItemExists(items, y) =>
            ItemExists(before, y) /\ before[y].parent = items[y].parent
      BY <1>1, <1>2, UnnamedStay DEF FootprintInv
    <3>2. \A y \in Ids : items'[y] = items[y] \/ items'[y] = NoRow
      BY <1>1, <2>1, <2>3 DEF ItemTable
    <3> QED
      BY <3>1, <3>2 DEF ItemExists
  <2>5. Ancestors(items, req.id) \subseteq A /\ Ancestors(items', req.id) \subseteq A
    BY <1>1, <1>2, <2>2, <2>4, FewerAncestors
  <2>6. Footprint = A \cup D
    <3>1. Paths(before, items, {req.id}) = A
      BY <2>2, <2>5 DEF Paths
    <3> QED
      BY <1>2, <2>2, <3>1
  <2>7. Footprint' = A \cup D
    <3>1. NamedIds' = {req.id}
      BY <1>1, <1>2 DEF NamedIds
    <3>2. Paths(before, items', {req.id}) = A
      BY <2>2, <2>5 DEF Paths
    <3>3. Footprint' = Paths(before, items', {req.id}) \cup D
      BY <1>1, <1>2, <2>2, <3>1 DEF Footprint, Paths
    <3> QED
      BY <3>2, <3>3
  <2>8. \A id \in Ids : items'[id] # items[id] => id \in D
    BY <1>1, <2>1, <2>3 DEF ItemTable
  <2>9. \A n \in DOMAIN calls' : n \in DOMAIN calls /\ calls'[n].id = calls[n].id
    <3>1. \A n \in DOMAIN calls : calls[n] \in Call
      BY <1>1
    <3> QED
      BY <2>1, <3>1 DEF Call
  <2> QED
    BY <1>1, <1>3, <2>6, <2>7, <2>8, <2>9, WithinFootprint
<1> QED
  BY <1>4, <1>5 DEF DeleteStep, Descend, EraseHistory, tables

(* Every step of the handlers stays inside the footprint.                  *)
LEMMA StepFootprint == FootprintInv /\ [Next]_vars => FootprintInv'
<1> SUFFICES ASSUME FootprintInv, [Next]_vars
             PROVE  FootprintInv'
  OBVIOUS
<1>1. ProgressInv' /\ TypeInv' /\ ProgressInvariant'
  BY StepProgress DEF FootprintInv, ProgressInv, ForestInv
<1>2. SUFFICES TouchesOnlyFootprint' /\ CallsInFootprint'
  BY <1>1 DEF FootprintInv
<1>3. CASE UNCHANGED <<items, before, req, stack, calls>>
  <2>1. Footprint' = Footprint
    BY <1>3 DEF Footprint, NamedIds
  <2> QED
    BY <1>3, <2>1 DEF FootprintInv, TouchesOnlyFootprint, CallsInFootprint
<1>4. CASE pc' \in Quiet
  BY <1>1, <1>4, QuietFootprint
<1>5. CASE \E r \in Requests : BeginImport(r) \/ BeginDelete(r)
  BY <1>1, <1>5, BeginFootprint
<1>6. CASE InsertNewItem \/ UpdateOldItem
  BY <1>1, <1>6, StoreFootprint
<1>7. CASE CallChangeSize \/ ChangeSizeStep
  BY <1>1, <1>7, ChangeSizeFootprint
<1>8. CASE DeleteStep
  BY <1>1, <1>8, DeleteFootprint
<1>9. CASE LogItem \/ NextItem
  BY <1>3, <1>9 DEF LogItem, NextItem, tables, volatile
<1>10. CASE \E r \in Requests : RejectImport(r) \/ ThrowInValidation(r) \/ RejectDelete(r)
  BY <1>4, <1>10 DEF RejectImport, ThrowInValidation, RejectDelete, Receive,
     AnswerAtOnce, Quiet
<1>11. CASE Finish \/ Fault \/ Crash \/ Restart
  BY <1>4, <1>11 DEF Finish, Fault, Crash, Restart, Die, Quiet
<1>12. CASE UNCHANGED vars
  BY <1>3, <1>12 DEF vars
<1> QED
  BY <1>5, <1>6, <1>7, <1>8, <1>9, <1>10, <1>11, <1>12
     DEF Next, Arrive, HandlerStep, ImportStep

(* A request, finished or cut short, leaves every row as it was but those  *)
(* of the items it names, of their ancestors before the request and now,   *)
(* and of the subtree a deletion is for (Main.cpp:62-70, 96-117, 133-136). *)
THEOREM OnlyFootprintTouched == Spec => []TouchesOnlyFootprint
<1>1. Init => FootprintInv
  <2> SUFFICES ASSUME Init PROVE FootprintInv
    OBVIOUS
  <2>1. items = before /\ Range(stack) = {} /\ DOMAIN calls = {}
    BY DEF Init, Range
  <2> QED
    BY <2>1, InitProgress DEF FootprintInv, TouchesOnlyFootprint, CallsInFootprint
<1>2. FootprintInv => TouchesOnlyFootprint
  BY DEF FootprintInv
<1> QED
  BY <1>1, <1>2, StepFootprint, PTL DEF Spec
-----------------------------------------------------------------------------
(***************************************************************************)
(* The dates above the items a request names.                              *)
(***************************************************************************)

DatesInv == ProgressInv /\ DatesInvariant

(* Where the paths of a request lead does not depend on what it moves.     *)
LEMMA UnmovedFacts ==
  ASSUME ProgressInv, Handling("imports")
  PROVE  /\ Unmoved \in ItemTable
         /\ NamedIds \in SUBSET Ids
         /\ \A y \in Ids : ItemExists(Unmoved, y) =>
              /\ y \notin NamedIds
              /\ ItemExists(before, y) /\ before[y].parent = Unmoved[y].parent
              /\ ItemExists(items, y) /\ items[y].parent = Unmoved[y].parent
         /\ \A y \in Ids \ NamedIds : ItemExists(before, y) =>
              ItemExists(Unmoved, y) /\ Unmoved[y].parent = before[y].parent
         /\ \A y \in Ids \ NamedIds : ItemExists(items, y) =>
              ItemExists(Unmoved, y) /\ Unmoved[y].parent = items[y].parent
<1>1. /\ TypeInv /\ before \in ItemTable /\ items \in ItemTable
      /\ pc \notin Quiet /\ req.kind = "imports"
  BY DEF ProgressInv, ForestInv, TypeInv, TypeOK, Handling
<1>2. /\ NamedIds \in SUBSET Ids
      /\ NamedIds = {req.items[j].id : j \in 1 .. Len(req.items)}
  BY <1>1, NamedFacts
<1>3. Unmoved \in ItemTable
  BY <1>1 DEF Unmoved, ItemTable
<1>4. \A y \in Ids : Unmoved[y] = IF y \in NamedIds THEN NoRow ELSE before[y]
  BY DEF Unmoved
<1>5. Stored \in 0 .. Len(req.items)
  BY ImportMaps
<1>6. ASSUME NEW y \in Ids \ NamedIds
      PROVE  Shape(items)[y] = Shape(before)[y]
  <2>1. \A j \in 1 .. Stored : req.items[j].id # y
    BY <1>2, <1>5, <1>6
  <2> QED
    BY <2>1, NotStoredStay
<1>7. \A y \in Ids \ NamedIds :
        /\ ItemExists(items, y) <=> ItemExists(before, y)
        /\ ItemExists(items, y) => items[y].parent = before[y].parent
  BY <1>1, <1>6, SamePlace
<1> QED
  BY <1>2, <1>3, <1>4, <1>7 DEF ItemExists

(* Once nothing is left to be called for an item, what is above its        *)
(* parents, up to the next item the request names, is dated.               *)
LEMMA SubjectDated ==
  ASSUME DatesInv, Handling("imports"), pc = "next", calls = <<>>,
         NEW p \in ParentsOf(req.items[idx].id)
  PROVE  Ancestors(Unmoved, p) \subseteq Dated
<1>1. /\ items \in ItemTable /\ before \in ItemTable /\ TypeInv
      /\ req.kind = "imports" /\ pc \notin Quiet
  BY DEF DatesInv, ProgressInv, ForestInv, TypeInv, TypeOK, Handling
<1>2. Subject = req.items[idx].id /\ Subject \in Ids
  <2>1. req.items \in Seq(Item) /\ idx \in 1 .. Len(req.items)
    BY <1>1, NamedFacts
  <2>2. req.items[idx] \in Item
    BY <2>1
  <2> QED
    BY <1>1, <2>2 DEF Subject, CurrentItem, Item
<1>3. Ancestors(items, p) \subseteq Dated
  BY <1>1, <1>2 DEF DatesInv, DatesInvariant, PathsDated
<1>4. p \in Ids
  BY <1>1, <1>2 DEF ParentsOf, ItemTable, ItemExists, Row, Parents
<1>5. Ancestors(Unmoved, p) \subseteq Ancestors(items, p)
  BY <1>1, <1>4, UnmovedFacts, FewerAncestors DEF DatesInv
<1> QED
  BY <1>3, <1>5

(* A step of the request that moves no item, and finishes a call only when *)
(* what is above it is dated.                                              *)
LEMMA FramePaths ==
  ASSUME DatesInv, ProgressInv', UNCHANGED <<req, before, idx>>, Stored' = Stored,
         pc \notin Quiet, pc' \notin Quiet, pc # "store", pc' # "store",
         \A x \in Ids : ItemExists(items', x) =>
           /\ ItemExists(items, x) /\ items'[x].parent = items[x].parent
           /\ items'[x].date \in {items[x].date, req.date},
         \A n \in DOMAIN calls :
           \/ \E m \in DOMAIN calls' : calls'[m].id = calls[n].id
           \/ Ancestors(items, calls[n].id) \subseteq Dated
  PROVE  PathsDated' /\ Dated \subseteq Dated'
<1>1. /\ items \in ItemTable /\ items' \in ItemTable /\ before \in ItemTable /\ TypeInv
  BY DEF DatesInv, ProgressInv, ForestInv, TypeInv, TypeOK
<1>2. Dated \subseteq Dated'
  BY DEF Dated
<1>3. NamedIds' = NamedIds /\ Unmoved' = Unmoved /\ Subject' = Subject
  BY DEF NamedIds, Unmoved, Subject, CurrentItem
<1>4. \A id \in Ids : ParentsOf(id)' \subseteq ParentsOf(id)
  BY DEF ParentsOf
<1>5. \A id \in Ids : ParentsOf(id) \subseteq Ids
  BY <1>1 DEF ParentsOf, ItemTable, ItemExists, Row, Parents
<1>6. /\ req.kind = "imports" =>
           /\ req.items \in Seq(Item) /\ idx \in 1 .. Len(req.items)
           /\ Stored \in 0 .. Len(req.items)
      /\ req.kind = "delete" => req.id \in Ids
      /\ req.kind \in {"imports", "delete"}
  BY <1>1, NamedFacts, ImportMaps DEF DatesInv, Handling
<1>7. Subject \in Ids
  <2>1. CASE req.kind = "imports"
    <3>1. req.items[idx] \in Item
      BY <1>6, <2>1
    <3> QED
      BY <2>1, <3>1 DEF Subject, CurrentItem, Item
  <2>2. CASE req.kind = "delete"
    BY <1>6, <2>2 DEF Subject
  <2> QED
    BY <1>6, <2>1, <2>2
<1>8. ASSUME NEW p \in ParentsOf(Subject)'
      PROVE  \/ \E n \in DOMAIN calls' : calls'[n].id = p
             \/ Ancestors(items', p) \subseteq Dated'
  <2>1. p \in ParentsOf(Subject) /\ p \in Ids
    BY <1>3, <1>4, <1>5, <1>7, <1>8
  <2>2. \/ \E n \in DOMAIN calls : calls[n].id = p
        \/ Ancestors(items, p) \subseteq Dated
    BY <2>1 DEF DatesInv, DatesInvariant, PathsDated
  <2>3. Ancestors(items', p) \subseteq Ancestors(items, p)
    BY <1>1, <2>1, FewerAncestors
  <2> QED
    BY <1>2, <2>2, <2>3
<1>9. ASSUME req.kind = "imports"
      PROVE  /\ \A j \in 1 .. Stored : req.items[j].id \in Dated'
             /\ \A j \in 1 .. idx - 1 : \A p \in ParentsOf(req.items[j].id)' :
                  Ancestors(Unmoved, p) \subseteq Dated'
  <2>1. \A j \in 1 .. idx - 1 : req.items[j].id \in Ids
    <3>1. ASSUME NEW j \in 1 .. idx - 1
          PROVE  req.items[j] \in Item
      BY <1>6, <1>9, <3>1
    <3> QED
      BY <3>1 DEF Item
  <2>2. /\ \A j \in 1 .. Stored : req.items[j].id \in Dated
        /\ \A j \in 1 .. idx - 1 : \A p \in ParentsOf(req.items[j].id) :
             Ancestors(Unmoved, p) \subseteq Dated
    BY <1>9 DEF DatesInv, DatesInvariant, PathsDated
  <2> QED
    BY <1>2, <1>4, <2>1, <2>2
<1>10. PathsDated'
  BY <1>3, <1>8, <1>9 DEF PathsDated
<1> QED
  BY <1>2, <1>10

(* ChangeSize gives an item the date of the request or leaves it its own. *)
LEMMA ChangeDates ==
  ASSUME TypeInv, Resize \/ Redate
  PROVE  /\ \A x \in Ids : ItemExists(items', x) =>
              /\ ItemExists(items, x) /\ items'[x].parent = items[x].parent
              /\ items'[x].date \in {items[x].date, req.date}
         /\ Redate => Last(stack) \in Dated'
<1>1. pc \in ChangeSteps \ {"next"} /\ req' = req
  BY DEF Resize, Redate, ChangeSteps, volatile
<1>2. /\ Last(stack) \in Ids /\ Head(calls) \in Call /\ req.date \in Dates
      /\ items \in ItemTable
  BY <1>1, ClimbFacts DEF TypeInv, TypeOK
<1>3. /\ \A id \in Ids : ItemExists(items', id) <=> ItemExists(items, id)
      /\ \A id \in Ids : ItemExists(items, id) =>
           items'[id].parent = items[id].parent
  BY ChangedRows
<1>4. ASSUME NEW x \in Ids, ItemExists(items, x)
      PROVE  items'[x].date \in {items[x].date, req.date}
  <2>1. items[x] \in Row
    BY <1>2, <1>4 DEF ItemTable, ItemExists
  <2>2. \/ items'[x] = items[x]
        \/ items'[x] = [items[x] EXCEPT !.size = @ + Head(calls).delta]
        \/ items'[x] = [items[x] EXCEPT !.date = req.date]
    BY <1>2 DEF Resize, Redate, AddSize, SetDate, ItemTable
  <2> QED
    BY <2>1, <2>2 DEF Row
<1>5. ASSUME Redate
      PROVE  Last(stack) \in Dated'
  <2>1. CASE ItemExists(items, Last(stack))
    <3>1. items[Last(stack)] \in Row
      BY <1>2, <2>1 DEF ItemTable, ItemExists
    <3>2. items'[Last(stack)] = [items[Last(stack)] EXCEPT !.date = req.date]
      BY <1>2, <1>5, <2>1 DEF Redate, SetDate, ItemTable
    <3>3. items'[Last(stack)].date = req.date
      BY <3>1, <3>2 DEF Row
    <3> QED
      BY <1>1, <1>2, <3>3 DEF Dated
  <2>2. CASE ~ItemExists(items, Last(stack))
    BY <1>2, <1>3, <2>2 DEF Dated
  <2> QED
    BY <2>1, <2>2
<1> QED
  BY <1>3, <1>4, <1>5

(* At the top of the forest the stack has all that is above its first item. *)
LEMMA TopReached ==
  ASSUME TypeInv, Climb, StackIsPath, items[Last(stack)].parent = Null
  PROVE  Ancestors(items, Head(calls).id) \subseteq Range(stack)
<1>1. /\ pc = "climb" /\ items \in ItemTable /\ stack \in Seq(Ids) /\ stack # <<>>
      /\ ItemExists(items, Last(stack)) /\ Head(calls) \in Call
  BY ClimbFacts DEF Climb, TypeInv, TypeOK, Control, ChangeSteps
<1>2. /\ stack[1] = Head(calls).id
      /\ \A n \in 1 .. Len(stack) - 1 :
           ItemExists(items, stack[n]) /\ items[stack[n]].parent = stack[n + 1]
  BY <1>1 DEF StackIsPath
<1>3. /\ Len(stack) \in Nat \ {0} /\ Last(stack) = stack[Len(stack)]
      /\ Range(stack) = {stack[n] : n \in 1 .. Len(stack)}
  BY <1>1, FrontFacts DEF Last, Range
<1>4. Range(stack) \in SUBSET Ids /\ Head(calls).id \in Range(stack)
  BY <1>1, <1>2, <1>3
<1>5. ASSUME NEW x \in Range(stack)
      PROVE  items[x].parent \in Range(stack) \cup {Null}
  <2>1. PICK n \in 1 .. Len(stack) : x = stack[n]
    BY <1>3, <1>5
  <2>2. CASE n = Len(stack)
    BY <1>3, <2>1, <2>2
  <2>3. CASE n # Len(stack)
    <3>1. n \in 1 .. Len(stack) - 1 /\ n + 1 \in 1 .. Len(stack)
      BY <1>3, <2>1, <2>3
    <3> QED
      BY <1>2, <1>3, <2>1, <3>1
  <2> QED
    BY <2>2, <2>3
<1>6. ClosedAbove(items, Range(stack))
  BY <1>5 DEF ClosedAbove
<1> QED
  BY <1>4, <1>6, AncestorsLeast

(* The way up: a call that was pending is on the stack, and whatever is    *)
(* above the top of the stack is yet to come.                              *)
LEMMA ClimbDates ==
  ASSUME DatesInv, ProgressInv', LogItem \/ CallChangeSize \/ Climb
  PROVE  DatesInvariant'
<1>1. /\ TypeInv /\ UNCHANGED <<items, req, before, idx, calls>>
      /\ pc \notin Quiet /\ pc' \notin Quiet /\ pc # "store" /\ pc' # "store"
      /\ Stored' = Stored
  BY DEF LogItem, CallChangeSize, Climb, tables, volatile, Quiet, Stored, FirstToStore,
     DatesInv, ProgressInv, ForestInv
<1>2. PathsDated'
  BY <1>1, FramePaths
<1>3. CASE LogItem
  BY <1>2, <1>3 DEF LogItem, StackIsPath, DatesInvariant
<1>4. CASE CallChangeSize
  <2>1. stack' = <<Head(calls).id>> /\ pc' = "climb" /\ calls' = calls
    BY <1>4 DEF CallChangeSize
  <2>2. Len(stack') = 1 /\ stack'[1] = Head(calls').id
    BY <2>1
  <2> QED
    BY <1>2, <2>1, <2>2 DEF StackIsPath, DatesInvariant
<1>5. CASE Climb
  <2>1. /\ pc = "climb" /\ stack \in Seq(Ids) /\ stack # <<>> /\ items \in ItemTable
        /\ ItemExists(items, Last(stack)) /\ StackIsPath
    BY <1>1, <1>5 DEF Climb, TypeInv, TypeOK, Control, ChangeSteps, DatesInv,
       DatesInvariant
  <2>2. CASE items[Last(stack)].parent = Null
    <3>1. Ancestors(items, Head(calls).id) \subseteq Range(stack)
      BY <1>1, <1>5, <2>1, <2>2, TopReached
    <3>2. pc' = "resize" /\ stack' = stack
      BY <1>5, <2>2 DEF Climb
    <3> QED
      BY <1>1, <1>2, <3>1, <3>2 DEF StackIsPath, DatesInvariant
  <2>3. CASE items[Last(stack)].parent # Null
    <3>1. pc' = "climb" /\ stack' = Append(stack, items[Last(stack)].parent)
      BY <1>5, <2>1, <2>3 DEF Climb
    <3>2. Last(stack) \in Ids /\ Last(stack) = stack[Len(stack)] /\ Len(stack) \in Nat \ {0}
      BY <2>1, FrontFacts DEF Last
    <3>3. items[Last(stack)].parent \in Ids
      BY <2>1, <2>3, <3>2 DEF ItemTable, ItemExists, Row, Parents
    <3>4. /\ Len(stack') = Len(stack) + 1
          /\ \A n \in 1 .. Len(stack) : stack'[n] = stack[n]
          /\ stack'[Len(stack) + 1] = items[Last(stack)].parent
      BY <2>1, <3>1, <3>3
    <3>5. /\ stack[1] = Head(calls).id
          /\ \A n \in 1 .. Len(stack) - 1 :
               ItemExists(items, stack[n]) /\ items[stack[n]].parent = stack[n + 1]
      BY <2>1 DEF StackIsPath
    <3>6. ASSUME NEW n \in 1 .. Len(stack') - 1
          PROVE  ItemExists(items, stack'[n]) /\ items[stack'[n]].parent = stack'[n + 1]
      <4>1. CASE n = Len(stack)
        BY <2>1, <3>2, <3>4, <4>1
      <4>2. CASE n # Len(stack)
        <5>1. n \in 1 .. Len(stack) - 1 /\ n \in 1 .. Len(stack) /\ n + 1 \in 1 .. Len(stack)
          BY <3>2, <3>4, <3>6, <4>2
        <5> QED
          BY <3>4, <3>5, <5>1
      <4> QED
        BY <4>1, <4>2
    <3>7. stack'[1] = Head(calls').id
      BY <1>1, <3>2, <3>4, <3>5
    <3> QED
      BY <1>1, <1>2, <3>1, <3>6, <3>7 DEF StackIsPath, DatesInvariant
  <2> QED
    BY <2>2, <2>3
<1> QED
  BY <1>3, <1>4, <1>5

(* The way down: an item leaves the stack only when it is dated.           *)
LEMMA ChangeSizeDates ==
  ASSUME DatesInv, ProgressInv', Resize \/ Redate
  PROVE  DatesInvariant'
<1>1. /\ TypeInv /\ UNCHANGED <<req, before, idx, calls, stack>>
      /\ pc \notin Quiet /\ pc' \notin Quiet /\ pc # "store" /\ pc' # "store"
      /\ Stored' = Stored /\ pc \in {"resize", "redate"} /\ pc' \in {"redate", "record"}
      /\ pc' = "record" => Redate
      /\ items \in ItemTable /\ items' \in ItemTable
  BY DEF Resize, Redate, volatile, Quiet, Stored, FirstToStore, DatesInv, ProgressInv,
     ForestInv, TypeInv, TypeOK
<1>2. /\ \A x \in Ids : ItemExists(items', x) =>
           /\ ItemExists(items, x) /\ items'[x].parent = items[x].parent
           /\ items'[x].date \in {items[x].date, req.date}
      /\ Redate => Last(stack) \in Dated'
  BY <1>1, ChangeDates
<1>3. PathsDated' /\ Dated \subseteq Dated'
  BY <1>1, <1>2, FramePaths
<1>4. Head(calls).id \in Ids
  BY <1>1, ClimbFacts DEF ChangeSteps, Call
<1>5. Ancestors(items', Head(calls).id) = Ancestors(items, Head(calls).id)
  BY <1>1, <1>4, ChangeKeepsShape, SameAncestors
<1>6. Ancestors(items, Head(calls).id) \subseteq Range(stack) \cup Dated
  BY <1>1 DEF DatesInv, DatesInvariant, StackIsPath
<1>7. StackIsPath'
  BY <1>1, <1>2, <1>3, <1>5, <1>6 DEF StackIsPath
<1> QED
  BY <1>3, <1>7 DEF DatesInvariant

(* A call returns when all that is above its item is dated. *)
LEMMA RecordDates ==
  ASSUME DatesInv, ProgressInv', Record
  PROVE  DatesInvariant'
<1>1. /\ TypeInv /\ UNCHANGED <<items, req, before, idx>>
      /\ pc = "record" /\ pc \notin Quiet /\ pc' \notin Quiet /\ pc' # "store"
      /\ Stored' = Stored /\ pc' \in {"next", "resize"}
      /\ stack \in Seq(Ids) /\ stack # <<>> /\ calls \in Seq(Call) /\ calls # <<>>
      /\ stack' = Front(stack)
      /\ IF Len(stack) = 1 THEN pc' = "next" /\ calls' = Tail(calls)
         ELSE pc' = "resize" /\ calls' = calls
  BY DEF Record, Quiet, Stored, FirstToStore, DatesInv, ProgressInv, ForestInv,
     TypeInv, TypeOK, Control, ChangeSteps
<1>2. /\ Ancestors(items, Head(calls).id) \subseteq Range(stack) \cup Dated
      /\ Last(stack) \in Dated
  BY <1>1 DEF DatesInv, DatesInvariant, StackIsPath
<1>3. Range(stack) = Range(Front(stack)) \cup {Last(stack)}
  BY <1>1, RangeFacts
<1>4. Dated' = Dated
  BY <1>1 DEF Dated
<1>5. CASE Len(stack) = 1
  <2>1. Front(stack) = <<>>
    BY <1>1, <1>5, FrontFacts
  <2>2. Range(Front(stack)) = {}
    BY <2>1 DEF Range
  <2>3. Ancestors(items, Head(calls).id) \subseteq Dated
    BY <1>2, <1>3, <2>2
  <2>4. /\ calls' = Tail(calls) /\ Head(calls) = calls[1]
        /\ Len(calls) \in Nat \ {0}
        /\ DOMAIN calls = 1 .. Len(calls) /\ DOMAIN calls' = 1 .. Len(calls) - 1
        /\ \A m \in 1 .. Len(calls) - 1 : calls'[m] = calls[m + 1]
    BY <1>1, <1>5
  <2>5. ASSUME NEW n \in DOMAIN calls
        PROVE  \/ \E m \in DOMAIN calls' : calls'[m].id = calls[n].id
               \/ Ancestors(items, calls[n].id) \subseteq Dated
    <3>1. CASE n = 1
      BY <2>3, <2>4, <3>1
    <3>2. CASE n # 1
      <4>1. n - 1 \in 1 .. Len(calls) - 1 /\ (n - 1) + 1 = n
        BY <2>4, <3>2
      <4>2. n - 1 \in DOMAIN calls' /\ calls'[n - 1] = calls[n]
        <5>1. n - 1 \in DOMAIN calls'
          BY <2>4, <4>1
        <5>2. calls'[n - 1] = calls[(n - 1) + 1]
          BY <2>4, <4>1
        <5> QED
          BY <4>1, <5>1, <5>2
      <4> QED
        BY <4>2
    <3> QED
      BY <3>1, <3>2
  <2>6. PathsDated'
    BY <1>1, <2>5, FramePaths
  <2> QED
    BY <1>1, <1>5, <2>6 DEF DatesInvariant, StackIsPath
<1>6. CASE Len(stack) # 1
  <2>1. pc' = "resize" /\ calls' = calls
    BY <1>1, <1>6
  <2>2. PathsDated'
    BY <1>1, <2>1, FramePaths
  <2>3. Ancestors(items', Head(calls').id) \subseteq Range(stack') \cup Dated'
    BY <1>1, <1>2, <1>3, <1>4, <2>1
  <2> QED
    BY <2>1, <2>2, <2>3 DEF DatesInvariant, StackIsPath
<1> QED
  BY <1>5, <1>6

(* A deletion dates nothing and moves nothing; the parent's call stays     *)
(* pending.                                                                *)
LEMMA DeleteDates ==
  ASSUME DatesInv, ProgressInv', DeleteStep
  PROVE  DatesInvariant'
<1>1. /\ pc \in DeleteSteps /\ pc' \in DeleteSteps \cup {"next"}
      /\ UNCHANGED <<req, before, idx>>
      /\ TypeInv /\ items \in ItemTable /\ calls \in Seq(Call)
  BY DEF DeleteStep, Descend, DeleteRow, EraseHistory, DeleteSteps, DatesInv,
     ProgressInv, ForestInv, TypeInv, TypeOK
<1>2. /\ pc \notin Quiet /\ pc' \notin Quiet /\ pc # "store" /\ pc' # "store"
      /\ Stored' = Stored
  BY <1>1 DEF DeleteSteps, Quiet, Stored, FirstToStore
<1>3. \A x \in Ids : items'[x] = items[x] \/ ~ItemExists(items', x)
  <2>1. CASE DeleteRow
    <3>1. Last(frames).id \in Ids
      BY <1>1, DeleteFacts DEF Frame
    <3> QED
      BY <1>1, <2>1, <3>1 DEF DeleteRow, DeleteItem, ItemTable, ItemExists
  <2>2. CASE ~DeleteRow
    BY <2>2 DEF DeleteStep, Descend, EraseHistory, tables
  <2> QED
    BY <2>1, <2>2
<1>4. \A x \in Ids : ItemExists(items', x) =>
        /\ ItemExists(items, x) /\ items'[x].parent = items[x].parent
        /\ items'[x].date \in {items[x].date, req.date}
  BY <1>3 DEF ItemExists
<1>5. \A n \in DOMAIN calls : n \in DOMAIN calls' /\ calls'[n].id = calls[n].id
  <2>1. \/ calls' = calls
        \/ calls # <<>> /\ \E d : calls' = [calls EXCEPT ![1].delta = d]
    BY DEF DeleteStep, Descend, DeleteRow, EraseHistory
  <2>2. \A n \in DOMAIN calls : calls[n] \in Call
    BY <1>1
  <2> QED
    BY <2>1, <2>2 DEF Call
<1>6. PathsDated'
  BY <1>1, <1>2, <1>4, <1>5, FramePaths
<1> QED
  BY <1>1, <1>6 DEF DatesInvariant, StackIsPath, DeleteSteps

(* A stored item bears the date of the request, and a call of ChangeSize   *)
(* is on its way to its former and to its present parent.                  *)
LEMMA StoreDates ==
  ASSUME DatesInv, ProgressInv', InsertNewItem \/ UpdateOldItem
  PROVE  DatesInvariant'
<1>1. PICK c : c = CurrentItem.id
  OBVIOUS
<1>2. /\ pc = "store" /\ pc' = "log" /\ idx' = idx /\ UNCHANGED <<req, before>>
      /\ items \in ItemTable /\ items' \in ItemTable /\ before \in ItemTable
      /\ req.kind = "imports" /\ req.items \in Seq(Item)
      /\ idx \in 1 .. Len(req.items)
      /\ CurrentItem = req.items[idx] /\ c = req.items[idx].id
      /\ c \in Ids /\ CurrentItem.parent \in Parents
      /\ items'[c] = ItemRow(CurrentItem) /\ ItemExists(items', c)
      /\ \A id \in Ids \ {c} : items'[id] = items[id]
      /\ TypeInv
  BY <1>1, StoreFacts DEF DatesInv, ProgressInv, ForestInv, TypeInv, TypeOK
<1>3. /\ Shape(items)[c] = Shape(before)[c]
      /\ CurrentItem.parent # Null =>
           \E n \in DOMAIN calls' : calls'[n].id = CurrentItem.parent
      /\ ItemExists(before, c) /\ before[c].parent # Null =>
           \E n \in DOMAIN calls' : calls'[n].id = before[c].parent
  BY <1>1, StoreCalls DEF DatesInv
<1>4. items'[c].date = req.date /\ items'[c].parent = CurrentItem.parent
  BY <1>2 DEF ItemRow
<1>5. c \in Dated' /\ Dated \subseteq Dated'
  BY <1>2, <1>4 DEF Dated, ItemExists
<1>6. Stored = idx - 1 /\ Stored' = idx
  BY <1>2 DEF Stored, FirstToStore
<1>7. Unmoved' = Unmoved /\ Subject' = c
  BY <1>2 DEF Unmoved, NamedIds, Subject, CurrentItem
<1>8. /\ \A j \in 1 .. idx - 1 : req.items[j].id \in Dated
      /\ \A j \in 1 .. idx - 1 : \A p \in ParentsOf(req.items[j].id) :
           Ancestors(Unmoved, p) \subseteq Dated
      /\ \A j, k \in DOMAIN req.items : req.items[j].id = req.items[k].id => j = k
  BY <1>2, <1>6 DEF DatesInv, DatesInvariant, PathsDated, ProgressInv,
     ProgressInvariant, ImportSoFar, Handling, Quiet
<1>9. ASSUME NEW j \in 1 .. idx - 1
      PROVE  ParentsOf(req.items[j].id)' = ParentsOf(req.items[j].id)
  <2>1. j \in DOMAIN req.items /\ idx \in DOMAIN req.items /\ j # idx
    BY <1>2, <1>9
  <2>2. req.items[j] \in Item /\ req.items[j].id # c
    BY <1>2, <1>8, <2>1
  <2>3. req.items[j].id \in Ids
    BY <2>2 DEF Item
  <2>4. items'[req.items[j].id] = items[req.items[j].id]
    BY <1>2, <2>2, <2>3
  <2> QED
    BY <1>2, <2>4 DEF ParentsOf, ItemExists
<1>10. ASSUME NEW p \in ParentsOf(c)'
       PROVE  \E n \in DOMAIN calls' : calls'[n].id = p
  <2>1. /\ p # Null
        /\ \/ ItemExists(before, c) /\ p = before[c].parent
           \/ p = items'[c].parent
    BY <1>2, <1>10 DEF ParentsOf
  <2> QED
    BY <1>3, <1>4, <2>1
<1>11. PathsDated'
  <2>1. \A j \in 1 .. idx : req.items[j].id \in Dated'
    <3>1. \A j \in 1 .. idx : j = idx \/ j \in 1 .. idx - 1
      BY <1>2
    <3> QED
      BY <1>2, <1>5, <1>8, <3>1
  <2>2. \A j \in 1 .. idx - 1 : \A p \in ParentsOf(req.items[j].id)' :
          Ancestors(Unmoved, p) \subseteq Dated'
    BY <1>5, <1>8, <1>9
  <2> QED
    BY <1>2, <1>6, <1>7, <1>10, <2>1, <2>2 DEF PathsDated
<1> QED
  BY <1>2, <1>11 DEF DatesInvariant, StackIsPath

(* When the calls for an item are done, its paths are dated and stay so    *)
(* while the next ones are stored.                                         *)
LEMMA NextItemDates ==
  ASSUME DatesInv, ProgressInv', NextItem
  PROVE  DatesInvariant'
<1>1. /\ pc = "next" /\ calls = <<>> /\ pc' = "store" /\ idx' = idx + 1
      /\ UNCHANGED <<items, req, before>> /\ req.kind = "imports" /\ TypeInv
  BY DEF NextItem, tables, DatesInv, ProgressInv, ForestInv
<1>2. idx \in 1 .. Len(req.items) /\ req.items \in Seq(Item)
  BY <1>1, NamedFacts DEF Quiet
<1>3. Stored = idx /\ Stored' = idx
  BY <1>1, <1>2 DEF Stored, FirstToStore
<1>4. Dated' = Dated /\ Unmoved' = Unmoved /\ \A id : ParentsOf(id)' = ParentsOf(id)
  BY <1>1 DEF Dated, Unmoved, NamedIds, ParentsOf
<1>5. /\ \A j \in 1 .. idx : req.items[j].id \in Dated
      /\ \A j \in 1 .. idx - 1 : \A p \in ParentsOf(req.items[j].id) :
           Ancestors(Unmoved, p) \subseteq Dated
  BY <1>1, <1>3 DEF DatesInv, DatesInvariant, PathsDated, Quiet
<1>6. \A p \in ParentsOf(req.items[idx].id) : Ancestors(Unmoved, p) \subseteq Dated
  BY <1>1, SubjectDated DEF Handling, Quiet
<1>7. \A j \in 1 .. idx' - 1 : j = idx \/ j \in 1 .. idx - 1
  BY <1>1, <1>2
<1>8. \A j \in 1 .. idx' - 1 : \A p \in ParentsOf(req.items[j].id) :
        Ancestors(Unmoved, p) \subseteq Dated
  BY <1>5, <1>6, <1>7
<1>9. PathsDated'
  BY <1>1, <1>3, <1>4, <1>5, <1>8 DEF PathsDated
<1> QED
  BY <1>1, <1>9 DEF DatesInvariant, StackIsPath

(* When a request begins no item is through; a deletion has the call for   *)
(* the parent pending.                                                     *)
LEMMA BeginDates ==
  ASSUME DatesInv, ProgressInv', NEW r \in Requests, BeginImport(r) \/ BeginDelete(r)
  PROVE  DatesInvariant'
<1>1. /\ pc = "idle" /\ UNCHANGED <<items, before>> /\ req' = r
      /\ items = before /\ items \in ItemTable
  BY DEF BeginImport, BeginDelete, Receive, tables, DatesInv, ProgressInv, ForestInv,
     TypeInv, TypeOK, ProgressInvariant, AnswerPending, Quiet
<1>2. CASE BeginImport(r)
  <2>1. pc' = "store" /\ idx' = 1 /\ Stored' = 0 /\ r.kind = "imports"
    BY <1>2 DEF BeginImport, Stored, FirstToStore
  <2>2. PathsDated'
    BY <1>1, <2>1 DEF PathsDated
  <2> QED
    BY <2>1, <2>2 DEF DatesInvariant, StackIsPath
<1>3. CASE BeginDelete(r)
  <2>1. /\ pc' = "delete" /\ r.kind = "delete" /\ ItemExists(items, r.id)
        /\ calls' = IF items[r.id].parent = Null THEN <<>>
                    ELSE <<[id |-> items[r.id].parent, delta |-> 0]>>
    BY <1>3 DEF BeginDelete
  <2>2. Subject' = r.id
    BY <1>1, <2>1 DEF Subject
  <2>3. ASSUME NEW p \in ParentsOf(r.id)'
        PROVE  \E n \in DOMAIN calls' : calls'[n].id = p
    <3>1. p # Null /\ p = items[r.id].parent
      BY <1>1, <2>3 DEF ParentsOf
    <3>2. calls' = <<[id |-> p, delta |-> 0]>>
      BY <2>1, <3>1
    <3>3. 1 \in DOMAIN calls' /\ calls'[1].id = p
      BY <3>2
    <3> QED
      BY <3>3
  <2>4. PathsDated'
    BY <1>1, <2>1, <2>2, <2>3 DEF PathsDated
  <2> QED
    BY <2>1, <2>4 DEF DatesInvariant, StackIsPath
<1> QED
  BY <1>2, <1>3

(* Between requests there is nothing to date.                              *)
LEMMA QuietDates ==
  ASSUME pc' \in Quiet
  PROVE  DatesInvariant'
BY DEF Quiet, DatesInvariant, PathsDated, StackIsPath

(* Every step of the handlers keeps the dates.                             *)
LEMMA StepDates == DatesInv /\ [Next]_vars => DatesInv'
<1> SUFFICES ASSUME DatesInv, [Next]_vars
             PROVE  DatesInv'
  OBVIOUS
<1>1. ProgressInv'
  BY StepProgress DEF DatesInv
<1>2. SUFFICES DatesInvariant'
  BY <1>1 DEF DatesInv
<1>3. CASE pc' \in Quiet
  BY <1>3, QuietDates
<1>4. CASE \E r \in Requests : BeginImport(r) \/ BeginDelete(r)
  BY <1>1, <1>4, BeginDates
<1>5. CASE InsertNewItem \/ UpdateOldItem
  BY <1>1, <1>5, StoreDates
<1>6. CASE LogItem \/ CallChangeSize \/ Climb
  BY <1>1, <1>6, ClimbDates
<1>7. CASE Resize \/ Redate
  BY <1>1, <1>7, ChangeSizeDates
<1>8. CASE Record
  BY <1>1, <1>8, RecordDates
<1>9. CASE DeleteStep
  BY <1>1, <1>9, DeleteDates
<1>10. CASE NextItem
  BY <1>1, <1>10, NextItemDates
<1>11. CASE \E r \in Requests : RejectImport(r) \/ ThrowInValidation(r) \/ RejectDelete(r)
  BY <1>3, <1>11 DEF RejectImport, ThrowInValidation, RejectDelete, Receive,
     AnswerAtOnce, Quiet
<1>12. CASE Finish \/ Fault \/ Crash \/ Restart
  BY <1>3, <1>12 DEF Finish, Fault, Crash, Restart, Die, Quiet
<1>13. CASE UNCHANGED vars
  <2>1. /\ UNCHANGED <<items, before, pc, req, idx, calls, stack>>
        /\ UNCHANGED <<Dated, Unmoved, Subject, Stored>>
        /\ \A id : ParentsOf(id)' = ParentsOf(id)
    BY <1>13 DEF vars, Dated, Unmoved, ParentsOf, Subject, CurrentItem, Stored,
       FirstToStore, NamedIds
  <2>2. PathsDated' /\ StackIsPath'
    BY <2>1 DEF DatesInv, DatesInvariant, PathsDated, StackIsPath
  <2> QED
    BY <2>2 DEF DatesInvariant
<1> QED
  BY <1>4, <1>5, <1>6, <1>7, <1>8, <1>9, <1>10, <1>11, <1>12, <1>13
     DEF Next, Arrive, HandlerStep, ImportStep, ChangeSizeStep

(* What is above an item, before the request and now, is the rest of the   *)
(* paths that the items of an import have dated.                           *)
LEMMA ImportedAncestorsDated ==
  ASSUME DatesInv, Finish, req.kind = "imports", NEW t \in {before, items},
         NEW id \in NamedIds
  PROVE  Ancestors(t, id) \subseteq Dated
<1>1. /\ pc = "next" /\ calls = <<>> /\ idx >= Len(req.items) /\ Handling("imports")
      /\ TypeInv /\ before \in ItemTable /\ items \in ItemTable /\ t \in ItemTable
  BY DEF Finish, Handling, Quiet, DatesInv, ProgressInv, ForestInv, TypeInv, TypeOK
<1>2. /\ req.items \in Seq(Item) /\ idx \in 1 .. Len(req.items)
      /\ NamedIds = {req.items[j].id : j \in 1 .. Len(req.items)}
      /\ NamedIds \in SUBSET Ids
  BY <1>1, NamedFacts DEF Handling
<1>3. idx = Len(req.items) /\ Stored = idx
  BY <1>1, <1>2 DEF Stored, FirstToStore
<1>4. /\ \A j \in 1 .. idx : req.items[j].id \in Dated
      /\ \A j \in 1 .. idx - 1 : \A p \in ParentsOf(req.items[j].id) :
           Ancestors(Unmoved, p) \subseteq Dated
  BY <1>1, <1>3 DEF DatesInv, DatesInvariant, PathsDated, Handling
<1>5. \A p \in ParentsOf(req.items[idx].id) : Ancestors(Unmoved, p) \subseteq Dated
  BY <1>1, SubjectDated
<1>6. /\ NamedIds \subseteq Dated
      /\ \A n \in NamedIds : \A p \in ParentsOf(n) : Ancestors(Unmoved, p) \subseteq Dated
  <2>1. \A j \in 1 .. Len(req.items) : j \in 1 .. idx /\ (j = idx \/ j \in 1 .. idx - 1)
    BY <1>2, <1>3
  <2> QED
    BY <1>2, <1>4, <1>5, <2>1
<1>7. /\ Unmoved \in ItemTable
      /\ \A y \in Ids \ NamedIds : ItemExists(t, y) =>
           ItemExists(Unmoved, y) /\ Unmoved[y].parent = t[y].parent
  BY <1>1, UnmovedFacts DEF DatesInv
<1>8. \A n \in NamedIds : ParentsOf(n) \subseteq Ids
  BY <1>1, <1>2 DEF ParentsOf, ItemTable, ItemExists, Row, Parents
<1>9. PICK Q : Q = UNION {ParentsOf(n) : n \in NamedIds}
  OBVIOUS
<1>10. PICK T : T = NamedIds \cup UNION {Ancestors(Unmoved, p) : p \in Q}
  OBVIOUS
<1>11. /\ Q \subseteq Ids
       /\ \A p \in Q : Ancestors(Unmoved, p) \subseteq Ids /\ p \in Ancestors(Unmoved, p)
       /\ \A p \in Q : ClosedAbove(Unmoved, Ancestors(Unmoved, p))
  BY <1>7, <1>8, <1>9, AncestorsFacts
<1>12. T \subseteq Ids /\ T \subseteq Dated /\ id \in T
  BY <1>2, <1>6, <1>9, <1>10, <1>11
<1>13. ASSUME NEW x \in T, ItemExists(t, x)
       PROVE  t[x].parent \in T \cup {Null}
  <2>1. CASE x \in NamedIds
    <3>1. t[x].parent = Null \/ t[x].parent \in ParentsOf(x)
      BY <1>13 DEF ParentsOf
    <3> QED
      BY <1>9, <1>10, <1>11, <2>1, <3>1
  <2>2. CASE x \notin NamedIds
    <3>1. PICK p \in Q : x \in Ancestors(Unmoved, p)
      BY <1>10, <1>13, <2>2
    <3>2. ItemExists(Unmoved, x) /\ Unmoved[x].parent = t[x].parent
      BY <1>7, <1>12, <1>13, <2>2
    <3>3. Unmoved[x].parent \in Ancestors(Unmoved, p) \cup {Null}
      BY <1>11, <3>1, <3>2 DEF ClosedAbove
    <3> QED
      BY <1>10, <3>1, <3>2, <3>3
  <2> QED
    BY <2>1, <2>2
<1>14. ClosedAbove(t, T)
  BY <1>13 DEF ClosedAbove
<1>15. Ancestors(t, id) \subseteq T
  BY <1>1, <1>12, <1>14, AncestorsLeast
<1> QED
  BY <1>12, <1>15

(* The whole subtree of a deletion is gone at its end. *)
LEMMA SubtreeGone ==
  ASSUME ProgressInv, Handling("delete"), pc = "next"
  PROVE  \A x \in Descendants(before, req.id) : ~ItemExists(items, x)
<1>1. /\ before \in ItemTable /\ items \in ItemTable /\ TypeInv /\ pc \notin Quiet
      /\ req.kind = "delete"
  BY DEF ProgressInv, ForestInv, TypeInv, TypeOK, Handling
<1>2. req.id \in Ids
  BY <1>1, NamedFacts
<1>3. PICK S \in SUBSET Tree!Subtree(req.id) :
        Shape(items) = Tree!Without(S) /\ S = Tree!Subtree(req.id)
  BY DeleteMaps
<1>4. S = Descendants(before, req.id) /\ S \subseteq Ids
  BY <1>1, <1>2, <1>3, SubtreeIsDescendants, DescendantsFacts
<1>5. \A x \in S : Shape(items)[x] = NoRow
  BY <1>3, <1>4 DEF Tree!Without
<1> QED
  BY <1>1, <1>4, <1>5, ShapeFacts

(* At the end of a deletion everything above the item is dated, but for    *)
(* the item itself, which is gone.                                         *)
LEMMA DeletedAncestorsDated ==
  ASSUME DatesInv, Finish, req.kind = "delete", NEW t \in {before, items}
  PROVE  Ancestors(t, req.id) \subseteq Dated
<1>1. /\ pc = "next" /\ calls = <<>> /\ Handling("delete") /\ ProgressInv
      /\ TypeInv /\ before \in ItemTable /\ items \in ItemTable /\ t \in ItemTable
  BY DEF Finish, Handling, Quiet, DatesInv, ProgressInv, ForestInv, TypeInv, TypeOK
<1>2. req.id \in Ids
  BY <1>1, NamedFacts DEF Handling
<1>3. PICK D, Gone : /\ D = Descendants(before, req.id)
                     /\ Gone = {x \in Ids : ~ItemExists(items, x)}
  OBVIOUS
<1>4. /\ \A x \in D : ~ItemExists(items, x)
      /\ D \subseteq Ids /\ req.id \in D
      /\ \A x \in D \ {req.id} : before[x].parent \in D
  BY <1>1, <1>2, <1>3, SubtreeGone, DescendantsFacts
<1>5. \A x \in Ids : IF ItemExists(items, x) THEN Shape(items)[x] = Shape(before)[x]
                     ELSE ItemExists(before, x) => x \in D
  BY <1>1, <1>3 DEF ProgressInv, ProgressInvariant, DeletionSoFar
<1>6. \A x \in Ids : ItemExists(items, x) =>
        ItemExists(before, x) /\ items[x].parent = before[x].parent
  BY <1>1, <1>5, SamePlace
<1>7. D \subseteq Gone /\ Gone \subseteq Dated /\ req.id \in Gone
  BY <1>3, <1>4 DEF Dated
<1>8. \A p \in ParentsOf(req.id) : p \in Ids /\ Ancestors(items, p) \subseteq Dated
  <2>1. \A p \in ParentsOf(req.id) : p \in Ids
    BY <1>1, <1>2 DEF ParentsOf, ItemTable, ItemExists, Row, Parents
  <2>2. Subject = req.id
    BY <1>1 DEF Subject, Handling
  <2>3. DOMAIN calls = {}
    BY <1>1
  <2> QED
    BY <1>1, <2>1, <2>2, <2>3 DEF DatesInv, DatesInvariant, PathsDated, Handling
<1>9. PICK T : T = Gone \cup UNION {Ancestors(items, p) : p \in ParentsOf(req.id)}
  OBVIOUS
<1>10. \A p \in ParentsOf(req.id) :
         /\ Ancestors(items, p) \subseteq Ids /\ p \in Ancestors(items, p)
         /\ ClosedAbove(items, Ancestors(items, p))
  BY <1>1, <1>8, AncestorsFacts
<1>11. T \subseteq Ids /\ T \subseteq Dated /\ req.id \in T
  BY <1>3, <1>7, <1>8, <1>9, <1>10
<1>12. ASSUME NEW x \in T, ItemExists(t, x)
       PROVE  t[x].parent \in T \cup {Null}
  <2>1. CASE x = req.id
    <3>1. t[x].parent = Null \/ t[x].parent \in ParentsOf(req.id)
      BY <1>12, <2>1 DEF ParentsOf
    <3> QED
      BY <1>9, <1>10, <3>1
  <2>2. CASE x # req.id /\ ~ItemExists(items, x)
    <3>1. t = before /\ x \in D
      BY <1>5, <1>11, <1>12, <2>2
    <3> QED
      BY <1>4, <1>7, <1>9, <2>2, <3>1
  <2>3. CASE ItemExists(items, x)
    <3>1. x \in Ids /\ t[x].parent = items[x].parent
      BY <1>6, <1>11, <1>12, <2>3
    <3>2. PICK p \in ParentsOf(req.id) : x \in Ancestors(items, p)
      BY <1>3, <1>9, <1>12, <2>3
    <3>3. items[x].parent \in Ancestors(items, p) \cup {Null}
      BY <1>10, <2>3, <3>2 DEF ClosedAbove
    <3> QED
      BY <1>9, <3>1, <3>2, <3>3
  <2> QED
    BY <2>1, <2>2, <2>3
<1>13. ClosedAbove(t, T)
  BY <1>12 DEF ClosedAbove
<1>14. Ancestors(t, req.id) \subseteq T
  BY <1>11, <1>13, AncestorsLeast
<1> QED
  BY <1>11, <1>14

(* At the end of an import everything on the paths of its items is dated:  *)
(* a path is followed up to the next named item, which sees to the rest.   *)
LEMMA FinishDates ==
  ASSUME DatesInv, Finish, NEW id \in NamedIds,
         NEW a \in Ancestors(before, id) \cup Ancestors(items, id), ItemExists(items, a)
  PROVE  items[a].date = req.date
<1>1. pc \notin Quiet /\ TypeInv
  BY DEF Finish, Quiet, DatesInv, ProgressInv, ForestInv
<1>2. req.kind \in {"imports", "delete"} /\ (req.kind = "delete" => id = req.id)
  BY <1>1, NamedFacts
<1>3. Ancestors(before, id) \subseteq Dated /\ Ancestors(items, id) \subseteq Dated
  BY <1>2, ImportedAncestorsDated, DeletedAncestorsDated
<1>4. a \in Dated
  BY <1>3
<1> QED
  BY <1>4 DEF Dated

(* It holds of the empty tables.                                           *)
LEMMA InitDates == Init => DatesInv
<1> SUFFICES ASSUME Init PROVE DatesInv
  OBVIOUS
<1>1. pc = "idle"
  BY DEF Init
<1>2. DatesInvariant
  BY <1>1 DEF DatesInvariant, PathsDated, StackIsPath, Quiet
<1> QED
  BY <1>2, InitProgress DEF DatesInv

(* While a request is at work, what is above the former and the present    *)
(* parents of the items it is through with is dated, or a call is on its   *)
(* way there; and ChangeSize has the path it climbed on its stack          *)
(* (Main.cpp:62-70, 81-102, 109-115, 134-136).                             *)
THEOREM DatesHold == Spec => []DatesInvariant
<1>1. DatesInv => DatesInvariant
  BY DEF DatesInv
<1> QED
  BY <1>1, InitDates, StepDates, PTL DEF Spec

(* Whatever was above an item that a request names, or is above it now,    *)
(* bears the date of the request once it is done, for every forest and     *)
(* every order of the items (Main.cpp:67, 81, 96-102).                     *)
THEOREM NamedPathsDated == Spec => AncestorsDated
<1>1. DatesInv /\ [Next]_vars =>
        [pc = "next" /\ pc' = "idle" =>
           \A id \in NamedIds :
             \A a \in Ancestors(before, id) \cup Ancestors(items, id) :
               ItemExists(items, a) /\ (a # id \/ req.kind = "imports")
                 => items[a].date = req.date]_vars
  <2> SUFFICES ASSUME DatesInv, Next, pc = "next", pc' = "idle",
                      NEW id \in NamedIds,
                      NEW a \in Ancestors(before, id) \cup Ancestors(items, id),
                      ItemExists(items, a)
               PROVE  items[a].date = req.date
    OBVIOUS
  <2>1. Finish
    BY DEF Next, Arrive, RejectImport, BeginImport, ThrowInValidation, RejectDelete,
       BeginDelete, Receive, HandlerStep, ImportStep, InsertNewItem, UpdateOldItem,
       LogItem, ChangeSizeStep, CallChangeSize, Climb, Resize, Redate, Record,
       DeleteStep, Descend, DeleteRow, EraseHistory, NextItem, Fault, Crash, Die, Restart
  <2> QED
    BY <2>1, FinishDates
<1> QED
  BY <1>1, InitDates, StepDates, PTL DEF Spec, AncestorsDated
=============================================================================
