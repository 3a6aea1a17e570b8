--------------------------- MODULE HandlersProofs ---------------------------
(***************************************************************************)
(* Proofs that Handlers keeps its tables consistent, for any set of ids,   *)
(* requests and dates, any width of INT and any stack.                     *)
(***************************************************************************)
EXTENDS Handlers, SequenceTheorems, TLAPS

-----------------------------------------------------------------------------
(* Lemmas about sequences. *)

(* Appending to a sequence. *)
LEMMA AppendFacts ==
  ASSUME NEW S, NEW s \in Seq(S), NEW e \in S
  PROVE  /\ Append(s, e) \in Seq(S)
         /\ Append(s, e) # <<>>
         /\ Len(Append(s, e)) = Len(s) + 1
         /\ \A n \in 1 .. Len(s) : Append(s, e)[n] = s[n]
         /\ Last(Append(s, e)) = e
         /\ IsPrefix(s, Append(s, e))
<1>1. /\ Append(s, e) \in Seq(S)
      /\ Len(Append(s, e)) = Len(s) + 1
      /\ \A n \in 1 .. Len(s) : Append(s, e)[n] = s[n]
      /\ Append(s, e)[Len(s) + 1] = e
  OBVIOUS
<1>2. SubSeq(s, 1, Len(s)) = SubSeq(Append(s, e), 1, Len(s))
  OBVIOUS
<1>3. Append(s, e) # <<>>
  BY <1>1
<1> QED
  BY <1>1, <1>2, <1>3 DEF Last, IsPrefix

(* Taking the last element off a sequence. *)
LEMMA FrontFacts ==
  ASSUME NEW S, NEW s \in Seq(S), s # <<>>
  PROVE  /\ Len(s) \in Nat \ {0}
         /\ Last(s) \in S
         /\ Front(s) \in Seq(S)
         /\ Len(Front(s)) = Len(s) - 1
         /\ Front(s) = <<>> <=> Len(s) = 1
         /\ \A n \in 1 .. Len(s) - 1 : Front(s)[n] = s[n]
<1>1. PICK t \in Seq(S), e \in S : s = Append(t, e)
  BY SequenceEmptyOrAppend
<1>2. /\ Len(s) = Len(t) + 1
      /\ s[Len(t) + 1] = e
      /\ \A n \in 1 .. Len(t) : s[n] = t[n]
  BY <1>1
<1>3. SubSeq(s, 1, Len(t)) = t
  BY <1>1, <1>2
<1>4. Front(s) = t
  BY <1>2, <1>3 DEF Front
<1> QED
  BY <1>2, <1>4 DEF Last

(* Taking the first element off, and changing one element. *)
LEMMA HeadTailFacts ==
  ASSUME NEW S, NEW s \in Seq(S), s # <<>>
  PROVE  Head(s) \in S /\ Tail(s) \in Seq(S)
OBVIOUS

LEMMA ExceptFacts ==
  ASSUME NEW S, NEW s \in Seq(S), NEW n \in 1 .. Len(s), NEW e \in S
  PROVE  /\ [s EXCEPT ![n] = e] \in Seq(S)
         /\ Len([s EXCEPT ![n] = e]) = Len(s)
         /\ [s EXCEPT ![n] = e][n] = e
         /\ \A k \in 1 .. Len(s) : k # n => [s EXCEPT ![n] = e][k] = s[k]
OBVIOUS

(* Changing the last element, then appending one. *)
LEMMA CallFacts ==
  ASSUME NEW S, NEW s \in Seq(S), s # <<>>, NEW e \in S, NEW f \in S,
         NEW t, t = Append([s EXCEPT ![Len(s)] = e], f)
  PROVE  /\ t \in Seq(S) /\ Len(t) = Len(s) + 1
         /\ t[Len(s) + 1] = f /\ t[Len(s)] = e
         /\ \A n \in 1 .. Len(s) - 1 : t[n] = s[n]
<1>1. Len(s) \in 1 .. Len(s)
  OBVIOUS
<1>2. PICK u : u = [s EXCEPT ![Len(s)] = e]
  OBVIOUS
<1>3. /\ u \in Seq(S) /\ Len(u) = Len(s) /\ u[Len(s)] = e
      /\ \A n \in 1 .. Len(s) : n # Len(s) => u[n] = s[n]
  BY <1>1, <1>2, ExceptFacts
<1>4. t = Append(u, f)
  BY <1>2
<1> QED
  BY <1>1, <1>3, <1>4

(* Every sequence is a prefix of itself. *)
LEMMA PrefixOfItself ==
  ASSUME NEW S, NEW s \in Seq(S)
  PROVE  IsPrefix(s, s)
BY DEF IsPrefix
-----------------------------------------------------------------------------
(* Lemmas about requests and about the operations on the tables. *)

(* Wrapped arithmetic stays among the integers. *)
LEMMA WrapType ==
  ASSUME NEW n \in Int
  PROVE  Wrap(n) \in Int
<1>1. MaxInt \in Nat
  BY TablesAssumption
<1>2. 2 * (MaxInt + 1) \in Nat \ {0} /\ n - MinInt \in Int /\ MinInt \in Int
  BY <1>1 DEF MinInt
<1>3. (n - MinInt) % (2 * (MaxInt + 1)) \in Int
  BY <1>2
<1> QED
  BY <1>2, <1>3 DEF Wrap

(* The two kinds of requests and their fields. *)
LEMMA RequestFacts ==
  ASSUME NEW r \in Requests
  PROVE  /\ r.kind \in {"imports", "delete"}
         /\ r.date # BadDate => r.date \in Dates
         /\ r.kind = "imports" => r.items \in Seq(Item)
         /\ r.kind = "delete" => r.id \in Ids
BY HandlersAssumption DEF ImportRequest, DeleteRequest, RequestDates

(* What the validation has found when it lets an import through. *)
LEMMA AcceptedImport ==
  ASSUME NEW r \in Requests, r.kind = "imports", ImportsValidate(r) = "accept"
  PROVE  /\ r.date # BadDate
         /\ 1 \in DOMAIN r.items
         /\ \A j \in DOMAIN r.items : ParentAccepted(r.items, j)
<1>1. r.items \in Seq(Item)
  BY RequestFacts
<1>2. r.date # BadDate /\ r.items # <<>>
  BY DEF ImportsValidate
<1>3. 1 \in DOMAIN r.items
  BY <1>1, <1>2
<1>4. \A j \in DOMAIN r.items : ItemVerdict(r.items, j) = "accept"
  BY DEF ImportsValidate
<1>5. \A j \in DOMAIN r.items : ParentAccepted(r.items, j)
  BY <1>4 DEF ItemVerdict
<1> QED
  BY <1>2, <1>3, <1>5

(* The row of an item whose size fits INT. *)
LEMMA ItemRowType ==
  ASSUME NEW it \in Item, ItemSize(it) \in Int32, req.date \in Dates
  PROVE  ItemRow(it) \in Row /\ ItemRow(it) # NoRow
BY TablesAssumption DEF Item, ItemRow, Row, Parents

LEMMA ChangeSizeCallsType ==
  ASSUME NEW it \in Item, NEW p \in Parents, NEW d \in Int
  PROVE  ChangeSizeCalls(p, it, d) \in Seq(Call)
<1>1. ItemSize(it) \in Int /\ it.parent \in Parents
  BY DEF ItemSize, Item
<1>2. ASSUME NEW q \in Parents, q # Null, NEW e \in Int
      PROVE  <<[id |-> q, delta |-> e]>> \in Seq(Call)
  <2>1. [id |-> q, delta |-> e] \in Call
    BY <1>2 DEF Parents, Call
  <2> QED
    BY <2>1
<1>3. -ItemSize(it) \in Int
  BY <1>1
<1> DEFINE moved == p # it.parent
           first == IF moved /\ p # Null
                    THEN <<[id |-> p, delta |-> -ItemSize(it)]>> ELSE <<>>
           second == IF it.parent # Null
                     THEN <<[id |-> it.parent,
                             delta |-> IF moved THEN ItemSize(it) ELSE d]>>
                     ELSE <<>>
<1>4. first \in Seq(Call)
  BY <1>2, <1>3
<1>5. second \in Seq(Call)
  BY <1>1, <1>2
<1>6. first \o second \in Seq(Call)
  BY <1>4, <1>5, ConcatProperties
<1> QED
  BY <1>6 DEF ChangeSizeCalls

(* Each write keeps a table a table. *)
LEMMA ItemTableWrites ==
  ASSUME NEW tbl \in ItemTable, NEW id \in Ids
  PROVE  /\ \A row \in Row : InsertItem(tbl, id, row) \in ItemTable
         /\ \A row \in Row : UpdateItem(tbl, id, row) \in ItemTable
         /\ \A n \in Int : (ItemExists(tbl, id) => tbl[id].size + n \in Int32)
                             => AddSize(tbl, id, n) \in ItemTable
         /\ \A d \in Dates : SetDate(tbl, id, d) \in ItemTable
         /\ DeleteItem(tbl, id) \in ItemTable
<1>1. /\ \A row \in Row : InsertItem(tbl, id, row) \in ItemTable
      /\ \A row \in Row : UpdateItem(tbl, id, row) \in ItemTable
      /\ DeleteItem(tbl, id) \in ItemTable
  BY DEF InsertItem, UpdateItem, DeleteItem, ItemTable
<1>2. ASSUME ItemExists(tbl, id), NEW n \in Int, tbl[id].size + n \in Int32
      PROVE  AddSize(tbl, id, n) \in ItemTable
  <2>1. tbl[id] \in Row
    BY <1>2 DEF ItemTable, ItemExists
  <2>2. [tbl[id] EXCEPT !.size = @ + n] \in Row
    BY <1>2, <2>1 DEF Row
  <2> QED
    BY <1>2, <2>2 DEF AddSize, ItemTable
<1>3. ASSUME ItemExists(tbl, id), NEW d \in Dates
      PROVE  SetDate(tbl, id, d) \in ItemTable
  <2>1. tbl[id] \in Row
    BY <1>3 DEF ItemTable, ItemExists
  <2>2. [tbl[id] EXCEPT !.date = d] \in Row
    BY <2>1 DEF Row
  <2> QED
    BY <1>3, <2>2 DEF SetDate, ItemTable
<1> QED
  BY <1>1, <1>2, <1>3 DEF AddSize, SetDate

LEMMA HistoryTableWrites ==
  ASSUME NEW tbl \in HistoryTable, NEW id \in Ids
  PROVE  /\ \A row \in Row : InsertIntoHistory(tbl, id, row) \in HistoryTable
         /\ DeleteFromHistory(tbl, id) \in HistoryTable
<1>1. tbl[id] \in Seq(Row)
  BY DEF HistoryTable
<1>2. \A row \in Row : Append(tbl[id], row) \in Seq(Row)
  BY <1>1, AppendFacts
<1> QED
  BY <1>2 DEF InsertIntoHistory, DeleteFromHistory, HistoryTable
-----------------------------------------------------------------------------
(***************************************************************************)
(* Types and control.                                                      *)
(***************************************************************************)

TypeInv == TypeOK /\ Control /\ HalfDone

(* The item at work is one of the request, with a date to give it. *)
LEMMA CurrentItemFacts ==
  ASSUME TypeInv, pc \in ImportSteps
  PROVE  CurrentItem \in Item /\ req.date \in Dates /\ req.items \in Seq(Item)
         /\ req.kind = "imports" /\ idx \in DOMAIN req.items
<1>1. req \in Requests /\ req.date # BadDate /\ req.kind = "imports"
      /\ idx \in DOMAIN req.items
  BY DEF TypeInv, Control, ImportSteps, Quiet
<1>2. req.items \in Seq(Item) /\ req.date \in Dates
  BY <1>1, RequestFacts
<1> QED
  BY <1>1, <1>2, ElementOfSeq DEF CurrentItem

(* The row on top of the recursion of ChangeSize, and the call it serves. *)
LEMMA ClimbFacts ==
  ASSUME TypeInv, pc \in ChangeSteps \ {"next"}
  PROVE  /\ Last(stack) \in Ids /\ Front(stack) \in Seq(Ids)
         /\ Head(calls) \in Call /\ Tail(calls) \in Seq(Call)
         /\ req \in Requests /\ req.date \in Dates
<1>1. /\ stack \in Seq(Ids) /\ stack # <<>>
      /\ calls \in Seq(Call) /\ calls # <<>>
      /\ req \in Requests /\ req.date # BadDate
  BY DEF TypeInv, TypeOK, Control, ChangeSteps, Quiet
<1>2. Last(stack) \in Ids /\ Front(stack) \in Seq(Ids)
  BY <1>1, FrontFacts
<1>3. Head(calls) \in Call /\ Tail(calls) \in Seq(Call)
  BY <1>1, HeadTailFacts
<1> QED
  BY <1>1, <1>2, <1>3, RequestFacts

(* The call of DeleteIter at work. *)
LEMMA DeleteFacts ==
  ASSUME TypeInv, pc \in DeleteSteps
  PROVE  /\ frames \in Seq(Frame) /\ Len(frames) \in Nat \ {0}
         /\ Last(frames) \in Frame /\ Last(frames) = frames[Len(frames)]
         /\ Front(frames) \in Seq(Frame)
         /\ req \in Requests /\ req.kind = "delete" /\ req.date # BadDate
<1>1. /\ frames \in Seq(Frame) /\ frames # <<>>
      /\ req \in Requests /\ req.kind = "delete" /\ req.date # BadDate
  BY DEF TypeInv, TypeOK, Control, DeleteSteps, Quiet
<1> QED
  BY <1>1, FrontFacts DEF Last

LEMMA InitTypeInv == Init => TypeInv
<1> SUFFICES ASSUME Init PROVE TypeInv
  OBVIOUS
<1>1. EmptyItems \in ItemTable /\ EmptyHistory \in HistoryTable
  BY DEF EmptyItems, EmptyHistory, ItemTable, HistoryTable
<1>2. TypeOK
  BY <1>1 DEF Init, TypeOK, Quiet, Replies
<1>3. Control
  BY DEF Init, Control, Quiet, ImportSteps, DeleteSteps, ChangeSteps
<1>4. HalfDone
  BY DEF Init, HalfDone
<1> QED
  BY <1>2, <1>3, <1>4 DEF TypeInv

LEMMA ArriveTypeInv ==
  ASSUME TypeInv, NEW r \in Requests, Arrive(r)
  PROVE  TypeInv'
<1> USE DEF TypeInv, Quiet, ImportSteps, DeleteSteps, ChangeSteps
<1>0. HalfDone'
  BY DEF Arrive, RejectImport, BeginImport, ThrowInValidation, RejectDelete,
     BeginDelete, Receive, AnswerAtOnce, HalfDone
<1>1. CASE RejectImport(r)
  BY <1>0, <1>1 DEF RejectImport, Receive, AnswerAtOnce, TypeOK, Control, tables,
     volatile, Replies
<1>2. CASE BeginImport(r)
  <2>1. r.kind = "imports" /\ r.date # BadDate /\ 1 \in DOMAIN r.items
    BY <1>2, AcceptedImport DEF BeginImport
  <2>2. TypeOK'
    BY <1>2 DEF BeginImport, Receive, TypeOK, tables, Replies
  <2>3. Control'
    BY <1>2, <2>1 DEF BeginImport, Receive, Control
  <2> QED
    BY <1>0, <2>2, <2>3
<1>3. CASE ThrowInValidation(r)
  BY <1>0, <1>3 DEF ThrowInValidation, Receive, TypeOK, Control, tables, volatile,
     Replies
<1>4. CASE RejectDelete(r)
  <2>1. /\ served' = served + 1 /\ reply' \in Replies
        /\ UNCHANGED <<tables, pc, volatile, before, torn>>
    BY <1>4 DEF RejectDelete, Receive, AnswerAtOnce, Replies
  <2> QED
    BY <1>0, <2>1 DEF TypeOK, Control, tables, volatile
<1>5. CASE BeginDelete(r)
  <2>1. r.kind = "delete" /\ r.date # BadDate /\ r.id \in Ids
        /\ ItemExists(items, r.id) /\ items \in ItemTable
    BY <1>5, RequestFacts DEF BeginDelete, TypeOK
  <2>2. [id |-> r.id, todo |-> GetChildren(items, r.id)] \in Frame
    BY <2>1 DEF Frame, GetChildren
  <2>3. frames' \in Seq(Frame) /\ frames' # <<>>
    BY <1>5, <2>2 DEF BeginDelete
  <2>4. items[r.id].parent \in Parents
    BY <2>1 DEF ItemExists, ItemTable, Row
  <2>5. calls' \in Seq(Call)
    <3>1. CASE items[r.id].parent = Null
      BY <1>5, <3>1 DEF BeginDelete
    <3>2. CASE items[r.id].parent # Null
      <4>1. [id |-> items[r.id].parent, delta |-> 0] \in Call
        BY <2>4, <3>2 DEF Parents, Call
      <4> QED
        BY <1>5, <3>2, <4>1 DEF BeginDelete
    <3> QED
      BY <3>1, <3>2
  <2>6. TypeOK'
    BY <1>5, <2>3, <2>5 DEF BeginDelete, Receive, TypeOK, tables, Replies
  <2>7. Control'
    BY <1>5, <2>1, <2>3 DEF BeginDelete, Receive, Control
  <2> QED
    BY <1>0, <2>6, <2>7
<1> QED
  BY <1>1, <1>2, <1>3, <1>4, <1>5 DEF Arrive

LEMMA ImportStepTypeInv ==
  ASSUME TypeInv, ImportStep
  PROVE  TypeInv'
<1> USE DEF Quiet, ImportSteps, DeleteSteps, ChangeSteps
<1>1. CASE InsertNewItem \/ UpdateOldItem
  <2>1. /\ pc = "store" /\ pc' = "log"
        /\ ItemSize(CurrentItem) \in Int32
        /\ UNCHANGED <<history, req, idx, stack, frames, reply, served, before,
                        torn>>
    BY <1>1 DEF InsertNewItem, UpdateOldItem
  <2>2. CurrentItem \in Item /\ req.date \in Dates /\ CurrentItem.id \in Ids
        /\ ItemRow(CurrentItem) \in Row
    BY <2>1, CurrentItemFacts, ItemRowType DEF Item
  <2>3. items' \in ItemTable
    BY <1>1, <2>2, ItemTableWrites
       DEF InsertNewItem, UpdateOldItem, TypeInv, TypeOK
  <2>4. calls' \in Seq(Call)
    <3>1. ItemSize(CurrentItem) \in Int
      BY <2>2 DEF ItemSize, Item
    <3>2. CASE InsertNewItem
      <4>1. Null \in Parents
        BY DEF Parents
      <4> QED
        BY <2>2, <3>1, <3>2, <4>1, ChangeSizeCallsType DEF InsertNewItem
    <3>3. CASE UpdateOldItem
      <4> DEFINE old == items[CurrentItem.id]
      <4>1. old \in Row
        BY <2>2, <3>3 DEF UpdateOldItem, ItemExists, ItemTable, TypeInv, TypeOK
      <4>2. old.parent \in Parents /\ old.size \in Int32
        BY <4>1 DEF Row
      <4>3. MaxInt \in Int
        BY TablesAssumption
      <4>4. ItemSize(CurrentItem) - old.size \in Int
        BY <3>1, <4>2, <4>3 DEF Int32, MinInt
      <4>5. Wrap(ItemSize(CurrentItem) - old.size) \in Int
        BY <4>4, WrapType
      <4> QED
        BY <2>2, <3>3, <4>2, <4>5, ChangeSizeCallsType DEF UpdateOldItem
    <3> QED
      BY <1>1, <3>2, <3>3
  <2>5. TypeOK'
    BY <2>1, <2>3, <2>4 DEF TypeInv, TypeOK
  <2>6. Control'
    BY <2>1 DEF TypeInv, Control
  <2>7. HalfDone'
    <3>1. items'[CurrentItem.id] = ItemRow(CurrentItem)
      BY <1>1, <2>2 DEF InsertNewItem, UpdateOldItem, InsertItem, UpdateItem,
         ItemTable, TypeInv, TypeOK
    <3>2. CurrentItem' = CurrentItem /\ ItemRow(CurrentItem)' = ItemRow(CurrentItem)
      BY <2>1 DEF CurrentItem, ItemRow
    <3>3. ItemRow(CurrentItem) # NoRow
      BY <2>2, TablesAssumption
    <3> QED
      BY <2>1, <3>1, <3>2, <3>3 DEF HalfDone, ItemExists
  <2> QED
    BY <2>5, <2>6, <2>7 DEF TypeInv
<1>2. CASE LogItem
  <2>1. CurrentItem \in Item /\ CurrentItem.id \in Ids /\ pc = "log"
    BY <1>2, CurrentItemFacts DEF LogItem, Item
  <2>2. history' \in HistoryTable
    <3>1. ItemRow(CurrentItem) \in Row
      BY <2>1 DEF TypeInv, TypeOK, HalfDone, ItemTable, ItemExists
    <3> QED
      BY <1>2, <2>1, <3>1, HistoryTableWrites DEF LogItem, TypeInv, TypeOK
  <2>3. TypeOK'
    BY <1>2, <2>2 DEF LogItem, TypeInv, TypeOK, volatile
  <2>4. Control' /\ HalfDone'
    BY <1>2 DEF LogItem, TypeInv, Control, HalfDone, volatile
  <2> QED
    BY <2>3, <2>4 DEF TypeInv
<1> QED
  BY <1>1, <1>2 DEF ImportStep

(* The steps between the calls change no table. *)
LEMMA BetweenCallsTypeInv ==
  ASSUME TypeInv, CallChangeSize \/ NextItem \/ Finish
  PROVE  TypeInv'
<1> USE DEF Quiet, ImportSteps, DeleteSteps, ChangeSteps
<1>1. HalfDone'
  BY DEF CallChangeSize, NextItem, Finish, HalfDone
<1>2. calls \in Seq(Call) /\ (pc = "next" => req \in Requests)
  BY DEF TypeInv, TypeOK, Control
<1>3. CASE CallChangeSize
  <2>1. Head(calls) \in Call
    BY <1>2, <1>3, HeadTailFacts DEF CallChangeSize
  <2>2. stack' \in Seq(Ids) /\ stack' # <<>>
    BY <1>3, <2>1 DEF CallChangeSize, Call
  <2>3. TypeOK'
    BY <1>3, <2>2 DEF CallChangeSize, TypeInv, TypeOK, tables
  <2>4. Control'
    BY <1>3, <2>2 DEF CallChangeSize, TypeInv, Control
  <2> QED
    BY <1>1, <2>3, <2>4 DEF TypeInv
<1>4. CASE NextItem
  <2>1. req.items \in Seq(Item) /\ idx \in DOMAIN req.items
    BY <1>2, <1>4, RequestFacts DEF NextItem, TypeInv, Control
  <2>2. idx' \in Nat /\ idx' \in DOMAIN req'.items
    BY <1>4, <2>1 DEF NextItem
  <2>3. TypeOK'
    BY <1>4, <2>2 DEF NextItem, TypeInv, TypeOK, tables
  <2>4. Control'
    BY <1>4, <2>2 DEF NextItem, TypeInv, Control
  <2> QED
    BY <1>1, <2>3, <2>4 DEF TypeInv
<1>5. CASE Finish
  <2>1. TypeOK'
    BY <1>5 DEF Finish, TypeInv, TypeOK, tables, Replies
  <2>2. Control'
    BY <1>5 DEF Finish, TypeInv, Control
  <2> QED
    BY <1>1, <2>1, <2>2 DEF TypeInv
<1> QED
  BY <1>3, <1>4, <1>5

LEMMA ChangeSizeStepTypeInv ==
  ASSUME TypeInv, Climb \/ Resize \/ Redate \/ Record
  PROVE  TypeInv'
<1> USE DEF Quiet, ImportSteps, DeleteSteps, ChangeSteps
<1>1. HalfDone'
  BY DEF Climb, Resize, Redate, Record, HalfDone
<1>2. pc \in ChangeSteps \ {"next"}
  BY DEF Climb, Resize, Redate, Record
<1>3. /\ Last(stack) \in Ids /\ Head(calls) \in Call
      /\ req.date \in Dates
      /\ items \in ItemTable /\ history \in HistoryTable
  BY <1>2, ClimbFacts DEF TypeInv, TypeOK
<1>4. stack \in Seq(Ids) /\ stack # <<>> /\ calls # <<>>
  BY <1>2 DEF TypeInv, TypeOK, Control
<1>5. CASE Climb
  <2>1. items[Last(stack)].parent \in Parents
    BY <1>3, <1>5 DEF Climb, ItemExists, ItemTable, Row
  <2>2. stack' \in Seq(Ids) /\ stack' # <<>>
    <3>1. CASE items[Last(stack)].parent = Null
      BY <1>4, <1>5, <3>1 DEF Climb
    <3>2. CASE items[Last(stack)].parent # Null
      <4>1. items[Last(stack)].parent \in Ids
        BY <2>1, <3>2 DEF Parents
      <4> QED
        BY <1>4, <1>5, <3>2, <4>1, AppendFacts DEF Climb
    <3> QED
      BY <3>1, <3>2
  <2>3. pc' \in {"climb", "resize"}
    BY <1>5 DEF Climb
  <2>4. TypeOK'
    BY <1>5, <2>2, <2>3 DEF Climb, TypeInv, TypeOK, tables
  <2>5. Control'
    BY <1>4, <1>5, <2>2, <2>3 DEF Climb, TypeInv, Control
  <2> QED
    BY <1>1, <2>4, <2>5 DEF TypeInv
<1>6. CASE Resize \/ Redate
  <2>1. items' \in ItemTable
    BY <1>3, <1>6, ItemTableWrites DEF Resize, SizeFits, Redate, Call
  <2>2. TypeOK'
    BY <1>6, <2>1 DEF Resize, Redate, TypeInv, TypeOK, volatile
  <2>3. Control'
    BY <1>4, <1>6 DEF Resize, Redate, TypeInv, Control, volatile
  <2> QED
    BY <1>1, <2>2, <2>3 DEF TypeInv
<1>7. CASE Record
  <2>1. items[Last(stack)] \in Row
    BY <1>3, <1>7 DEF Record, ItemExists, ItemTable
  <2>2. history' \in HistoryTable
    BY <1>3, <1>7, <2>1, HistoryTableWrites DEF Record
  <2>3. stack' \in Seq(Ids) /\ (stack' = <<>> <=> Len(stack) = 1)
    BY <1>4, <1>7, FrontFacts DEF Record
  <2>4. calls' \in Seq(Call)
    BY <1>2, <1>7, ClimbFacts DEF Record, TypeInv, TypeOK
  <2>5. TypeOK'
    BY <1>7, <2>2, <2>3, <2>4 DEF Record, TypeInv, TypeOK
  <2>6. Control'
    BY <1>4, <1>7, <2>3 DEF Record, TypeInv, Control
  <2> QED
    BY <1>1, <2>5, <2>6 DEF TypeInv
<1> QED
  BY <1>5, <1>6, <1>7

LEMMA DeleteStepTypeInv ==
  ASSUME TypeInv, DeleteStep
  PROVE  TypeInv'
<1> USE DEF Quiet, ImportSteps, DeleteSteps, ChangeSteps
<1>1. pc \in DeleteSteps
  BY DEF DeleteStep, Descend, DeleteRow, EraseHistory
<1>2. /\ frames \in Seq(Frame) /\ frames # <<>> /\ Len(frames) \in Nat \ {0}
      /\ Last(frames) \in Frame /\ Last(frames).id \in Ids
      /\ Last(frames) = frames[Len(frames)]
  BY <1>1, DeleteFacts DEF Frame, TypeInv, Control
<1>3. CASE \E c \in Ids : Descend(c)
  <2>1. PICK c \in Ids : Descend(c)
    BY <1>3
  <2> DEFINE top == [frames[Len(frames)] EXCEPT !.todo = @ \ {c}]
             waiting == [frames EXCEPT ![Len(frames)] = top]
             called == [id |-> c, todo |-> GetChildren(items, c)]
  <2>2. top \in Frame /\ called \in Frame
    BY <1>2 DEF Frame, GetChildren
  <2>3. waiting \in Seq(Frame)
    BY <1>2, <2>2, ExceptFacts
  <2>4. frames' = Append(waiting, called)
    BY <2>1 DEF Descend
  <2>5. frames' \in Seq(Frame) /\ frames' # <<>>
    BY <2>2, <2>3, <2>4, AppendFacts
  <2>6. TypeOK'
    BY <2>1, <2>5 DEF Descend, TypeInv, TypeOK, tables
  <2>7. Control' /\ HalfDone'
    BY <2>1, <2>5 DEF Descend, TypeInv, Control, HalfDone
  <2> QED
    BY <2>6, <2>7 DEF TypeInv
<1>4. CASE DeleteRow
  <2>1. items' \in ItemTable /\ ~ItemExists(items', Last(frames).id)
    BY <1>2, <1>4, ItemTableWrites
       DEF DeleteRow, DeleteItem, ItemExists, ItemTable, TypeInv, TypeOK
  <2>2. calls' \in Seq(Call)
    <3>1. CASE calls # <<>>
      <4> DEFINE row == items[Last(frames).id]
                 less == Wrap(calls[1].delta - row.size)
                 call == [calls[1] EXCEPT !.delta = less]
      <4>1. calls \in Seq(Call) /\ 1 \in 1 .. Len(calls) /\ calls[1] \in Call
        BY <3>1 DEF TypeInv, TypeOK
      <4>2. row \in Row
        BY <1>2, <1>4 DEF DeleteRow, ItemExists, ItemTable, TypeInv, TypeOK
      <4>3. row.size \in Int
        BY <4>2, TablesAssumption DEF Row, Int32, MinInt
      <4>4. less \in Int
        <5>1. calls[1].delta - row.size \in Int
          BY <4>1, <4>3 DEF Call
        <5> QED
          BY <5>1, WrapType
      <4>5. call \in Call
        BY <4>1, <4>4 DEF Call
      <4>6. [calls EXCEPT ![1] = call] \in Seq(Call)
        BY <4>1, <4>5, ExceptFacts
      <4> QED
        BY <1>4, <4>1, <4>6 DEF DeleteRow
    <3> QED
      BY <1>4, <3>1 DEF DeleteRow, TypeInv, TypeOK
  <2>3. TypeOK'
    BY <1>4, <2>1, <2>2 DEF DeleteRow, TypeInv, TypeOK
  <2>4. Control'
    BY <1>4, <1>2 DEF DeleteRow, TypeInv, Control
  <2>5. HalfDone'
    BY <1>4, <2>1 DEF DeleteRow, HalfDone
  <2> QED
    BY <2>3, <2>4, <2>5 DEF TypeInv
<1>5. CASE EraseHistory
  <2>1. history' \in HistoryTable
    BY <1>2, <1>5, HistoryTableWrites DEF EraseHistory, TypeInv, TypeOK
  <2>2. frames' \in Seq(Frame) /\ (frames' = <<>> <=> Len(frames) = 1)
    BY <1>2, <1>5, FrontFacts DEF EraseHistory
  <2>3. TypeOK'
    BY <1>5, <2>1, <2>2 DEF EraseHistory, TypeInv, TypeOK
  <2>4. Control' /\ HalfDone'
    BY <1>5, <2>2 DEF EraseHistory, TypeInv, Control, HalfDone
  <2> QED
    BY <2>3, <2>4 DEF TypeInv
<1> QED
  BY <1>3, <1>4, <1>5 DEF DeleteStep

(* However the process ends, it forgets the request and keeps the tables. *)
LEMMA EndTypeInv ==
  ASSUME TypeInv, Fault \/ Crash \/ Restart
  PROVE  TypeInv'
<1> USE DEF Quiet, ImportSteps, DeleteSteps, ChangeSteps
<1>1. CASE Die /\ reply' \in Replies
  <2>1. InFlight \subseteq Ids
    <3>1. pc = "log" => CurrentItem.id \in Ids
      BY CurrentItemFacts DEF Item
    <3>2. pc \in {"redate", "record"} => Last(stack) \in Ids
      BY ClimbFacts
    <3>3. pc = "unlog" => Last(frames).id \in Ids
      BY DeleteFacts DEF Frame
    <3> QED
      BY <3>1, <3>2, <3>3 DEF InFlight
  <2>2. TypeOK'
    BY <1>1, <2>1 DEF Die, TypeInv, TypeOK, tables
  <2>3. Control' /\ HalfDone'
    BY <1>1 DEF Die, Control, HalfDone
  <2> QED
    BY <2>2, <2>3 DEF TypeInv
<1>2. CASE Restart
  BY <1>2 DEF Restart, TypeInv, TypeOK, Control, HalfDone, tables, volatile,
     Replies
<1>3. Fault => Die /\ reply' \in Replies
  BY DEF Fault, Replies
<1>4. Crash => Die /\ reply' \in Replies
  BY DEF Crash, TypeInv, TypeOK
<1> QED
  BY <1>1, <1>2, <1>3, <1>4

LEMMA StepTypeInv == TypeInv /\ [Next]_vars => TypeInv'
<1> SUFFICES ASSUME TypeInv, [Next]_vars
             PROVE  TypeInv'
  OBVIOUS
<1>1. CASE UNCHANGED vars
  <2>1. CurrentItem' = CurrentItem /\ ItemRow(CurrentItem)' = ItemRow(CurrentItem)
    BY <1>1 DEF vars, CurrentItem, ItemRow
  <2> QED
    BY <1>1, <2>1 DEF vars, TypeInv, TypeOK, Control, HalfDone
<1>2. CASE \E r \in Requests : Arrive(r)
  BY <1>2, ArriveTypeInv
<1>3. CASE HandlerStep
  BY <1>3, ImportStepTypeInv, BetweenCallsTypeInv, ChangeSizeStepTypeInv,
     DeleteStepTypeInv, EndTypeInv DEF HandlerStep, ChangeSizeStep
<1>4. CASE Crash \/ Restart
  BY <1>4, EndTypeInv
<1> QED
  BY <1>1, <1>2, <1>3, <1>4 DEF Next

(* The tables and the variables of the handlers keep their types: no       *)
(* column is ever given a value outside INT, every request at work is one  *)
(* that was let through (DbManager.h:32-60, Main.cpp:72-139).              *)
THEOREM TypeCorrect == Spec => []TypeOK
<1>1. Spec => []TypeInv
  BY InitTypeInv, StepTypeInv, PTL DEF Spec
<1>2. TypeInv => TypeOK
  BY DEF TypeInv
<1> QED
  BY <1>1, <1>2, PTL
-----------------------------------------------------------------------------
(***************************************************************************)
(* No item is left below an item that is gone.                             *)
(***************************************************************************)

ForestInv == TypeInv /\ ParentsFirst /\ ChildrenListed /\ ParentExists

(* A step that keeps every row's existence and parent keeps ParentExists.  *)
LEMMA SameShape ==
  ASSUME ParentExists,
         \A id \in Ids : ItemExists(items', id) <=> ItemExists(items, id),
         \A id \in Ids : ItemExists(items, id) =>
                          items'[id].parent = items[id].parent,
         items \in ItemTable
  PROVE  ParentExists'
<1>1. \A id \in Ids : ItemExists(items, id) => items[id].parent \in Parents
  BY DEF ItemTable, ItemExists, Row
<1> QED
  BY <1>1 DEF ParentExists, Parents

LEMMA ChangedRows ==
  ASSUME TypeInv, Resize \/ Redate
  PROVE  /\ \A id \in Ids : ItemExists(items', id) <=> ItemExists(items, id)
         /\ \A id \in Ids : ItemExists(items, id) =>
                            items'[id].parent = items[id].parent
<1>1. pc \in ChangeSteps \ {"next"}
  BY DEF Resize, Redate, ChangeSteps
<1>2. /\ Last(stack) \in Ids /\ Head(calls) \in Call /\ req.date \in Dates
      /\ items \in ItemTable /\ items' \in ItemTable
  BY <1>1, ClimbFacts, ChangeSizeStepTypeInv DEF TypeInv, TypeOK
<1>3. \A row \in Row : row # NoRow
  BY TablesAssumption
<1>4. CASE ~ItemExists(items, Last(stack))
  BY <1>4 DEF Resize, Redate, AddSize, SetDate
<1>5. CASE ItemExists(items, Last(stack))
  <2> DEFINE row == items[Last(stack)]
  <2>1. row \in Row
    BY <1>2, <1>5 DEF ItemTable, ItemExists
  <2>2. \A id \in Ids : id # Last(stack) => items'[id] = items[id]
    BY <1>2, <1>5 DEF Resize, Redate, AddSize, SetDate, ItemTable
  <2>3. \/ items'[Last(stack)] = [row EXCEPT !.size = @ + Head(calls).delta]
        \/ items'[Last(stack)] = [row EXCEPT !.date = req.date]
    BY <1>2, <1>5 DEF Resize, Redate, AddSize, SetDate, ItemTable
  <2>4. items'[Last(stack)].parent = row.parent
    BY <2>1, <2>3 DEF Row
  <2>5. items'[Last(stack)] \in Row
    <3>1. CASE Resize
      <4>1. row.size + Head(calls).delta \in Int32
        BY <1>5, <3>1 DEF Resize, SizeFits
      <4> QED
        BY <1>2, <1>5, <2>1, <3>1, <4>1 DEF Resize, AddSize, ItemTable, Row
    <3>2. CASE Redate
      BY <1>2, <1>5, <2>1, <3>2 DEF Redate, SetDate, ItemTable, Row
    <3> QED
      BY <3>1, <3>2
  <2> QED
    BY <1>3, <1>5, <2>2, <2>4, <2>5 DEF ItemExists
<1> QED
  BY <1>4, <1>5

(* An item is stored when its parent is there already. *)
LEMMA StoreForest ==
  ASSUME ForestInv, InsertNewItem \/ UpdateOldItem
  PROVE  ParentsFirst' /\ ParentExists'
<1>1. /\ pc = "store" /\ pc' = "log" /\ ItemSize(CurrentItem) \in Int32
      /\ items \in ItemTable /\ UNCHANGED <<req, idx>>
  BY DEF InsertNewItem, UpdateOldItem, ForestInv, TypeInv, TypeOK
<1>2. /\ CurrentItem \in Item /\ req.date \in Dates
      /\ req.items \in Seq(Item) /\ req.kind = "imports"
      /\ idx \in DOMAIN req.items
  BY <1>1, CurrentItemFacts DEF ForestInv, ImportSteps
<1>3. idx \in 1 .. Len(req.items) /\ CurrentItem.id \in Ids
      /\ CurrentItem.parent \in Parents
  BY <1>2 DEF Item
<1>4. ItemRow(CurrentItem) # NoRow
  BY <1>1, <1>2, ItemRowType
<1>5. items' = [items EXCEPT ![CurrentItem.id] = ItemRow(CurrentItem)]
  BY DEF InsertNewItem, UpdateOldItem, InsertItem, UpdateItem
<1>6. \A id \in Ids : ItemExists(items', id)
                        <=> id = CurrentItem.id \/ ItemExists(items, id)
  BY <1>1, <1>4, <1>5 DEF ItemExists, ItemTable
<1>7. \A j \in idx .. Len(req.items) :
        \/ req.items[j].parent = Null
        \/ ItemExists(items, req.items[j].parent)
        \/ \E k \in idx .. j - 1 : req.items[k].id = req.items[j].parent
  BY <1>1, <1>2 DEF ForestInv, ParentsFirst, FirstToStore, Quiet
<1>8. ParentExists'
  <2>1. CurrentItem.parent = Null \/ ItemExists(items, CurrentItem.parent)
    BY <1>3, <1>7 DEF CurrentItem
  <2>2. \A id \in Ids : ItemExists(items, id) => items[id].parent \in Parents
    BY <1>1 DEF ItemTable, ItemExists, Row
  <2>3. items'[CurrentItem.id].parent = CurrentItem.parent
    BY <1>1, <1>3, <1>5 DEF ItemTable, ItemRow
  <2>4. \A id \in Ids : id # CurrentItem.id => items'[id] = items[id]
    BY <1>1, <1>3, <1>5 DEF ItemTable
  <2> QED
    BY <1>3, <1>6, <2>1, <2>2, <2>3, <2>4 DEF ParentExists, ForestInv, Parents
<1>9. ParentsFirst'
  <2>1. FirstToStore' = idx + 1 /\ req' = req
    BY <1>1 DEF FirstToStore
  <2> SUFFICES ASSUME NEW j \in idx + 1 .. Len(req.items)
               PROVE  \/ req.items[j].parent = Null
                      \/ ItemExists(items', req.items[j].parent)
                      \/ \E k \in idx + 1 .. j - 1 :
                            req.items[k].id = req.items[j].parent
    BY <2>1 DEF ParentsFirst
  <2>2. j \in idx .. Len(req.items) /\ req.items[j] \in Item
    BY <1>2, <1>3
  <2>3. req.items[j].parent \in Parents
    BY <2>2 DEF Item
  <2>4. CASE \E k \in idx .. j - 1 : req.items[k].id = req.items[j].parent
    <3>1. PICK k \in idx .. j - 1 : req.items[k].id = req.items[j].parent
      BY <2>4
    <3>2. CASE k = idx
      BY <1>3, <1>6, <3>1, <3>2 DEF CurrentItem
    <3>3. CASE k # idx
      BY <1>3, <3>1, <3>3
    <3> QED
      BY <3>2, <3>3
  <2> QED
    BY <1>6, <1>7, <2>2, <2>3, <2>4 DEF Parents
<1> QED
  BY <1>8, <1>9

(* An item goes when none of its children is left. *)
LEMMA DeleteForest ==
  ASSUME ForestInv, DeleteStep
  PROVE  ChildrenListed' /\ ParentExists'
<1> USE DEF DeleteSteps
<1>1. pc \in DeleteSteps
  BY DEF DeleteStep, Descend, DeleteRow, EraseHistory
<1>2. /\ frames \in Seq(Frame) /\ Len(frames) \in Nat \ {0} /\ frames # <<>>
      /\ Last(frames) \in Frame /\ Last(frames) = frames[Len(frames)]
      /\ items \in ItemTable
  BY <1>1, DeleteFacts DEF ForestInv, TypeInv, TypeOK, Control
<1>3. \A n \in 1 .. Len(frames) : \A c \in GetChildren(items, frames[n].id) :
        \/ c \in frames[n].todo
        \/ n < Len(frames) /\ frames[n + 1].id = c
  BY <1>1, <1>2 DEF ForestInv, ChildrenListed
<1>4. CASE \E c \in Ids : Descend(c)
  <2>1. PICK c \in Ids : Descend(c)
    BY <1>4
  <2> DEFINE last == Len(frames)
             top == [frames[last] EXCEPT !.todo = @ \ {c}]
             waiting == [frames EXCEPT ![last] = top]
             called == [id |-> c, todo |-> GetChildren(items, c)]
  <2>2. top \in Frame /\ called \in Frame
        /\ top.id = frames[last].id /\ top.todo = frames[last].todo \ {c}
    BY <1>2 DEF Frame, GetChildren
  <2>4. frames' = Append(waiting, called) /\ items' = items
    BY <2>1 DEF Descend, tables
  <2>5. /\ frames' \in Seq(Frame)
        /\ Len(frames') = last + 1 /\ frames'[last + 1] = called
        /\ frames'[last] = top
        /\ \A n \in 1 .. last - 1 : frames'[n] = frames[n]
    <3> HIDE DEF top, called
    <3> QED
      BY <1>2, <2>2, <2>4, CallFacts
  <2>6. ChildrenListed'
    <3> SUFFICES ASSUME NEW n \in 1 .. last + 1,
                        NEW x \in GetChildren(items, frames'[n].id)
                 PROVE  \/ x \in frames'[n].todo
                        \/ n < last + 1 /\ frames'[n + 1].id = x
      <4>1. DOMAIN frames' = 1 .. last + 1
        BY <2>5
      <4> QED
        BY <2>4, <2>5, <4>1 DEF ChildrenListed
    <3>1. CASE n = last + 1
      BY <2>5, <3>1
    <3>2. CASE n = last
      <4>1. x \in GetChildren(items, frames[last].id) /\ last \in 1 .. last
        <5>1. frames'[n] = top
          BY <2>5, <3>2
        <5> HIDE DEF top
        <5> QED
          BY <1>2, <2>2, <5>1
      <4>2. x \in frames[last].todo
        BY <1>2, <1>3, <4>1
      <4>3. x \in top.todo \/ x = called.id
        BY <2>2, <4>2
      <4>4. frames'[n] = top /\ frames'[n + 1] = called /\ n < last + 1
        BY <1>2, <2>5, <3>2
      <4> HIDE DEF top, called
      <4> QED
        BY <4>3, <4>4
    <3>3. CASE n < last
      <4>1. frames'[n] = frames[n] /\ n \in 1 .. last
        BY <1>2, <2>5, <3>3
      <4>2. frames'[n + 1].id = frames[n + 1].id
        <5>1. CASE n + 1 = last
          BY <2>2, <2>5, <5>1
        <5>2. CASE n + 1 # last
          BY <1>2, <2>5, <3>3, <5>2
        <5> QED
          BY <5>1, <5>2
      <4> QED
        BY <1>2, <1>3, <4>1, <4>2
    <3> QED
      BY <1>2, <3>1, <3>2, <3>3
  <2> QED
    BY <2>4, <2>6 DEF ForestInv, ParentExists
<1>5. CASE DeleteRow
  <2> DEFINE gone == Last(frames).id
  <2>1. gone \in Ids /\ Last(frames).todo = {} /\ frames' = frames
    BY <1>2, <1>5 DEF DeleteRow, Frame
  <2>2. items' = [items EXCEPT ![gone] = NoRow]
    BY <1>5 DEF DeleteRow, DeleteItem
  <2>3. \A id \in Ids : id # gone => items'[id] = items[id]
    BY <1>2, <2>1, <2>2 DEF ItemTable
  <2>4. ~ItemExists(items', gone)
    BY <1>2, <2>1, <2>2 DEF ItemExists, ItemTable
  <2>5. GetChildren(items, gone) = {}
    <3>1. Len(frames) \in 1 .. Len(frames) /\ ~(Len(frames) < Len(frames))
      BY <1>2
    <3>2. frames[Len(frames)].id = gone /\ frames[Len(frames)].todo = {}
      BY <1>2, <2>1
    <3> QED
      BY <1>3, <3>1, <3>2
  <2>6. ASSUME NEW id \in Ids, NEW c \in GetChildren(items', id)
        PROVE  c \in GetChildren(items, id)
    <3>1. c \in Ids /\ ItemExists(items', c) /\ items'[c].parent = id
      BY <2>6 DEF GetChildren
    <3>2. items'[c] = items[c]
      BY <2>3, <2>4, <3>1
    <3> QED
      BY <3>1, <3>2 DEF GetChildren, ItemExists
  <2>7. \A n \in 1 .. Len(frames) : frames[n].id \in Ids
    <3> TAKE n \in 1 .. Len(frames)
    <3>1. frames[n] \in Frame
      BY <1>2
    <3> QED
      BY <3>1 DEF Frame
  <2>8. ChildrenListed'
    BY <1>2, <1>3, <2>1, <2>6, <2>7 DEF ChildrenListed
  <2>9. ParentExists'
    <3> SUFFICES ASSUME NEW id \in Ids, ItemExists(items', id),
                        items'[id].parent # Null
                 PROVE  ItemExists(items', items'[id].parent)
      BY DEF ParentExists
    <3>1. items'[id] = items[id] /\ ItemExists(items, id)
      BY <2>3, <2>4 DEF ItemExists
    <3>2. items[id].parent \in Ids /\ ItemExists(items, items[id].parent)
      BY <1>2, <3>1 DEF ForestInv, ParentExists, ItemTable, ItemExists, Row, Parents
    <3>3. items[id].parent # gone
      BY <2>5, <3>1 DEF GetChildren
    <3> QED
      BY <2>3, <3>1, <3>2, <3>3 DEF ItemExists
  <2> QED
    BY <2>8, <2>9
<1>6. CASE EraseHistory
  <2>1. /\ items' = items /\ frames' = Front(frames)
        /\ pc' = IF Len(frames) = 1 THEN "next" ELSE "delete"
        /\ ~ItemExists(items, Last(frames).id)
    BY <1>6 DEF EraseHistory, ForestInv, TypeInv, HalfDone
  <2>2. /\ frames' \in Seq(Frame) /\ Len(frames') = Len(frames) - 1
        /\ \A n \in 1 .. Len(frames) - 1 : frames'[n] = frames[n]
    BY <1>2, <2>1, FrontFacts
  <2>3. ChildrenListed'
    <3> SUFFICES ASSUME NEW n \in 1 .. Len(frames) - 1,
                        NEW x \in GetChildren(items, frames[n].id)
                 PROVE  \/ x \in frames[n].todo
                        \/ n < Len(frames) - 1 /\ frames[n + 1].id = x
      <4>1. \A n \in 1 .. Len(frames) - 2 : frames'[n + 1] = frames[n + 1]
        BY <1>2, <2>2
      <4> QED
        BY <1>2, <2>1, <2>2, <4>1 DEF ChildrenListed
    <3>1. x \in frames[n].todo \/ frames[n + 1].id = x
      BY <1>2, <1>3
    <3>2. CASE n = Len(frames) - 1
      <4>1. frames[n + 1] = Last(frames)
        BY <1>2, <3>2
      <4> QED
        BY <2>1, <3>1, <4>1 DEF GetChildren
    <3>3. CASE n # Len(frames) - 1
      BY <1>2, <3>1, <3>3
    <3> QED
      BY <3>2, <3>3
  <2> QED
    BY <2>1, <2>3 DEF ForestInv, ParentExists
<1> QED
  BY <1>4, <1>5, <1>6 DEF DeleteStep

LEMMA InitForest == Init => ForestInv
<1>1. ASSUME Init PROVE ParentsFirst /\ ChildrenListed /\ ParentExists
  BY <1>1 DEF Init, ParentsFirst, ChildrenListed, ParentExists, Quiet,
     DeleteSteps, EmptyItems, ItemExists
<1> QED
  BY <1>1, InitTypeInv DEF ForestInv

LEMMA ArriveForest ==
  ASSUME ForestInv, NEW r \in Requests, Arrive(r)
  PROVE  ParentsFirst' /\ ChildrenListed' /\ ParentExists'
<1> USE DEF Quiet, DeleteSteps
<1>1. ParentExists' /\ pc \notin DeleteSteps
  BY DEF Arrive, RejectImport, BeginImport, ThrowInValidation, RejectDelete,
     BeginDelete, Receive, AnswerAtOnce, tables, ForestInv, ParentExists
<1>2. CASE RejectImport(r) \/ ThrowInValidation(r) \/ RejectDelete(r)
  <2>1. pc' \in Quiet
    BY <1>2 DEF RejectImport, ThrowInValidation, RejectDelete, Receive, AnswerAtOnce
  <2> QED
    BY <1>1, <2>1 DEF ParentsFirst, ChildrenListed
<1>3. CASE BeginImport(r)
  <2>1. /\ pc' = "store" /\ req' = r /\ idx' = 1 /\ items' = items
        /\ r.kind = "imports" /\ ImportsValidate(r) = "accept"
    BY <1>3 DEF BeginImport, tables
  <2>2. \A j \in DOMAIN r.items : ParentAccepted(r.items, j)
    BY <2>1, AcceptedImport
  <2>3. r.items \in Seq(Item)
    BY <2>1, RequestFacts
  <2>4. \A id : GetType(items, id) = "FOLDER" => ItemExists(items, id)
    BY DEF GetType
  <2>5. ParentsFirst'
    <3>1. FirstToStore' = 1
      BY <2>1 DEF FirstToStore
    <3>2. ASSUME NEW j \in 1 .. Len(r.items)
          PROVE  \/ r.items[j].parent = Null
                 \/ ItemExists(items, r.items[j].parent)
                 \/ \E k \in 1 .. j - 1 : r.items[k].id = r.items[j].parent
      BY <2>2, <2>3, <2>4 DEF ParentAccepted
    <3> QED
      BY <2>1, <3>1, <3>2 DEF ParentsFirst
  <2> QED
    BY <1>1, <2>1, <2>5 DEF ChildrenListed
<1>4. CASE BeginDelete(r)
  <2>1. /\ pc' = "delete" /\ req' = r /\ r.kind = "delete" /\ items' = items
        /\ frames' = <<[id |-> r.id, todo |-> GetChildren(items, r.id)]>>
    BY <1>4 DEF BeginDelete, tables
  <2>2. ChildrenListed'
    BY <2>1 DEF ChildrenListed
  <2> QED
    BY <1>1, <2>1, <2>2 DEF ParentsFirst
<1> QED
  BY <1>2, <1>3, <1>4 DEF Arrive

LEMMA StepForest == ForestInv /\ [Next]_vars => ForestInv'
<1> SUFFICES ASSUME ForestInv, [Next]_vars
             PROVE  ForestInv'
  OBVIOUS
<1> USE DEF Quiet, ImportSteps, DeleteSteps, ChangeSteps
<1>1. TypeInv /\ TypeInv'
  BY StepTypeInv DEF ForestInv
<1>2. SUFFICES ParentsFirst' /\ ChildrenListed' /\ ParentExists'
  BY <1>1 DEF ForestInv
<1>3. CASE UNCHANGED vars
  <2>1. FirstToStore' = FirstToStore
    BY <1>3 DEF FirstToStore, vars
  <2> QED
    BY <1>3, <2>1 DEF vars, ForestInv, ParentsFirst, ChildrenListed, ParentExists
<1>4. CASE \E r \in Requests : Arrive(r)
  BY <1>4, ArriveForest
<1>5. CASE InsertNewItem \/ UpdateOldItem
  <2>1. pc' = "log"
    BY <1>5 DEF InsertNewItem, UpdateOldItem
  <2> QED
    BY <1>5, <2>1, StoreForest DEF ChildrenListed
<1>6. CASE DeleteStep
  <2>1. pc \in DeleteSteps /\ req' = req
    BY <1>6 DEF DeleteStep, Descend, DeleteRow, EraseHistory
  <2>2. req'.kind = "delete"
    BY <1>1, <2>1 DEF TypeInv, Control
  <2> QED
    BY <1>6, <2>2, DeleteForest DEF ParentsFirst
<1>7. CASE Fault \/ Crash \/ Restart
  <2>1. pc' \in Quiet /\ items' = items
    BY <1>7 DEF Fault, Crash, Restart, Die, tables
  <2> QED
    BY <2>1 DEF ParentsFirst, ChildrenListed, ForestInv, ParentExists
<1>8. CASE LogItem \/ CallChangeSize \/ Climb \/ NextItem \/ Record
  <2>1. items' = items /\ pc' \notin DeleteSteps /\ pc \notin Quiet
    BY <1>8 DEF LogItem, CallChangeSize, Climb, NextItem, Record, tables
  <2>2. req' = req /\ FirstToStore' = FirstToStore
    BY <1>8 DEF LogItem, CallChangeSize, Climb, NextItem, Record, volatile,
       FirstToStore
  <2> QED
    BY <2>1, <2>2 DEF ForestInv, ParentsFirst, ChildrenListed, ParentExists
<1>9. CASE Finish
  BY <1>9 DEF Finish, tables, ForestInv, ParentsFirst, ChildrenListed, ParentExists
<1>10. CASE Resize \/ Redate
  <2>1. /\ \A id \in Ids : ItemExists(items', id) <=> ItemExists(items, id)
        /\ \A id \in Ids : ItemExists(items, id) =>
                           items'[id].parent = items[id].parent
    BY <1>1, <1>10, ChangedRows
  <2>2. ParentExists'
    BY <1>1, <2>1, SameShape DEF ForestInv, TypeInv, TypeOK
  <2>3. req' = req /\ FirstToStore' = FirstToStore /\ pc \notin Quiet
        /\ pc' \notin DeleteSteps /\ req \in Requests
    BY <1>1, <1>10 DEF Resize, Redate, volatile, FirstToStore, TypeInv, Control
  <2>4. req.kind = "imports" => req.items \in Seq(Item)
    BY <2>3, RequestFacts
  <2>5. ParentsFirst'
    <3> SUFFICES ASSUME req.kind = "imports",
                        NEW j \in FirstToStore .. Len(req.items)
                 PROVE  \/ req.items[j].parent = Null
                        \/ ItemExists(items', req.items[j].parent)
                        \/ \E k \in FirstToStore .. j - 1 :
                              req.items[k].id = req.items[j].parent
      BY <2>3 DEF ParentsFirst
    <3>1. FirstToStore \in Nat \ {0}
      BY <2>3, <2>4, <1>1 DEF FirstToStore, TypeInv, Control
    <3>2. req.items[j].parent \in Parents
      <4>1. req.items[j] \in Item
        BY <2>4, <3>1
      <4> QED
        BY <4>1 DEF Item
    <3> QED
      BY <2>1, <2>3, <3>2 DEF ForestInv, ParentsFirst, Parents
  <2> QED
    BY <2>2, <2>3, <2>5 DEF ChildrenListed
<1> QED
  BY <1>3, <1>4, <1>5, <1>6, <1>7, <1>8, <1>9, <1>10
     DEF Next, HandlerStep, ImportStep, ChangeSizeStep

(* Whatever requests come and wherever the process is cut off, the parent  *)
(* of every item in the table is in the table (Main.cpp:35-39, 107-112):   *)
(* ParentsFirst carries the imports and ChildrenListed the deletions.      *)
THEOREM NoOrphans == Spec => []ParentExists
<1>1. Spec => []ForestInv
  BY InitForest, StepForest, PTL DEF Spec
<1>2. ForestInv => ParentExists
  BY DEF ForestInv
<1> QED
  BY <1>1, <1>2, PTL

(* The loops keep what they rely on between their transactions.            *)
THEOREM InvariantHolds == Spec => []HandlerInvariant
<1>1. Spec => []ForestInv
  BY InitForest, StepForest, PTL DEF Spec
<1>2. ForestInv => HandlerInvariant
  BY DEF ForestInv, TypeInv, HandlerInvariant
<1> QED
  BY <1>1, <1>2, PTL
-----------------------------------------------------------------------------
(***************************************************************************)
(* The history agrees with the items.                                      *)
(***************************************************************************)

Agrees(id) ==
  IF ItemExists(items, id)
  THEN history[id] # <<>> /\ Last(history[id]) = items[id]
  ELSE history[id] = <<>>

(* A step that touches the rows of one id only. *)
LEMMA OneIdTouched ==
  ASSUME HistoryAgrees, NEW x \in Ids,
         \A id \in Ids : id # x => items'[id] = items[id]
                                 /\ history'[id] = history[id],
         (torn \cup InFlight) \ {x} \subseteq torn' \cup InFlight',
         x \in torn' \cup InFlight' \/ Agrees(x)'
  PROVE  HistoryAgrees'
BY DEF HistoryAgrees, Agrees, ItemExists

(* A step that touches neither table and loses track of no id. *)
LEMMA NoIdTouched ==
  ASSUME HistoryAgrees, UNCHANGED tables,
         torn \cup InFlight \subseteq torn' \cup InFlight'
  PROVE  HistoryAgrees'
BY DEF HistoryAgrees, tables, ItemExists

(* One row more in the history of an id. *)
LEMMA HistoryGrows ==
  ASSUME history \in HistoryTable, NEW x \in Ids, NEW row \in Row,
         history' = InsertIntoHistory(history, x, row)
  PROVE  /\ \A id \in Ids : id # x => history'[id] = history[id]
         /\ history'[x] # <<>> /\ Last(history'[x]) = row
         /\ IsPrefix(history[x], history'[x])
<1>1. history[x] \in Seq(Row) /\ history'[x] = Append(history[x], row)
  BY DEF InsertIntoHistory, HistoryTable
<1>2. \A id \in Ids : id # x => history'[id] = history[id]
  BY DEF InsertIntoHistory, HistoryTable
<1> QED
  BY <1>1, <1>2, AppendFacts

(* What each step that writes does to the one id it writes. *)
LEMMA LogItemWrites ==
  ASSUME TypeInv, LogItem
  PROVE  /\ CurrentItem.id \in Ids /\ ItemRow(CurrentItem) \in Row
         /\ ItemExists(items, CurrentItem.id)
         /\ items[CurrentItem.id] = ItemRow(CurrentItem)
         /\ history \in HistoryTable
<1>1. pc = "log"
  BY DEF LogItem
<1>2. CurrentItem.id \in Ids
  BY <1>1, CurrentItemFacts DEF ImportSteps, Item
<1>3. /\ ItemExists(items, CurrentItem.id)
      /\ items[CurrentItem.id] = ItemRow(CurrentItem)
  BY <1>1 DEF TypeInv, HalfDone
<1> QED
  BY <1>2, <1>3 DEF TypeInv, TypeOK, ItemTable, ItemExists

LEMMA RecordWrites ==
  ASSUME TypeInv, Record
  PROVE  /\ Last(stack) \in Ids /\ ItemExists(items, Last(stack))
         /\ items[Last(stack)] \in Row /\ history \in HistoryTable
<1>1. Last(stack) \in Ids
  BY ClimbFacts DEF Record, ChangeSteps
<1> QED
  BY <1>1 DEF Record, TypeInv, TypeOK, ItemTable, ItemExists

LEMMA EraseWrites ==
  ASSUME TypeInv, EraseHistory
  PROVE  /\ Last(frames).id \in Ids /\ ~ItemExists(items, Last(frames).id)
         /\ \A id \in Ids : id # Last(frames).id => history'[id] = history[id]
         /\ history'[Last(frames).id] = <<>>
<1>1. pc = "unlog"
  BY DEF EraseHistory
<1>2. Last(frames).id \in Ids
  BY <1>1, DeleteFacts DEF DeleteSteps, Frame
<1> QED
  BY <1>1, <1>2 DEF EraseHistory, DeleteFromHistory, HistoryTable, TypeInv,
     TypeOK, HalfDone

LEMMA StepAgrees == TypeInv /\ HistoryAgrees /\ [Next]_vars => HistoryAgrees'
<1> SUFFICES ASSUME TypeInv, HistoryAgrees, [Next]_vars
             PROVE  HistoryAgrees'
  OBVIOUS
<1> USE DEF Quiet
<1>1. items \in ItemTable /\ history \in HistoryTable
  BY DEF TypeInv, TypeOK
<1>2. CASE UNCHANGED vars
  <2>1. InFlight' = InFlight
    BY <1>2 DEF vars, InFlight, CurrentItem
  <2> QED
    BY <1>2, <2>1, NoIdTouched DEF vars, tables
<1>3. CASE \E r \in Requests : Arrive(r)
  <2>1. UNCHANGED tables /\ torn' = torn /\ pc = "idle"
    BY <1>3 DEF Arrive, RejectImport, BeginImport, ThrowInValidation,
       RejectDelete, BeginDelete, Receive, AnswerAtOnce
  <2>2. InFlight = {}
    BY <2>1 DEF InFlight
  <2> QED
    BY <2>1, <2>2, NoIdTouched
<1>4. CASE InsertNewItem \/ UpdateOldItem
  <2>1. pc = "store" /\ pc' = "log" /\ UNCHANGED <<history, req, idx, torn>>
    BY <1>4 DEF InsertNewItem, UpdateOldItem
  <2>2. CurrentItem.id \in Ids
    BY <2>1, CurrentItemFacts DEF ImportSteps, Item
  <2>3. \A id \in Ids : id # CurrentItem.id => items'[id] = items[id]
    BY <1>1, <1>4, <2>2 DEF InsertNewItem, UpdateOldItem, InsertItem, UpdateItem,
       ItemTable
  <2>4. InFlight = {} /\ InFlight' = {CurrentItem.id}
    BY <2>1 DEF InFlight, CurrentItem
  <2> QED
    BY <2>1, <2>2, <2>3, <2>4, OneIdTouched
<1>5. CASE LogItem
  <2> DEFINE x == CurrentItem.id
  <2>1. /\ x \in Ids /\ ItemExists(items, x)
        /\ \A id \in Ids : id # x => history'[id] = history[id]
        /\ history'[x] # <<>> /\ Last(history'[x]) = items[x]
    BY <1>5, LogItemWrites, HistoryGrows DEF LogItem
  <2>2. items' = items /\ torn' = torn \ {x} /\ InFlight = {x}
    BY <1>5 DEF LogItem, InFlight
  <2> QED
    BY <2>1, <2>2, OneIdTouched DEF Agrees
<1>6. CASE CallChangeSize \/ NextItem \/ Finish \/ Climb \/ (\E c \in Ids : Descend(c))
  <2>1. UNCHANGED tables /\ torn' = torn
        /\ pc \in {"next", "climb", "delete"}
    BY <1>6 DEF CallChangeSize, NextItem, Finish, Climb, Descend
  <2>2. InFlight = {}
    BY <2>1 DEF InFlight
  <2> QED
    BY <2>1, <2>2, NoIdTouched
<1>7. CASE Resize \/ Redate
  <2>1. /\ pc \in {"resize", "redate"} /\ pc' \in {"redate", "record"}
        /\ UNCHANGED <<history, stack, torn>>
    BY <1>7 DEF Resize, Redate, volatile
  <2>2. Last(stack) \in Ids
    BY <2>1, ClimbFacts DEF ChangeSteps
  <2>3. \A id \in Ids : id # Last(stack) => items'[id] = items[id]
    BY <1>1, <1>7, <2>2 DEF Resize, Redate, AddSize, SetDate, ItemTable
  <2>4. InFlight \subseteq {Last(stack)} /\ InFlight' = {Last(stack)}
    BY <2>1 DEF InFlight
  <2> QED
    BY <2>1, <2>2, <2>3, <2>4, OneIdTouched
<1>8. CASE Record
  <2> DEFINE x == Last(stack)
  <2>1. /\ x \in Ids /\ ItemExists(items, x)
        /\ \A id \in Ids : id # x => history'[id] = history[id]
        /\ history'[x] # <<>> /\ Last(history'[x]) = items[x]
    BY <1>8, RecordWrites, HistoryGrows DEF Record
  <2>2. items' = items /\ torn' = torn \ {x} /\ InFlight = {x}
    BY <1>8 DEF Record, InFlight
  <2> QED
    BY <2>1, <2>2, OneIdTouched DEF Agrees
<1>9. CASE DeleteRow
  <2>1. pc = "delete" /\ pc' = "unlog" /\ UNCHANGED <<history, frames, torn>>
    BY <1>9 DEF DeleteRow
  <2>2. Last(frames).id \in Ids
    BY <2>1, DeleteFacts DEF DeleteSteps, Frame
  <2>3. \A id \in Ids : id # Last(frames).id => items'[id] = items[id]
    BY <1>1, <1>9, <2>2 DEF DeleteRow, DeleteItem, ItemTable
  <2>4. InFlight = {} /\ InFlight' = {Last(frames).id}
    BY <2>1 DEF InFlight
  <2> QED
    BY <2>1, <2>2, <2>3, <2>4, OneIdTouched
<1>10. CASE EraseHistory
  <2>1. items' = items /\ torn' = torn \ {Last(frames).id}
        /\ InFlight = {Last(frames).id}
    BY <1>10 DEF EraseHistory, InFlight
  <2> QED
    BY <1>10, <2>1, EraseWrites, OneIdTouched DEF Agrees, ItemExists
<1>11. CASE Fault \/ Crash \/ Restart
  <2>1. UNCHANGED tables /\ (torn' = torn \cup InFlight \/ (pc = "down" /\ torn' = torn))
    BY <1>11 DEF Fault, Crash, Restart, Die
  <2>2. pc = "down" => InFlight = {}
    BY DEF InFlight
  <2> QED
    BY <2>1, <2>2, NoIdTouched
<1> QED
  BY <1>2, <1>3, <1>4, <1>5, <1>6, <1>7, <1>8, <1>9, <1>10, <1>11
     DEF Next, HandlerStep, ImportStep, ChangeSizeStep, DeleteStep

(* But for the row a handler is at work on and the ids a crash caught      *)
(* between their two transactions, the history of an item ends with its    *)
(* row and an item that is gone has none (DbManager.h:122-147,             *)
(* Main.cpp:66-69, 112-116).                                               *)
THEOREM HistoryAgreesWithItems == Spec => []HistoryAgrees
<1>1. Init => HistoryAgrees
  BY DEF Init, HistoryAgrees, EmptyItems, EmptyHistory, ItemExists
<1>2. Spec => []TypeInv
  BY InitTypeInv, StepTypeInv, PTL DEF Spec
<1> QED
  BY <1>1, <1>2, StepAgrees, PTL DEF Spec

(* No step rewrites a row of the history, and only a step on an item that  *)
(* is gone erases its history (DbManager.h:108-120).                       *)
THEOREM HistoryOnlyGrows == Spec => HistoryKept
<1> DEFINE Kept == \A id \in Ids :
                     \/ IsPrefix(history[id], history'[id])
                     \/ ~ItemExists(items, id) /\ history'[id] = <<>>
<1>1. Spec => []TypeInv
  BY InitTypeInv, StepTypeInv, PTL DEF Spec
<1>2. TypeInv /\ [Next]_vars => [Kept]_vars
  <2> SUFFICES ASSUME TypeInv, Next
               PROVE  Kept
    BY DEF vars
  <2>1. \A id \in Ids : history[id] \in Seq(Row)
    BY DEF TypeInv, TypeOK, HistoryTable
  <2>2. CASE LogItem
    BY <2>1, <2>2, LogItemWrites, HistoryGrows, PrefixOfItself DEF LogItem
  <2>3. CASE Record
    BY <2>1, <2>3, RecordWrites, HistoryGrows, PrefixOfItself DEF Record
  <2>4. CASE EraseHistory
    BY <2>1, <2>4, EraseWrites, PrefixOfItself
  <2>5. CASE history' = history
    BY <2>1, <2>5, PrefixOfItself
  <2>6. LogItem \/ Record \/ EraseHistory \/ history' = history
    BY DEF Next, Arrive, RejectImport, BeginImport, ThrowInValidation,
       RejectDelete, BeginDelete, Receive, AnswerAtOnce, HandlerStep, ImportStep,
       InsertNewItem, UpdateOldItem, CallChangeSize, NextItem, Finish,
       ChangeSizeStep, Climb, Resize, Redate, DeleteStep, Descend, DeleteRow,
       Fault, Crash, Restart, Die, tables
  <2> QED
    BY <2>2, <2>3, <2>4, <2>5, <2>6
<1> QED
  BY <1>1, <1>2, PTL DEF Spec, HistoryKept
=============================================================================
