------------------------------ MODULE Handlers ------------------------------
(***************************************************************************)
(* ImportsHandler and DeleteHandler of Main.cpp, one database transaction  *)
(* per step.  The io_service runs one handler at a time on one thread and  *)
(* over one connection, so handlers never interleave with each other; what *)
(* interleaves with a handler is the end of the process.  A request is not *)
(* one transaction but many, and the process can end between any two:      *)
(* because it is killed (Crash) or because an exception or a stack         *)
(* overflow leaves the handler and with it main (Fault).                   *)
(***************************************************************************)
EXTENDS Tables, SequencesExt

CONSTANTS
  Requests,     \* the requests clients may send, in the classes below
  BadDate,      \* a date IsDateValid refuses
  MaxDepth,     \* recursive calls the stack of the process has room for
  MaxRequests   \* bound of the model: requests served in a behaviour

(***************************************************************************)
(* An item of an import.  "form" is the class of the JSON object:          *)
(*   "wellformed"  the fields its type needs, no field its type forbids;   *)
(*   "malformed"   a key is missing, id or type is null, a type is         *)
(*                 unknown, a FOLDER has a size or a url, a url is too     *)
(*                 long: the validation returns false;                     *)
(*   "nullfield"   a FILE with a null size, or a positive size and a null  *)
(*                 url: json::get throws type_error.                       *)
(***************************************************************************)
Item == [id : Ids, type : Types, parent : Parents, size : Nat,
         form : {"wellformed", "malformed", "nullfield"}]

RequestDates == Dates \cup {BadDate}

(* A body without "items", or with an empty array, is items = <<>>. *)
ImportRequest == [kind : {"imports"}, date : RequestDates, items : Seq(Item)]
DeleteRequest == [kind : {"delete"}, date : RequestDates, id : Ids]

ASSUME HandlersAssumption ==
  /\ Requests \subseteq ImportRequest \cup DeleteRequest
  /\ BadDate \notin Dates
  /\ MaxDepth \in Nat \ {0}
  /\ MaxRequests \in Nat

VARIABLES
  items, history,  \* the tables: what a restart finds again
  pc,              \* where the process is
  req,             \* the request being handled, Null if none
  idx,             \* position in req.items of the item being imported
  calls,           \* calls to ChangeSize not yet finished, in order
  stack,           \* the recursion of ChangeSize, outermost call first
  frames,          \* the recursion of DeleteIter, outermost call first
  reply,           \* the last reply: "none" until the handler has one
  served,          \* number of requests received
  (* Auxiliary variables, read by the properties only. *)
  before,          \* items as it was when the process was last idle
  torn             \* ids whose update or deletion lost its history step

tables == <<items, history>>
volatile == <<req, idx, calls, stack, frames>>
vars == <<items, history, pc, req, idx, calls, stack, frames, reply, served,
          before, torn>>

Quiet == {"idle", "down"}
ImportSteps == {"store", "log"}
ChangeSteps == {"next", "climb", "resize", "redate", "record"}
DeleteSteps == {"delete", "unlog"}
Replies == {"none", "ok", "bad_request", "not_found", "fault"}

Call == [id : Ids, delta : Int]
Frame == [id : Ids, todo : SUBSET Ids]

TypeOK ==
  /\ items \in ItemTable
  /\ history \in HistoryTable
  /\ pc \in Quiet \cup ImportSteps \cup ChangeSteps \cup DeleteSteps
  /\ req \in Requests \cup {Null}
  /\ idx \in Nat
  /\ calls \in Seq(Call)
  /\ stack \in Seq(Ids)
  /\ frames \in Seq(Frame)
  /\ reply \in Replies
  /\ served \in Nat
  /\ before \in ItemTable
  /\ torn \subseteq Ids

Init ==
  /\ items = EmptyItems
  /\ history = EmptyHistory
  /\ pc = "idle"
  /\ req = Null
  /\ idx = 0
  /\ calls = <<>>
  /\ stack = <<>>
  /\ frames = <<>>
  /\ reply = "none"
  /\ served = 0
  /\ before = items
  /\ torn = {}
-----------------------------------------------------------------------------
(***************************************************************************)
(* Validation.  ImportsValidate scans the items in order against the table *)
(* as it is before the request; the first item that is not accepted        *)
(* decides.  A parent is accepted if the table has it as a FOLDER or an    *)
(* earlier item of the same request is a FOLDER with its id.               *)
(***************************************************************************)
(* A slip: a later item counts as well. *)
ParentAnywhere(its, j) ==
  \/ its[j].parent = Null
  \/ GetType(items, its[j].parent) = "FOLDER"
  \/ \E k \in DOMAIN its : its[k].type = "FOLDER" /\ its[k].id = its[j].parent

ParentAccepted(its, j) ==
  \/ its[j].parent = Null
  \/ GetType(items, its[j].parent) = "FOLDER"
  \/ \E k \in 1 .. j - 1 : its[k].type = "FOLDER" /\ its[k].id = its[j].parent

(* A slip: the ids seen so far are not remembered. *)
VerdictWithoutIds(its, j) ==
  IF its[j].form = "malformed" \/ ~ParentAccepted(its, j) THEN "reject"
  ELSE IF its[j].form = "nullfield" THEN "throw"
  ELSE IF its[j].type = "FILE" /\ Wrap(its[j].size) <= 0 THEN "reject"
  ELSE "accept"

ItemVerdict(its, j) ==
  IF \/ its[j].form = "malformed"
     \/ \E k \in 1 .. j - 1 : its[k].id = its[j].id
     \/ ~ParentAccepted(its, j)
  THEN "reject"
  ELSE IF its[j].form = "nullfield" THEN "throw"
  ELSE IF its[j].type = "FILE" /\ Wrap(its[j].size) <= 0 THEN "reject"
  ELSE "accept"

ImportsValidate(r) ==
  LET Verdict(j) == ItemVerdict(r.items, j)
  IN  IF r.date = BadDate \/ r.items = <<>> THEN "reject"
      ELSE IF \A j \in DOMAIN r.items : Verdict(j) = "accept" THEN "accept"
      ELSE IF \E j \in DOMAIN r.items :
                Verdict(j) = "throw" /\ \A k \in 1 .. j - 1 : Verdict(k) = "accept"
      THEN "throw"
      ELSE "reject"
-----------------------------------------------------------------------------
(* The item being imported, and the row the handler makes of it. *)
CurrentItem == req.items[idx]
ItemSize(it) == IF it.type = "FOLDER" THEN 0 ELSE it.size
ItemRow(it) == [type |-> it.type, size |-> ItemSize(it), date |-> req.date,
                parent |-> it.parent]

(* Two slips: the former parent is left alone; a call that would change no *)
(* size is skipped.                                                        *)
CallsForNewParent(oldParent, it, sizeDelta) ==
  IF it.parent = Null THEN <<>>
  ELSE <<[id |-> it.parent,
          delta |-> IF oldParent # it.parent THEN ItemSize(it) ELSE sizeDelta]>>
CallsThatResize(oldParent, it, sizeDelta) ==
  LET size  == ItemSize(it)
      moved == oldParent # it.parent
  IN  (IF moved /\ oldParent # Null /\ size # 0
       THEN <<[id |-> oldParent, delta |-> -size]>> ELSE <<>>)
      \o
      (IF it.parent # Null /\ (IF moved THEN size ELSE sizeDelta) # 0
       THEN <<[id |-> it.parent, delta |-> IF moved THEN size ELSE sizeDelta]>>
       ELSE <<>>)

(* The calls of ChangeSize that follow the import of an item: the former   *)
(* parent loses the NEW size of the item, the parent it has now gains it;  *)
(* a parent that stays the same gains what the update changed.             *)
ChangeSizeCalls(oldParent, it, sizeDelta) ==
  LET size  == ItemSize(it)
      moved == oldParent # it.parent
  IN  (IF moved /\ oldParent # Null
       THEN <<[id |-> oldParent, delta |-> -size]>> ELSE <<>>)
      \o
      (IF it.parent # Null
       THEN <<[id |-> it.parent, delta |-> IF moved THEN size ELSE sizeDelta]>>
       ELSE <<>>)

(***************************************************************************)
(* The id whose row the last transaction changed and whose history the     *)
(* next transaction must still bring up to date.                           *)
(***************************************************************************)
InFlight ==
  CASE pc = "log"                 -> {CurrentItem.id}
    [] pc \in {"redate", "record"} -> {Last(stack)}
    [] pc = "unlog"               -> {Last(frames).id}
    [] OTHER                      -> {}
-----------------------------------------------------------------------------
(* Receiving a request. *)

Receive(r) ==
  /\ pc = "idle"
  /\ served < MaxRequests
  /\ served' = served + 1

AnswerAtOnce(status) ==
  /\ reply' = status
  /\ UNCHANGED <<tables, pc, volatile, before, torn>>

RejectImport(r) ==
  /\ Receive(r)
  /\ r.kind = "imports"
  /\ ImportsValidate(r) = "reject"
  /\ AnswerAtOnce("bad_request")

BeginImport(r) ==
  /\ Receive(r)
  /\ r.kind = "imports"
  /\ ImportsValidate(r) = "accept"
  /\ pc' = "store"
  /\ req' = r
  /\ idx' = 1
  /\ reply' = "none"
  /\ UNCHANGED <<tables, calls, stack, frames, before, torn>>

(* json::get throws inside the validation: nothing was written yet. *)
ThrowInValidation(r) ==
  /\ Receive(r)
  /\ r.kind = "imports"
  /\ ImportsValidate(r) = "throw"
  /\ pc' = "down"
  /\ reply' = "fault"
  /\ UNCHANGED <<tables, volatile, before, torn>>

RejectDelete(r) ==
  /\ Receive(r)
  /\ r.kind = "delete"
  /\ \/ r.date = BadDate /\ AnswerAtOnce("bad_request")
     \/ /\ r.date # BadDate
        /\ ~ItemExists(items, r.id)
        /\ AnswerAtOnce("not_found")

(* The parent is read before the item goes; its ChangeSize call collects   *)
(* the sizes of the files DeleteIter deletes.                              *)
BeginDelete(r) ==
  /\ Receive(r)
  /\ r.kind = "delete"
  /\ r.date # BadDate
  /\ ItemExists(items, r.id)
  /\ pc' = "delete"
  /\ req' = r
  /\ frames' = <<[id |-> r.id, todo |-> GetChildren(items, r.id)]>>
  /\ calls' = LET parent == items[r.id].parent
              IN  IF parent = Null THEN <<>>
                  ELSE <<[id |-> parent, delta |-> 0]>>
  /\ reply' = "none"
  /\ UNCHANGED <<tables, idx, stack, before, torn>>
-----------------------------------------------------------------------------
(* ImportsHandler: one item. *)

InsertNewItem ==
  /\ pc = "store"
  /\ ~ItemExists(items, CurrentItem.id)
  /\ ItemSize(CurrentItem) \in Int32
  /\ items' = InsertItem(items, CurrentItem.id, ItemRow(CurrentItem))
  /\ calls' = ChangeSizeCalls(Null, CurrentItem, ItemSize(CurrentItem))
  /\ pc' = "log"
  /\ UNCHANGED <<history, req, idx, stack, frames, reply, served, before, torn>>

UpdateOldItem ==
  /\ pc = "store"
  /\ ItemExists(items, CurrentItem.id)
  /\ ItemSize(CurrentItem) \in Int32
  /\ items' = UpdateItem(items, CurrentItem.id, ItemRow(CurrentItem))
  /\ LET old == items[CurrentItem.id]
     IN  calls' = ChangeSizeCalls(old.parent, CurrentItem,
                                  Wrap(ItemSize(CurrentItem) - old.size))
  /\ pc' = "log"
  /\ UNCHANGED <<history, req, idx, stack, frames, reply, served, before, torn>>

LogItem ==
  /\ pc = "log"
  /\ history' = InsertIntoHistory(history, CurrentItem.id, ItemRow(CurrentItem))
  /\ pc' = "next"
  /\ torn' = torn \ {CurrentItem.id}
  /\ UNCHANGED <<items, volatile, reply, served, before>>

(* Between the calls: the next call of ChangeSize, the next item, the end. *)

CallChangeSize ==
  /\ pc = "next"
  /\ calls # <<>>
  /\ stack' = <<Head(calls).id>>
  /\ pc' = "climb"
  /\ UNCHANGED <<tables, req, idx, calls, frames, reply, served, before, torn>>

NextItem ==
  /\ pc = "next"
  /\ calls = <<>>
  /\ req.kind = "imports" /\ idx < Len(req.items)
  /\ idx' = idx + 1
  /\ pc' = "store"
  /\ UNCHANGED <<tables, req, calls, stack, frames, reply, served, before, torn>>

Finish ==
  /\ pc = "next"
  /\ calls = <<>>
  /\ req.kind = "imports" => idx >= Len(req.items)
  /\ pc' = "idle"
  /\ req' = Null
  /\ idx' = 0
  /\ reply' = "ok"
  /\ before' = items
  /\ UNCHANGED <<tables, calls, stack, frames, served, torn>>
-----------------------------------------------------------------------------
(***************************************************************************)
(* ChangeSize of Main.cpp.  It first calls itself on the parent, so the    *)
(* stack grows up to the top of the tree and the rows are changed from the *)
(* top down, three transactions each.                                      *)
(***************************************************************************)
Climb ==
  /\ pc = "climb"
  /\ ItemExists(items, Last(stack))
  /\ LET parent == items[Last(stack)].parent
     IN  \/ /\ parent = Null
            /\ pc' = "resize"
            /\ UNCHANGED stack
         \/ /\ parent # Null
            /\ Len(stack) < MaxDepth
            /\ stack' = Append(stack, parent)
            /\ UNCHANGED pc
  /\ UNCHANGED <<tables, req, idx, calls, frames, reply, served, before, torn>>

(* An UPDATE that takes size out of INT fails, see Fault.  The slip is a   *)
(* column without that limit.                                              *)
AnySizeFits == TRUE
SizeFits ==
  ItemExists(items, Last(stack)) =>
    items[Last(stack)].size + Head(calls).delta \in Int32

Resize ==
  /\ pc = "resize"
  /\ SizeFits
  /\ items' = AddSize(items, Last(stack), Head(calls).delta)
  /\ pc' = "redate"
  /\ UNCHANGED <<history, volatile, reply, served, before, torn>>

Redate ==
  /\ pc = "redate"
  /\ items' = SetDate(items, Last(stack), req.date)
  /\ pc' = "record"
  /\ UNCHANGED <<history, volatile, reply, served, before, torn>>

(* GetItem and InsertIntoHistory, then the return to the caller. *)
Record ==
  /\ pc = "record"
  /\ ItemExists(items, Last(stack))
  /\ history' = InsertIntoHistory(history, Last(stack), items[Last(stack)])
  /\ torn' = torn \ {Last(stack)}
  /\ stack' = Front(stack)
  /\ IF Len(stack) = 1
     THEN pc' = "next" /\ calls' = Tail(calls)
     ELSE pc' = "resize" /\ UNCHANGED calls
  /\ UNCHANGED <<items, req, idx, frames, reply, served, before>>
-----------------------------------------------------------------------------
(***************************************************************************)
(* DeleteIter of Main.cpp: the children first, then the item, then its     *)
(* history.  SELECT returns the children in no particular order.           *)
(***************************************************************************)
(* Two slips: the child stays on the list of the caller; the call does not *)
(* look for children of its own.                                           *)
DescendAgain(c) ==
  /\ pc = "delete"
  /\ c \in Last(frames).todo
  /\ Len(frames) < MaxDepth
  /\ frames' = Append(frames, [id |-> c, todo |-> GetChildren(items, c)])
  /\ UNCHANGED <<tables, pc, req, idx, calls, stack, reply, served, before, torn>>
DescendOneLevel(c) ==
  /\ pc = "delete"
  /\ c \in Last(frames).todo
  /\ Len(frames) < MaxDepth
  /\ frames' = Append([frames EXCEPT ![Len(frames)].todo = @ \ {c}],
                      [id |-> c, todo |-> {}])
  /\ UNCHANGED <<tables, pc, req, idx, calls, stack, reply, served, before, torn>>

Descend(c) ==
  /\ pc = "delete"
  /\ c \in Last(frames).todo
  /\ Len(frames) < MaxDepth
  /\ frames' = Append([frames EXCEPT ![Len(frames)].todo = @ \ {c}],
                      [id |-> c, todo |-> GetChildren(items, c)])
  /\ UNCHANGED <<tables, pc, req, idx, calls, stack, reply, served, before, torn>>

DeleteRow ==
  /\ pc = "delete"
  /\ Last(frames).todo = {}
  /\ ItemExists(items, Last(frames).id)
  /\ items' = DeleteItem(items, Last(frames).id)
  /\ calls' = IF calls # <<>> /\ items[Last(frames).id].type = "FILE"
              THEN [calls EXCEPT ![1].delta =
                      Wrap(@ - items[Last(frames).id].size)]
              ELSE calls
  /\ pc' = "unlog"
  /\ UNCHANGED <<history, req, idx, stack, frames, reply, served, before, torn>>

EraseHistory ==
  /\ pc = "unlog"
  /\ history' = DeleteFromHistory(history, Last(frames).id)
  /\ torn' = torn \ {Last(frames).id}
  /\ frames' = Front(frames)
  /\ pc' = IF Len(frames) = 1 THEN "next" ELSE "delete"
  /\ UNCHANGED <<items, req, idx, calls, stack, reply, served, before>>
-----------------------------------------------------------------------------
(***************************************************************************)
(* The end of the process, and a new one.                                  *)
(***************************************************************************)
Die ==
  /\ pc' = "down"
  /\ req' = Null
  /\ idx' = 0
  /\ calls' = <<>>
  /\ stack' = <<>>
  /\ frames' = <<>>
  /\ before' = items
  /\ torn' = torn \cup InFlight
  /\ UNCHANGED <<tables, served>>

(* exec1 throws when its SELECT does not return one row. *)
MissingRow ==
  \/ pc \in {"climb", "record"} /\ ~ItemExists(items, Last(stack))
  \/ pc = "delete" /\ Last(frames).todo = {} /\ ~ItemExists(items, Last(frames).id)

(* A value outside INT makes the statement fail and abort. *)
OutOfRange ==
  \/ pc = "store" /\ ItemSize(CurrentItem) \notin Int32
  \/ pc = "resize" /\ ~SizeFits

(* One call more than the stack has room for. *)
StackOverflow ==
  \/ /\ pc = "climb"
     /\ ItemExists(items, Last(stack)) /\ items[Last(stack)].parent # Null
     /\ Len(stack) >= MaxDepth
  \/ pc = "delete" /\ Last(frames).todo # {} /\ Len(frames) >= MaxDepth

Fault ==
  /\ MissingRow \/ OutOfRange \/ StackOverflow
  /\ reply' = "fault"
  /\ Die

Crash ==
  /\ pc # "down"
  /\ Die
  /\ UNCHANGED reply

(* main: CREATE TABLE IF NOT EXISTS leaves existing tables as they are. *)
Restart ==
  /\ pc = "down"
  /\ pc' = "idle"
  /\ reply' = "none"
  /\ UNCHANGED <<tables, volatile, served, before, torn>>
-----------------------------------------------------------------------------
Arrive(r) ==
  \/ RejectImport(r)
  \/ BeginImport(r)
  \/ ThrowInValidation(r)
  \/ RejectDelete(r)
  \/ BeginDelete(r)

ImportStep == InsertNewItem \/ UpdateOldItem \/ LogItem
ChangeSizeStep == CallChangeSize \/ Climb \/ Resize \/ Redate \/ Record
DeleteStep == (\E c \in Ids : Descend(c)) \/ DeleteRow \/ EraseHistory

HandlerStep ==
  ImportStep \/ ChangeSizeStep \/ DeleteStep \/ NextItem \/ Finish \/ Fault

Next ==
  \/ \E r \in Requests : Arrive(r)
  \/ HandlerStep
  \/ Crash
  \/ Restart

Spec == Init /\ [][Next]_vars

(* The loop of io_service runs the handler it started: only arrivals,      *)
(* crashes and restarts may never happen.                                  *)
FairSpec == Spec /\ WF_vars(HandlerStep)
-----------------------------------------------------------------------------
(***************************************************************************)
(* What holds of every request, in every state, whatever ends the process. *)
(***************************************************************************)

(* The parent of an item is an item: an import stores parents before their *)
(* children and a deletion removes children before their parents           *)
(* (Main.cpp:35-39, 107-112), so even a request that was cut short leaves  *)
(* no item below an item that is gone.                                     *)
ParentExists ==
  \A id \in Ids :
    ItemExists(items, id) /\ items[id].parent # Null
      => ItemExists(items, items[id].parent)

(* The history of an item that exists ends with its row, and an item that  *)
(* does not exist has no history; except for the one id a handler is at    *)
(* work on, and the ids whose second transaction a crash cut off           *)
(* (DbManager.h:131-132, 143-144; Main.cpp:66-69, 112-116).                *)
HistoryAgrees ==
  \A id \in Ids \ (torn \cup InFlight) :
    IF ItemExists(items, id)
    THEN history[id] # <<>> /\ Last(history[id]) = items[id]
    ELSE history[id] = <<>>

(* History is only ever appended to, until it goes with its item: no step  *)
(* rewrites a row of it, and none erases it while the item exists          *)
(* (DbManager.h:108-120).                                                  *)
HistoryKept ==
  [][\A id \in Ids :
       \/ IsPrefix(history[id], history'[id])
       \/ ~ItemExists(items, id) /\ history'[id] = <<>>]_vars
-----------------------------------------------------------------------------
(***************************************************************************)
(* What the loops rely on between their transactions: the inductive        *)
(* invariant behind the properties above.                                  *)
(***************************************************************************)

(* The variables of a request are there exactly while they are needed.     *)
Control ==
  /\ pc \in Quiet => req = Null /\ idx = 0 /\ calls = <<>>
  /\ pc \notin Quiet =>
       /\ req \in Requests /\ req.date # BadDate
       /\ req.kind = "imports" => idx \in DOMAIN req.items
  /\ pc \in ImportSteps => req.kind = "imports"
  /\ pc \in DeleteSteps => req.kind = "delete"
  /\ frames # <<>> <=> pc \in DeleteSteps
  /\ stack # <<>> <=> pc \in ChangeSteps \ {"next"}
  /\ stack # <<>> => calls # <<>>

(* Every item still to be stored finds its parent in the table or among    *)
(* the items to be stored before it.                                       *)
FirstToStore == IF pc = "store" THEN idx ELSE idx + 1
ParentsFirst ==
  pc \notin Quiet /\ req.kind = "imports" =>
    \A j \in FirstToStore .. Len(req.items) :
      LET parent == req.items[j].parent
      IN  \/ parent = Null
          \/ ItemExists(items, parent)
          \/ \E k \in FirstToStore .. j - 1 : req.items[k].id = parent

(* Every child of an item DeleteIter is at work on is on the list of that  *)
(* call, or is the item of the call it is waiting for.                     *)
ChildrenListed ==
  pc \in DeleteSteps =>
    \A n \in DOMAIN frames : \A c \in GetChildren(items, frames[n].id) :
      \/ c \in frames[n].todo
      \/ n < Len(frames) /\ frames[n + 1].id = c

(* Between the two transactions on an item its row is as the first left it. *)
HalfDone ==
  /\ pc = "log" => /\ ItemExists(items, CurrentItem.id)
                   /\ items[CurrentItem.id] = ItemRow(CurrentItem)
  /\ pc = "unlog" => ~ItemExists(items, Last(frames).id)

HandlerInvariant ==
  /\ Control
  /\ ParentsFirst
  /\ ChildrenListed
  /\ HalfDone
=============================================================================
