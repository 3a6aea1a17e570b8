------------------------------ MODULE FileTree ------------------------------
(***************************************************************************)
(* What the handlers promise about the shape of the forest, without their  *)
(* transactions: a request is accepted, then it takes effect in one step.  *)
(* A completed import has stored all of its items and a completed deletion *)
(* has removed the whole subtree and nothing else.  A request that is cut  *)
(* short has stored the first items of the import, in order, or removed    *)
(* part of the subtree, never an item without the items below it.          *)
(***************************************************************************)
EXTENDS Integers, Sequences, FiniteSets

CONSTANTS Ids, Null, NoRow, Requests, BadDate, MaxInt

VARIABLES
  tree,     \* for each id the type and parent of the item, or NoRow
  req,      \* the request accepted and not yet finished, Null if none
  reply     \* the last answer

treeVars == <<tree, req, reply>>

Node == [type : {"FILE", "FOLDER"}, parent : Ids \cup {Null}]

Exists(id) == tree[id] # NoRow

Init ==
  /\ tree = [id \in Ids |-> NoRow]
  /\ req = Null
  /\ reply = "none"
-----------------------------------------------------------------------------
(* The forest after the first k items of an import. *)
Imported(its, k) ==
  [id \in Ids |->
     IF \E j \in 1 .. k : its[j].id = id
     THEN LET it == its[CHOOSE j \in 1 .. k : its[j].id = id]
          IN  [type |-> it.type, parent |-> it.parent]
     ELSE tree[id]]

Without(S) == [id \in Ids |-> IF id \in S THEN NoRow ELSE tree[id]]

ClosedBelow(S) ==
  \A id \in Ids : Exists(id) /\ tree[id].parent \in S => id \in S

(* The item and everything below it: the least set that has the item and   *)
(* the children of whatever it has.                                        *)
Subtree(root) ==
  {id \in Ids : \A S \in SUBSET Ids : root \in S /\ ClosedBelow(S) => id \in S}

(* No id twice, every parent a folder of the forest or of an earlier item. *)
Importable(its) ==
  /\ its # <<>>
  /\ \A j \in DOMAIN its :
       /\ \A k \in 1 .. j - 1 : its[k].id # its[j].id
       /\ \/ its[j].parent = Null
          \/ Exists(its[j].parent) /\ tree[its[j].parent].type = "FOLDER"
          \/ \E k \in 1 .. j - 1 :
               its[k].id = its[j].parent /\ its[k].type = "FOLDER"

WellFormed(it) ==
  it.form = "wellformed" /\ (it.type = "FILE" => it.size \in 1 .. MaxInt)
-----------------------------------------------------------------------------
Acceptable(r) ==
  /\ r.date # BadDate
  /\ IF r.kind = "imports" THEN Importable(r.items) ELSE Exists(r.id)

Accept ==
  /\ req = Null
  /\ req' # Null
  /\ \E r \in Requests : Acceptable(r) /\ req' = r
  /\ reply' = "none"
  /\ UNCHANGED tree

(* A request is refused for a reason: a bad date, an item that is not well *)
(* formed or has no place in the forest, an item that is not there.        *)
RefusalOf(r) ==
  IF r.kind = "delete" /\ r.date # BadDate
  THEN IF Exists(r.id) THEN {} ELSE {"not_found"}
  ELSE IF /\ Acceptable(r)
          /\ \A j \in DOMAIN r.items : WellFormed(r.items[j])
  THEN {} ELSE {"bad_request"}

Refuse ==
  /\ req = Null
  /\ reply' \in {"bad_request", "not_found"}
  /\ \E r \in Requests : reply' \in RefusalOf(r)
  /\ UNCHANGED <<tree, req>>

Complete ==
  /\ req # Null
  /\ req' = Null
  /\ reply' = "ok"
  /\ tree' = IF req.kind = "imports" THEN Imported(req.items, Len(req.items))
             ELSE Without(Subtree(req.id))

CutShort ==
  /\ req # Null
  /\ req' = Null
  /\ reply' \in {"none", "fault"}
  /\ \/ /\ req.kind = "imports"
        /\ \E k \in 0 .. Len(req.items) : tree' = Imported(req.items, k)
     \/ /\ req.kind = "delete"
        /\ \E S \in SUBSET Subtree(req.id) :
             ClosedBelow(S) /\ tree' = Without(S)

(* The process ends, or starts again, while no request is being handled. *)
Idle ==
  /\ req = Null
  /\ reply' \in {"none", "fault"}
  /\ UNCHANGED <<tree, req>>

Next ==
  \/ Accept
  \/ Refuse
  \/ Complete
  \/ CutShort
  \/ Idle

Spec == Init /\ [][Next]_treeVars
=============================================================================
