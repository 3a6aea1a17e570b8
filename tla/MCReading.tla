------------------------------ MODULE MCReading ------------------------------
(***************************************************************************)
(* An instance of Reading for TLC: three ids, dates that do and do not     *)
(* cast, imports that build a path, move items and close a circle.         *)
(***************************************************************************)
EXTENDS Reading

CONSTANTS a, b, c

MCIds == {a, b, c}

Import(date, its) == [kind |-> "imports", date |-> date, items |-> its]
Sent(id, type, parent) ==
  [id |-> id, type |-> type, parent |-> parent,
   size |-> IF type = "FILE" THEN 1 ELSE 0, form |-> "wellformed"]

MCRequests ==
  {Import(1, <<Sent(a, "FOLDER", Null), Sent(b, t, a)>>) : t \in Types}
  \cup {Import(d, <<Sent(c, "FILE", b)>>) : d \in Dates}
  \cup {Import(2, <<Sent(a, "FOLDER", b)>>), Import(2, <<Sent(b, "FILE", Null)>>)}
  \cup {[kind |-> "delete", date |-> 2, id |-> c]}

MCQueries ==
  Nodes
  \cup {q \in Updates : q.date \in {2, Quoted, BadDate}}
  \cup {q \in NodeHistory : q.id = b /\ q.start = 1 /\ q.end = 3}
  \cup {q \in NodeHistory : q.id = c
          /\ <<q.start, q.end>> \in {<<1, 2>>, <<1, Null>>, <<BadDate, 3>>, <<Null, 3>>,
                                     <<Quoted, 3>>, <<Quoted, BadDate>>}}
  \cup {q \in NodeHistory : q.id = Quoted /\ q.start = 1 /\ q.end = 3}

(* An accepted date that does not cast; in queries dates of the usual form *)
(* or none.                                                                *)
FatalRequests ==
  {Import(3, <<Sent(c, "FILE", Null)>>),
   Import(1, <<Sent(a, "FOLDER", Null), Sent(b, "FILE", a)>>)}
FatalQueries ==
  {q \in Updates : q.date = 2}
  \cup {q \in NodeHistory : q.id \in {b, c} /\ q.start \in {1, Null} /\ q.end = 2}
=============================================================================
