---------------------------- MODULE ReadingProofs ----------------------------
(***************************************************************************)
(* Proofs about Reading: queries do nothing to the tables, so that all     *)
(* that HandlersProofs shows of the handlers holds with queries among the  *)
(* requests; what a query answers agrees with both tables; nodes shows the *)
(* subtree, each item once, and ends the process exactly when what is      *)
(* below its item has no end.                                              *)
(***************************************************************************)
EXTENDS Reading, HandlersProofs, FiniteSetTheorems

-----------------------------------------------------------------------------
(* The variables of a query are in use while there is one, and then no     *)
(* handler of an import or a deletion is at work.                          *)
ReadControl ==
  /\ query = Null => walk = <<>> /\ answer = <<>> /\ result = "none"
  /\ query # Null => pc = "idle" \/ (pc = "down" /\ result = "fault")
  /\ walk # <<>> => query # Null /\ query.kind = "nodes" /\ result = "none"
  /\ query # Null /\ query.kind = "nodes" => answer \in Seq(Entry)

(* What a call of NodesIter has yet to visit is below its item.            *)
WalkBelow == \A n \in DOMAIN walk : walk[n].todo \subseteq Below(walk[n].id)

ReadInv == ReadTypeOK /\ ReadControl /\ WalkBelow

(* The three classes of queries and their fields. *)
LEMMA QueryFacts ==
  ASSUME NEW q \in Queries
  PROVE  /\ q # Null
         /\ q.kind \in {"nodes", "updates", "history"}
         /\ q.kind \in {"nodes", "history"} => q.id \in QueryIds
         /\ q.kind = "updates" => q.date \in QueryDates
BY ReadingAssumption DEF Nodes, Updates, NodeHistory

LEMMA EntriesType == Seq(Entry) \subseteq Seq(Entry \cup {Null})
OBVIOUS

(* Calling NodesIter on an item keeps the recursion and the answer typed. *)
LEMMA EnterType ==
  ASSUME TypeOK, NEW id \in Ids, ItemExists(items, id), answer \in Seq(Entry)
  PROVE  /\ Enter(id) \in Seq(Entry) /\ Enter(id) # <<>>
         /\ [id |-> id, todo |-> Below(id)] \in Frame
<1>1. items[id] \in Row
  BY DEF TypeOK, ItemTable, ItemExists
<1>2. [id |-> id, row |-> items[id]] \in Entry
  BY <1>1 DEF Entry
<1>3. Below(id) \in SUBSET Ids
  BY DEF Below, GetChildren
<1> QED
  BY <1>2, <1>3, AppendFacts DEF Enter, Frame

(* The steps that end the process. *)
Thrown ==
  \/ QuotedId \/ WalkOverflow \/ MissingDateStart
  \/ QuotedDate \/ CastFails \/ RaceFails

(* A step of a query, with the tables as they are, or the end of the       *)
(* process: for the handlers it is a step of theirs, or none.              *)
LEMMA StepOfHandlers ==
  ASSUME ReadControl, [ReadNext]_readVars
  PROVE  [Next]_vars
<1>1. CASE Throw /\ query # Null /\ result = "none"
  BY <1>1 DEF Throw, Crash, Next, ReadControl
<1>2. CASE CrashInQuery
  BY <1>2 DEF CrashInQuery, Next
<1>3. CASE query = Null /\ Next
  BY <1>3
<1>4. CASE UNCHANGED vars
  BY <1>4
<1>5. ASSUME Thrown
      PROVE  Throw /\ query # Null /\ result = "none"
  BY <1>5 DEF Thrown, QuotedId, LooksForItem, WalkOverflow, MissingDateStart,
     QuotedDate, CastFails, RaceFails, DatesGiven, Handling, ReadControl
<1>6. ASSUME QueryNotFound \/ EnterRoot \/ (\E c \in Ids : EnterChild(c))
             \/ ReturnNodes \/ RefuseDates \/ AnswerUpdates \/ AnswerHistory \/ Reply
             \/ (\E q \in Queries : Ask(q)) \/ UNCHANGED readVars
      PROVE  UNCHANGED vars
  BY <1>6 DEF QueryNotFound, EnterRoot, EnterChild, ReturnNodes, RefuseDates,
     AnswerUpdates, AnswerHistory, Reply, Ask, Conclude, readVars
<1> QED
  BY <1>1, <1>2, <1>3, <1>4, <1>5, <1>6 DEF ReadNext, ReadStep, Thrown

(* What a call of NodesIter does to the recursion.                         *)
LEMMA EnterChildWalk ==
  ASSUME ReadTypeOK, WalkBelow, NEW c, EnterChild(c)
  PROVE  /\ walk \in Seq(Frame) /\ Len(walk) \in Nat \ {0}
         /\ Last(walk) = walk[Len(walk)]
         /\ c \in walk[Len(walk)].todo /\ c \in Below(walk[Len(walk)].id)
         /\ c \in Ids /\ ItemExists(items, c)
         /\ walk' \in Seq(Frame) /\ Len(walk') = Len(walk) + 1
         /\ walk'[Len(walk) + 1] = [id |-> c, todo |-> Below(c)]
         /\ walk'[Len(walk)].id = walk[Len(walk)].id
         /\ walk'[Len(walk)].todo = walk[Len(walk)].todo \ {c}
         /\ \A n \in 1 .. Len(walk) - 1 : walk'[n] = walk[n]
<1> DEFINE top == [walk[Len(walk)] EXCEPT !.todo = @ \ {c}]
           called == [id |-> c, todo |-> Below(c)]
<1>1. /\ walk \in Seq(Frame) /\ Len(walk) \in Nat \ {0}
      /\ Last(walk) = walk[Len(walk)] /\ walk[Len(walk)] \in Frame
  BY FrontFacts DEF ReadTypeOK, EnterChild, Last
<1>2. c \in walk[Len(walk)].todo /\ c \in Below(walk[Len(walk)].id)
  BY <1>1 DEF WalkBelow, EnterChild
<1>3. c \in Ids /\ ItemExists(items, c)
  BY <1>2 DEF Below, GetChildren
<1>4. top \in Frame /\ called \in Frame
  BY <1>1, <1>3 DEF Frame, Below, GetChildren
<1>5. walk' = Append([walk EXCEPT ![Len(walk)] = top], called)
  BY DEF EnterChild
<1>6. top.id = walk[Len(walk)].id /\ top.todo = walk[Len(walk)].todo \ {c}
  BY <1>1 DEF Frame
<1> HIDE DEF top, called
<1>7. /\ walk' \in Seq(Frame) /\ Len(walk') = Len(walk) + 1
      /\ walk'[Len(walk) + 1] = called /\ walk'[Len(walk)] = top
      /\ \A n \in 1 .. Len(walk) - 1 : walk'[n] = walk[n]
  BY <1>1, <1>4, <1>5, CallFacts
<1> QED
  BY <1>1, <1>2, <1>3, <1>6, <1>7 DEF called

(* With the items as they are, what is below an item stays the same.       *)
LEMMA SameBelow ==
  ASSUME UNCHANGED items, \A n \in DOMAIN walk' : walk'[n].todo \subseteq Below(walk'[n].id)
  PROVE  WalkBelow'
BY DEF WalkBelow, Below

(* ... and what a return does.                                             *)
LEMMA ReturnWalk ==
  ASSUME ReadTypeOK, ReturnNodes
  PROVE  /\ walk \in Seq(Frame) /\ Len(walk) \in Nat \ {0}
         /\ walk[Len(walk)].todo = {}
         /\ walk' \in Seq(Frame) /\ Len(walk') = Len(walk) - 1
         /\ walk' = <<>> <=> Len(walk) = 1
         /\ \A n \in 1 .. Len(walk) - 1 : walk'[n] = walk[n]
BY FrontFacts DEF ReadTypeOK, ReturnNodes, Last
-----------------------------------------------------------------------------
LEMMA InitReadInv == ReadInit => ReadInv
BY HandlersAssumption
   DEF ReadInit, ReadInv, ReadTypeOK, ReadControl, WalkBelow, Init, Replies

(* The steps of NodesIter keep the invariant. *)
LEMMA NodesReadInv ==
  ASSUME ReadInv, TypeOK, EnterRoot \/ (\E c \in Ids : EnterChild(c)) \/ ReturnNodes
  PROVE  ReadInv'
<1> USE DEF ReadInv
<1>1. CASE EnterRoot
  <2>1. query \in Queries /\ query.id \in Ids /\ ItemExists(items, query.id)
    BY <1>1, QueryFacts DEF EnterRoot, Found, Handling, ReadTypeOK
  <2>2. /\ answer' \in Seq(Entry)
        /\ [id |-> query.id, todo |-> Below(query.id)] \in Frame
    BY <1>1, <2>1, EnterType DEF EnterRoot, Handling, ReadControl
  <2>3. walk' \in Seq(Frame) /\ Len(walk') = 1
    BY <1>1, <2>2 DEF EnterRoot
  <2>4. ReadTypeOK'
    BY <1>1, <2>2, <2>3, EntriesType, HandlersAssumption DEF EnterRoot, ReadTypeOK
  <2>5. ReadControl'
    BY <1>1, <2>2 DEF EnterRoot, ReadControl, Handling, vars
  <2>6. WalkBelow'
    BY <1>1, SameBelow DEF EnterRoot, vars
  <2> QED
    BY <2>4, <2>5, <2>6
<1>2. CASE \E c \in Ids : EnterChild(c)
  <2>1. PICK c \in Ids : EnterChild(c)
    BY <1>2
  <2>2. /\ walk \in Seq(Frame) /\ Len(walk) \in Nat \ {0}
        /\ ItemExists(items, c)
        /\ walk' \in Seq(Frame) /\ Len(walk') = Len(walk) + 1
        /\ walk'[Len(walk) + 1] = [id |-> c, todo |-> Below(c)]
        /\ walk'[Len(walk)].id = walk[Len(walk)].id
        /\ walk'[Len(walk)].todo \subseteq walk[Len(walk)].todo
        /\ \A n \in 1 .. Len(walk) - 1 : walk'[n] = walk[n]
    BY <2>1, EnterChildWalk
  <2>3. answer' \in Seq(Entry)
    BY <2>1, <2>2, EnterType DEF EnterChild, ReadControl
  <2>4. ReadTypeOK'
    <3>1. Len(walk) < MaxDepth /\ UNCHANGED <<query, result, items>>
      BY <2>1 DEF EnterChild, vars
    <3>2. Len(walk') <= MaxDepth
      BY <2>2, <3>1, HandlersAssumption
    <3> QED
      BY <2>2, <2>3, <3>1, <3>2, EntriesType DEF ReadTypeOK
  <2>5. ReadControl'
    BY <2>1, <2>3 DEF EnterChild, ReadControl, vars
  <2>6. \A n \in 1 .. Len(walk) + 1 : walk'[n].todo \subseteq Below(walk'[n].id)
    <3> SUFFICES ASSUME NEW n \in 1 .. Len(walk) + 1
                 PROVE  walk'[n].todo \subseteq Below(walk'[n].id)
      OBVIOUS
    <3>1. \A k \in 1 .. Len(walk) : walk[k].todo \subseteq Below(walk[k].id)
      BY <2>2 DEF WalkBelow
    <3>2. CASE n \in 1 .. Len(walk) - 1
      BY <2>2, <3>1, <3>2
    <3>3. CASE n = Len(walk)
      BY <2>2, <3>1, <3>3
    <3>4. CASE n = Len(walk) + 1
      BY <2>2, <3>4
    <3> QED
      BY <2>2, <3>2, <3>3, <3>4
  <2>7. WalkBelow'
    BY <2>1, <2>2, <2>6, SameBelow DEF EnterChild, vars
  <2> QED
    BY <2>4, <2>5, <2>7
<1>3. CASE ReturnNodes
  <2>1. ReadTypeOK'
    BY <1>3, ReturnWalk, HandlersAssumption DEF ReturnNodes, ReadTypeOK, Replies
  <2>2. ReadControl'
    BY <1>3, ReturnWalk DEF ReturnNodes, ReadControl, vars
  <2>3. WalkBelow'
    <3>1. \A n \in DOMAIN walk' : n \in DOMAIN walk /\ walk'[n] = walk[n]
      BY <1>3, ReturnWalk
    <3>2. UNCHANGED items
      BY <1>3 DEF ReturnNodes, vars
    <3> QED
      BY <3>1, <3>2, SameBelow DEF WalkBelow
  <2> QED
    BY <2>1, <2>2, <2>3
<1> QED
  BY <1>1, <1>2, <1>3

(* An order by date is a sequence of all rows it orders. *)
LEMMA ByDateFacts ==
  ASSUME NEW date, IsFiniteSet(DOMAIN date), NEW s \in ByDate(date)
  PROVE  /\ s \in Seq(DOMAIN date)
         /\ Len(s) = Cardinality(DOMAIN date)
         /\ \A x \in DOMAIN date : \E n \in DOMAIN s : s[n] = x
<1>1. Cardinality(DOMAIN date) \in Nat
  BY FS_CardinalityType
<1>2. /\ s \in [1 .. Cardinality(DOMAIN date) -> DOMAIN date]
      /\ DOMAIN date \subseteq {s[i] : i \in 1 .. Cardinality(DOMAIN date)}
  BY DEF ByDate
<1> QED
  BY <1>1, <1>2

(* What the workers make of the rows of a SELECT has some of them, each in *)
(* its place, and all of them if they fit one page.                        *)
LEMMA GatheredFacts ==
  ASSUME NEW S, NEW rows \in Seq(S), NEW s \in Gathered(rows)
  PROVE  /\ s \in Seq(S \cup {Null})
         /\ \A n \in DOMAIN s : n \in DOMAIN rows /\ s[n] \in {rows[n], Null}
         /\ Len(rows) <= NTHREADS => s = rows
<1>1. CASE s = rows
  BY <1>1
<1>2. CASE s # rows
  <2>1. /\ ~(Len(rows) <= NTHREADS)
        /\ \E len \in 0 .. Len(rows) : \E lost \in SUBSET (1 .. len) :
             s = [n \in 1 .. len |-> IF n \in lost THEN Null ELSE rows[n]]
    BY <1>2 DEF Gathered
  <2>2. PICK len \in 0 .. Len(rows) : \E lost \in SUBSET (1 .. len) :
          s = [n \in 1 .. len |-> IF n \in lost THEN Null ELSE rows[n]]
    BY <2>1
  <2>3. PICK lost \in SUBSET (1 .. len) :
          s = [n \in 1 .. len |-> IF n \in lost THEN Null ELSE rows[n]]
    BY <2>2
  <2>4. len \in Nat /\ \A n \in 1 .. len : n \in DOMAIN rows /\ rows[n] \in S
    OBVIOUS
  <2>5. \A n \in 1 .. len : s[n] \in {rows[n], Null} /\ s[n] \in S \cup {Null}
    BY <2>3, <2>4
  <2>6. DOMAIN s = 1 .. len /\ s \in [1 .. len -> S \cup {Null}]
    BY <2>3, <2>4
  <2> QED
    BY <2>1, <2>4, <2>5, <2>6
<1> QED
  BY <1>1, <1>2

LEMMA FilesFacts ==
  ASSUME TypeOK, NEW id \in Files
  PROVE  id \in Ids /\ ItemExists(items, id) /\ items[id] \in Row
BY DEF Files, GetType, TypeOK, ItemTable, ItemExists

(* The answer of updates: files of the window with their rows, and all of  *)
(* them if they fit one page.                                              *)
LEMMA UpdatesRows ==
  ASSUME TypeOK, AnswerUpdates
  PROVE  /\ answer' \in Seq(Entry \cup {Null})
         /\ \A n \in DOMAIN answer' : answer'[n] # Null =>
              /\ answer'[n].id \in Updated(query.date)
              /\ answer'[n].row = items[answer'[n].id]
         /\ OnePage => \A id \in Updated(query.date) :
              \E n \in DOMAIN answer' : answer'[n] = [id |-> id, row |-> items[id]]
<1> DEFINE found == Updated(query.date)
           entry == [id \in found |-> [id |-> id, row |-> items[id]]]
           date == [id \in found |-> items[id].date]
<1>1. \A id \in found : entry[id] \in Entry
  BY FilesFacts DEF Updated, Entry
<1>2. IsFiniteSet(found)
  BY FS_Subset, ReadingAssumption DEF Updated, Files
<1>3. PICK s \in ByDate(date) :
        answer' \in Gathered([n \in DOMAIN s |-> [id |-> s[n], row |-> items[s[n]]]])
  BY DEF AnswerUpdates
<1> DEFINE rows == [n \in DOMAIN s |-> entry[s[n]]]
<1>4. /\ s \in Seq(found) /\ Len(s) = Cardinality(found)
      /\ \A id \in found : \E n \in DOMAIN s : s[n] = id
  <2>1. DOMAIN date = found
    OBVIOUS
  <2> HIDE DEF found, date
  <2> QED
    BY <1>2, <1>3, <2>1, ByDateFacts
<1> HIDE DEF found
<1>5. rows = [n \in DOMAIN s |-> [id |-> s[n], row |-> items[s[n]]]]
  BY <1>4
<1>6. /\ rows \in Seq(Entry) /\ Len(rows) = Cardinality(found) /\ DOMAIN rows = DOMAIN s
      /\ \A n \in DOMAIN s : rows[n] = [id |-> s[n], row |-> items[s[n]]] /\ s[n] \in found
  <2>1. \A n \in DOMAIN s : s[n] \in found /\ entry[s[n]] \in Entry
    BY <1>1, <1>4
  <2>2. Len(s) \in Nat /\ DOMAIN s = 1 .. Len(s)
    BY <1>4
  <2>3. rows \in [1 .. Len(s) -> Entry]
    <3> HIDE DEF entry
    <3> QED
      BY <2>1, <2>2
  <2>4. rows \in Seq(Entry) /\ Len(rows) = Len(s) /\ DOMAIN rows = DOMAIN s
    <3> HIDE DEF rows
    <3> QED
      BY <2>2, <2>3
  <2> QED
    BY <1>4, <1>5, <2>1, <2>4
<1> HIDE DEF rows
<1>7. /\ answer' \in Seq(Entry \cup {Null})
      /\ \A n \in DOMAIN answer' : n \in DOMAIN rows /\ answer'[n] \in {rows[n], Null}
      /\ Len(rows) <= NTHREADS => answer' = rows
  BY <1>3, <1>5, <1>6, GatheredFacts
<1>8. OnePage => Len(rows) <= NTHREADS
  BY <1>6 DEF OnePage, AnswerUpdates, found
<1> QED
  BY <1>4, <1>6, <1>7, <1>8 DEF found

(* The answer of history: rows of the window, and all of them if they fit  *)
(* one page.                                                               *)
LEMMA HistoryRows ==
  ASSUME TypeOK, AnswerHistory
  PROVE  /\ answer' \in Seq(Entry \cup {Null})
         /\ OnePage => \A row :
              (\E n \in DOMAIN answer' : answer'[n] # Null /\ answer'[n].row = row)
                <=> \E n \in InWindow(history[query.id], query.start, query.end) :
                      history[query.id][n] = row
<1>1. query.id \in Ids
  BY DEF AnswerHistory, DatesGiven, Found, Handling
<1> DEFINE all == history[query.id]
           found == InWindow(all, query.start, query.end)
           entry == [n \in found |-> [id |-> query.id, row |-> all[n]]]
           date == [n \in found |-> all[n].date]
<1>2. all \in Seq(Row)
  BY <1>1 DEF TypeOK, HistoryTable
<1>3. \A n \in found : entry[n] \in Entry
  BY <1>1, <1>2 DEF InWindow, Entry
<1>4. IsFiniteSet(found)
  <2>1. Len(all) \in Nat /\ found \subseteq 1 .. Len(all)
    BY <1>2 DEF InWindow
  <2>2. IsFiniteSet(1 .. Len(all))
    BY <2>1, FS_Interval
  <2> QED
    BY <2>1, <2>2, FS_Subset
<1>5. PICK s \in ByDate(date) :
        answer' \in Gathered([n \in DOMAIN s |-> [id |-> query.id, row |-> all[s[n]]]])
  BY DEF AnswerHistory
<1> DEFINE rows == [n \in DOMAIN s |-> entry[s[n]]]
<1>6. /\ s \in Seq(found) /\ Len(s) = Cardinality(found)
      /\ \A x \in found : \E n \in DOMAIN s : s[n] = x
  <2>1. DOMAIN date = found
    OBVIOUS
  <2> HIDE DEF found, date
  <2> QED
    BY <1>4, <1>5, <2>1, ByDateFacts
<1> HIDE DEF found
<1>7. rows = [n \in DOMAIN s |-> [id |-> query.id, row |-> all[s[n]]]]
  BY <1>6
<1>8. /\ rows \in Seq(Entry) /\ Len(rows) = Cardinality(found) /\ DOMAIN rows = DOMAIN s
      /\ \A n \in DOMAIN s : rows[n].row = all[s[n]] /\ s[n] \in found
      /\ \A n \in DOMAIN s : rows[n] # Null
  <2>1. \A n \in DOMAIN s : s[n] \in found /\ entry[s[n]] \in Entry
    BY <1>3, <1>6
  <2>2. Len(s) \in Nat /\ DOMAIN s = 1 .. Len(s)
    BY <1>6
  <2>3. rows \in [1 .. Len(s) -> Entry]
    <3> HIDE DEF entry
    <3> QED
      BY <2>1, <2>2
  <2>4. rows \in Seq(Entry) /\ Len(rows) = Len(s) /\ DOMAIN rows = DOMAIN s
    <3> HIDE DEF rows
    <3> QED
      BY <2>2, <2>3
  <2>5. \A n \in DOMAIN s : rows[n] \in Entry /\ rows[n] # Null
    <3> HIDE DEF rows
    <3> QED
      BY <2>2, <2>3, ReadingAssumption
  <2> QED
    BY <1>6, <1>7, <2>1, <2>4, <2>5
<1> HIDE DEF rows
<1>9. /\ answer' \in Seq(Entry \cup {Null})
      /\ Len(rows) <= NTHREADS => answer' = rows
  BY <1>5, <1>7, <1>8, GatheredFacts
<1>10. OnePage => Len(rows) <= NTHREADS
  BY <1>8 DEF OnePage, AnswerHistory, found
<1>11. \A row : (\E n \in DOMAIN rows : rows[n] # Null /\ rows[n].row = row)
                  <=> \E x \in found : all[x] = row
  BY <1>6, <1>8
<1> QED
  BY <1>9, <1>10, <1>11 DEF found

(* The steps of updates and history that answer.                           *)
LEMMA AnswerReadInv ==
  ASSUME ReadInv, TypeOK, AnswerUpdates \/ AnswerHistory
  PROVE  ReadInv'
<1>1. /\ answer' \in Seq(Entry \cup {Null})
      /\ query # Null /\ query.kind \in {"updates", "history"} /\ result = "none"
      /\ result' = "ok" /\ UNCHANGED <<query, walk, pc, items>>
  BY UpdatesRows, HistoryRows DEF AnswerUpdates, AnswerHistory, DatesGiven, Handling, vars
<1>2. ReadTypeOK'
  BY <1>1, HandlersAssumption DEF ReadInv, ReadTypeOK, Replies
<1>3. ReadControl'
  BY <1>1 DEF ReadInv, ReadControl
<1>4. WalkBelow'
  BY <1>1, SameBelow DEF ReadInv, WalkBelow
<1> QED
  BY <1>2, <1>3, <1>4 DEF ReadInv

LEMMA StepReadInv == TypeOK /\ ReadInv /\ [ReadNext]_readVars => ReadInv'
<1> SUFFICES ASSUME TypeOK, ReadInv, [ReadNext]_readVars
             PROVE  ReadInv'
  OBVIOUS
<1> USE DEF ReadInv
<1>1. CASE UNCHANGED readVars
  BY <1>1, SameBelow DEF readVars, reading, vars, ReadTypeOK, ReadControl, WalkBelow
<1>2. CASE query = Null /\ Next /\ UNCHANGED reading
  BY <1>2 DEF reading, ReadTypeOK, ReadControl, WalkBelow
<1>3. CASE \E q \in Queries : Ask(q)
  BY <1>3, QueryFacts, SameBelow DEF Ask, vars, ReadTypeOK, ReadControl, WalkBelow
<1>4. CASE QueryNotFound \/ RefuseDates
  <2>1. /\ Conclude("not_found") \/ Conclude("bad_request")
        /\ query # Null /\ pc = "idle" /\ walk = <<>>
    BY <1>4 DEF QueryNotFound, LooksForItem, RefuseDates, BadDates, Handling, ReadControl
  <2> QED
    BY <2>1, SameBelow DEF Conclude, vars, ReadTypeOK, ReadControl, WalkBelow, Replies
<1>5. CASE Thrown
  <2>1. Throw /\ query # Null
    BY <1>5 DEF Thrown, QuotedId, LooksForItem, WalkOverflow, MissingDateStart,
       QuotedDate, CastFails, RaceFails, DatesGiven, Handling, ReadControl
  <2> QED
    BY <2>1, HandlersAssumption DEF Throw, Die, ReadTypeOK, ReadControl, WalkBelow,
       Replies
<1>6. CASE Reply \/ CrashInQuery
  <2>1. query' = Null /\ walk' = <<>> /\ answer' = <<>> /\ result' = "none"
    BY <1>6 DEF Reply, CrashInQuery, ReadControl
  <2> QED
    BY <2>1, HandlersAssumption DEF ReadTypeOK, ReadControl, WalkBelow, Replies
<1>7. CASE EnterRoot \/ (\E c \in Ids : EnterChild(c)) \/ ReturnNodes
  BY <1>7, NodesReadInv
<1>8. CASE AnswerUpdates \/ AnswerHistory
  BY <1>8, AnswerReadInv
<1> QED
  BY <1>1, <1>2, <1>3, <1>4, <1>5, <1>6, <1>7, <1>8 DEF ReadNext, ReadStep, Thrown

(* Whatever queries come between them, the handlers do what Handlers says: *)
(* a query is for the tables no step at all, or the end of the process     *)
(* (Main.cpp:141-207).                                                     *)
THEOREM QueriesOnlyRead == ReadSpec => Spec
<1>1. ReadInit => Init
  BY DEF ReadInit
<1>2. ReadInit => TypeInv /\ ReadInv
  BY <1>1, InitTypeInv, InitReadInv
<1>3. TypeInv /\ ReadInv /\ [ReadNext]_readVars => [Next]_vars /\ TypeInv' /\ ReadInv'
  BY StepOfHandlers, StepTypeInv, StepReadInv DEF TypeInv, ReadInv
<1> QED
  BY <1>1, <1>2, <1>3, PTL DEF ReadSpec, Spec

(* The variables of a query keep their types; the recursion of NodesIter   *)
(* never has more calls than the stack has room for (Main.cpp:141-207).    *)
THEOREM ReadTypeCorrect == ReadSpec => []ReadTypeOK
<1>1. ReadSpec => []TypeOK
  BY QueriesOnlyRead, TypeCorrect, PTL
<1>2. ReadInv => ReadTypeOK
  BY DEF ReadInv
<1> QED
  BY <1>1, <1>2, InitReadInv, StepReadInv, PTL DEF ReadSpec
-----------------------------------------------------------------------------
(* What is in an answer of updates or history, as the tables are. *)
UpdatesFound ==
  Answered("updates") =>
    /\ \A e \in Shown : e.id \in Updated(query.date) /\ e.row = items[e.id]
    /\ OnePage => \A id \in Updated(query.date) : \E e \in Shown : e.id = id

HistoryFound ==
  Answered("history") =>
    /\ Found /\ query.start \in Dates /\ query.end \in Dates
    /\ OnePage => \A row :
         (\E e \in Shown : e.row = row)
           <=> \E n \in InWindow(history[query.id], query.start, query.end) :
                 history[query.id][n] = row

AnswersFound == UpdatesFound /\ HistoryFound

LEMMA SameAnswers ==
  ASSUME UNCHANGED <<query, items, history>>
  PROVE  /\ OnePage' <=> OnePage
         /\ Found' <=> Found
         /\ Updated(query.date)' = Updated(query.date)
BY DEF OnePage, Found, ItemExists, Updated, Files, GetType

LEMMA AnswersAreFound ==
  ASSUME TypeOK, AnswerUpdates \/ AnswerHistory
  PROVE  AnswersFound'
<1>1. UNCHANGED <<query, items, history>>
  BY DEF AnswerUpdates, AnswerHistory, vars, tables
<1>2. \A e : e \in Shown' <=> e # Null /\ \E n \in DOMAIN answer' : answer'[n] = e
  BY DEF Shown, Range
<1>3. CASE AnswerUpdates
  <2>1. /\ \A n \in DOMAIN answer' : answer'[n] # Null =>
             /\ answer'[n].id \in Updated(query.date)
             /\ answer'[n].row = items[answer'[n].id]
        /\ OnePage => \A id \in Updated(query.date) :
             \E n \in DOMAIN answer' : answer'[n] = [id |-> id, row |-> items[id]]
    BY <1>3, UpdatesRows
  <2>2. \A e \in Shown' : e.id \in Updated(query.date) /\ e.row = items[e.id]
    BY <1>2, <2>1
  <2>3. ASSUME OnePage, NEW id \in Updated(query.date)
        PROVE  \E e \in Shown' : e.id = id
    <3>1. [id |-> id, row |-> items[id]] \in Entry
      BY FilesFacts DEF Updated, Entry
    <3>2. [id |-> id, row |-> items[id]] # Null
      BY <3>1, ReadingAssumption
    <3> QED
      BY <1>2, <2>1, <2>3, <3>2
  <2>4. query.kind = "updates"
    BY <1>3 DEF AnswerUpdates
  <2> QED
    BY <1>1, <2>2, <2>3, <2>4, SameAnswers
       DEF AnswersFound, UpdatesFound, HistoryFound, Answered
<1>4. CASE AnswerHistory
  <2>1. query.kind = "history" /\ Found /\ query.start \in Dates /\ query.end \in Dates
    BY <1>4 DEF AnswerHistory, DatesGiven, Handling
  <2>2. OnePage => \A row :
          (\E n \in DOMAIN answer' : answer'[n] # Null /\ answer'[n].row = row)
            <=> \E n \in InWindow(history[query.id], query.start, query.end) :
                  history[query.id][n] = row
    BY <1>4, HistoryRows
  <2>3. \A row : (\E e \in Shown' : e.row = row)
                   <=> \E n \in DOMAIN answer' : answer'[n] # Null /\ answer'[n].row = row
    BY <1>2
  <2>4. InWindow(history[query.id], query.start, query.end)'
          = InWindow(history[query.id], query.start, query.end)
    BY <1>1 DEF InWindow
  <2> QED
    BY <1>1, <2>1, <2>2, <2>3, <2>4, SameAnswers
       DEF AnswersFound, UpdatesFound, HistoryFound, Answered
<1> QED
  BY <1>3, <1>4

LEMMA StepFound == TypeOK /\ ReadInv /\ AnswersFound /\ [ReadNext]_readVars => AnswersFound'
<1> SUFFICES ASSUME TypeOK, ReadInv, AnswersFound, [ReadNext]_readVars,
                    Answered("updates")' \/ Answered("history")'
             PROVE  AnswersFound'
  BY DEF AnswersFound, UpdatesFound, HistoryFound
<1>1. query' # Null /\ query'.kind \in {"updates", "history"} /\ result' = "ok"
  BY DEF Answered
<1>2. CASE AnswerUpdates \/ AnswerHistory
  BY <1>2, AnswersAreFound
<1>3. CASE UNCHANGED readVars
  <2>1. UNCHANGED <<query, items, history, answer, result>>
    BY <1>3 DEF readVars, reading, vars, tables
  <2>2. UNCHANGED Shown
    BY <2>1 DEF Shown
  <2> QED
    BY <2>1, <2>2, SameAnswers
       DEF AnswersFound, UpdatesFound, HistoryFound, Answered, InWindow
<1>4. ReadStep => AnswerUpdates \/ AnswerHistory
  BY <1>1 DEF ReadStep, QueryNotFound, QuotedId, LooksForItem, EnterRoot, EnterChild,
     ReturnNodes, WalkOverflow, RefuseDates, MissingDateStart, QuotedDate, CastFails,
     RaceFails, Reply, Conclude, Throw, ReadInv, ReadControl, Handling
<1>5. ~(\E q \in Queries : Ask(q)) /\ ~CrashInQuery
  BY <1>1 DEF Ask, CrashInQuery, ReadInv, ReadControl
<1>6. ~(query = Null /\ Next /\ UNCHANGED reading)
  BY <1>1 DEF reading
<1> QED
  BY <1>2, <1>3, <1>4, <1>5, <1>6 DEF ReadNext

LEMMA AnswersStayFound == ReadSpec => [](AnswersFound /\ ReadInv /\ TypeOK /\ HistoryAgrees)
<1>1. ReadSpec => []TypeOK /\ []HistoryAgrees
  BY QueriesOnlyRead, TypeCorrect, HistoryAgreesWithItems, PTL
<1>2. ReadInit => AnswersFound
  BY DEF ReadInit, AnswersFound, UpdatesFound, HistoryFound, Answered
<1>3. ReadSpec => []ReadInv
  BY <1>1, InitReadInv, StepReadInv, PTL DEF ReadSpec
<1>4. ReadSpec => []AnswersFound
  BY <1>1, <1>2, <1>3, StepFound, PTL DEF ReadSpec
<1> QED
  BY <1>1, <1>3, <1>4, PTL

(* With no handler at work and an id that is not torn, the tables agree. *)
LEMMA TablesAgree ==
  ASSUME ReadInv, HistoryAgrees, query # Null, result = "ok", NEW id \in Ids \ torn
  PROVE  IF ItemExists(items, id)
         THEN history[id] # <<>> /\ Last(history[id]) = items[id]
         ELSE history[id] = <<>>
<1>1. InFlight = {}
  BY DEF ReadInv, ReadControl, InFlight
<1> QED
  BY <1>1 DEF HistoryAgrees

(* An answer of updates shows the newest rows of the history table: the    *)
(* two tables are read by different queries and written in different       *)
(* transactions, and agree on every id that no crash has torn; no file is  *)
(* missing from an answer of one page (DbManager.h:122-147, 209-241;       *)
(* Main.cpp:168-180).                                                      *)
THEOREM UpdatesAgreeWithHistory == ReadSpec => []UpdatesInHistory
<1>1. ReadInv /\ HistoryAgrees /\ AnswersFound => UpdatesInHistory
  <2> SUFFICES ASSUME ReadInv, HistoryAgrees, AnswersFound, Answered("updates")
               PROVE  UpdatesInHistory
    BY DEF UpdatesInHistory
  <2>1. ASSUME NEW id \in Ids \ torn
        PROVE  /\ id \in Updated(query.date) <=> NewestInWindow(id)
               /\ NewestInWindow(id) => items[id] = Last(history[id])
    BY TablesAgree DEF Answered, Updated, Files, GetType, NewestInWindow
  <2>2. ASSUME NEW e \in Shown, e.id \notin torn
        PROVE  NewestInWindow(e.id) /\ e.row = Last(history[e.id])
    <3>1. e.id \in Updated(query.date) /\ e.row = items[e.id]
      BY DEF AnswersFound, UpdatesFound
    <3>2. e.id \in Ids
      BY <3>1 DEF Updated, Files
    <3> QED
      BY <2>1, <2>2, <3>1, <3>2
  <2>3. OnePage => \A id \in Ids \ torn : NewestInWindow(id) => \E e \in Shown : e.id = id
    BY <2>1 DEF AnswersFound, UpdatesFound
  <2> QED
    BY <2>2, <2>3 DEF UpdatesInHistory
<1> QED
  BY <1>1, AnswersStayFound, PTL

(* An answer of history of one page has the row of the item exactly if the *)
(* date of that row is in the window, for every id that no crash has torn  *)
(* (DbManager.h:122-147, 244-253; Main.cpp:182-207).                       *)
THEOREM HistoryShowsTheItem == ReadSpec => []HistoryShowsItem
<1>1. ReadInv /\ TypeOK /\ HistoryAgrees /\ AnswersFound => HistoryShowsItem
  <2> SUFFICES ASSUME ReadInv, TypeOK, HistoryAgrees, AnswersFound, Answered("history"),
                      query.id \notin torn, OnePage
               PROVE  (\E e \in Shown : e.row = items[query.id])
                        <=> items[query.id].date \in query.start .. query.end - 1
    BY DEF HistoryShowsItem
  <2> DEFINE rows == history[query.id]
  <2>1. /\ query.id \in Ids /\ ItemExists(items, query.id)
        /\ query.start \in Int /\ query.end \in Int
        /\ (\E e \in Shown : e.row = items[query.id])
             <=> \E n \in InWindow(rows, query.start, query.end) : rows[n] = items[query.id]
    BY ReadingAssumption DEF AnswersFound, HistoryFound, Found
  <2>2. rows # <<>> /\ Last(rows) = items[query.id]
    BY <2>1, TablesAgree DEF Answered
  <2>3. rows \in Seq(Row) /\ items[query.id] \in Row
    BY <2>1 DEF TypeOK, HistoryTable, ItemTable, ItemExists
  <2>4. items[query.id].date \in Int
    BY <2>3, ReadingAssumption DEF Row
  <2>5. Len(rows) \in DOMAIN rows /\ rows[Len(rows)] = items[query.id]
    BY <2>2, <2>3 DEF Last
  <2> QED
    BY <2>1, <2>4, <2>5 DEF InWindow
<1> QED
  BY <1>1, AnswersStayFound, PTL
-----------------------------------------------------------------------------
(***************************************************************************)
(* When a query of nodes ends the process: that depends on whole paths of  *)
(* items, while NodesIter sees one item at a time.                         *)
(***************************************************************************)

(* The paths of more items than the stack has room for. *)
Paths(id) ==
  {p \in [1 .. MaxDepth + 1 -> Ids] :
     p[1] = id /\ \A n \in 1 .. MaxDepth : p[n + 1] \in Below(p[n])}

(* The recursion is a path from the item of the query, and a path that is  *)
(* too long is never left behind: up to where the recursion follows it,    *)
(* its next item is yet to be visited, or is being visited.                *)
Follows(p, k) == \A j \in 1 .. k : walk[j].id = p[j]
WalkPath ==
  walk # <<>> =>
    /\ walk[1].id = query.id
    /\ \A n \in 1 .. Len(walk) - 1 : walk[n + 1].id \in Below(walk[n].id)
LongPathsKept ==
  walk # <<>> =>
    \A p \in Paths(query.id) : \A k \in 1 .. Len(walk) :
      Follows(p, k) =>
        \/ p[k + 1] \in walk[k].todo
        \/ k < Len(walk) /\ walk[k + 1].id = p[k + 1]

RootExists == walk # <<>> => Found

PathInv == WalkPath /\ LongPathsKept /\ RootExists

LEMMA TooDeepIsPath ==
  ASSUME NEW id
  PROVE  TooDeep(id) <=> Paths(id) # {}
<1>1. MaxDepth \in Nat \ {0}
  BY HandlersAssumption
<1>2. \A x, y : y \in Below(x) <=> GetType(items, x) = "FOLDER" /\ y \in GetChildren(items, x)
  BY DEF Below
<1> QED
  BY <1>1, <1>2 DEF TooDeep, Paths

LEMMA SamePaths ==
  ASSUME UNCHANGED items
  PROVE  (\A id : Below(id) = IF GetType(items', id) = "FOLDER"
                               THEN GetChildren(items', id) ELSE {})
         /\ (WalkPath' <=>
               (walk' # <<>> =>
                  /\ walk'[1].id = query'.id
                  /\ \A n \in 1 .. Len(walk') - 1 : walk'[n + 1].id \in Below(walk'[n].id)))
         /\ (LongPathsKept' <=>
               (walk' # <<>> =>
                  \A p \in Paths(query'.id) : \A k \in 1 .. Len(walk') :
                    (\A j \in 1 .. k : walk'[j].id = p[j]) =>
                      \/ p[k + 1] \in walk'[k].todo
                      \/ k < Len(walk') /\ walk'[k + 1].id = p[k + 1]))
BY DEF Below, WalkPath, LongPathsKept, Paths, Follows

LEMMA EnterRootPaths ==
  ASSUME ReadInv, EnterRoot
  PROVE  PathInv'
<1>1. /\ UNCHANGED <<items, query>>
      /\ Len(walk') = 1 /\ walk'[1] = [id |-> query.id, todo |-> Below(query.id)]
  BY DEF EnterRoot, vars
<1>2. \A p \in Paths(query.id) : p[1 + 1] \in Below(query.id)
  BY HandlersAssumption DEF Paths
<1>3. RootExists'
  BY <1>1 DEF RootExists, EnterRoot, Found, ItemExists
<1> QED
  BY <1>1, <1>2, <1>3, SamePaths DEF PathInv

LEMMA EnterChildPaths ==
  ASSUME ReadInv, PathInv, NEW c, EnterChild(c)
  PROVE  PathInv'
<1>1. /\ walk # <<>> /\ Len(walk) \in Nat \ {0} /\ Len(walk) < MaxDepth
      /\ c \in Below(walk[Len(walk)].id)
      /\ Len(walk') = Len(walk) + 1
      /\ walk'[Len(walk) + 1] = [id |-> c, todo |-> Below(c)]
      /\ walk'[Len(walk)].id = walk[Len(walk)].id
      /\ walk'[Len(walk)].todo = walk[Len(walk)].todo \ {c}
      /\ \A n \in 1 .. Len(walk) - 1 : walk'[n] = walk[n]
      /\ UNCHANGED <<items, query>>
  BY EnterChildWalk DEF ReadInv, EnterChild, vars
<1>2. \A n \in 1 .. Len(walk) : walk'[n].id = walk[n].id
  BY <1>1
<1>3. WalkPath'
  <2>1. walk'[1].id = query.id
    BY <1>1, <1>2 DEF PathInv, WalkPath
  <2>2. ASSUME NEW n \in 1 .. Len(walk)
        PROVE  walk'[n + 1].id \in Below(walk'[n].id)
    <3>1. CASE n = Len(walk)
      BY <1>1, <3>1
    <3>2. CASE n # Len(walk)
      <4>1. n \in 1 .. Len(walk) - 1 /\ n + 1 \in 1 .. Len(walk)
        BY <1>1, <3>2
      <4> QED
        BY <1>1, <1>2, <4>1 DEF PathInv, WalkPath
    <3> QED
      BY <3>1, <3>2
  <2> QED
    BY <1>1, <2>1, <2>2, SamePaths
<1>4. LongPathsKept'
  <2> SUFFICES ASSUME NEW p \in Paths(query.id), NEW k \in 1 .. Len(walk) + 1,
                      \A j \in 1 .. k : walk'[j].id = p[j]
               PROVE  \/ p[k + 1] \in walk'[k].todo
                      \/ k < Len(walk') /\ walk'[k + 1].id = p[k + 1]
    BY <1>1, SamePaths
  <2>1. CASE k = Len(walk) + 1
    <3>1. k \in 1 .. MaxDepth /\ p[k] = c
      BY <1>1, <2>1, HandlersAssumption
    <3>2. p[k + 1] \in Below(c)
      BY <3>1 DEF Paths
    <3> QED
      BY <1>1, <2>1, <3>2
  <2>2. CASE k # Len(walk) + 1
    <3>1. k \in 1 .. Len(walk) /\ Follows(p, k)
      BY <1>1, <1>2, <2>2 DEF Follows
    <3>2. \/ p[k + 1] \in walk[k].todo
          \/ k < Len(walk) /\ walk[k + 1].id = p[k + 1]
      BY <1>1, <3>1 DEF PathInv, LongPathsKept
    <3>3. CASE k = Len(walk)
      BY <1>1, <3>2, <3>3
    <3>4. CASE k # Len(walk)
      <4>1. k \in 1 .. Len(walk) - 1 /\ k + 1 \in 1 .. Len(walk)
        BY <1>1, <3>1, <3>4
      <4> QED
        BY <1>1, <1>2, <3>2, <4>1
    <3> QED
      BY <3>3, <3>4
  <2> QED
    BY <2>1, <2>2
<1>5. RootExists'
  BY <1>1 DEF PathInv, RootExists, Found, ItemExists
<1> QED
  BY <1>3, <1>4, <1>5 DEF PathInv

LEMMA ReturnPaths ==
  ASSUME ReadInv, PathInv, ReturnNodes
  PROVE  PathInv'
<1>1. /\ walk # <<>> /\ Len(walk) \in Nat \ {0}
      /\ walk[Len(walk)].todo = {}
      /\ Len(walk') = Len(walk) - 1
      /\ walk' = <<>> <=> Len(walk) = 1
      /\ \A n \in 1 .. Len(walk) - 1 : walk'[n] = walk[n]
      /\ UNCHANGED <<items, query>>
  BY ReturnWalk DEF ReadInv, ReturnNodes, vars
<1> SUFFICES ASSUME Len(walk) # 1
             PROVE  PathInv'
  BY <1>1, SamePaths DEF PathInv, RootExists, Found, ItemExists
<1>2. WalkPath'
  <2>1. walk'[1] = walk[1] /\ walk[1].id = query.id
    BY <1>1 DEF PathInv, WalkPath
  <2>2. ASSUME NEW n \in 1 .. Len(walk) - 2
        PROVE  walk'[n + 1].id \in Below(walk'[n].id)
    <3>1. n \in 1 .. Len(walk) - 1 /\ n + 1 \in 1 .. Len(walk) - 1
      BY <1>1
    <3> QED
      BY <1>1, <3>1 DEF PathInv, WalkPath
  <2>3. 1 .. Len(walk') - 1 = 1 .. Len(walk) - 2
    BY <1>1
  <2> QED
    BY <1>1, <2>1, <2>2, <2>3, SamePaths
<1>3. LongPathsKept'
  <2> SUFFICES ASSUME NEW p \in Paths(query.id), NEW k \in 1 .. Len(walk) - 1,
                      \A j \in 1 .. k : walk'[j].id = p[j]
               PROVE  \/ p[k + 1] \in walk'[k].todo
                      \/ k < Len(walk') /\ walk'[k + 1].id = p[k + 1]
    BY <1>1, SamePaths
  <2>1. k \in 1 .. Len(walk) /\ Follows(p, k)
    BY <1>1 DEF Follows
  <2>2. \/ p[k + 1] \in walk[k].todo
        \/ k < Len(walk) /\ walk[k + 1].id = p[k + 1]
    BY <1>1, <2>1 DEF PathInv, LongPathsKept
  <2>3. CASE k = Len(walk) - 1 /\ walk[k + 1].id = p[k + 1]
    <3>1. Len(walk) \in 1 .. Len(walk) /\ Follows(p, Len(walk))
      BY <1>1, <2>1, <2>3 DEF Follows
    <3> QED
      BY <1>1, <3>1 DEF PathInv, LongPathsKept
  <2>4. CASE ~(k = Len(walk) - 1 /\ walk[k + 1].id = p[k + 1])
    BY <1>1, <2>2, <2>4
  <2> QED
    BY <2>3, <2>4
<1>4. RootExists'
  BY <1>1 DEF PathInv, RootExists, Found, ItemExists
<1> QED
  BY <1>2, <1>3, <1>4 DEF PathInv

(* Where the recursion is empty, or stays, nothing is left to show. *)
LEMMA StepPaths ==
  ASSUME ReadInv, PathInv, [ReadNext]_readVars
  PROVE  PathInv'
<1>1. CASE walk' = <<>>
  BY <1>1 DEF PathInv, WalkPath, LongPathsKept, RootExists
<1>2. CASE UNCHANGED <<walk, query, items>>
  BY <1>2, SamePaths
     DEF PathInv, WalkPath, LongPathsKept, RootExists, Follows, Found, ItemExists
<1>3. CASE EnterRoot
  BY <1>3, EnterRootPaths
<1>4. CASE \E c \in Ids : EnterChild(c)
  BY <1>4, EnterChildPaths
<1>5. CASE ReturnNodes
  BY <1>5, ReturnPaths
<1>6. query = Null /\ Next /\ UNCHANGED reading => walk' = <<>>
  BY DEF ReadInv, ReadControl, reading
<1>7. (\E q \in Queries : Ask(q)) \/ Reply => walk' = <<>>
  BY DEF ReadInv, ReadControl, Ask, Reply
<1>8. Thrown \/ CrashInQuery => walk' = <<>>
  BY DEF Thrown, QuotedId, WalkOverflow, MissingDateStart, QuotedDate, CastFails,
     RaceFails, Throw, CrashInQuery
<1>9. QueryNotFound \/ RefuseDates \/ AnswerUpdates \/ AnswerHistory
        => UNCHANGED <<walk, query, items>>
  BY DEF QueryNotFound, RefuseDates, AnswerUpdates, AnswerHistory, Conclude, vars, tables
<1>10. UNCHANGED readVars => UNCHANGED <<walk, query, items>>
  BY DEF readVars, reading, vars, tables
<1> QED
  BY <1>1, <1>2, <1>3, <1>4, <1>5, <1>6, <1>7, <1>8, <1>9, <1>10
     DEF ReadNext, ReadStep, Thrown

(* When the first call of NodesIter returns, no path is too long; and when *)
(* the stack is full and there is a child to visit, there is one.          *)
LEMMA ReturnNotTooDeep ==
  ASSUME ReadInv, PathInv, ReturnNodes, Len(walk) = 1
  PROVE  ~TooDeep(query.id) /\ query.kind = "nodes" /\ Found
<1>1. walk # <<>> /\ walk[1].todo = {}
  BY ReturnWalk DEF ReadInv, ReturnNodes
<1>2. ASSUME NEW p \in Paths(query.id)
      PROVE  FALSE
  <2>1. p[1] = query.id /\ walk[1].id = query.id
    BY <1>1 DEF Paths, PathInv, WalkPath
  <2>2. Follows(p, 1)
    BY <2>1 DEF Follows
  <2> QED
    BY <1>1, <2>2 DEF PathInv, LongPathsKept
<1> QED
  BY <1>1, <1>2, TooDeepIsPath DEF ReadInv, ReadControl, PathInv, RootExists

LEMMA OverflowTooDeep ==
  ASSUME ReadInv, PathInv, WalkOverflow
  PROVE  TooDeep(query.id) /\ query.kind = "nodes" /\ Found
<1>1. MaxDepth \in Nat \ {0}
  BY HandlersAssumption
<1>2. /\ walk \in Seq(Frame) /\ walk # <<>> /\ Len(walk) = MaxDepth
      /\ walk[MaxDepth].todo # {}
  BY <1>1 DEF ReadInv, ReadTypeOK, WalkOverflow, Last
<1>3. /\ query.kind = "nodes" /\ Found
      /\ walk[1].id = query.id
      /\ \A n \in 1 .. MaxDepth - 1 : walk[n + 1].id \in Below(walk[n].id)
  BY <1>2 DEF ReadInv, ReadControl, PathInv, WalkPath, RootExists
<1>4. PICK c : c \in walk[MaxDepth].todo
  BY <1>2
<1>5. c \in Below(walk[MaxDepth].id) /\ c \in Ids
      /\ \A n \in 1 .. MaxDepth : walk[n].id \in Ids
  <2>1. DOMAIN walk = 1 .. MaxDepth /\ \A n \in 1 .. MaxDepth : walk[n] \in Frame
    BY <1>2
  <2>2. MaxDepth \in DOMAIN walk
    BY <1>1, <2>1
  <2> QED
    BY <1>4, <2>1, <2>2 DEF ReadInv, WalkBelow, Frame
<1> DEFINE p == [n \in 1 .. MaxDepth + 1 |-> IF n <= MaxDepth THEN walk[n].id ELSE c]
<1>6. p \in [1 .. MaxDepth + 1 -> Ids] /\ p[1] = query.id
  BY <1>1, <1>3, <1>5
<1>7. ASSUME NEW n \in 1 .. MaxDepth
      PROVE  p[n + 1] \in Below(p[n])
  <2>1. CASE n = MaxDepth
    BY <1>1, <1>5, <2>1
  <2>2. CASE n # MaxDepth
    <3>1. n \in 1 .. MaxDepth - 1 /\ n + 1 <= MaxDepth /\ n + 1 \in 1 .. MaxDepth + 1
      BY <1>1, <2>2
    <3> QED
      BY <1>1, <1>3, <3>1
  <2> QED
    BY <2>1, <2>2
<1>8. p \in Paths(query.id)
  BY <1>6, <1>7 DEF Paths
<1> QED
  BY <1>3, <1>8, TooDeepIsPath

(* Whether a query of nodes has an end depends on it and on the items.     *)
Endless == query.id = Quoted \/ (Found /\ TooDeep(query.id))

LEMMA SameEndless ==
  ASSUME UNCHANGED <<query, items>>
  PROVE  Endless' <=> Endless
BY DEF Endless, Found, ItemExists, TooDeep, GetType, GetChildren

LEMMA StepFaults == ReadInv /\ PathInv /\ DepthFaults /\ [ReadNext]_readVars => DepthFaults'
<1> SUFFICES ASSUME ReadInv, PathInv, DepthFaults, [ReadNext]_readVars,
                    query' # Null, query'.kind = "nodes", result' # "none"
             PROVE  result' = "fault" <=> Endless'
  BY DEF DepthFaults, Endless
<1>1. CASE UNCHANGED readVars
  BY <1>1, SameEndless DEF DepthFaults, Endless, readVars, reading, vars, tables
<1>2. ~(query = Null /\ Next /\ UNCHANGED reading) /\ ~CrashInQuery /\ ~Reply
  BY DEF reading, CrashInQuery, Reply, ReadInv, ReadControl
<1>3. ~(\E q \in Queries : Ask(q)) /\ ~EnterRoot /\ ~(\E c \in Ids : EnterChild(c))
  BY DEF Ask, EnterRoot, EnterChild, Handling, ReadInv, ReadControl
<1>4. CASE ReadStep
  <2>1. UNCHANGED <<query, items>>
    BY <1>2, <1>4 DEF ReadStep, QueryNotFound, QuotedId, EnterRoot, EnterChild,
       ReturnNodes, WalkOverflow, RefuseDates, MissingDateStart, QuotedDate, CastFails,
       RaceFails, AnswerUpdates, AnswerHistory, Conclude, Throw, Die, vars, tables
  <2>2. query.kind = "nodes" /\ Quoted \notin Ids
    BY <2>1, ReadingAssumption
  <2>3. CASE QueryNotFound
    <3>1. ~Endless /\ result' = "not_found"
      BY <2>2, <2>3 DEF QueryNotFound, Conclude, Endless, Found
    <3> QED
      BY <2>1, <3>1, SameEndless
  <2>4. CASE QuotedId
    <3>1. Endless /\ result' = "fault"
      BY <2>4 DEF QuotedId, Endless, Throw
    <3> QED
      BY <2>1, <3>1, SameEndless
  <2>5. CASE ReturnNodes
    <3>1. Len(walk) = 1 /\ result' = "ok"
      BY <2>5 DEF ReturnNodes, ReadInv, ReadControl
    <3>2. ~Endless
      BY <2>2, <2>5, <3>1, ReturnNotTooDeep DEF Endless, Found
    <3> QED
      BY <2>1, <3>1, <3>2, SameEndless
  <2>6. CASE WalkOverflow
    <3>1. Endless /\ result' = "fault"
      BY <2>6, OverflowTooDeep DEF Endless, WalkOverflow, Throw
    <3> QED
      BY <2>1, <3>1, SameEndless
  <2>7. ~(\/ RefuseDates \/ MissingDateStart \/ QuotedDate \/ CastFails \/ RaceFails
          \/ AnswerUpdates \/ AnswerHistory)
    BY <2>2 DEF RefuseDates, BadDates, MissingDateStart, QuotedDate, CastFails, RaceFails,
       AnswerUpdates, AnswerHistory, DatesGiven, Handling
  <2> QED
    BY <1>2, <1>3, <1>4, <2>3, <2>4, <2>5, <2>6, <2>7 DEF ReadStep
<1> QED
  BY <1>1, <1>2, <1>3, <1>4 DEF ReadNext

(* A query of nodes ends the process exactly if its id makes no statement  *)
(* or what is below its item is deeper than the stack, in a circle         *)
(* included, though NodesIter never looks at more than an item and its     *)
(* children (Main.cpp:141-166).                                            *)
THEOREM DepthFaultsAreExact == ReadSpec => []DepthFaults
<1>1. ReadInit => PathInv /\ DepthFaults
  BY DEF ReadInit, PathInv, WalkPath, LongPathsKept, RootExists, DepthFaults
<1>2. ReadSpec => []TypeOK
  BY QueriesOnlyRead, TypeCorrect, PTL
<1>3. ReadSpec => []ReadInv
  BY <1>2, InitReadInv, StepReadInv, PTL DEF ReadSpec
<1>4. ReadSpec => []PathInv
  BY <1>1, <1>3, StepPaths, PTL DEF ReadSpec
<1> QED
  BY <1>1, <1>2, <1>3, <1>4, StepFaults, PTL DEF ReadSpec
-----------------------------------------------------------------------------
(***************************************************************************)
(* The answer of nodes.  NodesIter keeps no record of where it has been;   *)
(* that it shows nothing twice follows from each item having one parent    *)
(* and from the walk having come to an end.                                *)
(***************************************************************************)

(* An item has one parent, and is stored. *)
LEMMA OneParent ==
  ASSUME NEW x, NEW y \in Below(x)
  PROVE  /\ y \in Ids /\ items[y].parent = x /\ GetType(items, x) = "FOLDER"
         /\ \A z : y \in Below(z) => z = x
BY DEF Below, GetChildren

(* An item all of whose children are grounded is grounded. *)
LEMMA GroundedItem ==
  ASSUME NEW x \in Ids, Below(x) \subseteq Grounded
  PROVE  x \in Grounded
<1>1. ASSUME NEW S \in SUBSET Ids, \A y \in Ids : Below(y) \subseteq S => y \in S
      PROVE  x \in S
  <2>1. Grounded \subseteq S
    BY <1>1 DEF Grounded
  <2> QED
    BY <1>1, <2>1
<1> QED
  BY <1>1 DEF Grounded

(* A set each of whose items has another of the set, or itself, below it   *)
(* holds no grounded item.                                                 *)
LEMMA NotGrounded ==
  ASSUME NEW C \in SUBSET Ids, \A y \in C : \E z \in C : z \in Below(y)
  PROVE  C \cap Grounded = {}
<1> DEFINE S == Ids \ C
<1>1. S \in SUBSET Ids /\ \A y \in Ids : Below(y) \subseteq S => y \in S
  OBVIOUS
<1>2. \A x \in Grounded : x \in S
  BY <1>1 DEF Grounded
<1> QED
  BY <1>2

(* With the items as they are, what the parts of the invariant say of the  *)
(* next state.                                                             *)
LEMMA SameGrounded ==
  ASSUME UNCHANGED items
  PROVE  Grounded' = Grounded
BY DEF Grounded, Below

(* With the tables and the query as they are, the parts of WalkInvariant   *)
(* after a step are those of the new recursion and answer.                 *)
LEMMA SameWalk ==
  ASSUME UNCHANGED <<items, query>>
  PROVE  /\ WalkGoesDown' <=>
              /\ answer' = <<>> <=> walk' = <<>> /\ result' = "none"
              /\ answer' # <<>> => answer'[1].id = query.id
              /\ walk' # <<>> => walk'[1].id = query.id
              /\ \A n \in DOMAIN walk' : walk'[n].id \in Visited'
              /\ \A n \in 1 .. Len(walk') - 1 : walk'[n + 1].id \in Below(walk'[n].id)
         /\ DoneIsGrounded' <=>
              /\ result' = "ok" => query.id \in Grounded
              /\ \A n \in DOMAIN walk' : \A c \in Below(walk'[n].id) \ walk'[n].todo :
                   c \in Grounded \/ (n < Len(walk') /\ walk'[n + 1].id = c)
         /\ NoneLeftBehind' <=>
              \A n \in DOMAIN answer' :
                /\ answer'[n].row = items[answer'[n].id]
                /\ n > 1 => \E m \in 1 .. n - 1 : answer'[n].id \in Below(answer'[m].id)
                /\ \A c \in Below(answer'[n].id) :
                     \/ \E m \in n + 1 .. Len(answer') : answer'[m].id = c
                     \/ \E k \in DOMAIN walk' :
                          walk'[k].id = answer'[n].id /\ c \in walk'[k].todo
         /\ VisitedOnce' <=>
              (query.id \in Grounded =>
                 /\ \A m, n \in DOMAIN answer' : answer'[m].id = answer'[n].id => m = n
                 /\ \A m, n \in DOMAIN walk' : walk'[m].id = walk'[n].id => m = n
                 /\ \A n \in DOMAIN walk' : walk'[n].todo \cap Visited' = {})
<1>1. Grounded' = Grounded
  BY SameGrounded
<1>2. WalkGoesDown' <=>
        /\ answer' = <<>> <=> walk' = <<>> /\ result' = "none"
        /\ answer' # <<>> => answer'[1].id = query.id
        /\ walk' # <<>> => walk'[1].id = query.id
        /\ \A n \in DOMAIN walk' : walk'[n].id \in Visited'
        /\ \A n \in 1 .. Len(walk') - 1 : walk'[n + 1].id \in Below(walk'[n].id)
  BY DEF WalkGoesDown, Below
<1>3. DoneIsGrounded' <=>
        /\ result' = "ok" => query.id \in Grounded
        /\ \A n \in DOMAIN walk' : \A c \in Below(walk'[n].id) \ walk'[n].todo :
             c \in Grounded \/ (n < Len(walk') /\ walk'[n + 1].id = c)
  BY <1>1 DEF DoneIsGrounded, Below
<1>4. NoneLeftBehind' <=>
        \A n \in DOMAIN answer' :
          /\ answer'[n].row = items[answer'[n].id]
          /\ n > 1 => \E m \in 1 .. n - 1 : answer'[n].id \in Below(answer'[m].id)
          /\ \A c \in Below(answer'[n].id) :
               \/ \E m \in n + 1 .. Len(answer') : answer'[m].id = c
               \/ \E k \in DOMAIN walk' :
                    walk'[k].id = answer'[n].id /\ c \in walk'[k].todo
  BY DEF NoneLeftBehind, Below
<1>5. VisitedOnce' <=>
        (query.id \in Grounded =>
           /\ \A m, n \in DOMAIN answer' : answer'[m].id = answer'[n].id => m = n
           /\ \A m, n \in DOMAIN walk' : walk'[m].id = walk'[n].id => m = n
           /\ \A n \in DOMAIN walk' : walk'[n].todo \cap Visited' = {})
  BY <1>1 DEF VisitedOnce
<1> QED
  BY <1>2, <1>3, <1>4, <1>5

(* NodesIter called on the item of the query. *)
LEMMA EnterRootVisits ==
  ASSUME ReadInv, WalkInvariant, EnterRoot
  PROVE  WalkInvariant'
<1>1. /\ query \in Queries /\ query.kind = "nodes" /\ query.id \in Ids
      /\ result = "none" /\ walk = <<>> /\ UNCHANGED <<items, query, result>>
  BY QueryFacts DEF EnterRoot, Found, Handling, ReadInv, ReadTypeOK, vars
<1>2. answer = <<>>
  BY <1>1, QueryFacts DEF WalkInvariant, WalkGoesDown
<1>3. /\ walk' = <<[id |-> query.id, todo |-> Below(query.id)]>>
      /\ answer' = <<[id |-> query.id, row |-> items[query.id]]>>
  BY <1>2 DEF EnterRoot, Enter
<1>4. /\ DOMAIN walk' = {1} /\ Len(walk') = 1 /\ walk' # <<>>
      /\ walk'[1].id = query.id /\ walk'[1].todo = Below(query.id)
      /\ DOMAIN answer' = {1} /\ Len(answer') = 1 /\ answer' # <<>>
      /\ answer'[1].id = query.id /\ answer'[1].row = items[query.id]
  BY <1>3
<1>5. Visited' = {query.id}
  BY <1>4 DEF Visited
<1>6. WalkGoesDown'
  BY <1>1, <1>4, <1>5, SameWalk
<1>7. DoneIsGrounded'
  BY <1>1, <1>4, SameWalk
<1>8. NoneLeftBehind'
  BY <1>1, <1>4, SameWalk
<1>9. ASSUME query.id \in Grounded
      PROVE  query.id \notin Below(query.id)
  <2>1. {query.id} \in SUBSET Ids
    BY <1>1
  <2> QED
    BY <1>9, <2>1, NotGrounded
<1>10. VisitedOnce'
  BY <1>1, <1>4, <1>5, <1>9, SameWalk
<1> QED
  BY <1>6, <1>7, <1>8, <1>10 DEF WalkInvariant

(* NodesIter calls itself on a child. *)
LEMMA EnterChildVisits ==
  ASSUME TypeOK, ReadInv, WalkInvariant, NEW c, EnterChild(c)
  PROVE  WalkInvariant'
<1>1. /\ walk \in Seq(Frame) /\ Len(walk) \in Nat \ {0}
      /\ c \in walk[Len(walk)].todo /\ c \in Below(walk[Len(walk)].id)
      /\ c \in Ids /\ ItemExists(items, c)
      /\ walk' \in Seq(Frame) /\ Len(walk') = Len(walk) + 1
      /\ walk'[Len(walk) + 1].id = c /\ walk'[Len(walk) + 1].todo = Below(c)
      /\ walk'[Len(walk)].id = walk[Len(walk)].id
      /\ walk'[Len(walk)].todo = walk[Len(walk)].todo \ {c}
      /\ \A n \in 1 .. Len(walk) - 1 : walk'[n] = walk[n]
  <2>1. ReadTypeOK /\ WalkBelow
    BY DEF ReadInv
  <2>2. /\ walk \in Seq(Frame) /\ Len(walk) \in Nat \ {0}
        /\ c \in walk[Len(walk)].todo /\ c \in Below(walk[Len(walk)].id)
        /\ c \in Ids /\ ItemExists(items, c)
        /\ walk' \in Seq(Frame) /\ Len(walk') = Len(walk) + 1
        /\ walk'[Len(walk) + 1] = [id |-> c, todo |-> Below(c)]
        /\ walk'[Len(walk)].id = walk[Len(walk)].id
        /\ walk'[Len(walk)].todo = walk[Len(walk)].todo \ {c}
        /\ \A n \in 1 .. Len(walk) - 1 : walk'[n] = walk[n]
    BY <2>1, EnterChildWalk
  <2> QED
    BY <2>2
<1>2. /\ query # Null /\ query.kind = "nodes" /\ result = "none"
      /\ UNCHANGED <<items, query, result>> /\ walk # <<>>
  BY DEF EnterChild, ReadInv, ReadControl, vars
<1>3. WalkGoesDown /\ DoneIsGrounded /\ NoneLeftBehind /\ VisitedOnce
  BY <1>2 DEF WalkInvariant
<1>4. /\ answer \in Seq(Entry) /\ Len(answer) \in Nat /\ Len(answer') = Len(answer) + 1
      /\ answer # <<>> /\ answer' # <<>> /\ answer' \in Seq(Entry)
      /\ \A n \in 1 .. Len(answer) : answer'[n] = answer[n]
      /\ answer'[Len(answer) + 1].id = c /\ answer'[Len(answer) + 1].row = items[c]
  <2>1. answer \in Seq(Entry) /\ answer # <<>>
    BY <1>2, <1>3 DEF ReadInv, ReadControl, WalkGoesDown
  <2>2. [id |-> c, row |-> items[c]] \in Entry
    <3>1. items[c] \in Row
      BY <1>1 DEF TypeOK, ItemTable, ItemExists
    <3> QED
      BY <1>1, <3>1 DEF Entry
  <2>3. answer' = Append(answer, [id |-> c, row |-> items[c]])
    BY DEF EnterChild, Enter
  <2> QED
    BY <2>1, <2>2, <2>3
<1>5. DOMAIN answer = 1 .. Len(answer) /\ DOMAIN answer' = 1 .. Len(answer) + 1
      /\ DOMAIN walk = 1 .. Len(walk) /\ DOMAIN walk' = 1 .. Len(walk) + 1
  BY <1>1, <1>4
<1>6. Visited' = Visited \cup {c}
  BY <1>4, <1>5 DEF Visited
<1>7. \A n \in 1 .. Len(walk) : /\ walk'[n].id = walk[n].id
                                /\ walk'[n].todo \subseteq walk[n].todo
                                /\ n < Len(walk) => walk'[n].todo = walk[n].todo
  BY <1>1
<1>8. \A n \in 1 .. Len(walk) : walk[n].id \in Ids /\ walk[n].todo \subseteq Below(walk[n].id)
  <2>1. \A n \in 1 .. Len(walk) : walk[n] \in Frame
    BY <1>1
  <2> QED
    BY <1>5, <2>1 DEF Frame, ReadInv, WalkBelow
<1>9. WalkGoesDown'
  <2>1. answer'[1].id = query.id /\ walk'[1].id = query.id
    <3>1. 1 \in 1 .. Len(walk) /\ 1 \in 1 .. Len(answer)
      BY <1>1, <1>4
    <3> QED
      BY <1>2, <1>3, <1>4, <1>7, <3>1 DEF WalkGoesDown
  <2>2. \A n \in 1 .. Len(walk) + 1 : walk'[n].id \in Visited'
    <3>1. \A n \in 1 .. Len(walk) : walk'[n].id \in Visited'
      BY <1>3, <1>5, <1>6, <1>7 DEF WalkGoesDown
    <3>2. walk'[Len(walk) + 1].id \in Visited'
      BY <1>1, <1>6
    <3> QED
      BY <1>1, <3>1, <3>2
  <2>3. \A n \in 1 .. Len(walk) : walk'[n + 1].id \in Below(walk'[n].id)
    <3> SUFFICES ASSUME NEW n \in 1 .. Len(walk)
                 PROVE  walk'[n + 1].id \in Below(walk'[n].id)
      OBVIOUS
    <3>1. CASE n = Len(walk)
      BY <1>1, <3>1
    <3>2. CASE n # Len(walk)
      <4>1. n \in 1 .. Len(walk) - 1 /\ n + 1 \in 1 .. Len(walk)
        BY <1>1, <3>2
      <4> QED
        BY <1>3, <1>7, <4>1 DEF WalkGoesDown
    <3> QED
      BY <3>1, <3>2
  <2> QED
    BY <1>1, <1>2, <1>4, <1>5, <2>1, <2>2, <2>3, SameWalk
<1>10. DoneIsGrounded'
  <2> SUFFICES ASSUME NEW n \in 1 .. Len(walk) + 1,
                      NEW d \in Below(walk'[n].id) \ walk'[n].todo
               PROVE  d \in Grounded \/ (n < Len(walk') /\ walk'[n + 1].id = d)
    BY <1>2, <1>5, SameWalk
  <2>1. n # Len(walk) + 1
    BY <1>1
  <2>2. CASE n = Len(walk)
    <3>1. d = c \/ d \in Below(walk[n].id) \ walk[n].todo
      BY <1>1, <2>2
    <3>2. d = c \/ d \in Grounded
      BY <1>1, <1>3, <1>5, <2>2, <3>1 DEF DoneIsGrounded
    <3> QED
      BY <1>1, <2>2, <3>2
  <2>3. CASE n # Len(walk)
    <3>1. n \in 1 .. Len(walk) - 1 /\ n + 1 \in 1 .. Len(walk)
      BY <1>1, <2>1, <2>3
    <3>2. d \in Below(walk[n].id) \ walk[n].todo
      BY <1>7, <3>1
    <3>3. d \in Grounded \/ walk[n + 1].id = d
      BY <1>3, <1>5, <3>1, <3>2 DEF DoneIsGrounded
    <3> QED
      BY <1>1, <1>7, <3>1, <3>3
  <2> QED
    BY <2>2, <2>3
<1>11. NoneLeftBehind'
  <2> SUFFICES ASSUME NEW n \in 1 .. Len(answer) + 1
               PROVE  /\ answer'[n].row = items[answer'[n].id]
                      /\ n > 1 => \E m \in 1 .. n - 1 :
                                    answer'[n].id \in Below(answer'[m].id)
                      /\ \A d \in Below(answer'[n].id) :
                           \/ \E m \in n + 1 .. Len(answer') : answer'[m].id = d
                           \/ \E k \in 1 .. Len(walk) + 1 :
                                walk'[k].id = answer'[n].id /\ d \in walk'[k].todo
    BY <1>2, <1>5, SameWalk
  <2>1. CASE n = Len(answer) + 1
    <3>1. PICK m \in 1 .. Len(answer) : answer[m].id = walk[Len(walk)].id
      BY <1>1, <1>3, <1>5 DEF WalkGoesDown, Visited
    <3>2. m \in 1 .. n - 1 /\ answer'[n].id \in Below(answer'[m].id)
      BY <1>1, <1>4, <2>1, <3>1
    <3>3. Len(walk) + 1 \in 1 .. Len(walk) + 1
      BY <1>1
    <3> QED
      BY <1>1, <1>4, <2>1, <3>2, <3>3
  <2>2. CASE n # Len(answer) + 1
    <3>1. n \in 1 .. Len(answer) /\ answer'[n] = answer[n]
      BY <1>4, <2>2
    <3>2. answer'[n].row = items[answer'[n].id]
      BY <1>3, <1>5, <3>1 DEF NoneLeftBehind
    <3>3. n > 1 => \E m \in 1 .. n - 1 : answer'[n].id \in Below(answer'[m].id)
      <4> SUFFICES ASSUME n > 1
                   PROVE  \E m \in 1 .. n - 1 : answer'[n].id \in Below(answer'[m].id)
        OBVIOUS
      <4>1. PICK m \in 1 .. n - 1 : answer[n].id \in Below(answer[m].id)
        BY <1>3, <1>5, <3>1 DEF NoneLeftBehind
      <4>2. m \in 1 .. Len(answer)
        BY <3>1, <1>4
      <4> QED
        BY <1>4, <3>1, <4>1, <4>2
    <3>4. ASSUME NEW d \in Below(answer'[n].id)
          PROVE  \/ \E m \in n + 1 .. Len(answer') : answer'[m].id = d
                 \/ \E k \in 1 .. Len(walk) + 1 :
                      walk'[k].id = answer'[n].id /\ d \in walk'[k].todo
      <4>1. \/ \E m \in n + 1 .. Len(answer) : answer[m].id = d
            \/ \E k \in 1 .. Len(walk) :
                 walk[k].id = answer[n].id /\ d \in walk[k].todo
        BY <1>3, <1>5, <3>1, <3>4 DEF NoneLeftBehind
      <4>2. CASE \E m \in n + 1 .. Len(answer) : answer[m].id = d
        <5>1. PICK m \in n + 1 .. Len(answer) : answer[m].id = d
          BY <4>2
        <5>2. m \in 1 .. Len(answer) /\ m \in n + 1 .. Len(answer')
          BY <1>4, <3>1
        <5> QED
          BY <1>4, <5>1, <5>2
      <4>3. CASE d = c
        <5>1. Len(answer) + 1 \in n + 1 .. Len(answer')
          BY <1>4, <3>1
        <5> QED
          BY <1>4, <4>3, <5>1
      <4>4. ASSUME NEW k \in 1 .. Len(walk), d # c,
                   walk[k].id = answer[n].id, d \in walk[k].todo
            PROVE  walk'[k].id = answer'[n].id /\ d \in walk'[k].todo
                   /\ k \in 1 .. Len(walk) + 1
        <5>1. k = Len(walk) \/ k \in 1 .. Len(walk) - 1
          BY <1>1
        <5> QED
          BY <1>1, <3>1, <4>4, <5>1
      <4> QED
        BY <4>1, <4>2, <4>3, <4>4
    <3> QED
      BY <1>5, <3>2, <3>3, <3>4
  <2> QED
    BY <2>1, <2>2
<1>12. VisitedOnce'
  <2> SUFFICES ASSUME query.id \in Grounded
               PROVE  /\ \A m, n \in DOMAIN answer' : answer'[m].id = answer'[n].id => m = n
                      /\ \A m, n \in DOMAIN walk' : walk'[m].id = walk'[n].id => m = n
                      /\ \A n \in DOMAIN walk' : walk'[n].todo \cap Visited' = {}
    BY <1>2, SameWalk
  <2>1. /\ \A m, n \in 1 .. Len(answer) : answer[m].id = answer[n].id => m = n
        /\ \A m, n \in 1 .. Len(walk) : walk[m].id = walk[n].id => m = n
        /\ \A n \in 1 .. Len(walk) : walk[n].todo \cap Visited = {}
    BY <1>3, <1>5 DEF VisitedOnce
  <2>2. c \notin Visited
    BY <1>1, <2>1
  <2>3. \A n \in 1 .. Len(answer) : answer[n].id # c
    BY <1>5, <2>2 DEF Visited
  <2>4. \A n \in 1 .. Len(walk) : walk[n].id # c
    BY <1>3, <1>5, <2>2 DEF WalkGoesDown
  <2>5. \A m, n \in DOMAIN answer' : answer'[m].id = answer'[n].id => m = n
    <3> SUFFICES ASSUME NEW m \in 1 .. Len(answer) + 1, NEW n \in 1 .. Len(answer) + 1,
                        answer'[m].id = answer'[n].id
                 PROVE  m = n
      BY <1>5
    <3>1. m \in 1 .. Len(answer) \/ m = Len(answer) + 1
      BY <1>4
    <3>2. n \in 1 .. Len(answer) \/ n = Len(answer) + 1
      BY <1>4
    <3> QED
      BY <1>4, <2>1, <2>3, <3>1, <3>2
  <2>6. \A m, n \in DOMAIN walk' : walk'[m].id = walk'[n].id => m = n
    <3> SUFFICES ASSUME NEW m \in 1 .. Len(walk) + 1, NEW n \in 1 .. Len(walk) + 1,
                        walk'[m].id = walk'[n].id
                 PROVE  m = n
      BY <1>5
    <3>1. m \in 1 .. Len(walk) \/ m = Len(walk) + 1
      BY <1>1
    <3>2. n \in 1 .. Len(walk) \/ n = Len(walk) + 1
      BY <1>1
    <3> QED
      BY <1>1, <1>7, <2>1, <2>4, <3>1, <3>2
  <2>7. query.id \notin Below(c)
    <3> SUFFICES ASSUME query.id \in Below(c)
                 PROVE  FALSE
      OBVIOUS
    <3> DEFINE C == {walk'[n].id : n \in 1 .. Len(walk) + 1}
    <3>1. C \in SUBSET Ids /\ query.id \in C
      <4>1. walk[1].id = query.id /\ 1 \in 1 .. Len(walk) /\ 1 \in 1 .. Len(walk) + 1
        BY <1>1, <1>2, <1>3 DEF WalkGoesDown
      <4>2. walk'[1].id = query.id
        BY <1>7, <4>1
      <4>3. \A n \in 1 .. Len(walk) + 1 : walk'[n].id \in Ids
        <5>1. \A n \in 1 .. Len(walk) + 1 : walk'[n] \in Frame
          BY <1>1
        <5> QED
          BY <5>1 DEF Frame
      <4> QED
        BY <4>1, <4>2, <4>3
    <3>2. ASSUME NEW n \in 1 .. Len(walk) + 1
          PROVE  \E z \in C : z \in Below(walk'[n].id)
      <4>1. CASE n = Len(walk) + 1
        BY <1>1, <3>1, <4>1
      <4>2. CASE n # Len(walk) + 1
        <5>1. n \in 1 .. Len(walk') - 1 /\ n + 1 \in 1 .. Len(walk) + 1
          BY <1>1, <4>2
        <5>2. walk'[n + 1].id \in Below(walk'[n].id)
          BY <1>2, <1>9, <5>1, SameWalk
        <5> QED
          BY <5>1, <5>2
      <4> QED
        BY <4>1, <4>2
    <3>3. C \cap Grounded = {}
      <4>1. \A y \in C : \E z \in C : z \in Below(y)
        BY <3>2
      <4> HIDE DEF C
      <4> QED
        BY <3>1, <4>1, NotGrounded
    <3> QED
      BY <3>1, <3>3
  <2>8. Below(c) \cap Visited' = {}
    <3> SUFFICES ASSUME NEW d \in Below(c), d \in Visited'
                 PROVE  FALSE
      OBVIOUS
    <3>1. CASE d = c
      <4>1. c = walk[Len(walk)].id
        BY <1>1, <3>1, OneParent
      <4> QED
        BY <1>1, <2>4, <4>1
    <3>2. CASE d # c
      <4>1. PICK n \in 1 .. Len(answer) : answer[n].id = d
        BY <1>5, <1>6, <3>2 DEF Visited
      <4>2. n # 1
        BY <1>3, <1>4, <2>7, <4>1 DEF WalkGoesDown
      <4>3. PICK m \in 1 .. n - 1 : d \in Below(answer[m].id)
        BY <1>3, <1>5, <4>1, <4>2 DEF NoneLeftBehind
      <4>4. answer[m].id = c /\ m \in 1 .. Len(answer)
        BY <4>3, OneParent, <1>4
      <4> QED
        BY <2>3, <4>4
    <3> QED
      BY <3>1, <3>2
  <2>9. ASSUME NEW n \in 1 .. Len(walk) + 1
        PROVE  walk'[n].todo \cap Visited' = {}
    <3>1. CASE n = Len(walk) + 1
      BY <1>1, <2>8, <3>1
    <3>2. CASE n = Len(walk)
      BY <1>1, <1>6, <2>1, <3>2
    <3>3. CASE n \in 1 .. Len(walk) - 1
      <4>1. n \in 1 .. Len(walk) /\ n # Len(walk) /\ Len(walk) \in 1 .. Len(walk)
        BY <1>1, <3>3
      <4>2. c \notin walk[n].todo
        <5> SUFFICES ASSUME c \in walk[n].todo
                     PROVE  FALSE
          OBVIOUS
        <5>1. c \in Below(walk[n].id)
          BY <1>8, <4>1
        <5>2. walk[n].id = walk[Len(walk)].id
          BY <1>1, <5>1, OneParent
        <5> QED
          BY <2>1, <4>1, <5>2
      <4>3. walk'[n].todo = walk[n].todo
        BY <1>1, <3>3
      <4> QED
        BY <1>6, <2>1, <4>1, <4>2, <4>3
    <3> QED
      BY <1>1, <3>1, <3>2, <3>3
  <2> QED
    BY <1>5, <2>5, <2>6, <2>9
<1> QED
  BY <1>9, <1>10, <1>11, <1>12 DEF WalkInvariant

(* A call of NodesIter returns. *)
LEMMA ReturnVisits ==
  ASSUME ReadInv, WalkInvariant, ReturnNodes
  PROVE  WalkInvariant'
<1>1. /\ walk \in Seq(Frame) /\ Len(walk) \in Nat \ {0}
      /\ walk[Len(walk)].todo = {}
      /\ walk' \in Seq(Frame) /\ Len(walk') = Len(walk) - 1
      /\ walk' = <<>> <=> Len(walk) = 1
      /\ \A n \in 1 .. Len(walk) - 1 : walk'[n] = walk[n]
  <2>1. ReadTypeOK
    BY DEF ReadInv
  <2> QED
    BY <2>1, ReturnWalk
<1>2. /\ query # Null /\ query.kind = "nodes" /\ result = "none"
      /\ UNCHANGED <<items, query, answer>> /\ walk # <<>>
      /\ result' = IF Len(walk) = 1 THEN "ok" ELSE "none"
  BY DEF ReturnNodes, ReadInv, ReadControl, vars
<1>3. WalkGoesDown /\ DoneIsGrounded /\ NoneLeftBehind /\ VisitedOnce
  BY <1>2 DEF WalkInvariant
<1>4. DOMAIN walk = 1 .. Len(walk) /\ DOMAIN walk' = 1 .. Len(walk) - 1
  BY <1>1
<1>5. Visited' = Visited
  BY <1>2 DEF Visited
<1>6. walk[Len(walk)].id \in Ids /\ Len(walk) \in 1 .. Len(walk)
  <2>1. Len(walk) \in 1 .. Len(walk)
    BY <1>1
  <2>2. walk[Len(walk)] \in Frame
    BY <1>1, <2>1
  <2> QED
    BY <2>1, <2>2 DEF Frame
<1>7. walk[Len(walk)].id \in Grounded
  <2>1. Below(walk[Len(walk)].id) \subseteq Grounded
    BY <1>1, <1>3, <1>4, <1>6 DEF DoneIsGrounded
  <2> QED
    BY <1>6, <2>1, GroundedItem
<1>8. WalkGoesDown'
  <2>1. answer' = <<>> <=> walk' = <<>> /\ result' = "none"
    BY <1>1, <1>2, <1>3 DEF WalkGoesDown
  <2>2. walk' # <<>> => walk'[1].id = query.id
    <3> SUFFICES ASSUME walk' # <<>>
                 PROVE  walk'[1].id = query.id
      OBVIOUS
    <3>1. 1 \in 1 .. Len(walk) - 1
      BY <1>1
    <3> QED
      BY <1>1, <1>2, <1>3, <3>1 DEF WalkGoesDown
  <2>3. \A n \in 1 .. Len(walk) - 1 : walk'[n].id \in Visited
    BY <1>1, <1>3, <1>4 DEF WalkGoesDown
  <2>4. \A n \in 1 .. Len(walk') - 1 : walk'[n + 1].id \in Below(walk'[n].id)
    <3> SUFFICES ASSUME NEW n \in 1 .. Len(walk') - 1
                 PROVE  walk'[n + 1].id \in Below(walk'[n].id)
      OBVIOUS
    <3>1. n \in 1 .. Len(walk) - 1 /\ n + 1 \in 1 .. Len(walk) - 1
      BY <1>1
    <3> QED
      BY <1>1, <1>3, <3>1 DEF WalkGoesDown
  <2> QED
    BY <1>2, <1>3, <1>4, <1>5, <2>1, <2>2, <2>3, <2>4, SameWalk DEF WalkGoesDown
<1>9. DoneIsGrounded'
  <2>1. result' = "ok" => query.id \in Grounded
    BY <1>1, <1>2, <1>3, <1>7 DEF WalkGoesDown
  <2>2. ASSUME NEW n \in 1 .. Len(walk) - 1,
               NEW c \in Below(walk'[n].id) \ walk'[n].todo
        PROVE  c \in Grounded \/ (n < Len(walk') /\ walk'[n + 1].id = c)
    <3>1. n \in 1 .. Len(walk) /\ walk'[n] = walk[n]
      BY <1>1
    <3>2. c \in Grounded \/ walk[n + 1].id = c
      BY <1>3, <1>4, <3>1 DEF DoneIsGrounded
    <3>3. CASE n = Len(walk) - 1
      <4>1. n + 1 = Len(walk)
        BY <1>1, <3>3
      <4> QED
        BY <1>7, <3>2, <4>1
    <3>4. CASE n # Len(walk) - 1
      <4>1. n < Len(walk') /\ n + 1 \in 1 .. Len(walk) - 1
        BY <1>1, <3>4
      <4> QED
        BY <1>1, <3>2, <4>1
    <3> QED
      BY <3>3, <3>4
  <2> QED
    BY <1>2, <1>4, <2>1, <2>2, SameWalk
<1>10. NoneLeftBehind'
  <2> SUFFICES ASSUME NEW n \in DOMAIN answer
               PROVE  /\ answer[n].row = items[answer[n].id]
                      /\ n > 1 => \E m \in 1 .. n - 1 :
                                    answer[n].id \in Below(answer[m].id)
                      /\ \A c \in Below(answer[n].id) :
                           \/ \E m \in n + 1 .. Len(answer) : answer[m].id = c
                           \/ \E k \in DOMAIN walk' :
                                walk'[k].id = answer[n].id /\ c \in walk'[k].todo
    BY <1>2, SameWalk
  <2>1. ASSUME NEW c, NEW k \in DOMAIN walk, c \in walk[k].todo
        PROVE  k \in DOMAIN walk' /\ walk'[k] = walk[k]
    <3>1. k # Len(walk)
      BY <1>1, <2>1
    <3> QED
      BY <1>1, <1>4, <3>1
  <2> QED
    <3>1. /\ answer[n].row = items[answer[n].id]
          /\ n > 1 => \E m \in 1 .. n - 1 : answer[n].id \in Below(answer[m].id)
      BY <1>3 DEF NoneLeftBehind
    <3>2. ASSUME NEW c \in Below(answer[n].id)
          PROVE  \/ \E m \in n + 1 .. Len(answer) : answer[m].id = c
                 \/ \E k \in DOMAIN walk' :
                      walk'[k].id = answer[n].id /\ c \in walk'[k].todo
      <4>1. \/ \E m \in n + 1 .. Len(answer) : answer[m].id = c
            \/ \E k \in DOMAIN walk : walk[k].id = answer[n].id /\ c \in walk[k].todo
        BY <1>3, <3>2 DEF NoneLeftBehind
      <4> QED
        BY <2>1, <4>1
    <3> QED
      BY <3>1, <3>2
<1>11. VisitedOnce'
  <2>1. \A n \in DOMAIN walk' : n \in DOMAIN walk /\ walk'[n] = walk[n]
    BY <1>1, <1>4
  <2> QED
    BY <1>2, <1>3, <1>5, <2>1, SameWalk DEF VisitedOnce
<1> QED
  BY <1>8, <1>9, <1>10, <1>11 DEF WalkInvariant

(* No other step adds to an answer of nodes or calls NodesIter. *)
LEMMA StepVisits ==
  TypeOK /\ ReadInv /\ WalkInvariant /\ [ReadNext]_readVars => WalkInvariant'
<1> SUFFICES ASSUME TypeOK, ReadInv, WalkInvariant, [ReadNext]_readVars
             PROVE  WalkInvariant'
  OBVIOUS
<1>1. CASE EnterRoot
  BY <1>1, EnterRootVisits
<1>2. CASE \E c \in Ids : EnterChild(c)
  BY <1>2, EnterChildVisits
<1>3. CASE ReturnNodes
  BY <1>3, ReturnVisits
<1>4. CASE UNCHANGED <<items, reading>>
  <2>1. UNCHANGED <<items, query, walk, answer, result>>
    BY <1>4 DEF reading
  <2>2. Grounded' = Grounded /\ \A x : Below(x) = Below(x)'
    BY <2>1, SameGrounded DEF Below
  <2>3. UNCHANGED Visited
    BY <2>1 DEF Visited
  <2>4. WalkGoesDown <=> WalkGoesDown'
    BY <2>1, <2>3, SameWalk DEF WalkGoesDown
  <2>5. DoneIsGrounded <=> DoneIsGrounded'
    BY <2>1, SameWalk DEF DoneIsGrounded
  <2>6. NoneLeftBehind <=> NoneLeftBehind'
    BY <2>1 DEF NoneLeftBehind, Below
  <2>7. VisitedOnce <=> VisitedOnce'
    BY <2>1, <2>3, SameWalk DEF VisitedOnce
  <2> QED
    BY <2>1, <2>4, <2>5, <2>6, <2>7 DEF WalkInvariant
<1>5. CASE UNCHANGED readVars
  BY <1>4, <1>5 DEF readVars, vars, reading
<1>6. CASE \E q \in Queries : Ask(q)
  <2>1. walk' = <<>> /\ answer' = <<>> /\ result' = "none"
    BY <1>6 DEF Ask, ReadInv, ReadControl
  <2>2. Visited' = {} /\ DOMAIN walk' = {} /\ DOMAIN answer' = {} /\ Len(walk') = 0
    BY <2>1 DEF Visited
  <2> QED
    BY <2>1, <2>2
       DEF WalkInvariant, WalkGoesDown, DoneIsGrounded, NoneLeftBehind, VisitedOnce
<1>7. CASE Reply \/ CrashInQuery \/ (query = Null /\ Next /\ UNCHANGED reading)
  <2>1. query' = Null
    BY <1>7 DEF Reply, CrashInQuery, reading
  <2> QED
    BY <2>1 DEF WalkInvariant
<1>8. CASE QueryNotFound \/ RefuseDates \/ Thrown
  <2>1. result' \in {"not_found", "bad_request", "fault"}
    BY <1>8 DEF QueryNotFound, RefuseDates, Thrown, QuotedId, WalkOverflow,
       MissingDateStart, QuotedDate, CastFails, RaceFails, Conclude, Throw
  <2> QED
    BY <2>1 DEF WalkInvariant
<1>9. CASE AnswerUpdates \/ AnswerHistory
  <2>1. query' = query /\ query.kind \in {"updates", "history"}
    BY <1>9 DEF AnswerUpdates, AnswerHistory, DatesGiven, Handling
  <2> QED
    BY <2>1 DEF WalkInvariant
<1> QED
  BY <1>1, <1>2, <1>3, <1>5, <1>6, <1>7, <1>8, <1>9 DEF ReadNext, ReadStep, Thrown

(* All along, NodesIter loses nothing it has met, and meets an item a      *)
(* second time only if the folders are in a circle (Main.cpp:141-152).     *)
THEOREM WalkInvariantHolds == ReadSpec => []WalkInvariant
<1>1. ReadInit => WalkInvariant
  BY DEF ReadInit, WalkInvariant
<1>2. ReadSpec => []TypeOK
  BY QueriesOnlyRead, TypeCorrect, PTL
<1>3. ReadSpec => []ReadInv
  BY <1>2, InitReadInv, StepReadInv, PTL DEF ReadSpec
<1> QED
  BY <1>1, <1>2, <1>3, StepVisits, PTL DEF ReadSpec

(* An answer of nodes is the item of the query and all that is below it    *)
(* through folders, each once, below its parent and with its row           *)
(* (Main.cpp:141-152).                                                     *)
THEOREM NodesShowsSubtree == ReadSpec => []NodesAnswer
<1>1. ReadInv /\ WalkInvariant => NodesAnswer
  <2> SUFFICES ASSUME ReadInv, WalkInvariant, Answered("nodes")
               PROVE  /\ answer[1].id = query.id
                      /\ \A n \in DOMAIN answer :
                           /\ answer[n].row = items[answer[n].id]
                           /\ n > 1 => \E m \in 1 .. n - 1 :
                                         answer[n].row.parent = answer[m].id
                           /\ \A m \in 1 .. n - 1 : answer[m].id # answer[n].id
                           /\ answer[n].row.type = "FOLDER" =>
                                \A c \in GetChildren(items, answer[n].id) :
                                  \E m \in n + 1 .. Len(answer) : answer[m].id = c
                           /\ n > 1 => GetType(items, answer[n].row.parent) = "FOLDER"
    BY DEF NodesAnswer
  <2>1. /\ WalkGoesDown /\ DoneIsGrounded /\ NoneLeftBehind /\ VisitedOnce
        /\ query.id \in Grounded /\ walk = <<>> /\ answer \in Seq(Entry)
    BY DEF Answered, WalkInvariant, DoneIsGrounded, ReadInv, ReadControl, ReadTypeOK
  <2>2. answer[1].id = query.id
    BY <2>1 DEF WalkGoesDown, Answered
  <2> SUFFICES ASSUME NEW n \in DOMAIN answer
               PROVE  /\ answer[n].row = items[answer[n].id]
                      /\ n > 1 => \E m \in 1 .. n - 1 :
                                    answer[n].row.parent = answer[m].id
                      /\ \A m \in 1 .. n - 1 : answer[m].id # answer[n].id
                      /\ answer[n].row.type = "FOLDER" =>
                           \A c \in GetChildren(items, answer[n].id) :
                             \E m \in n + 1 .. Len(answer) : answer[m].id = c
                      /\ n > 1 => GetType(items, answer[n].row.parent) = "FOLDER"
    BY <2>2
  <2>3. DOMAIN answer = 1 .. Len(answer) /\ Len(answer) \in Nat
        /\ answer[n] \in Entry
    BY <2>1
  <2>4. answer[n].row = items[answer[n].id]
    BY <2>1 DEF NoneLeftBehind
  <2>5. ASSUME n > 1
        PROVE  /\ \E m \in 1 .. n - 1 : answer[n].row.parent = answer[m].id
               /\ GetType(items, answer[n].row.parent) = "FOLDER"
    <3>1. PICK m \in 1 .. n - 1 : answer[n].id \in Below(answer[m].id)
      BY <2>1, <2>5 DEF NoneLeftBehind
    <3>2. /\ items[answer[n].id].parent = answer[m].id
          /\ GetType(items, answer[m].id) = "FOLDER"
      BY <3>1, OneParent
    <3> QED
      BY <2>4, <3>2
  <2>6. \A m \in 1 .. n - 1 : answer[m].id # answer[n].id
    <3> SUFFICES ASSUME NEW m \in 1 .. n - 1, answer[m].id = answer[n].id
                 PROVE  FALSE
      OBVIOUS
    <3>1. m \in DOMAIN answer /\ m # n
      BY <2>3
    <3> QED
      BY <2>1, <3>1 DEF VisitedOnce
  <2>7. ASSUME answer[n].row.type = "FOLDER"
        PROVE  \A c \in GetChildren(items, answer[n].id) :
                 \E m \in n + 1 .. Len(answer) : answer[m].id = c
    <3>1. answer[n].row \in Row
      BY <2>3 DEF Entry
    <3>2. GetType(items, answer[n].id) = "FOLDER"
      BY <2>4, <2>7, <3>1, TablesAssumption DEF GetType, ItemExists
    <3>3. \A c \in GetChildren(items, answer[n].id) : c \in Below(answer[n].id)
      BY <3>2 DEF Below
    <3>4. DOMAIN walk = {}
      BY <2>1
    <3> QED
      BY <2>1, <3>3, <3>4 DEF NoneLeftBehind
  <2> QED
    BY <2>4, <2>5, <2>6, <2>7
<1>2. ReadSpec => []TypeOK
  BY QueriesOnlyRead, TypeCorrect, PTL
<1>3. ReadSpec => []ReadInv
  BY <1>2, InitReadInv, StepReadInv, PTL DEF ReadSpec
<1> QED
  BY <1>1, <1>3, WalkInvariantHolds, PTL
=============================================================================
