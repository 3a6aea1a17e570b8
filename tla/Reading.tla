------------------------------- MODULE Reading -------------------------------
(***************************************************************************)
(* NodesHandler, UpdatesHandler and HistoryHandler of Main.cpp over the    *)
(* tables of Handlers: queries that come between the imports and deletions,*)
(* read what those left in the tables, and may end the process as well.    *)
(* Nothing else runs while a query is handled but the end of the process.  *)
(*                                                                         *)
(* Dates are numbers here.  The queries compare them with a cast of the    *)
(* TEXT column; IsDateValid reads a date from the front of a string and    *)
(* never asks whether it ends there, so it accepts dates with a rest that  *)
(* the cast refuses: those in Odd.  Ids and dates become part of the text  *)
(* of a statement as they are; one with an apostrophe, Quoted here, makes  *)
(* it no statement, and executing it throws.                               *)
(***************************************************************************)
EXTENDS Handlers

CONSTANTS
  Queries,   \* the queries clients may send, in the classes below
  Odd,       \* valid dates that PostgreSQL does not cast to a timestamp
  Quoted,    \* an id, or a date that is accepted, with an apostrophe
  Day,       \* 24 hours
  NTHREADS   \* rows on a page (4 in the code)

(* A date parameter that is missing is Null. *)
QueryIds == Ids \cup {Quoted}
QueryDates == Dates \cup {Quoted, BadDate, Null}
Nodes == [kind : {"nodes"}, id : QueryIds]
Updates == [kind : {"updates"}, date : QueryDates]
NodeHistory ==
  [kind : {"history"}, id : QueryIds, start : QueryDates, end : QueryDates]

(* An item in an answer, with its row. *)
Entry == [id : Ids, row : Row]

ASSUME ReadingAssumption ==
  /\ Queries \subseteq Nodes \cup Updates \cup NodeHistory
  /\ IsFiniteSet(Ids)
  /\ Dates \subseteq Int
  /\ Null \notin Dates
  /\ Odd \subseteq Dates
  /\ Day \in Nat
  /\ NTHREADS \in Nat \ {0}
  /\ Quoted \notin Ids \cup Dates \cup {BadDate, Null}
  /\ Null \notin Queries /\ Null \notin Entry

VARIABLES
  query,    \* the query being handled, Null if none
  walk,     \* the recursion of NodesIter, outermost call first
  answer,   \* the items of the answer, in its order
  result    \* the outcome, "none" until there is one

reading == <<query, walk, answer, result>>
readVars == <<vars, reading>>

ReadTypeOK ==
  /\ query \in Queries \cup {Null}
  /\ walk \in Seq(Frame) /\ Len(walk) <= MaxDepth
  /\ answer \in Seq(Entry \cup {Null})
  /\ result \in Replies

ReadInit ==
  /\ Init
  /\ query = Null
  /\ walk = <<>>
  /\ answer = <<>>
  /\ result = "none"
-----------------------------------------------------------------------------
(* A query is received while no request is handled, and ends with a reply. *)
Ask(q) ==
  /\ pc = "idle"
  /\ query = Null
  /\ query' = q
  /\ UNCHANGED <<vars, walk, answer, result>>

Handling(kind) == query # Null /\ query.kind = kind /\ result = "none"

Conclude(status) ==
  /\ result' = status
  /\ UNCHANGED <<vars, query, walk, answer>>

(* An exception or a stack overflow: the process ends in the query, the    *)
(* tables stay as they are.                                                *)
Throw ==
  /\ Die
  /\ result' = "fault"
  /\ walk' = <<>>
  /\ UNCHANGED <<reply, query, answer>>

Reply ==
  /\ result # "none"
  /\ query' = Null
  /\ answer' = <<>>
  /\ result' = "none"
  /\ UNCHANGED <<vars, walk>>

(* nodes and history look for the item before anything else. *)
LooksForItem == (Handling("nodes") /\ walk = <<>>) \/ Handling("history")
Found == query.id \in Ids /\ ItemExists(items, query.id)

QueryNotFound ==
  /\ LooksForItem
  /\ query.id \in Ids /\ ~ItemExists(items, query.id)
  /\ Conclude("not_found")

QuotedId ==
  /\ LooksForItem
  /\ query.id = Quoted
  /\ Throw
-----------------------------------------------------------------------------
(***************************************************************************)
(* NodesHandler.  NodesIter reads the item, then calls itself on its       *)
(* children, if it is a FOLDER: what is below a FILE is not looked at.     *)
(***************************************************************************)
(* A slip: the type of the item is not asked. *)
AllBelow(id) == GetChildren(items, id)
Below(id) ==
  IF GetType(items, id) = "FOLDER" THEN GetChildren(items, id) ELSE {}

Enter(id) == Append(answer, [id |-> id, row |-> items[id]])

EnterRoot ==
  /\ Handling("nodes") /\ walk = <<>>
  /\ Found
  /\ walk' = <<[id |-> query.id, todo |-> Below(query.id)]>>
  /\ answer' = Enter(query.id)
  /\ UNCHANGED <<vars, query, result>>

(* A slip: the stack has no end.                                           *)
EnterChildAnyDepth(c) ==
  /\ walk # <<>> /\ c \in Last(walk).todo
  /\ walk' = Append([walk EXCEPT ![Len(walk)].todo = @ \ {c}],
                    [id |-> c, todo |-> Below(c)])
  /\ answer' = Enter(c)
  /\ UNCHANGED <<vars, query, result>>

EnterChild(c) ==
  /\ walk # <<>> /\ c \in Last(walk).todo
  /\ Len(walk) < MaxDepth
  /\ walk' = Append([walk EXCEPT ![Len(walk)].todo = @ \ {c}],
                    [id |-> c, todo |-> Below(c)])
  /\ answer' = Enter(c)
  /\ UNCHANGED <<vars, query, result>>

(* A slip: a return within the loop over the children.                     *)
ReturnFromLoop ==
  /\ walk # <<>>
  /\ walk' = Front(walk)
  /\ result' = IF Len(walk) = 1 THEN "ok" ELSE result
  /\ UNCHANGED <<vars, query, answer>>

ReturnNodes ==
  /\ walk # <<>> /\ Last(walk).todo = {}
  /\ walk' = Front(walk)
  /\ result' = IF Len(walk) = 1 THEN "ok" ELSE result
  /\ UNCHANGED <<vars, query, answer>>

(* A slip: the stack has room for one call less. *)
WalkOverflowEarly ==
  /\ walk # <<>> /\ Last(walk).todo # {}
  /\ Len(walk) >= MaxDepth - 1
  /\ Throw
WalkOverflow ==
  /\ walk # <<>> /\ Last(walk).todo # {}
  /\ Len(walk) >= MaxDepth
  /\ Throw
-----------------------------------------------------------------------------
(***************************************************************************)
(* UpdatesHandler and HistoryHandler.  ORDER BY date, id leaves rows of    *)
(* one id and one date in any order; the order of ids is not modelled, so  *)
(* that here all rows of one date are in any order.                        *)
(***************************************************************************)
ByDate(date) ==
  LET places == 1 .. Cardinality(DOMAIN date)
  IN  {s \in [places -> DOMAIN date] :
         /\ DOMAIN date \subseteq {s[i] : i \in places}
         /\ \A i, j \in places : i < j => date[s[i]] <= date[s[j]]}

BadDates ==
  \/ Handling("updates") /\ query.date \in {BadDate, Null}
  \/ /\ Handling("history") /\ Found /\ query.start # Null
     /\ \/ query.start = BadDate
        \/ query.end \in {BadDate, Null}

RefuseDates ==
  /\ BadDates
  /\ Conclude("bad_request")

(* at() throws for a dateStart that is not there.                          *)
MissingDateStart ==
  /\ Handling("history") /\ Found
  /\ query.start = Null
  /\ Throw

(* The SELECT is executed. *)
DatesGiven ==
  \/ Handling("updates") /\ query.date \in Dates
  \/ /\ Handling("history") /\ Found
     /\ query.start \in Dates /\ query.end \in Dates

QuotedDate ==
  /\ \/ Handling("updates") /\ query.date = Quoted
     \/ /\ Handling("history") /\ Found
        /\ {query.start, query.end} \subseteq Dates \cup {Quoted}
        /\ Quoted \in {query.start, query.end}
  /\ Throw

Files == {id \in Ids : GetType(items, id) = "FILE"}

(* The cast is applied to the rows the rest of the WHERE clause selects. *)
Castable ==
  IF query.kind = "updates" THEN \A id \in Files : items[id].date \notin Odd
  ELSE \A n \in DOMAIN history[query.id] : history[query.id][n].date \notin Odd

CastFails ==
  /\ DatesGiven
  /\ ~Castable
  /\ Throw

(* Both ends of the window of updates belong to it.  The slip loses the    *)
(* start.                                                                  *)
UpdatedSince(date) == {id \in Files : items[id].date \in (date - Day + 1) .. date}
Updated(date) == {id \in Files : items[id].date \in (date - Day) .. date}

(* The rows of the answer, in an order the database may return them in,    *)
(* become an array.  Up to NTHREADS of them are one page and the work of   *)
(* one thread.  More are written by threads that race: as PagedQuery       *)
(* shows, no row is in the place of another, but rows may be lost, null in *)
(* their place or the array too short.                                     *)
Gathered(rows) ==
  {rows} \cup
  IF Len(rows) <= NTHREADS THEN {}
  ELSE UNION {{[n \in 1 .. len |-> IF n \in lost THEN Null ELSE rows[n]] :
                 lost \in SUBSET (1 .. len)} : len \in 0 .. Len(rows)}

(* A slip: there is no answer if nothing was updated.                      *)
AnswerSomeUpdates ==
  /\ DatesGiven /\ query.kind = "updates"
  /\ Castable
  /\ LET found == Updated(query.date)
     IN  \E s \in ByDate([id \in found |-> items[id].date]) :
           /\ s # <<>>
           /\ answer' \in Gathered([n \in DOMAIN s |-> [id |-> s[n], row |-> items[s[n]]]])
  /\ result' = "ok"
  /\ UNCHANGED <<vars, query, walk>>

AnswerUpdates ==
  /\ DatesGiven /\ query.kind = "updates"
  /\ Castable
  /\ LET found == Updated(query.date)
     IN  \E s \in ByDate([id \in found |-> items[id].date]) :
           answer' \in Gathered([n \in DOMAIN s |-> [id |-> s[n], row |-> items[s[n]]]])
  /\ result' = "ok"
  /\ UNCHANGED <<vars, query, walk>>

(* The end of a window of history does not belong to it, but for the slip. *)
InWindowClosed(rows, start, end) ==
  {n \in DOMAIN rows : start <= rows[n].date /\ rows[n].date <= end}
InWindow(rows, start, end) ==
  {n \in DOMAIN rows : start <= rows[n].date /\ rows[n].date < end}

AnswerHistory ==
  /\ DatesGiven /\ query.kind = "history"
  /\ Castable
  /\ LET rows == history[query.id]
         found == InWindow(rows, query.start, query.end)
     IN  \E s \in ByDate([n \in found |-> rows[n].date]) :
           answer' \in Gathered([n \in DOMAIN s |-> [id |-> query.id, row |-> rows[s[n]]]])
  /\ result' = "ok"
  /\ UNCHANGED <<vars, query, walk>>

(* The rows the SELECT returns fit one page. *)
OnePage ==
  IF query.kind = "updates" THEN Cardinality(Updated(query.date)) <= NTHREADS
  ELSE Cardinality(InWindow(history[query.id], query.start, query.end)) <= NTHREADS

(* Threads that race may also end the process. *)
RaceFails ==
  /\ DatesGiven
  /\ Castable /\ ~OnePage
  /\ Throw
-----------------------------------------------------------------------------
ReadStep ==
  \/ QueryNotFound
  \/ QuotedId
  \/ EnterRoot
  \/ \E c \in Ids : EnterChild(c)
  \/ ReturnNodes
  \/ WalkOverflow
  \/ RefuseDates
  \/ MissingDateStart
  \/ QuotedDate
  \/ CastFails
  \/ RaceFails
  \/ AnswerUpdates
  \/ AnswerHistory
  \/ Reply

CrashInQuery ==
  /\ query # Null
  /\ Crash
  /\ query' = Null
  /\ walk' = <<>>
  /\ answer' = <<>>
  /\ result' = "none"

ReadNext ==
  \/ query = Null /\ Next /\ UNCHANGED reading
  \/ \E q \in Queries : Ask(q)
  \/ ReadStep
  \/ CrashInQuery

ReadSpec == ReadInit /\ [][ReadNext]_readVars

(* The handler of a query runs to its end, like any other. *)
FairReadSpec == ReadSpec /\ WF_readVars(ReadStep)
-----------------------------------------------------------------------------
Answered(kind) == query # Null /\ query.kind = kind /\ result = "ok"

(* The answer of nodes is the item and what can be reached from it through *)
(* folders, each once and below its parent, with its row, though the walk  *)
(* keeps no record of where it has been (Main.cpp:141-152).                *)
NodesAnswer ==
  Answered("nodes") =>
    /\ answer[1].id = query.id
    /\ \A n \in DOMAIN answer :
         /\ answer[n].row = items[answer[n].id]
         /\ n > 1 => \E m \in 1 .. n - 1 : answer[n].row.parent = answer[m].id
         /\ \A m \in 1 .. n - 1 : answer[m].id # answer[n].id
         /\ answer[n].row.type = "FOLDER" =>
              \A c \in GetChildren(items, answer[n].id) :
                \E m \in n + 1 .. Len(answer) : answer[m].id = c
         /\ n > 1 => GetType(items, answer[n].row.parent) = "FOLDER"

(* The items from which every way down ends: the least set that has an     *)
(* item when it has all that is below it.                                  *)
Grounded ==
  {x \in Ids : \A S \in SUBSET Ids :
     (\A y \in Ids : Below(y) \subseteq S => y \in S) => x \in S}

Visited == {answer[n].id : n \in DOMAIN answer}

(* The calls of NodesIter are a path down from the item of the query.      *)
WalkGoesDown ==
  /\ answer = <<>> <=> walk = <<>> /\ result = "none"
  /\ answer # <<>> => answer[1].id = query.id
  /\ walk # <<>> => walk[1].id = query.id
  /\ \A n \in DOMAIN walk : walk[n].id \in Visited
  /\ \A n \in 1 .. Len(walk) - 1 : walk[n + 1].id \in Below(walk[n].id)

(* What a call is through with is grounded, the whole walk in the end.     *)
DoneIsGrounded ==
  /\ result = "ok" => query.id \in Grounded
  /\ \A n \in DOMAIN walk : \A c \in Below(walk[n].id) \ walk[n].todo :
       c \in Grounded \/ (n < Len(walk) /\ walk[n + 1].id = c)

(* A child of an item in the answer is after it, or a call has yet to      *)
(* visit it.                                                               *)
NoneLeftBehind ==
  \A n \in DOMAIN answer :
    /\ answer[n].row = items[answer[n].id]
    /\ n > 1 => \E m \in 1 .. n - 1 : answer[n].id \in Below(answer[m].id)
    /\ \A c \in Below(answer[n].id) :
         \/ \E m \in n + 1 .. Len(answer) : answer[m].id = c
         \/ \E k \in DOMAIN walk : walk[k].id = answer[n].id /\ c \in walk[k].todo

(* Only a circle brings the walk to an item a second time.                 *)
VisitedOnce ==
  query.id \in Grounded =>
    /\ \A m, n \in DOMAIN answer : answer[m].id = answer[n].id => m = n
    /\ \A m, n \in DOMAIN walk : walk[m].id = walk[n].id => m = n
    /\ \A n \in DOMAIN walk : walk[n].todo \cap Visited = {}

(* What NodesIter relies on from call to call: of all it has met, nothing  *)
(* is lost, and nothing met twice unless the folders are in a circle, in   *)
(* which case no call at the root returns (Main.cpp:141-152).              *)
WalkInvariant ==
  query # Null /\ query.kind = "nodes" /\ result \in {"none", "ok"} =>
    WalkGoesDown /\ DoneIsGrounded /\ NoneLeftBehind /\ VisitedOnce

(* The rows of an answer, without the places of those a race has lost.     *)
Shown == Range(answer) \ {Null}

(* updates reads the items table and history the history table, and they   *)
(* are written in transactions of their own.  All the same a row in an     *)
(* answer of updates is the newest in the history of its item, and, if     *)
(* there is no race, every file whose newest row falls into the window is  *)
(* in the answer, but for the ids a crash has torn (DbManager.h:209-219,   *)
(* Main.cpp:168-180).                                                      *)
NewestInWindow(id) ==
  /\ history[id] # <<>>
  /\ Last(history[id]).type = "FILE"
  /\ Last(history[id]).date \in (query.date - Day) .. query.date
UpdatesInHistory ==
  Answered("updates") =>
    /\ \A e \in Shown : e.id \notin torn =>
         NewestInWindow(e.id) /\ e.row = Last(history[e.id])
    /\ OnePage => \A id \in Ids \ torn : NewestInWindow(id) =>
         \E e \in Shown : e.id = id

(* An answer of history, too, shows what the item is: its row, as nodes    *)
(* would show it, is in the answer exactly if its date is in the window,   *)
(* whose end does not belong to it; but for an id a crash has torn, and    *)
(* rows lost in a race (DbManager.h:244-253, Main.cpp:182-207).            *)
HistoryShowsItem ==
  Answered("history") /\ query.id \notin torn /\ OnePage =>
    ((\E e \in Shown : e.row = items[query.id])
       <=> items[query.id].date \in query.start .. query.end - 1)

(* Items that lead from a folder down further than the stack has room. *)
TooDeep(id) ==
  \E p \in [1 .. MaxDepth + 1 -> Ids] :
    /\ p[1] = id
    /\ \A n \in 1 .. MaxDepth :
         GetType(items, p[n]) = "FOLDER" /\ p[n + 1] \in GetChildren(items, p[n])

(* A query of nodes ends the process if what is below its item is deeper   *)
(* than the stack, or in a circle, which has no depth, or if its id makes  *)
(* no statement; in every other case it gets its answer, whatever imports, *)
(* deletions and crashes have left in the tables (Main.cpp:141-166,        *)
(* DbManager.h:64).                                                        *)
DepthFaults ==
  query # Null /\ query.kind = "nodes" /\ result # "none" =>
    (result = "fault" <=> query.id = Quoted \/ (Found /\ TooDeep(query.id)))

(* Whatever dates were sent with it or stored before it, a query of        *)
(* updates or history is answered or refused (Main.cpp:168-207,            *)
(* Utils.h:18-23).                                                         *)
QueriesSurvive ==
  query # Null /\ query.kind \in {"updates", "history"} => result # "fault"

(* Every query comes to its end (Main.cpp:141-207). *)
QueryAnswered == query # Null ~> query = Null
=============================================================================
