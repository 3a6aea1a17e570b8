# Verification of the file-tree REST service

This directory holds TLA+ specifications of the service under `src/`, the TLC
configurations that check them on small instances, and TLAPS proofs of theorems about
them. The service stores a forest of files and folders in PostgreSQL and answers five
requests over HTTP: `POST /imports`, `DELETE /delete/{id}`, `GET /nodes/{id}`,
`GET /updates`, `GET /node/{id}/history`. All of its own code is in `src/src/` (1127 lines
of C++); `src/include/` holds the vendored asio, json and date libraries.

Line numbers below are those of the files in `src/src/`.

## 1. Inventory

| Component | State | Operations |
|---|---|---|
| Import and delete handlers (`Main.cpp:10-139`) | none of their own; local variables while a request is handled | `ImportsValidate`, `ImportsHandler`, `ChangeSize` (recursive, upwards), `DeleteIter` (recursive, downwards), `DeleteHandler` |
| Table operations (`DbManager.h`, namespace `db`) | the tables `items` (primary key `id`) and `history` (no key) | one transaction each: `InsertItem` and `UpdateItem` (two each: row, then history), `ChangeSize`, `SetDate`, `DeleteItem`, `InsertIntoHistory`, `DeleteFromHistory`, and reads |
| Paged queries (`DbManager.h:209-272`, `Paginator.h`) | one JSON array that all workers of a query share | cut the rows into pages, `std::async` a worker for each, wait for the futures |
| Reading handlers (`Main.cpp:141-207`) | none | `NodesHandler` (recursive), `UpdatesHandler`, `HistoryHandler` |
| Server (`Server.cpp`) | `io_service`, acceptor, signal set, one socket for the next connection | `Accept`, `AwaitStop`, `Run` |
| Connections (`Connection.cpp`, `ConnectionManager.cpp`) | socket, 8 KiB buffer, request, reply; the set `connections_` | `Read`, `Write`, `Start`, `Stop`, `StopAll` |
| Request parsing and dispatch (`RequestParser.cpp`, `RequestHandler.cpp`) | map of handlers | `ParseHead`, `ParseBody`, `GetContentLength`, `ParseParameters`, `HandleRequest` |
| Utils, replies, database connection | a `pqxx::connection` | `IsDateValid`, `Date24HAgo`, `UrlDecode`, `StripSpaces`, `MakeItemFromRow`, `StockReply`, `Work` |

**How they interact.** One thread runs `io_service::run`. It calls completion handlers
one after the other: an accept starts a connection, a read parses the request and calls
the handler of its command *inside* the completion handler, and the handler talks to the
database synchronously. So two requests are never handled at the same time, and a
handler that waits (for the database, or for the rest of a body) holds up everything.
Threads meet in one place only: the workers of a paged query write into one array. The
process and the database meet in one place: each `db::` write commits by itself, so the
end of the process between two of them is visible after a restart. Exceptions are caught
in `main` only (`Main.cpp:244`): any exception in a handler ends the process.

**What is hard.**

* a request is many transactions and the process may end between any two of them;
* folder sizes are never computed, only adjusted by deltas along two paths of the tree,
  with values read before the update and used after it;
* validation looks at the table as it is before the request, storing happens later;
* the recursions follow data that clients shape: depth, cycles, type changes;
* the shared array is grown by a check and an append, and neither is atomic;
* completions are queued, and handlers run after the state they describe has changed;
* a query casts every stored date it meets, and what was stored was checked by another
  library, with another idea of what a date is;
* a request line is cut by first and last occurrences of characters, which may be part
  of the text the client meant, and whatever is left out or put in twice moves the cuts;
* TCP delivers a request in pieces, and the code decides from the first one whether the
  body is there; the client that gets no answer sends it again;
* sockets, the stack and `INT` have limits;
* what the program does not initialise or escape, its buffers and its SQL, has the
  content of whatever came before or was sent.

**What makes each component correct.**

* *Handlers*: no item without its parent, history in step with the items, a request
  touches only the paths it names, sizes are sums, folders bear the date of the last
  change below them, a request is carried out whole, or as a prefix when it is cut off.
* *Paged queries*: pages are the rows; no row in another's place; nothing unconstructed
  in the answer; every row in the answer; the query ends.
* *Server*: every client is answered; no valid request is refused; a request is handled
  with its own body; the process ends when, and only when, it is told to.
* *Reading handlers*: the answer of `nodes` is the subtree, `updates`, `history` and
  `nodes` agree on what they show of an item, no query ends the process.
* *Parsing and dispatch*: what the client meant reaches the handler of its command, text
  with special characters included; what is lost is missed, not taken for something else.

## 2. Modules

| Module | Models | Uses |
|---|---|---|
| `Tables` | the two tables and the `db::` operations as functions on them | |
| `Handlers` | `ImportsHandler`, `DeleteHandler`, `ChangeSize`, `DeleteIter`, crash, fault, restart | `Tables` |
| `FileTree` | abstract specification: requests take effect in one step | |
| `HandlersProps` | properties over whole forests; the refinement to `FileTree` | `Handlers`, `FileTree` |
| `MCHandlers` | instances and request sets for TLC | `HandlersProps` |
| `HandlersProofs` | TLAPS proofs about `Handlers` | `Handlers` |
| `HandlersPropsProofs` | TLAPS proofs about `HandlersProps`: refinement, footprint, dates | `HandlersProps`, `HandlersProofs` |
| `FiniteSums` | lemmas: induction over finite sets, sums over them | |
| `SizesProofs` | TLAPS proof that the sizes of folders are sums | `HandlersPropsProofs`, `FiniteSums` |
| `Reading` | `NodesHandler`, `UpdatesHandler`, `HistoryHandler`, `NodesIter` between the steps of `Handlers` | `Handlers` |
| `MCReading` | an instance for TLC | `Reading` |
| `ReadingProofs` | TLAPS proofs about `Reading` | `Reading`, `HandlersProofs` |
| `PagedQuery` | a query's pages, workers and shared array | |
| `PagedQueryProofs` | TLAPS proofs about `PagedQuery` | `PagedQuery` |
| `Server` | `Server`, `Connection`, `ConnectionManager` and the `io_service` | |
| `MCServer` | instances for TLC | `Server` |
| `ServerProofs` | TLAPS proofs about `Server` | `Server` |
| `RequestLine` | `ParseHead`, `ParseParameters`, `GetContentLength`, `HandleRequest`, the id each handler cuts out | |
| `MCRequestLine` | the request lines for TLC | `RequestLine` |
| `RequestLineProofs` | TLAPS proofs about `RequestLine` | `RequestLine`, `FiniteSums` |

Several modules define, just before an operator, a *slip* of it: the same operator with
one plausible mistake (a dropped guard, an index off by one, a forgotten reset). No
specification uses a slip. They are there to put in the place of the real definition and
see that the property meant to catch the mistake does.

### 2.1 `Tables` and `Handlers`

`items` maps an id to its row or `NoRow`; `history` maps an id to the sequence of its
rows. The other variables are the local variables of the handlers: `req`, the position
`idx` of the loop over items, the calls of `ChangeSize` still to make (`calls`), the
recursion of `ChangeSize` (`stack`) and that of `DeleteIter` (`frames`). `pc` names the
next transaction:

| `pc` | action | code |
|---|---|---|
| `idle` | `RejectImport`, `BeginImport`, `ThrowInValidation`, `RejectDelete`, `BeginDelete` | `Main.cpp:10-60, 72-76, 120-133` |
| `store`, `log` | `InsertNewItem`, `UpdateOldItem`, `LogItem` | `DbManager.h:122-147` |
| `next` | `CallChangeSize`, `NextItem`, `Finish` | `Main.cpp:80-105` |
| `climb` | `Climb`: `GetParent` and the recursive call | `Main.cpp:62-65` |
| `resize`, `redate`, `record` | `Resize`, `Redate`, `Record`, then the return to the caller | `Main.cpp:66-69` |
| `delete`, `unlog` | `Descend`, `DeleteRow`, `EraseHistory` | `Main.cpp:107-118` |
| any | `Crash`; `Fault` when a statement fails, a `SELECT` finds no row, or the stack is full | `Main.cpp:243-248` |
| `down` | `Restart`: the tables stay | `Main.cpp:209-243` |

`Wrap` is what `int` does to a number; `MaxInt` is a constant, so that small instances
reach the overflow. Left out: the `url` column (stored and read back, never tested; its
validation is part of the class of an item, `form`), the wording of replies, and the
blank at the end of the date of a deletion (section 6).

`before` and `torn` are auxiliary: the items when the process was last idle, and the ids
whose history step was cut off.

### 2.2 `FileTree`

What a client may rely on: a request is accepted or refused for a reason; then it is
complete in one step (all items stored, or the whole subtree gone), or cut short: a prefix
of the items stored, or part of a subtree removed that is closed below. `HandlersProps`
maps `tree` to the types and parents of `before`.

### 2.3 `Reading`

A composition: the state of `Handlers` and four variables of the query being handled
(`query`, the recursion `walk` of `NodesIter`, `answer`, `result`). One thread handles
requests one after the other, so the steps of the handlers are taken while `query = Null`
and those of a query while `pc = "idle"`. A query starts in any state of the tables the
writing handlers can leave behind, also one torn by a crash.

| action | code |
|---|---|
| `Ask`, `QueryNotFound`, `RefuseDates`, `Reply` | `Main.cpp:155-161, 168-173, 186-200` |
| `EnterRoot`, `EnterChild`, `ReturnNodes`, `WalkOverflow` | `Main.cpp:141-152, 163-165` |
| `MissingDateStart` | `Main.cpp:190-195`: `at()` throws in the log statement |
| `AnswerUpdates`, `AnswerHistory` | `Main.cpp:175-179, 202-206`, `DbManager.h:209-241, 244-271` |
| `CastFails` | `DbManager.h:215-216, 251-252`: `date::timestamp` of a stored date fails |
| `QuotedId`, `QuotedDate` | `DbManager.h:64, 214-217, 249-253`: the statement is none, and `exec` throws |
| `RaceFails` | `DbManager.h:228-239, 258-269`: racing workers end the process |
| `CrashInQuery` | the process is killed |

A query that throws or overflows the stack takes the step `Crash` of `Handlers`, so that a
restart follows and `QueriesOnlyRead` can say that queries add nothing to what the tables
go through. Dates are integers, `Day` is 24 hours, a parameter that is missing is `Null`.
`Odd` are the dates that `IsDateValid` accepts and PostgreSQL refuses to cast: the check
parses from the front and never asks for the end of the string. `Quoted` stands for an id, or an
accepted date, with an apostrophe in it: both are pasted into the text of a statement. The cast is taken to be
applied to the rows that the rest of the `WHERE` clause selects (files, or rows of the id).
Rows with equal dates come in any order (`ByDate`); the code then orders by id, which is
not modelled, so that the model has more orders than the code where ids differ. Rows that
fit one page are written by one worker and become the answer as they are. Beyond that the
workers race: `Gathered` has every outcome that `PagedQuery` leaves possible (rows missing,
`Null` in their place, the array too short, but none in another's place), and `RaceFails` is
the end of the process. So `UpdatesInHistory` promises completeness for one page only
(`OnePage`), and what it says of the rows that *are* shown for any number of them.

### 2.4 `PagedQuery`

The thread of the handler cuts pages, launches a worker for each (`lazy` when
`std::async` defers it), and waits for the futures in order. A worker writes its rows
through `operator[]`, which resizes the array when the index is beyond its size. The
resize is split into the memory accesses of the optimised build of the `Makefile` (`-O2`,
libstdc++): read the size and compute how many elements are missing (`Check`), read the
size again and begin to construct (`BeginAppend`), construct a null (`Fill`), set the new
size (`Publish`), and the move assignment into the element (`Store`). A data race can
leave either value or a mixture: `TornSlot`. When others have appended so much that the
reserved memory does not suffice, the vector moves and nothing is claimed from there on
(`Relocate`, `pc = "undefined"`).

### 2.5 `Server`

An asynchronous operation is in `pending` until it completes; its completion waits in
`ready` until the thread runs the handler. `io` says whether the thread is between
handlers, blocked in `asio::read`, or gone. A request is a head and `Body[c]` pieces of
body; `Pieces` are the points at which a client may pause, so one constant gives clients
that send all at once, that pause after the head, or that pause anywhere. `DateAt` is the
piece with the end of the date, which is what `Connection::Read` looks for. `BufferSize`
is the room in `buffer_`: a read takes at most that much, and the blocking read of a longer
body stops when it is full. `ParseBody` is then given a view of the length the header names,
which goes on behind `buffer_`: what it finds there is other members of the `Connection` and
makes no JSON (`RestCutOff`), or the view is longer than what is mapped (`Mapped`) and the
process ends (`RestUnmapped`).

| action | code |
|---|---|
| `StartConnection`, `AcceptAgain`, `AcceptTooLate` | `Server.cpp:35-52`, `ConnectionManager.cpp:5-8` |
| `ReadWithoutBody`, `ReadWholeBody`, `ReadBrokenBody`, `ReadOldBody` | `Connection.cpp:26-32, 41-47` |
| `ReadOn`, `ReadOnClosed`, `RestArrives`, `RestCutOff`, `RestUnmapped`, `RestNeverArrives` | `Connection.cpp:33-38` |
| `ConnectionFails`, `ConnectionAborted`, `ReplyWritten` | `Connection.cpp:48-67`, `ConnectionManager.cpp:10-13` |
| `StopAll` | `Server.cpp:54-62`, `ConnectionManager.cpp:15-19` |
| `RunReturns`, `Exit` | `Server.cpp:31-33`, `Main.cpp:243-248` |
| `...Completes`, `Aborted`, `Runs` | asio: `perform_io` and `deregister_descriptor` of `epoll_reactor.ipp`, the non-blocking calls of `socket_ops.ipp`, `deliver_signal`, `do_run_one` of `scheduler.ipp` |
| `Connect`, `Send`, `Leave`, `Signal` | clients and the kernel, from how the code uses them |

What a handler does with the database is one step here (`Handle`), or the end of the
process for clients in `Throwing`: the detail is in `Handlers` and `PagedQuery`.

Facts about asio that the model uses: `close` aborts what is pending but a completion that
is already queued keeps its result; a write on a closed socket completes with an error; a
synchronous read throws at the end of the stream, on a closed socket, and when a signal
interrupts its `poll`; an accept without a free descriptor completes with an error.

`buffer_` is not initialised (`Connection.h:32`), and `Connection.cpp:30` looks through it up to
the first zero byte, wherever the request ends. `memory` is what stands between the two, told
apart only as far as it can change a reply: nothing, the end of a date, a closing brace
(`Garbage`: heap memory of any origin), or a whole request of a connection that was freed
(`freed`, switched on by `Reuse`). A date behind the request makes the code take a body that
has not come for complete (`DateFound`); a brace behind it is taken for the last of the body
(`ReadBrokenBody`); an old request behind a head alone is handled as its body (`ReadOldBody`).

### 2.6 `RequestLine`

Text is a sequence of symbols. A symbol is a word, a character the parser gives a meaning
to (`?`, `&`, `=`, `/`, `+`, blank), or an escape of three characters. The client's side
(`Sent`) is how HTTP clients encode a path and a query string; the code's side is
`ParseHead`, one turn of the loop of `ParseParameters` per step (`TakeParameter`, `GiveUp`,
`AllTaken`), the cut of the uri and `Dispatch`. `find_first_of` returns `npos` when there is
no such character, and the code relies on `npos + 1 = 0` and on `substr` up to `npos`;
`Find`, `Before` and `Behind` do the same. A `POST` goes through `ReadLength`, which finds the
length among the headers as `GetContentLength` does. The properties compare what a handler is given
with what the client meant. `StripSpaces` and `Number` are recursive functions over the
positions of a text, `UrlDecode` maps its symbols.

`RequestLineAssumption` is the class of lines that are meant here: commands and keys are
words and not the characters that separate them, no key is sent twice, a value is the text
that is meant and so has no escapes of its own, a header's name begins neither with a blank
nor with a digit, and a header that gives the length gives a number that fits an `int`
(beyond it `atoi` is undefined). Ids, values and header values may contain any symbol, and a
request any number of parameters and headers, in any order.

What they say is what the code does, which is not all a client would wish: the last
parameter is followed by a blank (`AsRead`; `IsDateValid` does not see it and a deletion
stores it with the date of the folders above), a parameter without `=` or value makes the
handler see no parameters if it is empty or the last, and otherwise becomes part of the
next key, so that `dateStart=d&full&dateEnd=d` is `dateStart` and `full&dateEnd`: `KeysArrive`
says which keys arrive. An id with a character that clients escape is looked up with its
escape. A length behind `content-length:` or without a blank before it is read as 0 or
without its first digit, so that the body is cut and refused. `LengthArrives` says that at
least the thread never waits for more than the client sends, unless the line or another
header contains `Content-Length` too. `Server` takes the header to be spelled as the code expects.

## 3. Runs

Runs marked ✗ refute something that `Task.md` or a test says of the service.

| Run | Shows | Bounds |
|---|---|---|
| `crash` | `ParentExists`, `HistoryAgrees`, `TouchesOnlyFootprint`, `HandlerInvariant`, `ProgressInvariant` (how far the request has got, at every transaction), `HistoryKept` and the refinement `ImplementsFileTree`, with a crash, fault or restart at any step | 3 ids, 3 requests, any kind of item, `MaxInt` 3, stack of 4 calls, symmetry over the ids |
| `calm` | `SizesAreSums`, `AncestorsDated` and `EveryRequestDone` (each request begun is carried out and answered with ok) for requests that keep the discipline below | 3 ids, 3 requests, 2 dates, 2 sizes |
| `move_and_resize` ✗ | a file moved and resized at once leaves a wrong size behind (`Main.cpp:99`) | 2 requests, also the first of them twice |
| `reading` | `NodesAnswer`, `WalkInvariant` (why `NodesIter` finds everything once), `UpdatesInHistory`, `HistoryShowsItem`, `DepthFaults` (`nodes` ends the process exactly when it must) and `QueryAnswered`, between imports, deletions, crashes and restarts | 3 ids, 3 requests that build a path, move and close a circle, 3 dates of which one does not cast, a quoted id and date, pages of 2 rows, stack of 3 calls |
| `fatal_query` ✗ | after one import with a date that PostgreSQL does not cast, `updates` ends the process (`Utils.h:21`) | 3 ids, 3 requests; queries with ordinary dates or none |
| `request_line` | `ParametersArrive`, `KeysArrive`, `IdArrives`, `LengthArrives`, `Routed` and `Parsed` | all texts of up to 2 symbols in ids and values, up to 3 parameters, with flags anywhere, two in a row, and empty values; one or two headers, lengths of up to 3 digits |
| `paged` | pages, places, constructed memory (`QueryInvariant`, `AnswerReadable`), complete sequential answers, termination | up to 5 rows on pages of 2: three workers, the last page short |
| `paged_answers` ✗ | two workers lose rows (`DbManager.h:231`) | as `paged` |
| `stop` | after a signal nothing starts, nothing is left behind, and the process ends, wherever the signal falls; `ServerInvariant`: no object has two operations under way, nothing survives the stop | 3 clients that may leave, 2 sockets, a request that throws |
| `served` | patient clients that pause at most after the head are all answered, one whose body fits the buffer is refused only for what the memory held before, and the server runs on | 3 clients, 3 sockets; bodies of 0, 3 and 5 pieces, a buffer of 4, 5 mapped; clean memory, a date or a brace in it |
| `out_of_sockets` ✗ | answered connections keep their sockets (`Connection.cpp:60`) | 3 clients, 2 sockets |
| `stale_buffer` ✗ | a client that pauses after its head is handled with the body of one that left (`Connection.cpp:30`) | 3 clients, one of which may leave, memory is reused |

More disagreements follow from the models and have no run of their own. An import sent
again, as after a lost answer, leaves its folder with size 0 (`Main.cpp:83`: the folder is
stored with 0, and its files add only their change); `SizesAreSums` fails in `move_and_resize`
also when the second request is the first again. A folder may be
put below its own descendant (`Main.cpp:36`), after which `ChangeSize`, `DeleteIter` and
`NodesIter` recurse until the stack overflows: `Fault` in `crash`, `WalkOverflow` in `reading`.
A history request without `dateStart` ends the process (`Main.cpp:192`): `QueriesSurvive` fails
in `fatal_query` also when all dates cast. Two rows of one item and one date, which
`test_history.py:86-103` expects in the order in which they were written, come in any
(`DbManager.h:253`). A client that leaves between head and body ends the process for all (`Connection.cpp:35`,
`RestNeverArrives`): with `Impatient = {poster}`, `RunsUntilTold` fails in `served`. An id or a
date with an apostrophe ends it (`QuotedId`, `QuotedDate`). A `POST` with
parameters keeps them in its uri and is not found (`RequestParser.cpp:56`), and a handler is
called whatever the method is (`RequestHandler.cpp:12`).
`SizesAreSums` does not hold after a crash inside an import (`Main.cpp:101`: items are
stored, the sizes of their folders are not, and nothing repairs them); `crash` therefore
checks what does hold, that a prefix of the request was stored. Sizes that fit `INT`
singly but not together make an `UPDATE` throw and the process exit (`DbManager.h:158`,
action `Fault`, part of `crash`).

What `served` says of a patient client it says of one that sends its request in one segment,
or as head and rest. With `2` among the `Pieces` a first segment may end behind the date,
and `ValidNotRefused` fails: the part is parsed and refused (`Connection.cpp:31`). With `1` it may
end before the date, and `Answered` fails: `asio::read` waits for the whole `Content-Length`
again, of which a part has been read already (`Connection.cpp:35`). `ValidNotRefused` excuses
what the memory behind the request is to blame for: a date there makes a head without its body
look complete, a brace there is parsed as the end of the body (`Connection.cpp:30`). `served` has
both. `stale_buffer` and `stop` have clean memory but for that of freed connections, so that
nothing else is to blame when a client is given another one's body.

**Why the bounds are enough.** Three ids give a path of length three, two siblings, a move
between two folders and a cycle of two; the request sets contain every class of item and
every way to be refused. Three requests are enough to build a tree, change it and remove
part of it. A race on the array needs two workers; three, with a short last page, also
give the case of an append between the check and the append of two others. Pages of two
rows stand for the pages of four in the code: a worker moves on inside its page and
stops at its end. The server runs have a client without and two with a body, so that one
may be blocked on, one queued and one waiting in the backlog; one body fits the buffer and
one does not. In `reading` three ids give a path as long as the stack, a circle, a file with
an item below it, and rows with one date and with two; pages of two rows and a history of
three give answers of one page and of two; `Day = 1` on dates 1 to 3 has dates
inside, on and outside both ends of a window. Two symbols in a text give each special
character alone, first, last and doubled.

**The discipline of `calm`** (`Disciplined` in `HandlersProps`): an item keeps its type; a
file sent again changes its size or leaves a folder, not both; a folder sent again has size 0,
comes before the files of the request and does not go below itself. All tests of the
repository keep it but `test_updates.py:61-71`. `move_and_resize` and the import sent again show
that the conditions on sizes are needed, a circle of folders that the condition on
descendants is.

**Fairness.** `Handlers`: weak fairness of the step of the handler, since `io_service` runs
a handler to its end; requests, crashes and restarts may fail to come. `Reading`: weak fairness of the steps of
a query, for the same reason. `RequestLine`: weak fairness of its one thread. `PagedQuery`: weak
fairness of every thread. `Server`: weak fairness of the handlers together (one thread
takes the next completion), of every pending operation that can complete (asio's reactor
reports all of them), and of the clients' sending and leaving: a client that has begun a
request sends the rest, or, if it is one that may leave, leaves at last. No fairness is
assumed of connecting or of the signal.

**Deadlock** is checked in the runs of `Handlers`, `Reading` and `PagedQuery`; where a bound
ends a behaviour an explicit step stands for the end. A request line is done when it is
dispatched. A server whose process has ended, or whose clients have all
been served, does stop; its runs do not check deadlock, `StopsWhenTold` and `Answered`
say what must not get stuck.

## 4. Proofs

All proofs hold for every value of the constants under the named assumptions
(`TablesAssumption`, `HandlersAssumption`, `ShapeAssumption`, `ReadingAssumption`,
`PagedQueryAssumption`, `ServerAssumption`, `RequestLineAssumption`): any set of ids (finite for `Reading`, since an
answer is a finite list of them, and for the sizes, which are finite sums), requests of any
length, any depth of the stack, any number of rows, any page size, any number of clients
and sockets, texts of any length. A hypothesis that is not an assumption of the module stands in the theorem.
No bound of a run is used, `MaxRequests` and `MaxRows` are arbitrary.

**`HandlersProofs`**

* `TypeCorrect`: `Spec => []TypeOK`, by a stronger invariant `TypeInv` (`TypeOK` and
  `Control`: which local variables are in use at which `pc`). No stored size leaves `INT`
  because a failing `UPDATE` leaves the table alone.
* `NoOrphans`, `InvariantHolds`: `ParentExists` and `HandlerInvariant`. `ParentExists` is
  not inductive: that an import may store an item needs that its parent is stored or comes
  first (`ParentsFirst`), a property of the *rest* of the request that validation
  established several transactions ago; that a deletion may remove a row needs that all
  children are gone (`ChildrenListed`: each child of an item on the recursion is on its
  list or is the call in progress). `ForestInv` is the conjunction; the lemmas
  `StoreForest` and `DeleteForest` are the two hard steps, `SameShape` and `ChangedRows`
  dispose of the steps that leave types and parents alone.
* `HistoryAgreesWithItems`: `HistoryAgrees`. Each transaction touches one id
  (`OneIdTouched`), which is in flight until its history step or torn by a crash.
* `HistoryOnlyGrows`: the action property `HistoryKept`.

**`HandlersPropsProofs`.** `Ancestors` and `Descendants` are *least closed sets*, not
recursive definitions: to show that something is among the ancestors one uses that they
are closed, to show that nothing else is one exhibits a closed set without it. No proof
here needs induction along a path.

* `ProgressHolds`: `ProgressInvariant`. At every transaction of an import the shape of the
  forest is the one before with the first items stored (`Tree!Imported`, lemma
  `ImportedNext`); a deletion has removed only part of its subtree and keeps the item itself
  to the last.
* `HandlersImplementFileTree`: `Spec => ImplementsFileTree`, step by step from
  `ProgressInvariant`. `tree` changes only when `before` does, at the end of a request or of
  the process, and then to a whole request or a prefix (`FinishMaps`, `DieMaps`); what
  validation refuses `FileTree` finds unacceptable (`RefusedForAReason`).
* `OnlyFootprintTouched`: `TouchesOnlyFootprint`, with `CallsInFootprint`. The difficulty is
  that the footprint is defined by paths in two forests, and the second changes with each
  item stored. What a request does not name keeps its parent (`UnnamedStay`), so a path now is
  a path before up to the first item that is named, and from there on it is in the footprint
  on that item's account.
* `DatesHold`, `NamedPathsDated`: `DatesInvariant` and `AncestorsDated`. For each item that an
  import is through with, all that is above its former and present parents, up to the next
  *named* item, is dated (`Unmoved` is the part of the forest that no item of the request
  can move, so what is above in it stays above). For the item at work each of the two
  parents is dated above or has a call of `ChangeSize` pending; `StackIsPath` says that the
  recursion has the whole path on its stack when it turns round. A deletion works on the
  subtree while the call for the parent of its root waits.

**`SizesProofs`** (with `FiniteSums`)

* `SizesHold`: `SizesAreSums` under `CalmSpec`, that is while requests keep the discipline of
  section 3 and the process is not killed; a fault (overflow of a size or of the stack) may
  end it. `SizesInvariantHolds` is the inductive invariant: the size of a folder *plus what
  the pending calls of `ChangeSize` owe it* is the sum of the files below (`SizesOwed`; the
  first call owes its delta to what it has not resized yet, `Unresized`).
* The sum ranges over descendants while the code climbs from child to parent. `BelowIsAbove`
  turns the one into the other; since an item has one parent, what is above an item is a
  chain (`AncestorsComparable`), and `SumAfterLeaf` and `SumAfterEmpty` say what writing one
  row does to every sum: a file that is stored, moved or removed changes the sums on its two
  paths by its size; a folder without files changes none.
* An import: `StoredFile`, `StoredFolder` and `CallsOwe` match these changes with the deltas
  of `Main.cpp:87-102`. A deletion: while it runs nothing is claimed of the subtree, and the
  one call owes the folders above what the subtree had; `RootGoesLast`
  and `AboveTheSubtree` give that no row above the root goes. The delta never wraps:
  with it the size of the parent is the sum of the files that are left, which is not
  negative, and that size itself fits `INT`.
* Circles of folders (`Main.cpp:36`) need no exception: in a circle `ChangeSize` never turns
  round before the stack is full, so that the process ends (`PathsEnd`: a path that ended
  is without repetition, by induction on its length).
* `FiniteSums` has the sums. The library's induction theorems take an operator as a
  parameter; `NumbersInductive` is induction over a *set* of numbers, from the
  well-foundedness of `<` and `WFMin`, and `FiniteInductive` over a set of finite sets. From
  them: the library's `SumFunctionOnSet` exists, does not depend on the order of its choices
  (`SumWithout`, `SumFacts`), and compares (`SumOfEqual`, `SumOfWeighty`, `SumOfNaturals`).

**`ReadingProofs`**

* `QueriesOnlyRead`: `ReadSpec => Spec` of `Handlers`. Every step of a query is for the
  handlers no step, or the `Crash` they have anyway; this needs `ReadControl` (while a query
  is handled no handler is at work). All theorems of `HandlersProofs` carry over by it.
* `ReadTypeCorrect`: `ReadTypeOK`, with `WalkBelow` (what a call of `NodesIter` has yet to
  visit is below its item, hence an id that is stored).
* `UpdatesAgreeWithHistory`, `HistoryShowsTheItem`: `UpdatesInHistory` and `HistoryShowsItem`, from
  `HistoryAgrees` of `Handlers` and, for each, an invariant that says which rows the answer has
  while it waits to be sent. `ByDateFacts` is the lemma that an order of a finite set lists all
  of it and nothing else; `Gathered` never adds a row. That the item's row is the last of its history
  does not make it one of the window: the date of the row decides, and both sides of the
  equivalence come to that.
* `DepthFaultsAreExact`: `DepthFaults`. `NodesIter` sees one item at a time, `TooDeep` speaks of
  whole paths, and a circle has paths of any length. The invariant is `PathInv`: the
  recursion is itself a path from the item of the query (`WalkPath`; so a full stack with a
  child to visit *is* a path too long), and no path that is too long is ever left behind
  (`LongPathsKept`: where the recursion stops following it, its next item is yet to be
  visited; so when the first call returns there is none).
* `WalkInvariantHolds`, `NodesShowsSubtree`: `WalkInvariant` and `NodesAnswer`. That nothing is
  lost is `NoneLeftBehind`; that nothing is shown twice holds only if the query returns, and
  that it returns is known only at its end. `Grounded` (the least set with every item
  whose children it has: what is above no circle) bridges this: a call that returns leaves
  its item grounded, and `VisitedOnce` is claimed for a grounded root. An item has one parent, so
  a second visit would mean a circle through an item of the recursion, which is not grounded.

**`PagedQueryProofs`**

* `QueryTypeCorrect`, `PagesPartitionRows`, `RowsStayInPlace`,
  `NothingUnconstructedInAnswer`, `QueryInvariantHolds`, all from one inductive invariant
  `IInv`: the types, `PagesCover`, `Launched` (the start position of the next worker is
  that of its page), `InPlace` (a worker writes row *n* to place *n*), `Constructed` (all
  elements up to the size, and up to where a worker is appending, are constructed) and
  `NoRowMisplaced`. The point of `Constructed` is that it survives races: a worker that
  sets the size sets it to where *it* has constructed, even when that makes the array
  shorter. So rows may be lost (`paged_answers`) but nothing unconstructed is shown.
* `SequentialInvariantHolds`, `NoRaceNoLoss`: `SequentialComplete`. While no two workers run at
  once, the workers finish in the order of their pages (`OneAfterTheOther`) and the array
  holds just the rows written so far (`StoredInOrder`); a deferred worker runs inside the
  wait for its own future, when all before it have been waited for.

**`ServerProofs`**

* `ServerTypeCorrect`, `ServerInvariantHolds`, `ManagerKnowsSockets`, `NoStartAfterStop`: no
  hypotheses; clients may leave at any time, handlers throw, a signal come at any
  moment. The inductive invariant is their conjunction: that `SocketsKnown` survives
  `AcceptAgain` needs that the acceptor has one operation (`OneOperation`) and has filled
  one socket (`OneAccepted`); that nothing starts after the stop needs that an accept
  queued before it is still seen as too late (`StoppedForGood`).
* `ServesUntilTold` under `Impatient = {}`, `Throwing = {}` and `BodiesMapped`;
  `ValidRequestsServed` under `BodiesUnsplit` alone: clients may leave and memory be reused.
  These hypotheses are needed: section 3 names the runs and counterexamples without them.
  `PatientInvariantHolds` is what they
  rest on: while clients are patient nothing fails as long as the server listens
  (`NothingFails`), the wait for the signal is always pending
  (`AwaitsSignal`), and what fits the buffer is read whole, or as the head first (`ReadWhole`).

**`RequestLineProofs`**

* `ParserInvariant`: `Spec => []ParserInv`. Whenever the loop of `ParseParameters` begins a
  turn, what is left of the line is the text from some parameter *k* + 1 on (`After`), and
  the map is `Taken` up to *k*: every entry is under a key that ends in a key that was meant
  and has the value meant for it, and of the first *k* parameters those with a value have
  their own key in the map unless they follow a flag. Keys only *end*
  in what was meant because the code takes everything up to the next `=` for the key,
  the flags before it included; `Turn` and `TurnFacts` say what one turn finds,
  `TakenMore` what it adds. The loop gives up only at an empty value or at flags that
  end the line (`GiveUpInv`), so that behind it the map is `Taken` to the end, or empty with
  such a parameter in the line (`Outcome`).
* From it, `AllParametersArrive` (`ParametersArrive`), `KeysThatArrive` (`KeysArrive`),
  `RequestsRouted` (`Routed`) and `IdsArrive` (`IdArrives`). The first rests on the round trip
  `UrlDecode(QueryEncode(v)) = v` (`QueryEncoded`, `Decoded`), the others on where the first and the
  last of a character are in a text put together from parts (`Around`, `BeforeTheLast`).
* `LengthsArrive`: `LengthArrives`. `HeadersInFront` gives that the first `Content-Length` is
  the one of the header, `LengthFound` that the next `:` is the one behind it, `AtoiReads` that the
  digits end where the value ends. Without the blank `atoi` begins at the second digit, and
  a number without its first digit is not greater (`NumberOfTail`); if there was one
  digit only, it begins on the next line, which does not begin with one (`NextLine`).
* Induction along a text is by `NumbersInductive` of `FiniteSums`: `RecursionExists` gives
  that there is one function with a base and a step, from which what `Number`, `StripSpaces`
  and `FlattenSeq` compute is read off. The provers do not know that a string literal is an
  element of `STRING`, so texts are sequences over `Symbol`, which adds the literals of the code.

**Only model-checked.** Liveness (`EveryRequestDone`, `QueryAnswered`, `QueryEnds`,
`StopsWhenTold`, `Answered`, `Parsed`), which TLAPS does not prove under fairness. Every
invariant and every action property that a passing run checks is a theorem.

**Proved and in no run.** `DatesInvariant`, `SizesInvariant`, `SequentialInvariant`,
`PatientInvariant` and `ParserInv` are inductive invariants whose purpose is the property they imply, which a run
does check; TLC found each of them to hold on the instance of that run before it was
proved.

## 5. Plan

Done: all modules of section 2 with their runs, and the proofs above: every safety
property that a run checks is a theorem. What is left is the discipline: `SizesHold` with
an import that sends a folder again *behind* files of the same request, as long as they
do not lie in it, if an invariant for it can be found.

A composition of `Server` with the handlers would add little: a handler runs to its end
inside one completion handler, so that `Handle` of `Server` is one step of it, and a signal
or a client in the meantime changes only what is queued.

## 6. Not modelled

* PostgreSQL, pqxx, asio, json and date themselves, beyond what section 2 lists. `src/include/`
  holds about 228 000 of the 229 000 lines under `src/`; they are other projects' code, of
  which a client sees here a dozen calls, and modelling them would say nothing about this
  service. Nearly every function of its own code that changes state or decides anything is
  covered by a definition.
* A database connection that fails: an exception in a transaction has the effect of `Crash`,
  and a commit whose outcome is unknown that of a `Crash` before or after the step.
* The order of ids among rows of one date in an answer of `updates`, which is PostgreSQL's
  order of text.
* Text: reply wording and headers (`Reply.cpp`: constants and concatenation),
  a `%` that is not followed by two hex digits, and a head that comes in several segments.
* Apostrophes in what is imported or deleted: the statement throws, which has the effect of a
  `Crash` of `Handlers` before that step. What other statements a text could be turned
  into is no subject here.
* The blank at the end of the date of a deletion: `RequestLine` shows that it is there, the
  tables of `Handlers` hold dates as values.
* The bytes behind `buffer_`: that a view reaching there is no JSON, and that what is parsed
  of a body with an old rest is either the old body or refused, is taken as given.
* `DbManager`'s connection string, argument handling of `main`, `Dockerfile` and `Makefile`.
