-------------------------------- MODULE Server --------------------------------
(***************************************************************************)
(* Server.cpp, Connection.cpp and ConnectionManager.cpp: one io_service,   *)
(* run by one thread.  An asynchronous operation is pending until the      *)
(* reactor finds it can complete; its completion then waits in a queue     *)
(* until the thread runs its handler.  Between the two, other handlers     *)
(* run, so what a handler finds may have changed since its operation       *)
(* completed: the signal handler may have closed everything.               *)
(*                                                                         *)
(* A request is a head and a body; a client may send it in pieces.  The    *)
(* body of a POST contains the date of the request, and Connection::Read   *)
(* takes a body to be complete when it finds the end of a date in what it  *)
(* got.  Otherwise it reads as many bytes as Content-Length says, and the  *)
(* thread waits inside the handler until they are there.                   *)
(***************************************************************************)
EXTENDS Integers, Sequences, FiniteSets, SequencesExt

CONSTANTS
  Clients,    \* each connects once and sends one request
  Body,       \* Body[c] pieces of body, 0 for a request without (GET, DELETE)
  DateAt,     \* the piece of a body that ends with the date
  BufferSize, \* the pieces buffer_ has room for
  Mapped,     \* the pieces that can be read from the start of buffer_ on
  Garbage,    \* what fresh memory may hold before its first 0
  Pieces,     \* after how many pieces of its body a client may pause
  MaxFds,     \* sockets the process may have open besides the acceptor
  Throwing,   \* clients whose request makes its handler throw
  Impatient,  \* clients that may leave before they are answered
  Reuse,      \* whether a Connection may get the memory of a freed one
  Signals,    \* whether the process is told to stop
  Null        \* no client

ASSUME ServerAssumption ==
  /\ IsFiniteSet(Clients) /\ Null \notin Clients
  /\ Body \in [Clients -> Nat]
  /\ DateAt \in Nat \ {0} /\ BufferSize \in Nat \ {0}
  /\ Mapped \in Nat /\ Mapped >= BufferSize
  /\ Garbage \subseteq SUBSET {"date", "brace"} /\ {} \in Garbage
  /\ Clients \cap {"date", "brace"} = {}
  /\ \A c \in Clients : Body[c] = 0 \/ DateAt <= Body[c]
  /\ 0 \in Pieces /\ \A c \in Clients : Body[c] \in Pieces
  /\ MaxFds \in Nat \ {0}
  /\ Throwing \subseteq Clients /\ Impatient \subseteq Clients
  /\ Reuse \in BOOLEAN /\ Signals \in BOOLEAN

VARIABLES
  client,       \* what the client knows of its connection
  unsent,       \* pieces the client has not sent, the head is one
  inbox,        \* pieces in the socket, not yet read by the server
  backlog,      \* connections the kernel holds for the acceptor
  sockets,      \* connections whose socket the process has open
  connections,  \* connections_ of the ConnectionManager
  listening,    \* the acceptor is open
  pending,      \* operations the reactor watches
  ready,        \* completions whose handlers have yet to run
  io,           \* the thread: "idle" between handlers, "blocked" in one, "exited"
  reader,       \* the connection it is blocked on
  got,          \* pieces the asynchronous read got
  reply,        \* the reply written
  handled,      \* whose body the handler was given
  memory,       \* what is behind the request in buffer_, up to a 0
  freed,        \* requests left in memory that was freed
  signalled     \* SIGINT, SIGTERM or SIGQUIT has come

wire == <<client, unsent, inbox>>
results == <<got, reply, handled, memory, freed>>
vars == <<client, unsent, inbox, backlog, sockets, connections, listening, pending,
          ready, io, reader, got, reply, handled, memory, freed, signalled>>

Nobody == Clients \cup {Null}
Completion == [op : {"accept", "read", "write", "signal"}, of : Nobody,
               ec : {"ok", "error", "aborted"}]
Remains == Clients \cup {"date", "brace"}
Ops == ({"accept", "signal"} \X {Null}) \cup ({"read", "write"} \X Clients)

TypeOK ==
  /\ client \in [Clients -> {"away", "waiting", "answered", "gone"}]
  /\ unsent \in [Clients -> Nat] /\ inbox \in [Clients -> Nat]
  /\ backlog \subseteq Clients
  /\ sockets \subseteq Clients /\ Cardinality(sockets) <= MaxFds
  /\ connections \subseteq Clients
  /\ listening \in BOOLEAN
  /\ pending \subseteq Ops
  /\ ready \in Seq(Completion)
  /\ io \in {"idle", "blocked", "exited"}
  /\ reader \in Nobody
  /\ got \in [Clients -> Nat]
  /\ reply \in [Clients -> {"none", "ok", "bad_request"}]
  /\ handled \in [Clients -> Nobody]
  /\ memory \in [Clients -> SUBSET Remains]
  /\ freed \subseteq Clients
  /\ signalled \in BOOLEAN

Init ==
  /\ client = [c \in Clients |-> "away"]
  /\ unsent = [c \in Clients |-> 1 + Body[c]]
  /\ inbox = [c \in Clients |-> 0]
  /\ backlog = {}
  /\ sockets = {}
  /\ connections = {}
  /\ listening = TRUE
  /\ pending = {<<"accept", Null>>, <<"signal", Null>>}
  /\ ready = <<>>
  /\ io = "idle"
  /\ reader = Null
  /\ got = [c \in Clients |-> 0]
  /\ reply = [c \in Clients |-> "none"]
  /\ handled = [c \in Clients |-> Null]
  /\ memory = [c \in Clients |-> {}]
  /\ freed = {}
  /\ signalled = FALSE
-----------------------------------------------------------------------------
(* The clients. *)

Connect(c) ==
  /\ client[c] = "away"
  /\ listening
  /\ client' = [client EXCEPT ![c] = "waiting"]
  /\ backlog' = backlog \cup {c}
  /\ UNCHANGED <<unsent, inbox, sockets, connections, listening, pending, ready,
                 io, reader, results, signalled>>

(* With the head, and later, come some pieces of the body. *)
Send(c) ==
  /\ client[c] = "waiting"
  /\ \E n \in 1 .. unsent[c] :
       /\ Body[c] - (unsent[c] - n) \in Pieces
       /\ unsent' = [unsent EXCEPT ![c] = @ - n]
       /\ inbox' = [inbox EXCEPT ![c] = @ + n]
  /\ UNCHANGED <<client, backlog, sockets, connections, listening, pending, ready,
                 io, reader, results, signalled>>

Leave(c) ==
  /\ \/ client[c] = "answered"
     \/ client[c] = "waiting" /\ c \in Impatient
  /\ client' = [client EXCEPT ![c] = "gone"]
  /\ backlog' = backlog \ {c}
  /\ UNCHANGED <<unsent, inbox, sockets, connections, listening, pending, ready,
                 io, reader, results, signalled>>
-----------------------------------------------------------------------------
(* The reactor: a pending operation completes. *)

Completes(op, c, ec) ==
  /\ io = "idle"
  /\ <<op, c>> \in pending
  /\ pending' = pending \ {<<op, c>>}
  /\ ready' = Append(ready, [op |-> op, of |-> c, ec |-> ec])

(* Without a descriptor for the new socket accept fails, also while nobody *)
(* has connected.                                                          *)
AcceptCompletes ==
  /\ \/ \E c \in backlog :
          /\ Cardinality(sockets) < MaxFds
          /\ Completes("accept", Null, "ok")
          /\ backlog' = backlog \ {c}
          /\ sockets' = sockets \cup {c}
     \/ /\ Cardinality(sockets) >= MaxFds
        /\ Completes("accept", Null, "error")
        /\ UNCHANGED <<backlog, sockets>>
  /\ UNCHANGED <<wire, connections, listening, io, reader, results, signalled>>

ReadCompletes(c) ==
  /\ \/ /\ inbox[c] > 0
        /\ Completes("read", c, "ok")
        /\ LET n == Min({inbox[c], BufferSize})
           IN  got' = [got EXCEPT ![c] = n] /\ inbox' = [inbox EXCEPT ![c] = @ - n]
     \/ /\ client[c] = "gone"
        /\ Completes("read", c, "error")
        /\ UNCHANGED <<got, inbox>>
  /\ UNCHANGED <<client, unsent, backlog, sockets, connections, listening, io, reader,
                 reply, handled, memory, freed, signalled>>

WriteCompletes(c) ==
  /\ \/ Completes("write", c, "ok")
     \/ client[c] = "gone" /\ Completes("write", c, "error")
  /\ client' = [client EXCEPT ![c] = IF @ = "waiting" THEN "answered" ELSE @]
  /\ UNCHANGED <<unsent, inbox, backlog, sockets, connections, listening, io, reader,
                 results, signalled>>

SignalCompletes ==
  /\ signalled
  /\ Completes("signal", Null, "ok")
  /\ UNCHANGED <<wire, backlog, sockets, connections, listening, io, reader, results,
                 signalled>>
-----------------------------------------------------------------------------
(* What a client that waits sees of a connection that is closed. *)
Drop(cs) ==
  client' = [c \in Clients |->
               IF c \in cs /\ client[c] = "waiting" THEN "gone" ELSE client[c]]

(* The end of the process closes everything it has open. *)
Exit ==
  /\ Drop(backlog \cup sockets)
  /\ io' = "exited"
  /\ reader' = Null
  /\ listening' = FALSE
  /\ backlog' = {}
  /\ sockets' = {}
  /\ connections' = {}
  /\ pending' = {}
  /\ ready' = <<>>

(* The handler of the first completion runs. *)
Runs(op) ==
  /\ io = "idle"
  /\ ready # <<>>
  /\ Head(ready).op = op
  /\ ready' = Tail(ready)

(* The connection whose accept completed: the one socket not yet in the    *)
(* hands of the ConnectionManager.  The slip takes the socket it was moved *)
(* from.                                                                   *)
MovedFrom == {Null}
Accepted == sockets \ connections

(* Two slips: the acceptor is not asked again; it is not looked at.        *)
AcceptOnce ==
  /\ Runs("accept")
  /\ listening
  /\ Head(ready).ec = "ok"
  /\ connections' = connections \cup Accepted
  /\ pending' = pending \cup {<<"read", c>> : c \in Accepted}
  /\ UNCHANGED <<wire, backlog, sockets, listening, io, reader, results, signalled>>
AcceptAnyway ==
  /\ Runs("accept")
  /\ Head(ready).ec = "ok"
  /\ connections' = connections \cup Accepted
  /\ pending' = pending \cup {<<"read", c>> : c \in Accepted} \cup {<<"accept", Null>>}
  /\ UNCHANGED <<wire, backlog, sockets, listening, io, reader, results, signalled>>

(* Accept: the connection starts, and the acceptor waits for the next one. *)
(* buffer_ is not initialised: it holds what its memory held, of a freed   *)
(* Connection or of anything else the heap was used for; behind a request  *)
(* without a body nobody looks.                                            *)
StartConnection ==
  /\ Runs("accept")
  /\ listening
  /\ Head(ready).ec = "ok"
  /\ connections' = connections \cup Accepted
  /\ pending' = pending \cup {<<"read", c>> : c \in Accepted} \cup {<<"accept", Null>>}
  /\ \E old \in Garbage \cup {{c} : c \in freed} :
       /\ memory' = [c \in Clients |->
                       IF c \in Accepted /\ Body[c] > 0 THEN old ELSE memory[c]]
       /\ freed' = freed \ old
  /\ UNCHANGED <<wire, backlog, sockets, listening, io, reader, got, reply, handled,
                 signalled>>

AcceptAgain ==
  /\ Runs("accept")
  /\ listening
  /\ Head(ready).ec # "ok"
  /\ pending' = pending \cup {<<"accept", Null>>}
  /\ UNCHANGED <<wire, backlog, sockets, connections, listening, io, reader, results,
                 signalled>>

AcceptTooLate ==
  /\ Runs("accept")
  /\ ~listening
  /\ UNCHANGED <<wire, backlog, sockets, connections, listening, pending, io, reader,
                 results, signalled>>
-----------------------------------------------------------------------------
(* Connection::Read. *)

(* Write: on a socket that was closed meanwhile it fails at once. *)
Write(c, queue) ==
  IF c \in sockets
  THEN /\ pending' = pending \cup {<<"write", c>>}
       /\ ready' = queue
  ELSE /\ ready' = Append(queue, [op |-> "write", of |-> c, ec |-> "error"])
       /\ UNCHANGED pending

(* HandleRequest with the body of the request of c or of another one. *)
Handle(c, whose, queue) ==
  \/ /\ c \in Throwing
     /\ Exit
     /\ UNCHANGED <<unsent, results, signalled>>
  \/ /\ c \notin Throwing
     /\ Write(c, queue)
     /\ handled' = [handled EXCEPT ![c] = whose]
     /\ reply' = [reply EXCEPT ![c] = "ok"]
     /\ io' = "idle"
     /\ reader' = Null
     /\ UNCHANGED <<client, unsent, backlog, sockets, connections, listening, got,
                    memory, freed, signalled>>

Refuse(c, queue) ==
  /\ Write(c, queue)
  /\ reply' = [reply EXCEPT ![c] = "bad_request"]
  /\ UNCHANGED <<client, unsent, inbox, backlog, sockets, connections, listening,
                 io, reader, got, handled, memory, freed, signalled>>

ReadRuns(c) ==
  /\ io = "idle"
  /\ ready # <<>>
  /\ Head(ready) = [op |-> "read", of |-> c, ec |-> "ok"]

BodyGot(c) == got[c] - 1

(* The date of the request is in what the read got.  The slip looks for no *)
(* date.                                                                   *)
AnyBody(c) == BodyGot(c) >= 0
DateGot(c) == BodyGot(c) >= DateAt

(* The string the code looks in ends where memory has a 0, not where the   *)
(* request ends, so it may find the date behind the request.               *)
DateFound(c) == DateGot(c) \/ memory[c] \cap (Clients \cup {"date"}) # {}

ReadWithoutBody(c) ==
  /\ ReadRuns(c)
  /\ Body[c] = 0
  /\ Handle(c, c, Tail(ready))
  /\ UNCHANGED inbox

(* ParseBody on everything up to the last brace: right if that is the last *)
(* of the body, and not if a brace of something else comes later.          *)
ReadWholeBody(c) ==
  /\ ReadRuns(c)
  /\ Body[c] > 0 /\ DateFound(c)
  /\ BodyGot(c) = Body[c] /\ "brace" \notin memory[c]
  /\ Handle(c, c, Tail(ready))
  /\ UNCHANGED inbox

(* An old request behind the new one, or the end of it: what is taken for  *)
(* the body may be the old one, or one with an old rest.                   *)
ReadOldBody(c) ==
  /\ ReadRuns(c)
  /\ Body[c] > 0
  /\ BodyGot(c) < Body[c]
  /\ \E old \in Clients \cap memory[c] : Handle(c, old, Tail(ready))
  /\ UNCHANGED inbox

(* A part of a body, or a body with something behind it, is no JSON.       *)
ReadBrokenBody(c) ==
  /\ ReadRuns(c)
  /\ Body[c] > 0 /\ DateFound(c)
  /\ BodyGot(c) < Body[c] \/ memory[c] \cap (Clients \cup {"brace"}) # {}
  /\ Refuse(c, Tail(ready))

(* asio::read waits for Content-Length bytes, those it has not counted.    *)
ReadOn(c) ==
  /\ ReadRuns(c)
  /\ Body[c] > 0 /\ ~DateGot(c) /\ "date" \notin memory[c]
  /\ c \in sockets
  /\ io' = "blocked"
  /\ reader' = c
  /\ ready' = Tail(ready)
  /\ UNCHANGED <<wire, backlog, sockets, connections, listening, pending, results,
                 signalled>>

(* ... and throws if the socket was closed meanwhile. *)
ReadOnClosed(c) ==
  /\ ReadRuns(c)
  /\ Body[c] > 0 /\ ~DateGot(c) /\ "date" \notin memory[c]
  /\ c \notin sockets
  /\ Exit
  /\ UNCHANGED <<unsent, inbox, results, signalled>>

(* It is given buffer_ to read into and starts at its beginning, so no     *)
(* garbage is left in front; it stops when buffer_ is full.  The view that *)
(* ParseBody gets is as long as the body all the same.  What it finds      *)
(* behind the end of buffer_ is other members of the Connection and makes  *)
(* no JSON; and if the view ends where nothing is mapped, that is the end  *)
(* of the process.                                                         *)
RestFits(c) == Body[c] <= BufferSize
RestWanted(c) == Min({Body[c], BufferSize})

RestArrives ==
  /\ io = "blocked"
  /\ RestFits(reader)
  /\ inbox[reader] >= Body[reader]
  /\ Handle(reader, reader, ready)
  /\ inbox' = [inbox EXCEPT ![reader] = @ - Body[reader]]

RestCutOff ==
  /\ io = "blocked"
  /\ ~RestFits(reader)
  /\ inbox[reader] >= BufferSize
  /\ Write(reader, ready)
  /\ reply' = [reply EXCEPT ![reader] = "bad_request"]
  /\ inbox' = [inbox EXCEPT ![reader] = @ - BufferSize]
  /\ io' = "idle"
  /\ reader' = Null
  /\ UNCHANGED <<client, unsent, backlog, sockets, connections, listening, got,
                 handled, memory, freed, signalled>>

RestUnmapped ==
  /\ io = "blocked"
  /\ Body[reader] > Mapped
  /\ inbox[reader] >= BufferSize
  /\ Exit
  /\ UNCHANGED <<unsent, inbox, results, signalled>>

(* asio::read throws at the end of the connection.  The slip throws when   *)
(* there is nothing to read yet.                                           *)
RestNotThere ==
  /\ io = "blocked"
  /\ inbox[reader] < RestWanted(reader)
  /\ Exit
  /\ UNCHANGED <<unsent, inbox, results, signalled>>

RestNeverArrives ==
  /\ io = "blocked"
  /\ inbox[reader] < RestWanted(reader)
  /\ client[reader] = "gone"
  /\ Exit
  /\ UNCHANGED <<unsent, inbox, results, signalled>>
-----------------------------------------------------------------------------
(* ConnectionManager::Stop, for a read or a write that failed.  The memory *)
(* of the connection is freed; what matters later is a whole request in it.*)

(* A slip: the connection stays in connections_. *)
StopForgetful(c) ==
  /\ sockets' = sockets \ {c}
  /\ freed' = IF Reuse /\ Body[c] > 0 /\ BodyGot(c) = Body[c] THEN freed \cup {c} ELSE freed
  /\ UNCHANGED connections
Stop(c) ==
  /\ connections' = connections \ {c}
  /\ sockets' = sockets \ {c}
  /\ freed' = IF Reuse /\ Body[c] > 0 /\ BodyGot(c) = Body[c] THEN freed \cup {c} ELSE freed

ConnectionFails(op) ==
  /\ Runs(op)
  /\ Head(ready).ec = "error"
  /\ Stop(Head(ready).of)
  /\ UNCHANGED <<wire, backlog, listening, pending, io, reader, got, reply, handled,
                 memory, signalled>>

ConnectionAborted(op) ==
  /\ Runs(op)
  /\ Head(ready).ec = "aborted"
  /\ UNCHANGED <<wire, backlog, sockets, connections, listening, pending, io, reader,
                 results, signalled>>

(* Shutting a socket down ends the connection for the client.  The socket  *)
(* stays open and the connection stays in connections_.                    *)
ReplyWritten ==
  /\ Runs("write")
  /\ Head(ready).ec = "ok"
  /\ UNCHANGED <<wire, backlog, sockets, connections, listening, pending, io, reader,
                 results, signalled>>
-----------------------------------------------------------------------------
(* Signals, and the end of Run. *)

Aborted(ops) ==
  SetToSeq({[op |-> o[1], of |-> o[2], ec |-> "aborted"] : o \in ops})

(* A slip: the connections are left alone. *)
CloseAcceptor ==
  /\ Runs("signal")
  /\ listening' = FALSE
  /\ backlog' = {}
  /\ Drop(backlog)
  /\ pending' = pending \ {<<"accept", Null>>}
  /\ UNCHANGED <<unsent, inbox, sockets, connections, io, reader, results, signalled>>

(* Another: the acceptor stays open.                                       *)
StopConnections ==
  /\ Runs("signal")
  /\ Drop(connections)
  /\ sockets' = sockets \ connections
  /\ connections' = {}
  /\ pending' = pending \ ({"read", "write"} \X connections)
  /\ UNCHANGED <<unsent, inbox, backlog, listening, io, reader, results, signalled>>

(* acceptor_.close() and StopAll: what was pending is aborted, what had    *)
(* completed is not.                                                       *)
StopAll ==
  /\ io = "idle"
  /\ ready # <<>>
  /\ Head(ready).op = "signal"
  /\ listening' = FALSE
  /\ backlog' = {}
  /\ Drop(backlog \cup connections)
  /\ sockets' = sockets \ connections
  /\ connections' = {}
  /\ ready' = Tail(ready) \o Aborted(pending)
  /\ pending' = {}
  /\ UNCHANGED <<unsent, inbox, io, reader, results, signalled>>

Signal ==
  /\ Signals
  /\ ~signalled
  /\ io # "exited"
  /\ signalled' = TRUE
  /\ \/ /\ io = "blocked"    \* poll fails with EINTR and asio::read throws
        /\ inbox[reader] < RestWanted(reader)
        /\ Exit
     \/ UNCHANGED <<client, backlog, sockets, connections, listening, pending, ready,
                    io, reader>>
  /\ UNCHANGED <<unsent, inbox, results>>

(* run() returns when nothing is left to do. *)
RunReturns ==
  /\ io = "idle"
  /\ pending = {}
  /\ ready = <<>>
  /\ Exit
  /\ UNCHANGED <<unsent, inbox, results, signalled>>
-----------------------------------------------------------------------------
Reactor ==
  \/ AcceptCompletes
  \/ \E c \in Clients : ReadCompletes(c) \/ WriteCompletes(c)
  \/ SignalCompletes

ReadHandler(c) ==
  \/ ReadWithoutBody(c)
  \/ ReadWholeBody(c)
  \/ ReadOldBody(c)
  \/ ReadBrokenBody(c)
  \/ ReadOn(c)
  \/ ReadOnClosed(c)

Handler ==
  \/ StartConnection
  \/ AcceptAgain
  \/ AcceptTooLate
  \/ \E c \in Clients : ReadHandler(c)
  \/ RestArrives
  \/ RestCutOff
  \/ RestUnmapped
  \/ RestNeverArrives
  \/ \E op \in {"read", "write"} : ConnectionFails(op) \/ ConnectionAborted(op)
  \/ ReplyWritten
  \/ StopAll
  \/ RunReturns

Client(c) == Connect(c) \/ Send(c) \/ Leave(c)

Next ==
  \/ \E c \in Clients : Client(c)
  \/ Reactor
  \/ Handler
  \/ Signal

Spec == Init /\ [][Next]_vars

(* The thread runs the handlers in the order of the queue, the reactor     *)
(* reports every operation that can complete, and a client that is waited  *)
(* for sends the rest of its request or leaves.                            *)
FairSpec ==
  /\ Spec
  /\ WF_vars(Handler)
  /\ WF_vars(AcceptCompletes)
  /\ WF_vars(SignalCompletes)
  /\ \A c \in Clients :
       /\ WF_vars(ReadCompletes(c))
       /\ WF_vars(WriteCompletes(c))
       /\ WF_vars(Send(c))
       /\ WF_vars(Leave(c))
-----------------------------------------------------------------------------
(* The ConnectionManager knows every socket but the one the acceptor has   *)
(* just filled, and an operation is pending only on a socket it knows:     *)
(* StopAll leaves nothing behind that could keep run() from returning      *)
(* (Server.cpp:35-62, ConnectionManager.cpp:5-19).                         *)
SocketsKnown ==
  /\ connections \subseteq sockets
  /\ Cardinality(Accepted) <= 1
  /\ \A o \in pending : o[1] \in {"read", "write"} => o[2] \in connections

(* Once the acceptor is closed no connection starts any more, also not one *)
(* whose accept had completed before (Server.cpp:39-41).                   *)
NothingStartsAfterStop == ~listening => connections = {}

(* A request is handled with the body its client sent                      *)
(* (Connection.cpp:29-32; the buffer is that of Connection.h:32).          *)
OwnBody == \A c \in Clients : handled[c] \in {c, Null}

(* The server ends when it is told to (Server.cpp:54-62).                  *)
StopsWhenTold == signalled ~> io = "exited"

(* A client that has connected is answered (Connection.cpp:41-47, 56-63).  *)
ClientAnswered(c) == client[c] = "waiting" ~> client[c] = "answered"
Answered == \A c \in Clients : ClientAnswered(c)

(* The server runs until it is told to stop, as long as no client leaves,  *)
(* no handler throws and no body is longer than what is mapped, also while *)
(* it waits for the rest of a body (Server.cpp:31-33, 54-62;               *)
(* Connection.cpp:35).                                                     *)
RunsUntilTold == io = "exited" => signalled

(* No request is refused that is well formed, as all are here, and fits    *)
(* the buffer, whether it comes in one segment or two; but for what the    *)
(* memory of its buffer held before (Connection.cpp:29-47).                *)
Small(c) == 1 + Body[c] <= BufferSize
ValidNotRefused ==
  \A c \in Clients : reply[c] = "bad_request" => ~Small(c) \/ memory[c] # {}
-----------------------------------------------------------------------------
(***************************************************************************)
(* What the handlers rely on between each other: the inductive invariants  *)
(* behind the properties above.                                            *)
(***************************************************************************)

(* The completions whose handlers have yet to run, and their operations.   *)
Done == Range(ready)
OpOf(done) == <<done.op, done.of>>

(* Two operations of one connection, two accepts or two waits for signals. *)
Rival(o, p) == o[2] = p[2] /\ (o[2] = Null => o[1] = p[1])

Busy(c) ==
  \/ \E o \in pending : o[2] = c
  \/ \E d \in Done : d.of = c
  \/ io = "blocked" /\ reader = c

(* Each connection, the acceptor and the signal set have at most one       *)
(* operation, pending or completed; a connection the thread waits for has  *)
(* none.                                                                   *)
OneOperation ==
  /\ IsInjective(ready)
  /\ \A d \in Done : OpOf(d) \in Ops
  /\ \A o, p \in pending : Rival(o, p) => o = p
  /\ \A d, e \in Done : Rival(OpOf(d), OpOf(e)) => d = e
  /\ \A o \in pending : \A d \in Done : ~Rival(o, OpOf(d))
  /\ io = "blocked" =>
       /\ reader \in Clients
       /\ \A o \in pending : o[2] # reader
       /\ \A d \in Done : d.of # reader

(* A client the acceptor has not got yet has nothing in the server, and    *)
(* one it has got knows that it has connected.                             *)
NothingBeforeAccept ==
  \A c \in Clients :
    /\ client[c] = "away" \/ c \in backlog => c \notin sockets /\ ~Busy(c)
    /\ c \in backlog => client[c] = "waiting"

(* A socket is accepted and not started only while the handler of the      *)
(* accept is still to run, or will find the acceptor closed.               *)
OneAccepted ==
  /\ \A c, d \in Accepted : c = d
  /\ \A c \in Accepted : ~Busy(c)
  /\ listening /\ Accepted # {} => \E d \in Done : d.op = "accept" /\ d.ec = "ok"

(* After the acceptor is closed there is nothing the thread could wait for.*)
StoppedForGood ==
  ~listening => /\ connections = {} /\ backlog = {} /\ pending = {}
                /\ io # "blocked"

ServerInvariant ==
  /\ OneOperation
  /\ NothingBeforeAccept
  /\ OneAccepted
  /\ StoppedForGood

(* The request of the client is still to be read or answered.              *)
ToServe(c) ==
  \/ \E o \in pending : o[2] = c
  \/ \E d \in Done : d.of = c /\ d.op = "read"
  \/ io = "blocked" /\ reader = c

(* As long as no client leaves before it is answered, nothing fails while  *)
(* the server listens, and no connection is freed.                         *)
NothingFails ==
  listening =>
    /\ freed = {}
    /\ \A d \in Done : d.of # Null => d.ec = "ok"
    /\ \A c \in Clients : ToServe(c) => client[c] = "waiting" /\ c \in connections
    /\ \A c \in backlog \cup Accepted : client[c] = "waiting"

(* Until the signal comes the server waits for it.                         *)
AwaitsSignal ==
  signalled \/ (listening /\ io # "exited" /\ <<"signal", Null>> \in pending)

(* What fits the buffer is read at once, or the head alone and then the    *)
(* rest: no client sends part of a body.                                   *)
BodiesUnsplit ==
  \A c \in Clients : Small(c) => Pieces \cap (0 .. Body[c]) \subseteq {0, Body[c]}

(* No segment of its request has been read, and none waits to be handled.  *)
Unread(c) ==
  \/ client[c] = "away"
  \/ c \in backlog \cup Accepted
  \/ <<"read", c>> \in pending
ReadWhole ==
  \A c \in Clients :
    Small(c) =>
      /\ unsent[c] \in {0, Body[c], 1 + Body[c]}
      /\ got[c] \in {0, 1, 1 + Body[c]}
      /\ got[c] = 0 => inbox[c] + unsent[c] = 1 + Body[c]
      /\ Unread(c) => got[c] = 0
      /\ [op |-> "read", of |-> c, ec |-> "ok"] \in Done => got[c] > 0
      /\ io = "blocked" /\ reader = c => got[c] > 0

(* As long as clients are patient, no handler throws, no body is longer    *)
(* than what is mapped and no small body is split.                         *)
BodiesMapped == \A c \in Clients : Body[c] <= Mapped
PatientInvariant ==
  /\ Impatient = {} => NothingFails
  /\ Impatient = {} /\ Throwing = {} /\ BodiesMapped => AwaitsSignal
  /\ BodiesUnsplit => ReadWhole
=============================================================================
