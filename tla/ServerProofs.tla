---------------------------- MODULE ServerProofs ----------------------------
(***************************************************************************)
(* Proofs about Server, for any set of clients and requests, any buffer    *)
(* and any number of sockets.                                              *)
(***************************************************************************)
EXTENDS Server, FiniteSetTheorems, SequenceTheorems, TLAPS

-----------------------------------------------------------------------------
(* Lemmas about the queue of completions. *)

(* What a queue holds after a completion is appended.                      *)
LEMMA AppendRange ==
  ASSUME NEW S, NEW s \in Seq(S), NEW e \in S
  PROVE  /\ Append(s, e) \in Seq(S)
         /\ Range(Append(s, e)) = Range(s) \cup {e}
         /\ IsInjective(s) /\ e \notin Range(s) => IsInjective(Append(s, e))
<1>1. /\ Append(s, e) \in Seq(S)
      /\ Len(Append(s, e)) = Len(s) + 1 /\ Len(s) \in Nat
      /\ \A n \in 1 .. Len(s) : Append(s, e)[n] = s[n]
      /\ Append(s, e)[Len(s) + 1] = e
  OBVIOUS
<1>2. DOMAIN Append(s, e) = DOMAIN s \cup {Len(s) + 1} /\ DOMAIN s = 1 .. Len(s)
  BY <1>1
<1>3. Range(Append(s, e)) = Range(s) \cup {e}
  BY <1>1, <1>2 DEF Range
<1>4. ASSUME IsInjective(s), e \notin Range(s)
      PROVE  IsInjective(Append(s, e))
  BY <1>1, <1>2, <1>4 DEF IsInjective, Range
<1> QED
  BY <1>1, <1>3, <1>4

(* ... and after the first one is taken.                                   *)
LEMMA TailRange ==
  ASSUME NEW S, NEW s \in Seq(S), s # <<>>, IsInjective(s)
  PROVE  /\ Head(s) \in Range(s) /\ Head(s) \in S
         /\ Tail(s) \in Seq(S)
         /\ Range(Tail(s)) = Range(s) \ {Head(s)}
         /\ IsInjective(Tail(s))
<1>1. /\ Tail(s) \in Seq(S) /\ Head(s) \in S
      /\ Len(s) \in Nat \ {0} /\ Len(Tail(s)) = Len(s) - 1
      /\ \A n \in 1 .. Len(s) - 1 : Tail(s)[n] = s[n + 1]
      /\ Head(s) = s[1]
  OBVIOUS
<1>2. DOMAIN s = 1 .. Len(s) /\ DOMAIN Tail(s) = 1 .. Len(s) - 1
  BY <1>1
<1>3. \A n \in DOMAIN Tail(s) :
        n + 1 \in DOMAIN s /\ n + 1 # 1 /\ Tail(s)[n] = s[n + 1]
  BY <1>1, <1>2
<1>4. \A m \in DOMAIN s : m = 1 \/ \E n \in DOMAIN Tail(s) : m = n + 1
  <2> SUFFICES ASSUME NEW m \in DOMAIN s, m # 1
               PROVE  m - 1 \in DOMAIN Tail(s) /\ m = (m - 1) + 1
    OBVIOUS
  <2> QED
    BY <1>1, <1>2
<1>5. 1 \in DOMAIN s
  BY <1>1, <1>2
<1>6. Range(Tail(s)) = Range(s) \ {Head(s)}
  <2>1. Range(Tail(s)) \subseteq Range(s) \ {Head(s)}
    BY <1>1, <1>3, <1>5 DEF Range, IsInjective
  <2>2. Range(s) \ {Head(s)} \subseteq Range(Tail(s))
    BY <1>1, <1>3, <1>4 DEF Range
  <2> QED
    BY <2>1, <2>2
<1>7. IsInjective(Tail(s))
  <2> SUFFICES ASSUME NEW a \in DOMAIN Tail(s), NEW b \in DOMAIN Tail(s),
                      Tail(s)[a] = Tail(s)[b]
               PROVE  a = b
    BY DEF IsInjective
  <2>1. a + 1 = b + 1
    BY <1>3 DEF IsInjective
  <2> QED
    BY <2>1, <1>2
<1> QED
  BY <1>1, <1>5, <1>6, <1>7 DEF Range

(* ... and after completions that were not in it are put behind.           *)
LEMMA ConcatRange ==
  ASSUME NEW S, NEW s \in Seq(S), NEW t \in Seq(S)
  PROVE  /\ s \o t \in Seq(S)
         /\ Range(s \o t) = Range(s) \cup Range(t)
         /\ IsInjective(s) /\ IsInjective(t) /\ Range(s) \cap Range(t) = {}
              => IsInjective(s \o t)
<1>1. /\ s \o t \in Seq(S) /\ Len(s) \in Nat /\ Len(t) \in Nat
      /\ DOMAIN s = 1 .. Len(s) /\ DOMAIN t = 1 .. Len(t)
      /\ DOMAIN (s \o t) = 1 .. Len(s) + Len(t)
  BY ConcatProperties
<1>2. \A n \in DOMAIN (s \o t) :
        (s \o t)[n] = IF n <= Len(s) THEN s[n] ELSE t[n - Len(s)]
  BY <1>1, ConcatProperties
<1>3. \A n \in DOMAIN (s \o t) :
        n \in DOMAIN s \/ (~(n <= Len(s)) /\ n - Len(s) \in DOMAIN t)
  BY <1>1
<1>4. /\ \A n \in DOMAIN s : n \in DOMAIN (s \o t) /\ (s \o t)[n] = s[n]
      /\ \A n \in DOMAIN t : /\ n + Len(s) \in DOMAIN (s \o t)
                             /\ (s \o t)[n + Len(s)] = t[n]
  <2>1. \A n \in DOMAIN t : n + Len(s) \in DOMAIN (s \o t) /\ ~(n + Len(s) <= Len(s))
                            /\ (n + Len(s)) - Len(s) = n
    BY <1>1
  <2> QED
    BY <1>1, <1>2, <2>1
<1>5. Range(s \o t) = Range(s) \cup Range(t)
  <2>1. Range(s \o t) \subseteq Range(s) \cup Range(t)
    BY <1>1, <1>2, <1>3 DEF Range
  <2>2. Range(s) \cup Range(t) \subseteq Range(s \o t)
    BY <1>4 DEF Range
  <2> QED
    BY <2>1, <2>2
<1>6. ASSUME IsInjective(s), IsInjective(t), Range(s) \cap Range(t) = {},
             NEW a \in DOMAIN (s \o t), NEW b \in DOMAIN (s \o t),
             (s \o t)[a] = (s \o t)[b]
      PROVE  a = b
  <2>0. /\ a <= Len(s) => (s \o t)[a] = s[a] /\ s[a] \in Range(s)
        /\ b <= Len(s) => (s \o t)[b] = s[b] /\ s[b] \in Range(s)
        /\ ~(a <= Len(s)) => (s \o t)[a] = t[a - Len(s)] /\ t[a - Len(s)] \in Range(t)
        /\ ~(b <= Len(s)) => (s \o t)[b] = t[b - Len(s)] /\ t[b - Len(s)] \in Range(t)
    BY <1>2, <1>3 DEF Range
  <2>1. CASE a <= Len(s) /\ b <= Len(s)
    BY <1>1, <1>2, <1>3, <1>6, <2>1 DEF IsInjective
  <2>2. CASE ~(a <= Len(s)) /\ ~(b <= Len(s))
    <3>1. a - Len(s) = b - Len(s)
      BY <1>1, <1>2, <1>3, <1>6, <2>2 DEF IsInjective
    <3> QED
      BY <3>1, <1>1
  <2>3. CASE a <= Len(s) /\ ~(b <= Len(s))
    BY <1>6, <2>0, <2>3
  <2>4. CASE ~(a <= Len(s)) /\ b <= Len(s)
    BY <1>6, <2>0, <2>4
  <2> QED
    BY <2>1, <2>2, <2>3, <2>4
<1>7. IsInjective(s) /\ IsInjective(t) /\ Range(s) \cap Range(t) = {}
        => IsInjective(s \o t)
  BY <1>6 DEF IsInjective
<1> QED
  BY <1>1, <1>5, <1>7

(* SetToSeq lists every element of a finite set once.                      *)
LEMMA SetToSeqFacts ==
  ASSUME NEW S, IsFiniteSet(S)
  PROVE  /\ SetToSeq(S) \in Seq(S)
         /\ Range(SetToSeq(S)) = S
         /\ IsInjective(SetToSeq(S))
<1>1. Cardinality(S) \in Nat /\ ExistsBijection(1 .. Cardinality(S), S)
  BY FS_CardinalityType
<1>2. PICK g \in [1 .. Cardinality(S) -> S] : IsInjective(g)
  BY <1>1 DEF ExistsBijection, Bijection, Injection
<1>3. /\ SetToSeq(S) \in [1 .. Cardinality(S) -> S]
      /\ IsInjective(SetToSeq(S))
  BY <1>2 DEF SetToSeq
<1> DEFINE f == SetToSeq(S)
<1>4. f \in Injection(1 .. Cardinality(S), S)
  BY <1>3 DEF Injection
<1>5. IsFiniteSet(1 .. Cardinality(S))
      /\ Cardinality(1 .. Cardinality(S)) = Cardinality(S)
  BY <1>1, FS_Interval
<1>6. f \in Surjection(1 .. Cardinality(S), S)
  BY <1>4, <1>5, FS_Injection
<1>7. Range(f) = S
  BY <1>3, <1>6 DEF Range, Surjection
<1> QED
  BY <1>1, <1>3, <1>7
-----------------------------------------------------------------------------
(* The inductive invariant: its initial states, and lemmas on what the     *)
(* steps have in common.                                                   *)

IInv ==
  /\ TypeOK
  /\ SocketsKnown
  /\ ServerInvariant

(* A set whose elements are all the same.                                  *)
LEMMA AtMostOne ==
  ASSUME NEW S, \A c, d \in S : c = d
  PROVE  Cardinality(S) <= 1
<1>1. CASE S = {}
  BY <1>1, FS_EmptySet
<1>2. CASE S # {}
  <2>1. PICK c \in S : S = {c}
    BY <1>2
  <2>2. Cardinality({c}) = 1
    BY FS_Singleton
  <2> QED
    BY <2>1, <2>2
<1> QED
  BY <1>1, <1>2

(* The smaller of two numbers.                                             *)
LEMMA MinFacts ==
  ASSUME NEW m \in Nat, NEW n \in Nat
  PROVE  /\ Min({m, n}) \in {m, n}
         /\ Min({m, n}) <= m /\ Min({m, n}) <= n
<1>1. \E x \in {m, n} : \A y \in {m, n} : x <= y
  OBVIOUS
<1>2. Min({m, n}) \in {m, n} /\ \A y \in {m, n} : Min({m, n}) <= y
  BY <1>1 DEF Min
<1> QED
  BY <1>2

(* The operations are finitely many, since the clients are.                *)
LEMMA OpsFacts ==
  /\ IsFiniteSet(Ops)
  /\ \A o \in Ops : /\ o = <<o[1], o[2]>>
                    /\ \/ o[1] \in {"accept", "signal"} /\ o[2] = Null
                       \/ o[1] \in {"read", "write"} /\ o[2] \in Clients
                    /\ o[2] \in Clients <=> o[2] # Null
<1>1. IsFiniteSet({"accept"}) /\ IsFiniteSet({"read"}) /\ IsFiniteSet({Null})
  BY FS_Singleton
<1>2. IsFiniteSet({"accept"} \cup {"signal"}) /\ IsFiniteSet({"read"} \cup {"write"})
  BY <1>1, FS_AddElement
<1>3. /\ {"accept", "signal"} = {"accept"} \cup {"signal"}
      /\ {"read", "write"} = {"read"} \cup {"write"}
  OBVIOUS
<1>4. IsFiniteSet({"accept", "signal"} \X {Null})
  BY <1>1, <1>2, <1>3, FS_Product
<1>5. IsFiniteSet({"read", "write"} \X Clients)
  BY <1>2, <1>3, FS_Product, ServerAssumption
<1>6. IsFiniteSet(Ops)
  BY <1>4, <1>5, FS_Union DEF Ops
<1> QED
  BY <1>6, ServerAssumption DEF Ops

LEMMA InitIInv == Init => IInv
<1> SUFFICES ASSUME Init
             PROVE  IInv
  OBVIOUS
<1> USE ServerAssumption DEF Init
<1>1. Done = {} /\ IsInjective(ready)
  BY DEF Done, Range, IsInjective
<1>2. Accepted = {}
  BY DEF Accepted
<1>3. Cardinality({}) = 0
  BY FS_EmptySet
<1>4. TypeOK
  <2>1. unsent \in [Clients -> Nat] /\ inbox \in [Clients -> Nat]
    OBVIOUS
  <2>2. ready \in Seq(Completion)
    OBVIOUS
  <2>3. Cardinality(sockets) <= MaxFds
    BY <1>3
  <2>4. /\ client \in [Clients -> {"away", "waiting", "answered", "gone"}]
        /\ got \in [Clients -> Nat]
        /\ reply \in [Clients -> {"none", "ok", "bad_request"}]
    OBVIOUS
  <2>5. handled \in [Clients -> Nobody] /\ memory \in [Clients -> SUBSET Remains]
    BY DEF Nobody
  <2>6. pending \subseteq Ops /\ reader \in Nobody
    BY DEF Nobody, Ops
  <2> QED
    BY <2>1, <2>2, <2>3, <2>4, <2>5, <2>6 DEF TypeOK
<1>5. SocketsKnown
  BY <1>2, <1>3 DEF SocketsKnown
<1>6. OneOperation
  BY <1>1 DEF OneOperation, Rival
<1>7. NothingBeforeAccept
  BY <1>1 DEF NothingBeforeAccept, Busy
<1>8. OneAccepted /\ StoppedForGood
  BY <1>2 DEF OneAccepted, StoppedForGood
<1> QED
  BY <1>4, <1>5, <1>6, <1>7, <1>8 DEF IInv, ServerInvariant

(* The completion whose handler runs leaves the queue; its operation had   *)
(* no rival.                                                               *)
LEMMA HeadFacts ==
  ASSUME IInv, ready # <<>>
  PROVE  /\ Head(ready) \in Done /\ Head(ready) \in Completion
         /\ OpOf(Head(ready)) \in Ops
         /\ Tail(ready) \in Seq(Completion)
         /\ Range(Tail(ready)) = Done \ {Head(ready)}
         /\ IsInjective(Tail(ready))
         /\ \A d \in Done : d # Head(ready) => ~Rival(OpOf(d), OpOf(Head(ready)))
         /\ \A o \in pending : ~Rival(o, OpOf(Head(ready)))
<1>1. ready \in Seq(Completion) /\ IsInjective(ready)
  BY DEF IInv, TypeOK, ServerInvariant, OneOperation
<1>2. /\ Head(ready) \in Range(ready) /\ Head(ready) \in Completion
      /\ Tail(ready) \in Seq(Completion)
      /\ Range(Tail(ready)) = Range(ready) \ {Head(ready)}
      /\ IsInjective(Tail(ready))
  BY <1>1, TailRange
<1> QED
  BY <1>2 DEF IInv, ServerInvariant, OneOperation, Done

(* The completions, with the reactor's and the handlers' changes.          *)
LEMMA CompletesFacts ==
  ASSUME IInv, NEW op, NEW c, NEW ec \in {"ok", "error", "aborted"},
         Completes(op, c, ec), UNCHANGED <<io, reader>>
  PROVE  /\ <<op, c>> \in pending /\ <<op, c>> \in Ops
         /\ ready' \in Seq(Completion)
         /\ Done' = Done \cup {[op |-> op, of |-> c, ec |-> ec]}
         /\ pending' = pending \ {<<op, c>>}
         /\ OneOperation'
         /\ \A x \in Clients : Busy(x)' => Busy(x)
<1> DEFINE d == [op |-> op, of |-> c, ec |-> ec]
<1>1. <<op, c>> \in pending /\ pending' = pending \ {<<op, c>>} /\ <<op, c>> \in Ops
  BY DEF Completes, IInv, TypeOK
<1>2. d \in Completion /\ OpOf(d) = <<op, c>>
  BY <1>1 DEF Completion, Ops, Nobody, OpOf
<1>3. Rival(<<op, c>>, <<op, c>>)
  BY DEF Rival
<1>4. d \notin Done
  BY <1>1, <1>2, <1>3 DEF IInv, ServerInvariant, OneOperation
<1>5. /\ ready' \in Seq(Completion) /\ Range(ready') = Range(ready) \cup {d}
      /\ IsInjective(ready')
  BY <1>2, <1>4, AppendRange DEF Completes, IInv, TypeOK, ServerInvariant,
     OneOperation, Done
<1>6. Done' = Done \cup {d}
  BY <1>5 DEF Done
<1>7. io = "idle" /\ io' = "idle"
  BY DEF Completes
<1> HIDE DEF d
<1>8. \A o \in pending' : o \in pending /\ ~Rival(o, <<op, c>>)
  BY <1>1 DEF IInv, ServerInvariant, OneOperation
<1>9. \A e \in Done : ~Rival(OpOf(e), <<op, c>>) /\ ~Rival(<<op, c>>, OpOf(e))
  BY <1>1 DEF IInv, ServerInvariant, OneOperation, Rival
<1>10. OneOperation'
  <2>1. \A e \in Done' : OpOf(e) \in Ops
    BY <1>1, <1>2, <1>6 DEF IInv, ServerInvariant, OneOperation
  <2>2. \A o, p \in pending' : Rival(o, p) => o = p
    BY <1>1 DEF IInv, ServerInvariant, OneOperation
  <2>3. \A e, f \in Done' : Rival(OpOf(e), OpOf(f)) => e = f
    BY <1>2, <1>6, <1>9 DEF IInv, ServerInvariant, OneOperation
  <2>4. \A o \in pending' : \A e \in Done' : ~Rival(o, OpOf(e))
    BY <1>2, <1>6, <1>8 DEF IInv, ServerInvariant, OneOperation
  <2> QED
    BY <1>5, <1>7, <2>1, <2>2, <2>3, <2>4 DEF OneOperation
<1>11. d.of = c
  BY DEF d
<1>12. \A x \in Clients : Busy(x)' => Busy(x)
  BY <1>1, <1>6, <1>7, <1>11 DEF Busy
<1> QED
  BY <1>1, <1>5, <1>6, <1>10, <1>12 DEF d
-----------------------------------------------------------------------------
(* The steps of the clients. *)

(* A step that leaves the operations alone.                                *)
LEMMA SameOperations ==
  ASSUME IInv, UNCHANGED <<pending, ready, io, reader>>
  PROVE  /\ OneOperation' /\ Done' = Done
         /\ \A x : Busy(x)' <=> Busy(x)
<1>1. Done' = Done
  BY DEF Done
<1> QED
  BY <1>1 DEF IInv, ServerInvariant, OneOperation, Busy

LEMMA ClientKeeps ==
  ASSUME IInv, NEW c \in Clients, Client(c)
  PROVE  IInv'
<1>1. /\ UNCHANGED <<sockets, connections, listening, pending, ready, io, reader,
                     results, signalled>>
  BY DEF Client, Connect, Send, Leave
<1>2. /\ OneOperation' /\ Done' = Done
      /\ \A x : Busy(x)' <=> Busy(x)
  BY <1>1, SameOperations
<1>3. Accepted' = Accepted
  BY <1>1 DEF Accepted
<1>4. SocketsKnown'
  BY <1>1, <1>3 DEF IInv, SocketsKnown
<1>5. OneAccepted'
  BY <1>1, <1>2, <1>3 DEF IInv, ServerInvariant, OneAccepted
<1>6. TypeOK' /\ NothingBeforeAccept' /\ StoppedForGood'
  <2>1. CASE Connect(c)
    <3>1. TypeOK'
      BY <1>1, <2>1 DEF Connect, IInv, TypeOK, results
    <3>2. NothingBeforeAccept'
      BY <1>1, <1>2, <2>1 DEF Connect, IInv, TypeOK, ServerInvariant, NothingBeforeAccept
    <3>3. StoppedForGood'
      BY <1>1, <2>1 DEF Connect, IInv, ServerInvariant, StoppedForGood
    <3> QED
      BY <3>1, <3>2, <3>3
  <2>2. CASE Send(c)
    <3>1. PICK n \in 1 .. unsent[c] :
            /\ unsent' = [unsent EXCEPT ![c] = @ - n]
            /\ inbox' = [inbox EXCEPT ![c] = @ + n]
      BY <2>2 DEF Send
    <3>2. unsent[c] - n \in Nat /\ inbox[c] + n \in Nat
      BY DEF IInv, TypeOK
    <3>3. TypeOK'
      BY <1>1, <2>2, <3>1, <3>2 DEF Send, IInv, TypeOK, results
    <3>4. NothingBeforeAccept' /\ StoppedForGood'
      BY <1>1, <1>2, <2>2 DEF Send, IInv, ServerInvariant, NothingBeforeAccept,
         StoppedForGood
    <3> QED
      BY <3>3, <3>4
  <2>3. CASE Leave(c)
    <3>1. TypeOK'
      BY <1>1, <2>3 DEF Leave, IInv, TypeOK, results
    <3>2. NothingBeforeAccept'
      BY <1>1, <1>2, <2>3 DEF Leave, IInv, TypeOK, ServerInvariant, NothingBeforeAccept
    <3>3. StoppedForGood'
      BY <1>1, <2>3 DEF Leave, IInv, ServerInvariant, StoppedForGood
    <3> QED
      BY <3>1, <3>2, <3>3
  <2> QED
    BY <2>1, <2>2, <2>3 DEF Client
<1> QED
  BY <1>2, <1>4, <1>5, <1>6 DEF IInv, ServerInvariant
-----------------------------------------------------------------------------
(* The steps of the reactor. *)

(* The kernel has the connection of one client; it becomes the one socket  *)
(* that is accepted and not started.                                       *)
LEMMA AcceptKeeps ==
  ASSUME IInv, AcceptCompletes
  PROVE  IInv'
<1>1. PICK c \in backlog \cup {Null} :
       \/ /\ c \in backlog
          /\ Cardinality(sockets) < MaxFds
          /\ Completes("accept", Null, "ok")
          /\ backlog' = backlog \ {c}
          /\ sockets' = sockets \cup {c}
       \/ /\ Cardinality(sockets) >= MaxFds
          /\ Completes("accept", Null, "error")
          /\ UNCHANGED <<backlog, sockets>>
  BY DEF AcceptCompletes
<1>2. UNCHANGED <<wire, connections, listening, io, reader, results, signalled>>
  BY DEF AcceptCompletes
<1>3. PICK ec \in {"ok", "error"} : Completes("accept", Null, ec)
  BY <1>1
<1>4. /\ <<"accept", Null>> \in pending
      /\ ready' \in Seq(Completion)
      /\ Done' = Done \cup {[op |-> "accept", of |-> Null, ec |-> ec]}
      /\ pending' = pending \ {<<"accept", Null>>}
      /\ OneOperation'
      /\ \A x \in Clients : Busy(x)' => Busy(x)
  BY <1>2, <1>3, CompletesFacts
<1>5. Accepted = {} /\ backlog \subseteq Clients
  <2>1. ~(\E d \in Done : d.op = "accept" /\ d.ec = "ok")
    <3> SUFFICES ASSUME NEW d \in Done, d.op = "accept"
                 PROVE  FALSE
      OBVIOUS
    <3>1. OpOf(d) = <<"accept", Null>>
      BY OpsFacts DEF IInv, ServerInvariant, OneOperation, Ops, OpOf
    <3> QED
      BY <1>4, <3>1 DEF IInv, ServerInvariant, OneOperation, Rival
  <2>2. listening
    BY <1>4 DEF IInv, ServerInvariant, StoppedForGood
  <2> QED
    BY <2>1, <2>2 DEF IInv, TypeOK, ServerInvariant, OneAccepted
<1>6. /\ sockets' \subseteq Clients /\ Cardinality(sockets') <= MaxFds
      /\ backlog' \subseteq backlog
      /\ Accepted' \subseteq {c} /\ sockets \subseteq sockets'
      /\ Accepted' # {} => ec = "ok" /\ c \in backlog
  <2>1. CASE sockets' = sockets
    BY <1>2, <1>1, <1>5, <2>1 DEF IInv, TypeOK, Accepted
  <2>2. CASE /\ c \in backlog
             /\ Cardinality(sockets) < MaxFds
             /\ Completes("accept", Null, "ok")
             /\ backlog' = backlog \ {c}
             /\ sockets' = sockets \cup {c}
    <3>1. Cardinality(sockets') <= Cardinality(sockets) + 1 /\ Cardinality(sockets) \in Nat
      <4>1. IsFiniteSet(sockets)
        BY FS_Subset, ServerAssumption DEF IInv, TypeOK
      <4>2. Cardinality(sockets) \in Nat
        BY <4>1, FS_CardinalityType
      <4>3. Cardinality(sockets \cup {c}) \in {Cardinality(sockets), Cardinality(sockets) + 1}
        BY <4>1, FS_AddElement
      <4> QED
        BY <2>2, <4>2, <4>3
    <3>2. Cardinality(sockets') <= MaxFds
      <4>1. Cardinality(sockets') \in Nat
        BY <2>2, <1>5, FS_Subset, FS_CardinalityType, ServerAssumption DEF IInv, TypeOK
      <4> QED
        BY <2>2, <3>1, <4>1, ServerAssumption
    <3>3. <<"accept", Null>> \in pending /\ ec = "ok"
      <4>1. /\ [op |-> "accept", of |-> Null, ec |-> "ok"] = ready'[Len(ready) + 1]
            /\ [op |-> "accept", of |-> Null, ec |-> ec] = ready'[Len(ready) + 1]
        BY <1>3, <2>2 DEF Completes, IInv, TypeOK
      <4> QED
        BY <1>4, <4>1
    <3> QED
      BY <1>2, <1>5, <2>2, <3>2, <3>3 DEF IInv, TypeOK, Accepted
  <2> QED
    BY <1>1, <2>1, <2>2
<1>7. TypeOK'
  BY <1>2, <1>4, <1>6 DEF IInv, TypeOK, wire, results
<1>8. SocketsKnown'
  <2>1. Cardinality(Accepted') <= 1
    BY <1>6, AtMostOne
  <2> QED
    BY <1>2, <1>4, <1>6, <2>1 DEF IInv, SocketsKnown
<1>9. NothingBeforeAccept'
  <2>1. \A x \in Clients : x \in sockets' => x \in sockets \/ x \in backlog \ backlog'
    BY <1>1
  <2>2. \A x \in Clients : client'[x] = client[x]
    BY <1>2 DEF wire
  <2> QED
    BY <1>4, <1>6, <2>1, <2>2 DEF IInv, ServerInvariant, NothingBeforeAccept
<1>10. OneAccepted'
  <2>1. Accepted' # {} => c \in Clients /\ ~Busy(c)'
    <3>1. ASSUME c \in backlog
          PROVE  c \in Clients /\ ~Busy(c)
      BY <1>5, <3>1 DEF IInv, ServerInvariant, NothingBeforeAccept
    <3> QED
      BY <1>4, <1>6, <3>1
  <2>2. ASSUME Accepted' # {}
        PROVE  \E d \in Done' : d.op = "accept" /\ d.ec = "ok"
    <3> DEFINE d == [op |-> "accept", of |-> Null, ec |-> ec]
    <3>1. d \in Done' /\ d.op = "accept" /\ d.ec = "ok"
      BY <1>4, <1>6, <2>2
    <3> QED
      BY <3>1
  <2> QED
    BY <1>6, <2>1, <2>2 DEF OneAccepted
<1>11. StoppedForGood'
  BY <1>2, <1>4 DEF IInv, ServerInvariant, StoppedForGood
<1> QED
  BY <1>4, <1>7, <1>8, <1>9, <1>10, <1>11 DEF IInv, ServerInvariant

(* A read, a write or the signal completes.                                *)
LEMMA CompletionKeeps ==
  ASSUME IInv,
         \/ \E c \in Clients : ReadCompletes(c) \/ WriteCompletes(c)
         \/ SignalCompletes
  PROVE  IInv'
<1>1. /\ UNCHANGED <<backlog, sockets, connections, listening, io, reader, unsent,
                     reply, handled, memory, freed, signalled>>
      /\ \E op \in {"read", "write", "signal"}, c \in Nobody, ec \in {"ok", "error"} :
           Completes(op, c, ec)
      /\ got' \in [Clients -> Nat] /\ inbox' \in [Clients -> Nat]
      /\ client' \in [Clients -> {"away", "waiting", "answered", "gone"}]
      /\ \A x \in Clients : /\ client'[x] = "away" <=> client[x] = "away"
                            /\ \/ client[x] = "waiting" /\ x \notin backlog
                               \/ client'[x] = client[x]
  <2>1. CASE SignalCompletes
    BY <2>1 DEF SignalCompletes, wire, results, Nobody, IInv, TypeOK
  <2>2. CASE \E c \in Clients : ReadCompletes(c)
    <3>1. PICK c \in Clients : ReadCompletes(c)
      BY <2>2
    <3>2. /\ got' \in [Clients -> Nat]
          /\ inbox' \in [Clients -> Nat]
      <4>1. CASE UNCHANGED <<got, inbox>>
        BY <4>1 DEF IInv, TypeOK
      <4>2. CASE /\ got' = [got EXCEPT ![c] = Min({inbox[c], BufferSize})]
                 /\ inbox' = [inbox EXCEPT ![c] = @ - Min({inbox[c], BufferSize})]
        <5>1. Min({inbox[c], BufferSize}) \in Nat
              /\ inbox[c] - Min({inbox[c], BufferSize}) \in Nat
          <6>1. inbox[c] \in Nat /\ BufferSize \in Nat
            BY ServerAssumption DEF IInv, TypeOK
          <6>2. /\ Min({inbox[c], BufferSize}) \in {inbox[c], BufferSize}
                /\ Min({inbox[c], BufferSize}) <= inbox[c]
            BY <6>1, MinFacts
          <6> QED
            BY <6>1, <6>2
        <5> QED
          BY <4>2, <5>1 DEF IInv, TypeOK
      <4> QED
        BY <3>1, <4>1, <4>2 DEF ReadCompletes
    <3> QED
      BY <3>1, <3>2 DEF ReadCompletes, Nobody, IInv, TypeOK
  <2>3. CASE \E c \in Clients : WriteCompletes(c)
    <3>1. PICK c \in Clients : WriteCompletes(c)
      BY <2>3
    <3>2. <<"write", c>> \in pending
      BY <3>1 DEF WriteCompletes, Completes
    <3>3. c \notin backlog
      BY <3>2 DEF IInv, ServerInvariant, NothingBeforeAccept, Busy
    <3>4. /\ UNCHANGED <<unsent, inbox, backlog, sockets, connections, listening, io,
                         reader, results, signalled>>
          /\ client' = [client EXCEPT ![c] = IF @ = "waiting" THEN "answered" ELSE @]
          /\ \E ec \in {"ok", "error"} : Completes("write", c, ec)
      BY <3>1 DEF WriteCompletes
    <3> QED
      BY <3>3, <3>4 DEF Nobody, IInv, TypeOK, results
  <2> QED
    BY <2>1, <2>2, <2>3
<1>2. PICK op \in {"read", "write", "signal"}, c \in Nobody, ec \in {"ok", "error"} :
        Completes(op, c, ec)
  BY <1>1
<1>3. /\ <<op, c>> \in pending
      /\ ready' \in Seq(Completion)
      /\ Done' = Done \cup {[op |-> op, of |-> c, ec |-> ec]}
      /\ pending' = pending \ {<<op, c>>}
      /\ OneOperation'
      /\ \A x \in Clients : Busy(x)' => Busy(x)
  BY <1>1, <1>2, CompletesFacts
<1>4. Accepted' = Accepted
  BY <1>1 DEF Accepted
<1>5. TypeOK'
  BY <1>1, <1>3 DEF IInv, TypeOK
<1>6. SocketsKnown'
  BY <1>1, <1>3, <1>4 DEF IInv, SocketsKnown
<1>7. NothingBeforeAccept'
  BY <1>1, <1>3 DEF IInv, ServerInvariant, NothingBeforeAccept
<1>8. OneAccepted'
  BY <1>1, <1>3, <1>4 DEF IInv, TypeOK, ServerInvariant, OneAccepted, Accepted
<1>9. StoppedForGood'
  BY <1>1, <1>3 DEF IInv, ServerInvariant, StoppedForGood
<1> QED
  BY <1>3, <1>5, <1>6, <1>7, <1>8, <1>9 DEF IInv, ServerInvariant
-----------------------------------------------------------------------------
(* The handlers.                                                           *)

(* A handler takes its completion from the queue and may start operations  *)
(* that have no rival.                                                     *)
LEMMA HandlerFacts ==
  ASSUME IInv, ready # <<>>, io = "idle", ready' = Tail(ready), io' = "idle",
         NEW N \in SUBSET Ops, pending' = pending \cup N,
         \A n, m \in N : Rival(n, m) => n = m,
         \A n \in N : /\ \A o \in pending : ~Rival(o, n)
                      /\ \A d \in Done : d # Head(ready) => ~Rival(n, OpOf(d))
  PROVE  /\ OneOperation'
         /\ ready' \in Seq(Completion) /\ pending' \subseteq Ops
         /\ Done' = Done \ {Head(ready)}
         /\ \A x \in Clients : Busy(x)' => Busy(x) \/ \E n \in N : n[2] = x
         /\ \A x \in Clients : x = Head(ready).of /\ (\A n \in N : n[2] # x) => ~Busy(x)'
<1>1. /\ Done' = Done \ {Head(ready)}
      /\ IsInjective(ready') /\ ready' \in Seq(Completion)
      /\ \A d \in Done : d # Head(ready) => ~Rival(OpOf(d), OpOf(Head(ready)))
      /\ \A o \in pending : ~Rival(o, OpOf(Head(ready)))
  BY HeadFacts DEF Done
<1>2. OneOperation'
  <2>1. \A d \in Done' : OpOf(d) \in Ops
    BY <1>1 DEF IInv, ServerInvariant, OneOperation
  <2>2. \A o, p \in pending' : Rival(o, p) => o = p
    BY DEF IInv, ServerInvariant, OneOperation, Rival
  <2>3. \A e, f \in Done' : Rival(OpOf(e), OpOf(f)) => e = f
    BY <1>1 DEF IInv, ServerInvariant, OneOperation
  <2>4. \A o \in pending' : \A e \in Done' : ~Rival(o, OpOf(e))
    BY <1>1 DEF IInv, ServerInvariant, OneOperation
  <2> QED
    BY <1>1, <2>1, <2>2, <2>3, <2>4 DEF OneOperation
<1>3. \A x \in Clients : Busy(x)' => Busy(x) \/ \E n \in N : n[2] = x
  BY <1>1 DEF Busy
<1>4. ASSUME NEW x \in Clients, x = Head(ready).of, \A n \in N : n[2] # x
      PROVE  ~Busy(x)'
  <2>1. x # Null
    BY ServerAssumption
  <2>2. \A d \in Done : d # Head(ready) => d.of # x
    BY <1>1, <1>4, <2>1 DEF Rival, OpOf
  <2>3. \A o \in pending : o[2] # x
    BY <1>1, <1>4, <2>1 DEF Rival, OpOf
  <2> QED
    BY <1>1, <1>4, <2>2, <2>3 DEF Busy
<1>5. pending' \subseteq Ops
  BY DEF IInv, TypeOK
<1> QED
  BY <1>1, <1>2, <1>3, <1>4, <1>5

(* The handlers that only take their completion: too late an accept, an    *)
(* aborted operation, a reply written.                                     *)
LEMMA NothingToDoKeeps ==
  ASSUME IInv, ready # <<>>, io = "idle", ready' = Tail(ready),
         listening => Head(ready).op # "accept",
         UNCHANGED <<wire, backlog, sockets, connections, listening, pending, io,
                     reader, results, signalled>>
  PROVE  IInv'
<1>1. /\ OneOperation'
      /\ ready' \in Seq(Completion)
      /\ Done' = Done \ {Head(ready)}
      /\ \A x \in Clients : Busy(x)' => Busy(x)
  <2>1. PICK N \in SUBSET Ops : N = {}
    OBVIOUS
  <2>2. pending' = pending \cup N /\ io' = "idle"
    BY <2>1
  <2> QED
    BY <2>1, <2>2, HandlerFacts
<1>2. Accepted' = Accepted
  BY DEF Accepted
<1>3. TypeOK'
  BY <1>1 DEF IInv, TypeOK, wire, results
<1>4. SocketsKnown'
  BY <1>2 DEF IInv, SocketsKnown
<1>5. NothingBeforeAccept'
  BY <1>1 DEF IInv, ServerInvariant, NothingBeforeAccept, wire
<1>6. OneAccepted'
  BY <1>1, <1>2 DEF IInv, TypeOK, ServerInvariant, OneAccepted, Accepted
<1>7. StoppedForGood'
  BY DEF IInv, ServerInvariant, StoppedForGood
<1> QED
  BY <1>1, <1>3, <1>4, <1>5, <1>6, <1>7 DEF IInv, ServerInvariant

(* The handler of an accept, while the acceptor is open.                   *)
LEMMA AcceptHandlerKeeps ==
  ASSUME IInv, StartConnection \/ AcceptAgain
  PROVE  IInv'
<1>1. /\ ready # <<>> /\ io = "idle" /\ io' = "idle" /\ ready' = Tail(ready)
      /\ listening /\ Head(ready).op = "accept"
      /\ UNCHANGED <<wire, backlog, sockets, listening, reader, got, reply, handled,
                     signalled>>
  BY DEF StartConnection, AcceptAgain, Runs, results
<1>2. /\ Head(ready) \in Done /\ OpOf(Head(ready)) = <<"accept", Null>>
      /\ \A d \in Done : d # Head(ready) => ~Rival(OpOf(d), <<"accept", Null>>)
      /\ \A o \in pending : ~Rival(o, <<"accept", Null>>)
  <2>1. OpOf(Head(ready)) \in Ops /\ OpOf(Head(ready))[1] = "accept"
    BY <1>1, HeadFacts DEF OpOf
  <2>2. OpOf(Head(ready)) = <<"accept", Null>>
    BY <2>1 DEF Ops
  <2> QED
    BY <1>1, <2>2, HeadFacts
<1>3. /\ memory' \in [Clients -> SUBSET Remains] /\ freed' \subseteq Clients
  <2>1. CASE StartConnection
    <3>1. PICK old \in Garbage \cup {{c} : c \in freed} :
            /\ memory' = [c \in Clients |->
                            IF c \in Accepted /\ Body[c] > 0 THEN old ELSE memory[c]]
            /\ freed' = freed \ old
      BY <2>1 DEF StartConnection
    <3>2. old \subseteq Remains
      BY ServerAssumption DEF IInv, TypeOK, Remains
    <3> QED
      BY <3>1, <3>2 DEF IInv, TypeOK
  <2>2. CASE AcceptAgain
    BY <2>2 DEF AcceptAgain, IInv, TypeOK, results
  <2> QED
    BY <2>1, <2>2
<1> DEFINE new == IF Head(ready).ec = "ok" THEN Accepted ELSE {}
           N == {<<"read", c>> : c \in new} \cup {<<"accept", Null>>}
<1>4. /\ connections' = connections \cup new
      /\ pending' = pending \cup N
  BY DEF StartConnection, AcceptAgain
<1>5. new \subseteq Accepted /\ new \subseteq Clients /\ Accepted' = {}
  <2>1. Accepted # {} => Head(ready).ec = "ok"
    <3> SUFFICES ASSUME Accepted # {}
                 PROVE  Head(ready).ec = "ok"
      OBVIOUS
    <3>1. PICK d \in Done : d.op = "accept" /\ d.ec = "ok"
      BY <1>1 DEF IInv, ServerInvariant, OneAccepted
    <3>2. OpOf(d) \in Ops /\ OpOf(d)[1] = "accept"
      BY <3>1 DEF OpOf, IInv, ServerInvariant, OneOperation
    <3>3. OpOf(d) = <<"accept", Null>>
      BY <3>2 DEF Ops
    <3>4. Rival(OpOf(d), <<"accept", Null>>)
      BY <3>3 DEF Rival
    <3> QED
      BY <1>2, <3>1, <3>4
  <2>2. Accepted' = sockets \ (connections \cup new)
    BY <1>1, <1>4 DEF Accepted
  <2>3. Accepted \subseteq Clients /\ sockets \ connections = Accepted
    BY DEF Accepted, IInv, TypeOK
  <2>4. Accepted \subseteq new
    BY <2>1
  <2>5. new \subseteq Accepted
    OBVIOUS
  <2> HIDE DEF new
  <2> QED
    BY <2>2, <2>3, <2>4, <2>5
<1> HIDE DEF new
<1>6. /\ N \subseteq Ops
      /\ \A n, m \in N : Rival(n, m) => n = m
      /\ \A n \in N : /\ \A o \in pending : ~Rival(o, n)
                      /\ \A d \in Done : d # Head(ready) => ~Rival(n, OpOf(d))
  <2>1. N \subseteq Ops
    BY <1>5 DEF Ops
  <2>2. \A n, m \in N : Rival(n, m) => n = m
    BY <1>5, ServerAssumption DEF Rival
  <2>3. ASSUME NEW c \in new
        PROVE  /\ \A o \in pending : ~Rival(o, <<"read", c>>)
               /\ \A d \in Done : ~Rival(<<"read", c>>, OpOf(d))
    <3>1. ~Busy(c)
      BY <1>5, <2>3 DEF IInv, ServerInvariant, OneAccepted
    <3> QED
      BY <3>1 DEF Busy, Rival, OpOf
  <2>4. \A d \in Done : d # Head(ready) => ~Rival(<<"accept", Null>>, OpOf(d))
    BY <1>2 DEF Rival, OpOf
  <2> QED
    BY <1>2, <2>1, <2>2, <2>3, <2>4
<1>7. /\ OneOperation'
      /\ ready' \in Seq(Completion) /\ pending' \subseteq Ops
      /\ Done' = Done \ {Head(ready)}
      /\ \A x \in Clients : Busy(x)' => Busy(x) \/ \E n \in N : n[2] = x
  <2> HIDE DEF N
  <2> QED
    BY <1>1, <1>4, <1>6, HandlerFacts
<1>8. \A x \in Clients : Busy(x)' => Busy(x) \/ x \in sockets
  <2>1. \A n \in N : n[2] \in sockets \/ n[2] = Null
    BY <1>5 DEF Accepted
  <2> QED
    BY <1>7, <2>1, ServerAssumption
<1>9. TypeOK'
  BY <1>1, <1>3, <1>4, <1>5, <1>7 DEF IInv, TypeOK, wire
<1>10. SocketsKnown'
  <2>1. connections' \subseteq sockets'
    BY <1>1, <1>4, <1>5 DEF IInv, SocketsKnown, Accepted
  <2>2. Cardinality(Accepted') <= 1
    BY <1>5, AtMostOne
  <2>3. \A o \in pending' : o[1] \in {"read", "write"} => o[2] \in connections'
    BY <1>4 DEF IInv, SocketsKnown
  <2> QED
    BY <2>1, <2>2, <2>3 DEF SocketsKnown
<1>11. NothingBeforeAccept'
  BY <1>1, <1>8 DEF IInv, ServerInvariant, NothingBeforeAccept, wire
<1>12. OneAccepted' /\ StoppedForGood'
  BY <1>1, <1>5 DEF OneAccepted, StoppedForGood
<1> QED
  BY <1>7, <1>9, <1>10, <1>11, <1>12 DEF IInv, ServerInvariant

(* A read or a write that failed: the connection is forgotten; it has no   *)
(* other operation that would keep it.                                     *)
LEMMA FailureKeeps ==
  ASSUME IInv, NEW op \in {"read", "write"}, ConnectionFails(op)
  PROVE  IInv'
<1>0. PICK c : c = Head(ready).of
  OBVIOUS
<1>1. /\ ready # <<>> /\ io = "idle" /\ ready' = Tail(ready)
      /\ Head(ready).op = op
      /\ connections' = connections \ {c} /\ sockets' = sockets \ {c}
      /\ freed' \in {freed, freed \cup {c}}
      /\ UNCHANGED <<wire, backlog, listening, pending, io, reader, got, reply, handled,
                     memory, signalled>>
  BY <1>0 DEF ConnectionFails, Runs, Stop
<1>2. c \in Clients /\ Head(ready) \in Done
  <2>1. OpOf(Head(ready)) \in Ops /\ OpOf(Head(ready)) = <<op, c>>
    BY <1>0, <1>1, HeadFacts DEF OpOf
  <2> QED
    BY <1>1, <2>1, HeadFacts DEF Ops
<1>3. /\ OneOperation'
      /\ ready' \in Seq(Completion)
      /\ Done' = Done \ {Head(ready)}
      /\ \A x \in Clients : Busy(x)' => Busy(x)
      /\ ~Busy(c)'
  <2>1. PICK N \in SUBSET Ops : N = {}
    OBVIOUS
  <2>2. pending' = pending \cup N /\ io' = "idle"
    BY <1>1, <2>1
  <2> QED
    BY <1>0, <1>1, <1>2, <2>1, <2>2, HandlerFacts
<1>4. Busy(c)
  BY <1>0, <1>2 DEF Busy
<1>5. Accepted' = Accepted /\ c \notin Accepted
  <2>1. c \notin Accepted
    BY <1>4 DEF IInv, ServerInvariant, OneAccepted
  <2> QED
    BY <1>1, <2>1 DEF Accepted
<1>6. TypeOK'
  <2>1. Cardinality(sockets') <= MaxFds
    <3>1. IsFiniteSet(sockets)
      BY FS_Subset, ServerAssumption DEF IInv, TypeOK
    <3>2. sockets' \in SUBSET sockets
      BY <1>1
    <3>3. /\ Cardinality(sockets) \in Nat /\ Cardinality(sockets') \in Nat
          /\ Cardinality(sockets') <= Cardinality(sockets)
      BY <3>1, <3>2, FS_Subset, FS_CardinalityType
    <3> QED
      BY <3>3, ServerAssumption DEF IInv, TypeOK
  <2> QED
    BY <1>1, <1>2, <1>3, <2>1 DEF IInv, TypeOK, wire
<1>7. SocketsKnown'
  <2>1. \A o \in pending' : o[2] # c
    BY <1>1, <1>3 DEF Busy
  <2>2. connections' \subseteq sockets'
    BY <1>1 DEF IInv, SocketsKnown
  <2> QED
    BY <1>1, <1>5, <2>1, <2>2 DEF IInv, SocketsKnown
<1>8. NothingBeforeAccept'
  BY <1>1, <1>3 DEF IInv, ServerInvariant, NothingBeforeAccept, wire
<1>9. OneAccepted'
  <2>1. \A d \in Done : d.op = "accept" => d \in Done'
    BY <1>1, <1>3
  <2> QED
    BY <1>1, <1>3, <1>5, <2>1 DEF IInv, TypeOK, ServerInvariant, OneAccepted, Accepted
<1>10. StoppedForGood'
  BY <1>1 DEF IInv, ServerInvariant, StoppedForGood
<1> QED
  BY <1>3, <1>6, <1>7, <1>8, <1>9, <1>10 DEF IInv, ServerInvariant

(* The end of the process.                                                 *)
LEMMA ExitKeeps ==
  ASSUME IInv, Exit, inbox' \in [Clients -> Nat],
         UNCHANGED <<unsent, results>>, signalled' \in BOOLEAN
  PROVE  IInv'
<1>1. /\ io' = "exited" /\ reader' = Null /\ listening' = FALSE
      /\ backlog' = {} /\ sockets' = {} /\ connections' = {}
      /\ pending' = {} /\ ready' = <<>>
  BY DEF Exit
<1>2. Done' = {} /\ IsInjective(ready') /\ ready' \in Seq(Completion)
  <2>1. DOMAIN ready' = {}
    BY <1>1
  <2> QED
    BY <1>1, <2>1 DEF Done, Range, IsInjective
<1>3. client' \in [Clients -> {"away", "waiting", "answered", "gone"}]
  BY DEF Exit, Drop, IInv, TypeOK
<1>4. Accepted' = {} /\ Cardinality({}) = 0
  BY <1>1, FS_EmptySet DEF Accepted
<1>5. TypeOK'
  <2>1. Cardinality(sockets') <= MaxFds
    BY <1>1, <1>4, ServerAssumption
  <2>2. /\ got' \in [Clients -> Nat]
        /\ unsent' \in [Clients -> Nat]
        /\ reply' \in [Clients -> {"none", "ok", "bad_request"}]
        /\ handled' \in [Clients -> Nobody]
        /\ memory' \in [Clients -> SUBSET Remains]
        /\ freed' \subseteq Clients
    BY DEF IInv, TypeOK, results
  <2>3. reader' \in Nobody
    BY <1>1 DEF Nobody
  <2> QED
    BY <1>1, <1>2, <1>3, <2>1, <2>2, <2>3 DEF TypeOK
<1>6. SocketsKnown'
  BY <1>1, <1>4 DEF SocketsKnown
<1>7. OneOperation'
  BY <1>1, <1>2 DEF OneOperation
<1>8. NothingBeforeAccept'
  BY <1>1, <1>2 DEF NothingBeforeAccept, Busy
<1>9. OneAccepted' /\ StoppedForGood'
  BY <1>1, <1>4 DEF OneAccepted, StoppedForGood
<1> QED
  BY <1>5, <1>6, <1>7, <1>8, <1>9 DEF IInv, ServerInvariant

(* The completions of the operations that StopAll aborts.                  *)
LEMMA AbortedFacts ==
  ASSUME NEW ops \in SUBSET Ops
  PROVE  /\ Aborted(ops) \in Seq(Completion)
         /\ Range(Aborted(ops)) = {[op |-> o[1], of |-> o[2], ec |-> "aborted"] : o \in ops}
         /\ IsInjective(Aborted(ops))
<1> DEFINE done(o) == [op |-> o[1], of |-> o[2], ec |-> "aborted"]
           S == {done(o) : o \in ops}
           f == [o \in ops |-> done(o)]
<1>1. IsFiniteSet(ops)
  BY OpsFacts, FS_Subset
<1>2. \A o, p \in ops : done(o) = done(p) => o = p
  <2> SUFFICES ASSUME NEW o \in ops, NEW p \in ops, done(o) = done(p)
               PROVE  o = p
    OBVIOUS
  <2>1. done(o).op = o[1] /\ done(o).of = o[2] /\ done(p).op = p[1] /\ done(p).of = p[2]
    OBVIOUS
  <2>2. o = <<o[1], o[2]>> /\ p = <<p[1], p[2]>>
    BY OpsFacts
  <2> QED
    BY <2>1, <2>2
<1> HIDE DEF done
<1>3. f \in Bijection(ops, S)
  <2>1. f \in [ops -> S] /\ IsInjective(f)
    BY <1>2 DEF IsInjective
  <2>2. \A t \in S : \E o \in ops : f[o] = t
    OBVIOUS
  <2> QED
    BY <2>1, <2>2 DEF Bijection, Injection, Surjection
<1>4. IsFiniteSet(S)
  BY <1>1, <1>3, FS_Bijection DEF ExistsBijection
<1>5. S \subseteq Completion
  <2> SUFFICES ASSUME NEW o \in ops
               PROVE  done(o) \in Completion
    OBVIOUS
  <2>1. o[1] \in {"accept", "read", "write", "signal"} /\ o[2] \in Nobody
    BY OpsFacts DEF Nobody
  <2> QED
    BY <2>1 DEF done, Completion
<1>6. Aborted(ops) = SetToSeq(S)
  BY DEF Aborted, done
<1>7. /\ SetToSeq(S) \in Seq(S)
      /\ Range(SetToSeq(S)) = S
      /\ IsInjective(SetToSeq(S))
  BY <1>4, SetToSeqFacts
<1>8. SetToSeq(S) \in Seq(Completion)
  BY <1>5, <1>7, SeqMonotonic
<1> QED
  BY <1>6, <1>7, <1>8 DEF done

(* The signal: every operation that was pending is aborted, once.          *)
LEMMA StopAllKeeps ==
  ASSUME IInv, StopAll
  PROVE  IInv' /\ \A d \in Done' : d \in Done \/ d.ec = "aborted"
<1>1. /\ io = "idle" /\ ready # <<>> /\ io' = "idle"
      /\ listening' = FALSE /\ backlog' = {} /\ pending' = {}
      /\ Drop(backlog \cup connections)
      /\ connections' = {} /\ sockets' = sockets \ connections
      /\ ready' = Tail(ready) \o Aborted(pending)
      /\ UNCHANGED <<unsent, inbox, reader, results, signalled>>
  BY DEF StopAll
<1> DEFINE aborted == {[op |-> o[1], of |-> o[2], ec |-> "aborted"] : o \in pending}
<1>2. pending \in SUBSET Ops
  BY DEF IInv, TypeOK
<1>3. /\ Aborted(pending) \in Seq(Completion) /\ Range(Aborted(pending)) = aborted
      /\ IsInjective(Aborted(pending))
  BY <1>2, AbortedFacts
<1>4. \A d \in aborted : OpOf(d) \in pending /\ d.op = OpOf(d)[1] /\ d.of = OpOf(d)[2]
                         /\ d.ec = "aborted"
  BY <1>2, OpsFacts DEF OpOf
<1>5. \A d, e \in aborted : OpOf(d) = OpOf(e) => d = e
  BY DEF OpOf
<1> HIDE DEF aborted
<1>6. Range(Tail(ready)) \cap aborted = {}
  <2> SUFFICES ASSUME NEW d \in aborted, d \in Done
               PROVE  FALSE
    BY <1>1, HeadFacts
  <2>1. Rival(OpOf(d), OpOf(d))
    BY DEF Rival
  <2> QED
    BY <1>4, <2>1 DEF IInv, ServerInvariant, OneOperation
<1>7. /\ ready' \in Seq(Completion) /\ IsInjective(ready')
      /\ Done' = (Done \ {Head(ready)}) \cup aborted
  <2>1. /\ Tail(ready) \in Seq(Completion) /\ IsInjective(Tail(ready))
        /\ Range(Tail(ready)) = Done \ {Head(ready)}
    BY <1>1, HeadFacts
  <2>2. /\ ready' \in Seq(Completion) /\ IsInjective(ready')
        /\ Range(ready') = Range(Tail(ready)) \cup Range(Aborted(pending))
    <3>1. PICK t, a : t = Tail(ready) /\ a = Aborted(pending)
      OBVIOUS
    <3>2. /\ t \in Seq(Completion) /\ a \in Seq(Completion)
          /\ IsInjective(t) /\ IsInjective(a) /\ Range(t) \cap Range(a) = {}
      BY <1>3, <1>6, <2>1, <3>1
    <3>3. /\ t \o a \in Seq(Completion) /\ IsInjective(t \o a)
          /\ Range(t \o a) = Range(t) \cup Range(a)
      BY <3>2, ConcatRange
    <3> QED
      BY <1>1, <3>1, <3>3
  <2> QED
    BY <1>3, <2>1, <2>2 DEF Done
<1>8. OneOperation'
  <2>1. \A d \in Done' : OpOf(d) \in Ops
    BY <1>2, <1>4, <1>7 DEF IInv, ServerInvariant, OneOperation
  <2>2. \A d, e \in Done' : Rival(OpOf(d), OpOf(e)) => d = e
    <3> SUFFICES ASSUME NEW d \in Done', NEW e \in Done', Rival(OpOf(d), OpOf(e))
                 PROVE  d = e
      OBVIOUS
    <3>1. Rival(OpOf(e), OpOf(d))
      BY DEF Rival
    <3>2. CASE d \in Done /\ e \in Done
      BY <3>2 DEF IInv, ServerInvariant, OneOperation
    <3>3. CASE d \in aborted /\ e \in aborted
      BY <1>4, <1>5, <3>3 DEF IInv, ServerInvariant, OneOperation
    <3>4. CASE d \in aborted /\ e \in Done
      BY <1>4, <3>4 DEF IInv, ServerInvariant, OneOperation
    <3>5. CASE d \in Done /\ e \in aborted
      BY <1>4, <3>1, <3>5 DEF IInv, ServerInvariant, OneOperation
    <3> QED
      BY <1>7, <3>2, <3>3, <3>4, <3>5
  <2> QED
    BY <1>1, <1>7, <2>1, <2>2 DEF OneOperation
<1>9. \A x \in Clients : Busy(x)' => Busy(x)
  BY <1>1, <1>4, <1>7 DEF Busy
<1>10. Accepted' = Accepted
  BY <1>1 DEF Accepted
<1>11. /\ client' \in [Clients -> {"away", "waiting", "answered", "gone"}]
       /\ \A x \in Clients : client'[x] = "away" => client[x] = "away"
  BY <1>1 DEF Drop, IInv, TypeOK
<1>12. TypeOK'
  <2>1. /\ Cardinality(sockets') <= MaxFds
    <3>1. IsFiniteSet(sockets) /\ sockets' \in SUBSET sockets
      BY <1>1, FS_Subset, ServerAssumption DEF IInv, TypeOK
    <3>2. /\ Cardinality(sockets) \in Nat /\ Cardinality(sockets') \in Nat
          /\ Cardinality(sockets') <= Cardinality(sockets)
      BY <3>1, FS_Subset, FS_CardinalityType
    <3> QED
      BY <3>2, ServerAssumption DEF IInv, TypeOK
  <2> QED
    BY <1>1, <1>7, <1>11, <2>1 DEF IInv, TypeOK, results
<1>13. SocketsKnown'
  BY <1>1, <1>10 DEF IInv, SocketsKnown
<1>14. NothingBeforeAccept'
  BY <1>1, <1>9, <1>11 DEF IInv, ServerInvariant, NothingBeforeAccept
<1>15. OneAccepted' /\ StoppedForGood'
  BY <1>1, <1>9, <1>10 DEF IInv, TypeOK, ServerInvariant, OneAccepted, Accepted,
     StoppedForGood
<1>16. \A d \in Done' : d \in Done \/ d.ec = "aborted"
  BY <1>4, <1>7
<1> QED
  BY <1>8, <1>12, <1>13, <1>14, <1>15, <1>16 DEF IInv, ServerInvariant

(* A reply is written to a connection that has no operation: the queue is  *)
(* what is left of ready without its completion.                           *)
Served(c, queue) ==
  /\ queue \in Seq(Completion) /\ IsInjective(queue)
  /\ Range(queue) \subseteq Done
  /\ \A d \in Done : d.op = "accept" => d \in Range(queue)
  /\ \A d \in Range(queue) : d.of # c
  /\ \A o \in pending : o[2] # c
  /\ Busy(c)

LEMMA WriteKeeps ==
  ASSUME IInv, NEW c \in Clients, NEW queue, Served(c, queue), Write(c, queue),
         io' = "idle", UNCHANGED <<client, backlog, sockets, connections, listening>>
  PROVE  /\ ready' \in Seq(Completion) /\ pending' \subseteq Ops
         /\ SocketsKnown' /\ ServerInvariant'
         /\ pending' \subseteq pending \cup {<<"write", c>>}
         /\ \A d \in Done' : \/ d \in Range(queue)
                             \/ d.of = c /\ d.op = "write" /\ c \notin sockets
<1> DEFINE d == [op |-> "write", of |-> c, ec |-> "error"]
<1>1. \/ /\ c \in sockets
         /\ pending' = pending \cup {<<"write", c>>}
         /\ ready' = queue
      \/ /\ c \notin sockets
         /\ ready' = Append(queue, d)
         /\ pending' = pending
  BY DEF Write
<1>2. d \in Completion /\ OpOf(d) = <<"write", c>> /\ <<"write", c>> \in Ops
  BY DEF Completion, Nobody, OpOf, Ops
<1>3. d \notin Range(queue)
  BY DEF Served
<1>4. c # Null
  BY ServerAssumption
<1>5. /\ ready' \in Seq(Completion) /\ IsInjective(ready') /\ pending' \subseteq Ops
      /\ \/ /\ c \in sockets
            /\ pending' = pending \cup {<<"write", c>>}
            /\ Done' = Range(queue)
         \/ /\ c \notin sockets
            /\ pending' = pending
            /\ Done' = Range(queue) \cup {d}
  <2>1. CASE ready' = queue /\ pending' = pending \cup {<<"write", c>>} /\ c \in sockets
    BY <1>2, <2>1 DEF Done, Served, IInv, TypeOK
  <2>2. CASE ready' = Append(queue, d) /\ pending' = pending /\ c \notin sockets
    BY <1>2, <1>3, <2>2, AppendRange DEF Done, Served, IInv, TypeOK
  <2> QED
    BY <1>1, <2>1, <2>2
<1>6. /\ \A e \in Range(queue) : ~Rival(<<"write", c>>, OpOf(e)) /\ ~Rival(OpOf(e), <<"write", c>>)
      /\ \A o \in pending : ~Rival(o, <<"write", c>>) /\ ~Rival(<<"write", c>>, o)
  BY DEF Served, Rival, OpOf
<1>7. d.of = c /\ d.op = "write"
  OBVIOUS
<1> HIDE DEF d
<1>8. Range(queue) \subseteq Done
  BY DEF Served
<1>9. OneOperation'
  <2>1. \A e \in Done' : OpOf(e) \in Ops
    BY <1>2, <1>5, <1>8 DEF IInv, ServerInvariant, OneOperation
  <2>2. \A o, p \in pending' : Rival(o, p) => o = p
    BY <1>5, <1>6 DEF IInv, ServerInvariant, OneOperation
  <2>3. \A e, f \in Done' : Rival(OpOf(e), OpOf(f)) => e = f
    BY <1>2, <1>5, <1>6, <1>8 DEF IInv, ServerInvariant, OneOperation
  <2>4. \A o \in pending' : \A e \in Done' : ~Rival(o, OpOf(e))
    BY <1>2, <1>5, <1>6, <1>8 DEF IInv, ServerInvariant, OneOperation
  <2> QED
    BY <1>5, <2>1, <2>2, <2>3, <2>4 DEF OneOperation
<1>10. \A x \in Clients : Busy(x)' => Busy(x)
  <2>1. \A x \in Clients : x # c /\ Busy(x)' => Busy(x)
    BY <1>5, <1>7, <1>8 DEF Busy
  <2> QED
    BY <2>1 DEF Served
<1>11. Accepted' = Accepted /\ c \notin Accepted
  BY DEF Accepted, Served, IInv, ServerInvariant, OneAccepted
<1>12. SocketsKnown'
  BY <1>5, <1>11 DEF IInv, SocketsKnown, Accepted
<1>13. NothingBeforeAccept'
  BY <1>10 DEF IInv, ServerInvariant, NothingBeforeAccept
<1>14. OneAccepted'
  <2>1. \A e \in Done : e.op = "accept" => e \in Done'
    BY <1>5 DEF Served
  <2> QED
    BY <1>10, <1>11, <2>1 DEF IInv, TypeOK, ServerInvariant, OneAccepted, Accepted
<1>15. StoppedForGood'
  <2>1. ~listening => c \notin sockets
    BY <1>11 DEF IInv, ServerInvariant, StoppedForGood, Accepted
  <2> QED
    BY <1>5, <2>1 DEF IInv, ServerInvariant, StoppedForGood
<1>16. pending' \subseteq pending \cup {<<"write", c>>}
  BY <1>5
<1>17. \A e \in Done' : \/ e \in Range(queue)
                        \/ e.of = c /\ e.op = "write" /\ c \notin sockets
  <2>1. \A e \in Done' : e \in Range(queue) \/ (e = d /\ c \notin sockets)
    BY <1>5
  <2> TAKE e \in Done'
  <2>2. CASE e \in Range(queue)
    BY <2>2
  <2>3. CASE e = d /\ c \notin sockets
    BY <1>7, <2>3
  <2> QED
    BY <2>1, <2>2, <2>3
<1> QED
  BY <1>5, <1>9, <1>12, <1>13, <1>14, <1>15, <1>16, <1>17 DEF ServerInvariant

LEMMA ServedHead ==
  ASSUME IInv, NEW c \in Clients, ReadRuns(c)
  PROVE  Served(c, Tail(ready))
<1>1. /\ ready # <<>> /\ Head(ready).of = c /\ Head(ready).op = "read"
  BY DEF ReadRuns
<1>2. c # Null
  BY ServerAssumption
<1>3. Busy(c)
  BY <1>1, HeadFacts DEF Busy
<1> QED
  BY <1>1, <1>2, <1>3, HeadFacts DEF Served, Rival, OpOf

LEMMA ServedReader ==
  ASSUME IInv, io = "blocked"
  PROVE  reader \in Clients /\ Served(reader, ready)
BY DEF IInv, TypeOK, ServerInvariant, OneOperation, Served, Busy, Done

(* A request is handled.                                                   *)
LEMMA HandleKeeps ==
  ASSUME IInv, NEW c \in Clients, NEW queue, Served(c, queue), NEW whose \in Nobody,
         Handle(c, whose, queue), inbox' \in [Clients -> Nat]
  PROVE  IInv'
<1>1. CASE Exit /\ UNCHANGED <<unsent, results, signalled>>
  <2>1. signalled' \in BOOLEAN
    BY <1>1 DEF IInv, TypeOK
  <2> QED
    BY <1>1, <2>1, ExitKeeps
<1>2. CASE /\ Write(c, queue)
           /\ handled' = [handled EXCEPT ![c] = whose]
           /\ reply' = [reply EXCEPT ![c] = "ok"]
           /\ io' = "idle" /\ reader' = Null
           /\ UNCHANGED <<client, unsent, backlog, sockets, connections, listening, got,
                          memory, freed, signalled>>
  <2>1. /\ ready' \in Seq(Completion) /\ pending' \subseteq Ops
        /\ SocketsKnown' /\ ServerInvariant'
    BY <1>2, WriteKeeps
  <2>2. TypeOK'
    BY <1>2, <2>1 DEF IInv, TypeOK, Nobody
  <2> QED
    BY <2>1, <2>2 DEF IInv
<1> QED
  BY <1>1, <1>2 DEF Handle

(* The handler of a read: a reply, the end of the process, or a wait for   *)
(* the rest of the body.                                                   *)
LEMMA ReadHandlerKeeps ==
  ASSUME IInv, NEW c \in Clients, ReadHandler(c)
  PROVE  IInv'
<1>1. ReadRuns(c)
  BY DEF ReadHandler, ReadWithoutBody, ReadWholeBody, ReadOldBody, ReadBrokenBody, ReadOn,
     ReadOnClosed
<1>2. Served(c, Tail(ready)) /\ io = "idle" /\ ready # <<>>
  BY <1>1, ServedHead DEF ReadRuns
<1>3. inbox \in [Clients -> Nat] /\ c \in Nobody /\ Clients \subseteq Nobody
  BY DEF IInv, TypeOK, Nobody
<1>4. CASE ReadWithoutBody(c) \/ ReadWholeBody(c) \/ ReadOldBody(c)
  <2>1. /\ \E whose \in Nobody : Handle(c, whose, Tail(ready))
        /\ inbox' = inbox
    BY <1>3, <1>4 DEF ReadWithoutBody, ReadWholeBody, ReadOldBody
  <2> QED
    BY <1>2, <1>3, <2>1, HandleKeeps
<1>5. CASE ReadBrokenBody(c)
  <2>1. /\ Write(c, Tail(ready))
        /\ reply' = [reply EXCEPT ![c] = "bad_request"]
        /\ io' = "idle"
        /\ UNCHANGED <<client, unsent, inbox, backlog, sockets, connections, listening,
                       io, reader, got, handled, memory, freed, signalled>>
    BY <1>2, <1>5 DEF ReadBrokenBody, Refuse
  <2>2. /\ ready' \in Seq(Completion) /\ pending' \subseteq Ops
        /\ SocketsKnown' /\ ServerInvariant'
    BY <1>2, <2>1, WriteKeeps
  <2>3. TypeOK'
    BY <2>1, <2>2 DEF IInv, TypeOK
  <2> QED
    BY <2>2, <2>3 DEF IInv
<1>6. CASE ReadOn(c)
  <2>1. /\ io' = "blocked" /\ reader' = c /\ ready' = Tail(ready) /\ c \in sockets
        /\ UNCHANGED <<wire, backlog, sockets, connections, listening, pending, results,
                       signalled>>
    BY <1>6 DEF ReadOn
  <2>2. /\ ready' \in Seq(Completion) /\ IsInjective(ready')
        /\ Done' \subseteq Done
        /\ \A d \in Done : d.op = "accept" => d \in Done'
        /\ \A d \in Done' : d.of # c
        /\ \A o \in pending : o[2] # c
        /\ Busy(c)
    BY <1>2, <2>1 DEF Served, Done
  <2>3. \A x \in Clients : Busy(x)' => Busy(x)
    BY <2>1, <2>2 DEF Busy
  <2>4. Accepted' = Accepted /\ c \notin Accepted
    BY <2>1, <2>2 DEF Accepted, IInv, ServerInvariant, OneAccepted
  <2>5. TypeOK'
    BY <1>3, <2>1, <2>2 DEF IInv, TypeOK, wire, results
  <2>6. SocketsKnown'
    BY <2>1, <2>4 DEF IInv, SocketsKnown
  <2>7. OneOperation'
    BY <2>1, <2>2 DEF IInv, ServerInvariant, OneOperation
  <2>8. NothingBeforeAccept'
    BY <2>1, <2>3 DEF IInv, ServerInvariant, NothingBeforeAccept, wire
  <2>9. OneAccepted'
    BY <2>1, <2>2, <2>3, <2>4 DEF IInv, TypeOK, ServerInvariant, OneAccepted, Accepted
  <2>10. StoppedForGood'
    BY <2>1, <2>4 DEF IInv, ServerInvariant, StoppedForGood, Accepted
  <2> QED
    BY <2>5, <2>6, <2>7, <2>8, <2>9, <2>10 DEF IInv, ServerInvariant
<1>7. CASE ReadOnClosed(c)
  <2>1. Exit /\ UNCHANGED <<unsent, inbox, results, signalled>>
    BY <1>7 DEF ReadOnClosed
  <2>2. inbox' \in [Clients -> Nat] /\ signalled' \in BOOLEAN
    BY <2>1 DEF IInv, TypeOK
  <2> QED
    BY <2>1, <2>2, ExitKeeps
<1> QED
  BY <1>4, <1>5, <1>6, <1>7 DEF ReadHandler

(* The rest of a body arrives, or is cut off, or never arrives.            *)
LEMMA RestKeeps ==
  ASSUME IInv, RestArrives \/ RestCutOff \/ RestUnmapped \/ RestNeverArrives
  PROVE  IInv'
<1>1. reader \in Clients /\ Served(reader, ready) /\ reader \in Nobody
  BY ServedReader DEF RestArrives, RestCutOff, RestUnmapped, RestNeverArrives, Nobody
<1>2. /\ inbox[reader] \in Nat /\ Body[reader] \in Nat /\ BufferSize \in Nat
      /\ inbox \in [Clients -> Nat]
  BY <1>1, ServerAssumption DEF IInv, TypeOK
<1>3. CASE RestArrives
  <2>1. inbox[reader] - Body[reader] \in Nat
    BY <1>2, <1>3 DEF RestArrives
  <2>2. inbox' \in [Clients -> Nat]
    BY <1>2, <1>3, <2>1 DEF RestArrives
  <2> QED
    BY <1>1, <1>3, <2>2, HandleKeeps DEF RestArrives
<1>4. CASE RestCutOff
  <2>1. inbox[reader] - BufferSize \in Nat
    BY <1>2, <1>4 DEF RestCutOff
  <2>2. inbox' \in [Clients -> Nat]
    BY <1>2, <1>4, <2>1 DEF RestCutOff
  <2>3. /\ Write(reader, ready)
        /\ io' = "idle" /\ reader' = Null
        /\ reply' = [reply EXCEPT ![reader] = "bad_request"]
        /\ UNCHANGED <<client, unsent, backlog, sockets, connections, listening, got,
                       handled, memory, freed, signalled>>
    BY <1>4 DEF RestCutOff
  <2>4. /\ ready' \in Seq(Completion) /\ pending' \subseteq Ops
        /\ SocketsKnown' /\ ServerInvariant'
    BY <1>1, <2>3, WriteKeeps
  <2>5. TypeOK'
    BY <2>2, <2>3, <2>4 DEF IInv, TypeOK, Nobody
  <2> QED
    BY <2>4, <2>5 DEF IInv
<1>5. CASE RestUnmapped \/ RestNeverArrives
  <2>1. Exit /\ UNCHANGED <<unsent, inbox, results, signalled>>
    BY <1>5 DEF RestUnmapped, RestNeverArrives
  <2>2. inbox' \in [Clients -> Nat] /\ signalled' \in BOOLEAN
    BY <2>1 DEF IInv, TypeOK
  <2> QED
    BY <2>1, <2>2, ExitKeeps
<1> QED
  BY <1>3, <1>4, <1>5

(* The signal comes, or nothing is left to do.                             *)
LEMMA SignalKeeps ==
  ASSUME IInv, Signal \/ RunReturns
  PROVE  IInv'
<1>1. CASE Exit
  <2>1. UNCHANGED <<unsent, inbox, results>> /\ signalled' \in BOOLEAN
    BY DEF Signal, RunReturns, IInv, TypeOK
  <2>2. inbox' \in [Clients -> Nat]
    BY <2>1 DEF IInv, TypeOK
  <2> QED
    BY <1>1, <2>1, <2>2, ExitKeeps
<1>2. CASE /\ UNCHANGED <<client, backlog, sockets, connections, listening, pending,
                          ready, io, reader, unsent, inbox, results>>
           /\ signalled' = TRUE
  <2>1. /\ OneOperation' /\ Done' = Done
        /\ \A x : Busy(x)' <=> Busy(x)
    BY <1>2, SameOperations
  <2>2. Accepted' = Accepted
    BY <1>2 DEF Accepted
  <2>3. TypeOK'
    BY <1>2 DEF IInv, TypeOK, results
  <2>4. SocketsKnown'
    BY <1>2, <2>2 DEF IInv, SocketsKnown
  <2>5. NothingBeforeAccept' /\ OneAccepted' /\ StoppedForGood'
    BY <1>2, <2>1, <2>2 DEF IInv, ServerInvariant, NothingBeforeAccept, OneAccepted,
       StoppedForGood
  <2> QED
    BY <2>1, <2>3, <2>4, <2>5 DEF IInv, ServerInvariant
<1> QED
  BY <1>1, <1>2 DEF Signal, RunReturns

LEMMA StutterKeeps ==
  ASSUME IInv, UNCHANGED vars
  PROVE  IInv'
<1>1. /\ OneOperation' /\ Done' = Done
      /\ \A x : Busy(x)' <=> Busy(x)
  BY SameOperations DEF vars
<1>2. Accepted' = Accepted
  BY DEF vars, Accepted
<1>3. TypeOK'
  BY DEF IInv, TypeOK, vars
<1>4. SocketsKnown'
  BY <1>2 DEF IInv, SocketsKnown, vars
<1>5. NothingBeforeAccept' /\ OneAccepted' /\ StoppedForGood'
  BY <1>1, <1>2 DEF IInv, ServerInvariant, NothingBeforeAccept, OneAccepted,
     StoppedForGood, vars
<1> QED
  BY <1>1, <1>3, <1>4, <1>5 DEF IInv, ServerInvariant

(* The three handlers that only take their completion.                     *)
LEMMA TakenKeeps ==
  ASSUME IInv,
         \/ AcceptTooLate
         \/ \E op \in {"read", "write"} : ConnectionAborted(op)
         \/ ReplyWritten
  PROVE  IInv'
<1>1. /\ ready # <<>> /\ io = "idle" /\ ready' = Tail(ready)
      /\ listening => Head(ready).op # "accept"
      /\ UNCHANGED <<wire, backlog, sockets, connections, listening, pending, io,
                     reader, results, signalled>>
  BY DEF AcceptTooLate, ConnectionAborted, ReplyWritten, Runs
<1> QED
  BY <1>1, NothingToDoKeeps

LEMMA NextIInv == IInv /\ [Next]_vars => IInv'
<1> SUFFICES ASSUME IInv, [Next]_vars
             PROVE  IInv'
  OBVIOUS
<1>1. CASE \E c \in Clients : Client(c)
  BY <1>1, ClientKeeps
<1>2. CASE Reactor
  BY <1>2, AcceptKeeps, CompletionKeeps DEF Reactor
<1>3. CASE Handler
  BY <1>3, AcceptHandlerKeeps, TakenKeeps, ReadHandlerKeeps, RestKeeps, FailureKeeps,
     StopAllKeeps, SignalKeeps DEF Handler
<1>4. CASE Signal
  BY <1>4, SignalKeeps
<1>5. CASE UNCHANGED vars
  BY <1>5, StutterKeeps
<1> QED
  BY <1>1, <1>2, <1>3, <1>4, <1>5 DEF Next

LEMMA Invariance == Spec => []IInv
<1> QED
  BY InitIInv, NextIInv, PTL DEF Spec

(* Every variable of the server keeps its type, and the process never has  *)
(* more sockets open than it may (Server.cpp:35-52).                       *)
THEOREM ServerTypeCorrect == Spec => []TypeOK
<1>1. IInv => TypeOK
  BY DEF IInv
<1> QED
  BY <1>1, Invariance, PTL

(* The ConnectionManager knows every socket but the one just accepted, and *)
(* no operation is pending on a socket it does not know, whatever fails,   *)
(* leaves or is stopped (Server.cpp:35-62, ConnectionManager.cpp:5-19).    *)
THEOREM ManagerKnowsSockets == Spec => []SocketsKnown
<1>1. IInv => SocketsKnown
  BY DEF IInv
<1> QED
  BY <1>1, Invariance, PTL

(* No connection starts once the acceptor is closed (Server.cpp:39-41).    *)
THEOREM NoStartAfterStop == Spec => []NothingStartsAfterStop
<1>1. IInv => NothingStartsAfterStop
  BY DEF IInv, ServerInvariant, StoppedForGood, NothingStartsAfterStop
<1> QED
  BY <1>1, Invariance, PTL

(* A connection, the acceptor and the signal set never have two operations *)
(* at once; a client the acceptor has not got yet has nothing in the       *)
(* server; nothing is left to wait for once the acceptor is closed         *)
(* (Server.cpp:35-62, Connection.cpp:18-70).                               *)
THEOREM ServerInvariantHolds == Spec => []ServerInvariant
<1>1. IInv => ServerInvariant
  BY DEF IInv
<1> QED
  BY <1>1, Invariance, PTL
-----------------------------------------------------------------------------
(***************************************************************************)
(* As long as no client leaves before it is answered.                      *)
(***************************************************************************)

(* The end of the process leaves nothing that could fail.                  *)
LEMMA ClosedPatient ==
  ASSUME ~listening'
  PROVE  NothingFails'
BY DEF NothingFails

(* A step that starts no operation, closes no connection and changes no    *)
(* client that is still to be served.                                      *)
LEMMA CalmPatient ==
  ASSUME IInv, NothingFails,
         UNCHANGED <<listening, freed>>,
         connections \subseteq connections',
         Accepted' \subseteq Clients, backlog' \subseteq Clients,
         listening =>
           /\ \A d \in Done' : d \in Done \/ d.of = Null \/ d.ec = "ok"
           /\ \A c \in Clients : /\ ToServe(c)' => ToServe(c) /\ client'[c] = client[c]
                                 /\ c \in (backlog \cup Accepted)' => client'[c] = "waiting"
  PROVE  NothingFails'
BY DEF NothingFails

LEMMA ClientPatient ==
  ASSUME IInv, Impatient = {}, NothingFails, NEW c \in Clients, Client(c), IInv'
  PROVE  NothingFails'
<1>1. UNCHANGED <<sockets, connections, listening, pending, ready, io, reader, results>>
  BY DEF Client, Connect, Send, Leave
<1>2. /\ Done' = Done /\ Accepted' = Accepted
      /\ \A x : ToServe(x)' <=> ToServe(x)
  BY <1>1 DEF Done, Accepted, ToServe
<1>3. Accepted' \subseteq Clients /\ backlog' \subseteq Clients
  BY DEF IInv, TypeOK, Accepted
<1>4. ASSUME listening
      PROVE  \A x \in Clients :
               /\ ToServe(x) => client'[x] = client[x]
               /\ x \in backlog' \cup Accepted => client'[x] = "waiting"
  <2>1. \A x \in Clients : /\ ToServe(x) => client[x] = "waiting"
                           /\ x \in backlog \cup Accepted => client[x] = "waiting"
    BY <1>4 DEF NothingFails
  <2>2. CASE Connect(c)
    BY <2>1, <2>2 DEF Connect, IInv, TypeOK
  <2>3. CASE Send(c)
    BY <2>1, <2>3 DEF Send
  <2>4. CASE Leave(c)
    BY <2>1, <2>4 DEF Leave, IInv, TypeOK
  <2> QED
    BY <2>2, <2>3, <2>4 DEF Client
<1> QED
  BY <1>1, <1>2, <1>3, <1>4, CalmPatient DEF results

LEMMA ReactorPatient ==
  ASSUME IInv, NothingFails, Reactor, IInv'
  PROVE  NothingFails'
<1>1. UNCHANGED <<connections, listening, io, reader, freed>>
  BY DEF Reactor, AcceptCompletes, ReadCompletes, WriteCompletes, SignalCompletes, results
<1>2. Accepted' \subseteq Clients /\ backlog' \subseteq Clients
  BY DEF IInv, TypeOK, Accepted
<1>3. CASE AcceptCompletes
  <2>1. PICK ec \in {"ok", "error"} : Completes("accept", Null, ec)
    BY <1>3 DEF AcceptCompletes
  <2>2. /\ Done' = Done \cup {[op |-> "accept", of |-> Null, ec |-> ec]}
        /\ pending' = pending \ {<<"accept", Null>>}
    BY <1>1, <2>1, CompletesFacts
  <2>3. client' = client /\ (backlog \cup Accepted)' \subseteq backlog \cup Accepted
    BY <1>1, <1>3 DEF AcceptCompletes, wire, Accepted
  <2>4. \A c \in Clients : ToServe(c)' => ToServe(c)
    BY <1>1, <2>2, ServerAssumption DEF ToServe
  <2>5. listening => \A c \in Clients : c \in (backlog \cup Accepted)' => client'[c] = "waiting"
    BY <2>3 DEF NothingFails
  <2>6. \A d \in Done' : d \in Done \/ d.of = Null
    BY <2>2
  <2> QED
    BY <1>1, <1>2, <2>3, <2>4, <2>5, <2>6, CalmPatient
<1>4. CASE SignalCompletes
  <2>1. Completes("signal", Null, "ok") /\ UNCHANGED <<client, backlog, sockets>>
    BY <1>4 DEF SignalCompletes, wire
  <2>2. /\ Done' = Done \cup {[op |-> "signal", of |-> Null, ec |-> "ok"]}
        /\ pending' = pending \ {<<"signal", Null>>}
    BY <1>1, <2>1, CompletesFacts
  <2>3. \A c \in Clients : ToServe(c)' => ToServe(c)
    BY <1>1, <2>2, ServerAssumption DEF ToServe
  <2>4. Accepted' = Accepted
    BY <1>1, <2>1 DEF Accepted
  <2>5. listening => \A c \in Clients : c \in (backlog \cup Accepted)' => client'[c] = "waiting"
    BY <2>1, <2>4 DEF NothingFails
  <2>6. \A d \in Done' : d \in Done \/ d.of = Null
    BY <2>2
  <2> QED
    BY <1>1, <1>2, <2>1, <2>3, <2>5, <2>6, CalmPatient
<1>5. ASSUME NEW c \in Clients, ReadCompletes(c)
      PROVE  NothingFails'
  <2>1. PICK ec \in {"ok", "error"} :
          Completes("read", c, ec) /\ (ec = "error" => client[c] = "gone")
    BY <1>5 DEF ReadCompletes
  <2>2. UNCHANGED <<client, backlog, sockets>>
    BY <1>5 DEF ReadCompletes
  <2>3. /\ Done' = Done \cup {[op |-> "read", of |-> c, ec |-> ec]}
        /\ pending' = pending \ {<<"read", c>>} /\ <<"read", c>> \in pending
    BY <1>1, <2>1, CompletesFacts
  <2>4. \A x \in Clients : ToServe(x)' => ToServe(x)
    BY <1>1, <2>3 DEF ToServe
  <2>5. listening => client[c] = "waiting"
    BY <2>3 DEF NothingFails, ToServe
  <2>6. Accepted' = Accepted
    BY <1>1, <2>2 DEF Accepted
  <2>7. listening => \A x \in Clients : x \in (backlog \cup Accepted)' => client'[x] = "waiting"
    BY <2>2, <2>6 DEF NothingFails
  <2>8. listening => \A d \in Done' : d \in Done \/ d.ec = "ok"
    BY <2>1, <2>3, <2>5
  <2> QED
    BY <1>1, <1>2, <2>2, <2>4, <2>7, <2>8, CalmPatient
<1>6. ASSUME NEW c \in Clients, WriteCompletes(c)
      PROVE  NothingFails'
  <2>1. PICK ec \in {"ok", "error"} :
          Completes("write", c, ec) /\ (ec = "error" => client[c] = "gone")
    BY <1>6 DEF WriteCompletes
  <2>2. /\ UNCHANGED <<backlog, sockets>>
        /\ \A x \in Clients : x # c => client'[x] = client[x]
    BY <1>6 DEF WriteCompletes, IInv, TypeOK
  <2>3. /\ Done' = Done \cup {[op |-> "write", of |-> c, ec |-> ec]}
        /\ pending' = pending \ {<<"write", c>>} /\ <<"write", c>> \in pending
    BY <1>1, <2>1, CompletesFacts
  <2>4. ~ToServe(c)' /\ Busy(c)
    <3>1. Busy(c)
      BY <2>3 DEF Busy
    <3>2. \A o \in pending : o[2] = c => o = <<"write", c>>
      BY <2>3, ServerAssumption DEF IInv, ServerInvariant, OneOperation, Rival
    <3>3. \A d \in Done : d.of # c
      BY <2>3, ServerAssumption DEF IInv, ServerInvariant, OneOperation, Rival, OpOf
    <3>4. ~(io = "blocked" /\ reader = c)
      BY <2>3 DEF IInv, ServerInvariant, OneOperation
    <3> QED
      BY <1>1, <2>3, <3>1, <3>2, <3>3, <3>4 DEF ToServe
  <2>5. \A x \in Clients : ToServe(x)' => ToServe(x) /\ x # c
    BY <1>1, <2>3, <2>4 DEF ToServe
  <2>6. listening => client[c] = "waiting"
    BY <2>3 DEF NothingFails, ToServe
  <2>7. Accepted' = Accepted /\ c \notin backlog \cup Accepted
    BY <1>1, <2>2, <2>4 DEF Accepted, IInv, ServerInvariant, OneAccepted, NothingBeforeAccept
  <2>8. listening => \A x \in Clients : x \in (backlog \cup Accepted)' => client'[x] = "waiting"
    BY <2>2, <2>7 DEF NothingFails
  <2>9. listening => \A d \in Done' : d \in Done \/ d.ec = "ok"
    BY <2>1, <2>3, <2>6
  <2> QED
    BY <1>1, <1>2, <2>2, <2>5, <2>8, <2>9, CalmPatient
<1> QED
  BY <1>3, <1>4, <1>5, <1>6 DEF Reactor

LEMMA StartPatient ==
  ASSUME IInv, NothingFails, StartConnection \/ AcceptAgain, IInv'
  PROVE  NothingFails'
<1>1. /\ ready # <<>> /\ ready' = Tail(ready) /\ listening /\ listening'
      /\ io' = io /\ reader' = reader /\ io = "idle"
      /\ UNCHANGED <<client, backlog, sockets>>
      /\ connections \subseteq connections'
      /\ pending' \subseteq pending \cup {<<"read", c>> : c \in Accepted \cap connections'}
                            \cup {<<"accept", Null>>}
  BY DEF StartConnection, AcceptAgain, Runs, wire, results
<1>2. Done' \subseteq Done
  BY <1>1, HeadFacts DEF Done
<1>3. freed' = {}
  <2>1. freed = {}
    BY <1>1 DEF NothingFails
  <2> QED
    BY <2>1 DEF StartConnection, AcceptAgain, results
<1>4. \A c \in Clients : c \in backlog \cup Accepted => client[c] = "waiting"
  BY <1>1 DEF NothingFails
<1>5. Accepted' \subseteq Accepted /\ Accepted \subseteq Clients /\ backlog \subseteq Clients
  BY <1>1 DEF Accepted, IInv, TypeOK
<1>6. \A c \in Clients : ToServe(c)' => ToServe(c) \/ c \in Accepted \cap connections'
  BY <1>1, <1>2, ServerAssumption DEF ToServe
<1>7. \A c \in Clients : ToServe(c)' => client'[c] = "waiting" /\ c \in connections'
  BY <1>1, <1>4, <1>6 DEF NothingFails
<1> QED
  BY <1>1, <1>2, <1>3, <1>4, <1>5, <1>7 DEF NothingFails

(* Handlers that take a completion and start nothing.                      *)
LEMMA TakenPatient ==
  ASSUME IInv, NothingFails, IInv',
         \/ AcceptTooLate
         \/ \E op \in {"read", "write"} : ConnectionAborted(op)
         \/ ReplyWritten
  PROVE  NothingFails'
<1>1. /\ ready # <<>> /\ ready' = Tail(ready)
      /\ UNCHANGED <<client, backlog, sockets, connections, listening, pending, io,
                     reader, freed>>
  BY DEF AcceptTooLate, ConnectionAborted, ReplyWritten, Runs, wire, results
<1>2. Done' \subseteq Done /\ Accepted' = Accepted
  BY <1>1, HeadFacts DEF Done, Accepted
<1>3. \A c \in Clients : ToServe(c)' => ToServe(c)
  BY <1>1, <1>2 DEF ToServe
<1>4. Accepted' \subseteq Clients /\ backlog' \subseteq Clients
  BY DEF IInv, TypeOK, Accepted
<1>5. listening => \A c \in Clients : c \in (backlog \cup Accepted)' => client'[c] = "waiting"
  BY <1>1, <1>2 DEF NothingFails
<1> QED
  BY <1>1, <1>2, <1>3, <1>4, <1>5, CalmPatient

(* No operation fails before the acceptor is closed.                       *)
LEMMA FailurePatient ==
  ASSUME IInv, NothingFails, NEW op \in {"read", "write"}, ConnectionFails(op)
  PROVE  NothingFails'
<1>1. /\ ready # <<>> /\ Head(ready).op = op /\ Head(ready).ec = "error"
      /\ UNCHANGED listening
  BY DEF ConnectionFails, Runs
<1>2. Head(ready) \in Done /\ Head(ready).of # Null
  <2>1. OpOf(Head(ready)) \in Ops /\ OpOf(Head(ready)) = <<op, Head(ready).of>>
    BY <1>1, HeadFacts DEF OpOf
  <2> QED
    BY <1>1, <2>1, HeadFacts, ServerAssumption DEF Ops
<1>3. ~listening
  BY <1>1, <1>2 DEF NothingFails
<1> QED
  BY <1>1, <1>3, ClosedPatient

(* A reply to a client that is waiting for one; its socket is open unless  *)
(* the acceptor has been closed.                                           *)
LEMMA WritePatient ==
  ASSUME IInv, NothingFails, IInv', NEW c \in Clients, NEW queue,
         Served(c, queue), ToServe(c), Write(c, queue), io' = "idle",
         UNCHANGED <<client, backlog, sockets, connections, listening, freed>>
  PROVE  NothingFails'
<1>1. /\ pending' \subseteq pending \cup {<<"write", c>>}
      /\ \A d \in Done' : \/ d \in Range(queue)
                          \/ d.of = c /\ d.op = "write" /\ c \notin sockets
      /\ Range(queue) \subseteq Done
  BY WriteKeeps DEF Served
<1>2. listening => c \in sockets
  BY DEF NothingFails, IInv, SocketsKnown
<1>3. \A x \in Clients : ToServe(x)' => ToServe(x)
  BY <1>1 DEF ToServe
<1>4. Accepted' = Accepted
  BY DEF Accepted
<1>5. listening => \A d \in Done' : d \in Done
  BY <1>1, <1>2
<1> QED
  BY <1>3, <1>4, <1>5 DEF NothingFails

LEMMA HandlePatient ==
  ASSUME IInv, NothingFails, IInv', NEW c \in Clients, NEW queue,
         NEW whose, Served(c, queue), ToServe(c), Handle(c, whose, queue)
  PROVE  NothingFails'
<1>1. CASE Exit
  BY <1>1, ClosedPatient DEF Exit
<1>2. CASE /\ Write(c, queue)
           /\ io' = "idle"
           /\ UNCHANGED <<client, backlog, sockets, connections, listening, freed>>
  BY <1>2, WritePatient
<1> QED
  BY <1>1, <1>2 DEF Handle

LEMMA ReadHandlerPatient ==
  ASSUME IInv, NothingFails, IInv', NEW c \in Clients, ReadHandler(c)
  PROVE  NothingFails'
<1>1. ReadRuns(c)
  BY DEF ReadHandler, ReadWithoutBody, ReadWholeBody, ReadOldBody, ReadBrokenBody, ReadOn,
     ReadOnClosed
<1>2. Served(c, Tail(ready)) /\ io = "idle" /\ ready # <<>>
  BY <1>1, ServedHead DEF ReadRuns
<1>3. ToServe(c)
  <2>1. Head(ready) \in Done /\ Head(ready).of = c /\ Head(ready).op = "read"
    BY <1>1, <1>2, HeadFacts DEF ReadRuns
  <2> QED
    BY <2>1 DEF ToServe
<1>5. CASE ReadWithoutBody(c) \/ ReadWholeBody(c) \/ ReadOldBody(c)
  BY <1>2, <1>3, <1>5, HandlePatient DEF ReadWithoutBody, ReadWholeBody, ReadOldBody
<1>7. CASE ReadBrokenBody(c)
  <2>1. /\ Write(c, Tail(ready)) /\ io' = "idle"
        /\ UNCHANGED <<client, backlog, sockets, connections, listening, freed>>
    BY <1>2, <1>7 DEF ReadBrokenBody, Refuse
  <2> QED
    BY <1>2, <1>3, <2>1, WritePatient
<1>8. CASE ReadOn(c)
  <2>1. /\ io' = "blocked" /\ reader' = c /\ ready' = Tail(ready)
        /\ UNCHANGED <<client, backlog, sockets, connections, listening, pending,
                       freed>>
    BY <1>8 DEF ReadOn, wire, results
  <2>2. Done' \subseteq Done /\ Accepted' = Accepted
    BY <1>2, <2>1 DEF Served, Done, Accepted
  <2>3. \A x \in Clients : ToServe(x)' => ToServe(x)
    BY <1>3, <2>1, <2>2 DEF ToServe
  <2> QED
    BY <2>1, <2>2, <2>3 DEF NothingFails
<1>9. CASE ReadOnClosed(c)
  BY <1>9, ClosedPatient DEF ReadOnClosed, Exit
<1> QED
  BY <1>5, <1>7, <1>8, <1>9 DEF ReadHandler

LEMMA RestPatient ==
  ASSUME IInv, NothingFails, IInv',
         RestArrives \/ RestCutOff \/ RestUnmapped \/ RestNeverArrives
  PROVE  NothingFails'
<1>1. reader \in Clients /\ Served(reader, ready) /\ ToServe(reader)
  BY ServedReader DEF RestArrives, RestCutOff, RestUnmapped, RestNeverArrives, ToServe
<1>2. CASE RestArrives
  BY <1>1, <1>2, HandlePatient DEF RestArrives
<1>3. CASE RestCutOff
  <2>1. /\ Write(reader, ready) /\ io' = "idle"
        /\ UNCHANGED <<client, backlog, sockets, connections, listening, freed>>
    BY <1>3 DEF RestCutOff
  <2> QED
    BY <1>1, <2>1, WritePatient
<1>4. CASE RestUnmapped \/ RestNeverArrives
  BY <1>4, ClosedPatient DEF RestUnmapped, RestNeverArrives, Exit
<1> QED
  BY <1>2, <1>3, <1>4

LEMMA StopPatient ==
  ASSUME IInv, NothingFails, IInv', StopAll \/ Signal \/ RunReturns \/ UNCHANGED vars
  PROVE  NothingFails'
<1>1. UNCHANGED results
  BY DEF StopAll, Signal, RunReturns, vars, results
<1>2. CASE ~listening'
  BY <1>2, ClosedPatient
<1>3. CASE UNCHANGED <<client, backlog, sockets, connections, listening, pending,
                       ready, io, reader>>
  <2>1. Done' = Done /\ Accepted' = Accepted /\ \A x : ToServe(x)' <=> ToServe(x)
    BY <1>3 DEF Done, Accepted, ToServe
  <2> QED
    BY <1>1, <1>3, <2>1 DEF NothingFails, results
<1> QED
  BY <1>2, <1>3 DEF StopAll, Signal, RunReturns, Exit, vars

LEMMA StepPatient ==
  ASSUME Impatient = {}
  PROVE  IInv /\ NothingFails /\ [Next]_vars => NothingFails'
<1> SUFFICES ASSUME IInv, NothingFails, [Next]_vars
             PROVE  NothingFails'
  OBVIOUS
<1>1. IInv'
  BY NextIInv
<1>2. CASE \E c \in Clients : Client(c)
  BY <1>1, <1>2, ClientPatient
<1>3. CASE Reactor
  BY <1>1, <1>3, ReactorPatient
<1>4. CASE Handler
  BY <1>1, <1>4, StartPatient, TakenPatient, ReadHandlerPatient, RestPatient,
     FailurePatient, StopPatient DEF Handler
<1>5. CASE Signal \/ UNCHANGED vars
  BY <1>1, <1>5, StopPatient
<1> QED
  BY <1>2, <1>3, <1>4, <1>5 DEF Next

LEMMA InitPatient == Init => NothingFails
<1> SUFFICES ASSUME Init
             PROVE  NothingFails
  OBVIOUS
<1>1. Done = {} /\ Accepted = {}
  BY DEF Init, Done, Range, Accepted
<1>2. \A c \in Clients : ~ToServe(c)
  BY <1>1, ServerAssumption DEF Init, ToServe
<1> QED
  BY <1>1, <1>2 DEF Init, NothingFails

LEMMA PatientInvariance ==
  ASSUME Impatient = {}
  PROVE  Spec => []NothingFails
<1> QED
  BY InitPatient, StepPatient, Invariance, PTL DEF Spec
-----------------------------------------------------------------------------
(* As long as no client leaves before it is answered, no handler throws    *)
(* and no body is longer than what is mapped.                              *)

LEMMA StepAwaitsSignal ==
  ASSUME Throwing = {}, BodiesMapped, IInv, NothingFails, AwaitsSignal, [Next]_vars
  PROVE  AwaitsSignal'
<1> DEFINE signal == <<"signal", Null>>
<1>1. CASE signalled
  <2>1. signalled'
    BY <1>1 DEF Next, Client, Connect, Send, Leave, Reactor, AcceptCompletes,
       ReadCompletes, WriteCompletes, SignalCompletes, Handler, StartConnection, AcceptAgain,
       AcceptTooLate, ReadHandler, ReadWithoutBody, ReadWholeBody, ReadOldBody,
       ReadBrokenBody, ReadOn, ReadOnClosed, Handle, Refuse, RestArrives, RestCutOff,
       RestUnmapped, RestNeverArrives, ConnectionFails, ConnectionAborted, ReplyWritten, StopAll,
       RunReturns, Signal, vars
  <2> QED
    BY <2>1 DEF AwaitsSignal
<1>2. CASE ~signalled /\ listening /\ io # "exited" /\ signal \in pending
  <2>1. ASSUME NEW c \in Clients, ToServe(c)
        PROVE  c \in sockets /\ client[c] = "waiting"
    BY <1>2, <2>1 DEF NothingFails, IInv, SocketsKnown
  <2>2. ASSUME NEW c \in Clients, NEW whose, NEW queue, Handle(c, whose, queue)
        PROVE  AwaitsSignal'
    BY <1>2, <2>2 DEF Handle, Write, AwaitsSignal
  <2>3. CASE (\E c \in Clients : Client(c)) \/ UNCHANGED vars
    BY <1>2, <2>3 DEF Client, Connect, Send, Leave, vars, AwaitsSignal
  <2>4. CASE Reactor
    BY <1>2, <2>4 DEF Reactor, AcceptCompletes, ReadCompletes, WriteCompletes,
       SignalCompletes, Completes, AwaitsSignal
  <2>5. CASE Signal
    BY <2>5 DEF Signal, AwaitsSignal
  <2>6. CASE StartConnection \/ AcceptAgain \/ AcceptTooLate \/ ReplyWritten
    BY <1>2, <2>6 DEF StartConnection, AcceptAgain, AcceptTooLate, ReplyWritten,
       AwaitsSignal
  <2>7. CASE \E op \in {"read", "write"} : ConnectionFails(op) \/ ConnectionAborted(op)
    BY <1>2, <2>7 DEF ConnectionFails, ConnectionAborted, AwaitsSignal
  <2>8. CASE RunReturns
    BY <1>2, <2>8 DEF RunReturns
  <2>9. CASE StopAll
    <3>1. ready # <<>> /\ Head(ready).op = "signal"
      BY <2>9 DEF StopAll
    <3>2. OpOf(Head(ready)) = signal
      BY <3>1, HeadFacts DEF Ops, OpOf
    <3>3. Rival(signal, OpOf(Head(ready)))
      BY <3>2 DEF Rival
    <3> QED
      BY <1>2, <3>1, <3>3, HeadFacts
  <2>10. CASE RestArrives \/ RestCutOff \/ RestUnmapped \/ RestNeverArrives
    <3>1. reader \in Clients /\ ToServe(reader)
      BY <2>10, ServedReader DEF RestArrives, RestCutOff, RestUnmapped, RestNeverArrives,
         ToServe
    <3>2. client[reader] = "waiting"
      BY <2>1, <3>1
    <3>3. CASE RestArrives
      BY <2>2, <3>1, <3>3 DEF RestArrives
    <3>4. CASE RestCutOff
      BY <1>2, <3>4 DEF RestCutOff, Write, AwaitsSignal
    <3>5. CASE RestNeverArrives
      BY <3>2, <3>5 DEF RestNeverArrives
    <3>6. CASE RestUnmapped
      <4>1. Body[reader] \in Nat /\ Mapped \in Nat /\ Body[reader] <= Mapped
        BY <3>1, ServerAssumption DEF BodiesMapped
      <4> QED
        BY <3>6, <4>1 DEF RestUnmapped
    <3> QED
      BY <2>10, <3>3, <3>4, <3>5, <3>6
  <2>11. ASSUME NEW c \in Clients, ReadHandler(c)
         PROVE  AwaitsSignal'
    <3>1. ReadRuns(c)
      BY <2>11 DEF ReadHandler, ReadWithoutBody, ReadWholeBody, ReadOldBody,
         ReadBrokenBody, ReadOn, ReadOnClosed
    <3>2. ToServe(c)
      <4>1. ready # <<>> /\ Head(ready).of = c /\ Head(ready).op = "read"
        BY <3>1 DEF ReadRuns
      <4> QED
        BY <4>1, HeadFacts DEF ToServe
    <3>4. CASE ReadWithoutBody(c) \/ ReadWholeBody(c) \/ ReadOldBody(c)
      BY <2>2, <3>4 DEF ReadWithoutBody, ReadWholeBody, ReadOldBody
    <3>6. CASE ReadBrokenBody(c)
      BY <1>2, <3>6 DEF ReadBrokenBody, Refuse, Write, AwaitsSignal
    <3>7. CASE ReadOn(c)
      BY <1>2, <3>7 DEF ReadOn, AwaitsSignal
    <3>8. CASE ReadOnClosed(c)
      BY <2>1, <3>2, <3>8 DEF ReadOnClosed
    <3> QED
      BY <2>11, <3>4, <3>6, <3>7, <3>8 DEF ReadHandler
  <2> QED
    BY <2>3, <2>4, <2>5, <2>6, <2>7, <2>8, <2>9, <2>10, <2>11 DEF Next, Handler
<1> QED
  BY <1>1, <1>2 DEF AwaitsSignal

LEMMA SignalAwaited ==
  ASSUME Impatient = {}, Throwing = {}, BodiesMapped
  PROVE  Spec => []AwaitsSignal
<1>1. Init => AwaitsSignal
  BY DEF Init, AwaitsSignal
<1>2. IInv /\ NothingFails /\ AwaitsSignal /\ [Next]_vars => AwaitsSignal'
  BY StepAwaitsSignal
<1> QED
  BY <1>1, <1>2, Invariance, PatientInvariance, PTL DEF Spec

(* The server runs until it is told to stop: no exception leaves a handler *)
(* and the loop never runs out of work, as long as no client leaves before *)
(* it is answered, no handler throws and no body is longer than what is    *)
(* mapped behind buffer_ (Server.cpp:31-33, 54-62; Connection.cpp:35-38).  *)
THEOREM ServesUntilTold ==
  ASSUME Impatient = {}, Throwing = {}, BodiesMapped
  PROVE  Spec => []RunsUntilTold
<1>1. AwaitsSignal => RunsUntilTold
  BY DEF AwaitsSignal, RunsUntilTold
<1> QED
  BY <1>1, SignalAwaited, PTL
-----------------------------------------------------------------------------
(* As long as no client leaves and none sends a part of a body that fits   *)
(* the buffer.                                                             *)

ReadOk(c) == [op |-> "read", of |-> c, ec |-> "ok"]

(* A step that reads nothing and is not about a client that is still to be *)
(* read.                                                                   *)
LEMMA ReadWholeFrame ==
  ASSUME ReadWhole, UNCHANGED <<unsent, got>>,
         \A c \in Clients :
           /\ Small(c) => inbox'[c] = inbox[c] \/ got[c] # 0
           /\ Unread(c)' => Unread(c)
           /\ ReadOk(c) \in Done' => ReadOk(c) \in Done
           /\ io' = "blocked" /\ reader' = c =>
                ReadOk(c) \in Done \/ (io = "blocked" /\ reader = c)
  PROVE  ReadWhole'
BY DEF ReadWhole, Small, ReadOk

LEMMA SendReadWhole ==
  ASSUME BodiesUnsplit, IInv, ReadWhole, NEW c \in Clients, Send(c)
  PROVE  ReadWhole'
<1>1. PICK n \in 1 .. unsent[c] :
        /\ Body[c] - (unsent[c] - n) \in Pieces
        /\ unsent' = [unsent EXCEPT ![c] = @ - n]
        /\ inbox' = [inbox EXCEPT ![c] = @ + n]
  BY DEF Send
<1>2. UNCHANGED <<client, backlog, sockets, connections, pending, ready, io, reader, got>>
  BY DEF Send, results
<1>3. unsent \in [Clients -> Nat] /\ inbox \in [Clients -> Nat] /\ Body \in [Clients -> Nat]
  BY ServerAssumption DEF IInv, TypeOK
<1>4. /\ Done' = Done
      /\ \A x \in Clients : Unread(x)' <=> Unread(x)
  BY <1>2 DEF Done, Unread, Accepted
<1>5. ASSUME Small(c)
      PROVE  unsent'[c] \in {0, Body[c]} /\ inbox'[c] + unsent'[c] = inbox[c] + unsent[c]
  <2>1. unsent[c] \in {0, Body[c], 1 + Body[c]}
    BY <1>5 DEF ReadWhole
  <2>2. /\ unsent'[c] = unsent[c] - n /\ inbox'[c] = inbox[c] + n
        /\ n \in Nat \ {0} /\ n <= unsent[c] /\ unsent[c] \in Nat /\ Body[c] \in Nat
    BY <1>1, <1>3
  <2>3. Body[c] - unsent'[c] \in 0 .. Body[c]
    BY <2>1, <2>2
  <2>4. Body[c] - unsent'[c] \in {0, Body[c]}
    BY <1>1, <1>5, <2>2, <2>3 DEF BodiesUnsplit
  <2> QED
    BY <1>3, <2>2, <2>4
<1>6. \A x \in Clients : x # c => unsent'[x] = unsent[x] /\ inbox'[x] = inbox[x]
  BY <1>1, <1>3
<1> SUFFICES ASSUME NEW x \in Clients, Small(x)
             PROVE  /\ unsent'[x] \in {0, Body[x], 1 + Body[x]}
                    /\ got'[x] \in {0, 1, 1 + Body[x]}
                    /\ got'[x] = 0 => inbox'[x] + unsent'[x] = 1 + Body[x]
                    /\ Unread(x)' => got'[x] = 0
                    /\ ReadOk(x) \in Done' => got'[x] > 0
                    /\ io' = "blocked" /\ reader' = x => got'[x] > 0
  BY DEF ReadWhole, Small, ReadOk
<1>7. /\ got'[x] \in {0, 1, 1 + Body[x]}
      /\ Unread(x)' => got'[x] = 0
      /\ ReadOk(x) \in Done' => got'[x] > 0
      /\ io' = "blocked" /\ reader' = x => got'[x] > 0
  BY <1>2, <1>4 DEF ReadWhole, ReadOk
<1>8. /\ unsent'[x] \in {0, Body[x], 1 + Body[x]}
      /\ got'[x] = 0 => inbox'[x] + unsent'[x] = 1 + Body[x]
  <2>1. CASE x = c
    BY <1>2, <1>5, <2>1 DEF ReadWhole
  <2>2. CASE x # c
    BY <1>2, <1>6, <2>2 DEF ReadWhole
  <2> QED
    BY <2>1, <2>2
<1> QED
  BY <1>7, <1>8

(* What the socket has when the read completes is the head, or the whole   *)
(* request, and it fits the buffer.                                        *)
LEMMA ReadReadWhole ==
  ASSUME IInv, ReadWhole, NEW c \in Clients, ReadCompletes(c)
  PROVE  ReadWhole'
<1>1. UNCHANGED <<client, unsent, backlog, sockets, connections, io, reader>>
  BY DEF ReadCompletes
<1>2. PICK ec \in {"ok", "error"} :
        /\ Completes("read", c, ec)
        /\ ec = "ok" => /\ inbox[c] > 0
                        /\ got' = [got EXCEPT ![c] = Min({inbox[c], BufferSize})]
                        /\ inbox' = [inbox EXCEPT ![c] = @ - Min({inbox[c], BufferSize})]
        /\ ec = "error" => UNCHANGED <<got, inbox>>
  BY DEF ReadCompletes
<1>3. /\ <<"read", c>> \in pending /\ pending' = pending \ {<<"read", c>>}
      /\ Done' = Done \cup {[op |-> "read", of |-> c, ec |-> ec]}
  BY <1>1, <1>2, CompletesFacts
<1>4. /\ \A x \in Clients : Unread(x)' => Unread(x)
      /\ Unread(c) /\ ~Unread(c)'
  <2>1. \A x \in Clients : Unread(x)' => Unread(x)
    BY <1>1, <1>3 DEF Unread, Accepted
  <2>2. Unread(c) /\ Busy(c)
    BY <1>3 DEF Unread, Busy
  <2>3. client[c] # "away" /\ c \notin backlog /\ c \notin Accepted
    BY <2>2 DEF IInv, ServerInvariant, NothingBeforeAccept, OneAccepted
  <2> QED
    BY <1>1, <1>3, <2>1, <2>2, <2>3 DEF Unread, Accepted
<1>5. CASE ec = "error"
  <2>1. \A x \in Clients : ReadOk(x) \in Done' => ReadOk(x) \in Done
    BY <1>3, <1>5 DEF ReadOk
  <2> QED
    BY <1>1, <1>2, <1>4, <1>5, <2>1, ReadWholeFrame
<1>6. CASE ec = "ok"
  <2>1. /\ inbox[c] \in Nat \ {0} /\ unsent[c] \in Nat /\ Body[c] \in Nat
        /\ BufferSize \in Nat
    <3>1. inbox[c] \in Nat /\ unsent[c] \in Nat /\ Body[c] \in Nat /\ BufferSize \in Nat
      BY ServerAssumption DEF IInv, TypeOK
    <3>2. inbox[c] > 0
      BY <1>2, <1>6
    <3> QED
      BY <3>1, <3>2
  <2>2. /\ got'[c] = Min({inbox[c], BufferSize})
        /\ \A x \in Clients : x # c => got'[x] = got[x] /\ inbox'[x] = inbox[x]
    BY <1>2, <1>6 DEF IInv, TypeOK
  <2>3. ASSUME Small(c)
        PROVE  got'[c] \in {1, 1 + Body[c]}
    <3>1. /\ inbox[c] + unsent[c] = 1 + Body[c]
          /\ unsent[c] \in {0, Body[c], 1 + Body[c]}
      BY <1>4, <2>3 DEF ReadWhole
    <3>2. inbox[c] \in {1, 1 + Body[c]} /\ inbox[c] <= BufferSize
      BY <2>1, <2>3, <3>1 DEF Small
    <3>3. /\ Min({inbox[c], BufferSize}) \in {inbox[c], BufferSize}
          /\ Min({inbox[c], BufferSize}) <= inbox[c]
          /\ Min({inbox[c], BufferSize}) <= BufferSize
      BY <2>1, MinFacts
    <3> QED
      BY <2>1, <2>2, <3>2, <3>3
  <2> SUFFICES ASSUME NEW x \in Clients, Small(x)
               PROVE  /\ unsent'[x] \in {0, Body[x], 1 + Body[x]}
                      /\ got'[x] \in {0, 1, 1 + Body[x]}
                      /\ got'[x] = 0 => inbox'[x] + unsent'[x] = 1 + Body[x]
                      /\ Unread(x)' => got'[x] = 0
                      /\ ReadOk(x) \in Done' => got'[x] > 0
                      /\ io' = "blocked" /\ reader' = x => got'[x] > 0
    BY DEF ReadWhole, Small, ReadOk
  <2>4. CASE x = c
    <3>1. got'[c] > 0 /\ got'[c] # 0 /\ got'[c] \in {0, 1, 1 + Body[c]}
      BY <2>1, <2>3, <2>4
    <3> QED
      BY <1>1, <1>4, <2>4, <3>1 DEF ReadWhole
  <2>5. CASE x # c
    <3>1. ReadOk(x) \in Done' => ReadOk(x) \in Done
      BY <1>3, <2>5 DEF ReadOk
    <3> QED
      BY <1>1, <1>4, <2>2, <2>5, <3>1 DEF ReadWhole, ReadOk
  <2> QED
    BY <2>4, <2>5
<1> QED
  BY <1>5, <1>6

(* What completes is not a read.                                           *)
LEMMA OtherCompletes ==
  ASSUME IInv, NEW op \in {"accept", "write", "signal"}, NEW c \in Nobody,
         NEW ec \in {"ok", "error"}, Completes(op, c, ec), UNCHANGED <<io, reader>>
  PROVE  /\ pending' \subseteq pending
         /\ \A x \in Clients : ReadOk(x) \in Done' => ReadOk(x) \in Done
<1>1. PICK d : d = [op |-> op, of |-> c, ec |-> ec]
  OBVIOUS
<1>2. Done' = Done \cup {d}
  BY <1>1, CompletesFacts
<1>3. pending' = pending \ {<<op, c>>}
  BY DEF Completes
<1>4. d.op # "read"
  BY <1>1
<1> QED
  BY <1>2, <1>3, <1>4 DEF ReadOk

(* The other steps outside the handlers.                                   *)
LEMMA OutsideReadWhole ==
  ASSUME IInv, ReadWhole,
         \/ \E c \in Clients : Connect(c) \/ Leave(c) \/ WriteCompletes(c)
         \/ AcceptCompletes \/ SignalCompletes
  PROVE  ReadWhole'
<1>1. UNCHANGED <<unsent, inbox, got, connections, io, reader>>
  BY DEF Connect, Leave, WriteCompletes, AcceptCompletes, SignalCompletes, wire, results
<1>2. /\ pending' \subseteq pending
      /\ \A c \in Clients : ReadOk(c) \in Done' => ReadOk(c) \in Done
  <2>1. CASE UNCHANGED <<pending, ready>>
    BY <2>1 DEF Done
  <2>2. CASE \E op \in {"accept", "write", "signal"}, c \in Nobody, ec \in {"ok", "error"} :
               Completes(op, c, ec)
    BY <1>1, <2>2, OtherCompletes
  <2> QED
    BY <2>1, <2>2 DEF Connect, Leave, WriteCompletes, AcceptCompletes, SignalCompletes,
       Nobody
<1>3. \A c \in Clients : Unread(c)' => Unread(c)
  <2>1. CASE \E c \in Clients : Connect(c) \/ Leave(c) \/ WriteCompletes(c)
    BY <1>1, <1>2, <2>1 DEF Connect, Leave, WriteCompletes, Unread, Accepted, IInv, TypeOK
  <2>2. CASE AcceptCompletes \/ SignalCompletes
    BY <1>1, <1>2, <2>2 DEF AcceptCompletes, SignalCompletes, wire, Unread, Accepted
  <2> QED
    BY <2>1, <2>2
<1> QED
  BY <1>1, <1>2, <1>3, ReadWholeFrame

(* The end of the process.                                                 *)
LEMMA ExitReadWhole ==
  ASSUME ReadWhole, Exit, UNCHANGED <<unsent, got>>,
         \A c \in Clients : Small(c) => inbox'[c] = inbox[c] \/ got[c] # 0
  PROVE  ReadWhole'
<1>1. Done' = {}
  BY DEF Exit, Done, Range
<1>2. \A c \in Clients : Unread(c)' => Unread(c)
  BY DEF Exit, Drop, Unread, Accepted
<1>3. io' # "blocked"
  BY DEF Exit
<1> QED
  BY <1>1, <1>2, <1>3, ReadWholeFrame

(* A reply to a client whose request has been read.                        *)
LEMMA WriteReadWhole ==
  ASSUME IInv, ReadWhole, NEW c \in Clients, NEW queue, Served(c, queue),
         Write(c, queue), io' = "idle",
         UNCHANGED <<client, backlog, sockets, connections, listening, unsent, got>>,
         \A x \in Clients : Small(x) => inbox'[x] = inbox[x] \/ got[x] # 0
  PROVE  ReadWhole'
<1>1. /\ pending' \subseteq pending \cup {<<"write", c>>}
      /\ \A d \in Done' : \/ d \in Range(queue)
                          \/ d.of = c /\ d.op = "write" /\ c \notin sockets
      /\ Range(queue) \subseteq Done
  BY WriteKeeps DEF Served
<1>2. \A x \in Clients : Unread(x)' => Unread(x)
  BY <1>1 DEF Unread, Accepted
<1>3. \A x \in Clients : ReadOk(x) \in Done' => ReadOk(x) \in Done
  BY <1>1 DEF ReadOk
<1> QED
  BY <1>2, <1>3, ReadWholeFrame

LEMMA HandleReadWhole ==
  ASSUME IInv, ReadWhole, NEW c \in Clients, NEW whose, NEW queue, Served(c, queue),
         Handle(c, whose, queue),
         \A x \in Clients : Small(x) => inbox'[x] = inbox[x] \/ got[x] # 0
  PROVE  ReadWhole'
<1>1. CASE Exit /\ UNCHANGED <<unsent, results>>
  BY <1>1, ExitReadWhole DEF results
<1>2. CASE /\ Write(c, queue) /\ io' = "idle"
           /\ UNCHANGED <<client, unsent, backlog, sockets, connections, listening, got>>
  BY <1>2, WriteReadWhole
<1> QED
  BY <1>1, <1>2 DEF Handle

LEMMA ReadHandlerReadWhole ==
  ASSUME IInv, ReadWhole, NEW c \in Clients, ReadHandler(c)
  PROVE  ReadWhole'
<1>1. ReadRuns(c)
  BY DEF ReadHandler, ReadWithoutBody, ReadWholeBody, ReadOldBody, ReadBrokenBody, ReadOn,
     ReadOnClosed
<1>2. Served(c, Tail(ready)) /\ io = "idle" /\ ready # <<>>
  BY <1>1, ServedHead DEF ReadRuns
<1>3. CASE ReadWithoutBody(c) \/ ReadWholeBody(c) \/ ReadOldBody(c)
  BY <1>2, <1>3, HandleReadWhole DEF ReadWithoutBody, ReadWholeBody, ReadOldBody
<1>4. CASE ReadBrokenBody(c)
  <2>1. /\ Write(c, Tail(ready)) /\ io' = "idle"
        /\ UNCHANGED <<client, backlog, sockets, connections, listening, unsent, got, inbox>>
    BY <1>2, <1>4 DEF ReadBrokenBody, Refuse
  <2> QED
    BY <1>2, <2>1, WriteReadWhole
<1>5. CASE ReadOn(c)
  <2>1. /\ reader' = c /\ ready' = Tail(ready)
        /\ UNCHANGED <<client, backlog, sockets, connections, pending, unsent, got, inbox>>
    BY <1>5 DEF ReadOn, wire, results
  <2>2. Done' \subseteq Done /\ \A x : Unread(x)' <=> Unread(x)
    BY <1>2, <2>1 DEF Served, Done, Unread, Accepted
  <2>3. ReadOk(c) \in Done
    <3>1. Head(ready) = ReadOk(c)
      BY <1>1 DEF ReadRuns, ReadOk
    <3> QED
      BY <1>2, <3>1, HeadFacts
  <2> QED
    BY <2>1, <2>2, <2>3, ReadWholeFrame
<1>6. CASE ReadOnClosed(c)
  BY <1>6, ExitReadWhole DEF ReadOnClosed, results
<1> QED
  BY <1>3, <1>4, <1>5, <1>6 DEF ReadHandler

LEMMA RestReadWhole ==
  ASSUME IInv, ReadWhole, RestArrives \/ RestCutOff \/ RestUnmapped \/ RestNeverArrives
  PROVE  ReadWhole'
<1>1. reader \in Clients /\ Served(reader, ready) /\ io = "blocked"
  BY ServedReader DEF RestArrives, RestCutOff, RestUnmapped, RestNeverArrives
<1>2. Small(reader) => got[reader] # 0
  <2>1. Small(reader) => got[reader] > 0
    BY <1>1 DEF ReadWhole
  <2>2. got[reader] \in Nat
    BY <1>1 DEF IInv, TypeOK
  <2> QED
    BY <2>1, <2>2
<1>3. CASE RestArrives \/ RestCutOff
  <2>1. \A x \in Clients : Small(x) => inbox'[x] = inbox[x] \/ got[x] # 0
    BY <1>2, <1>3 DEF RestArrives, RestCutOff, IInv, TypeOK
  <2>2. CASE RestArrives
    BY <1>1, <2>1, <2>2, HandleReadWhole DEF RestArrives
  <2>3. CASE RestCutOff
    <3>1. /\ Write(reader, ready) /\ io' = "idle"
          /\ UNCHANGED <<client, backlog, sockets, connections, listening, unsent, got>>
      BY <2>3 DEF RestCutOff
    <3> QED
      BY <1>1, <2>1, <3>1, WriteReadWhole
  <2> QED
    BY <1>3, <2>2, <2>3
<1>4. CASE RestUnmapped \/ RestNeverArrives
  BY <1>4, ExitReadWhole DEF RestUnmapped, RestNeverArrives, results
<1> QED
  BY <1>3, <1>4

(* The other handlers.                                                     *)
LEMMA TakeReadWhole ==
  ASSUME IInv, ReadWhole,
         \/ StartConnection \/ AcceptAgain \/ AcceptTooLate \/ ReplyWritten
         \/ \E op \in {"read", "write"} : ConnectionFails(op) \/ ConnectionAborted(op)
  PROVE  ReadWhole'
<1>1. /\ ready # <<>> /\ ready' = Tail(ready) /\ io = "idle" /\ io' = "idle"
      /\ UNCHANGED <<client, unsent, inbox, got, backlog>>
  BY DEF StartConnection, AcceptAgain, AcceptTooLate, ReplyWritten, ConnectionFails,
     ConnectionAborted, Runs, wire, results
<1>2. Done' \subseteq Done
  BY <1>1, HeadFacts DEF Done
<1>3. \A c \in Clients : Unread(c)' => Unread(c)
  <2>1. CASE StartConnection
    <3>1. /\ Accepted' \subseteq Accepted
          /\ pending' = pending \cup {<<"read", c>> : c \in Accepted} \cup {<<"accept", Null>>}
      BY <2>1 DEF StartConnection, Accepted
    <3> QED
      BY <1>1, <3>1 DEF Unread
  <2>2. CASE AcceptAgain
    BY <1>1, <2>2 DEF AcceptAgain, Unread, Accepted
  <2>3. CASE \/ AcceptTooLate \/ ReplyWritten
             \/ \E op \in {"read", "write"} : ConnectionAborted(op)
    BY <1>1, <2>3 DEF AcceptTooLate, ReplyWritten, ConnectionAborted, Unread, Accepted
  <2>4. ASSUME NEW op \in {"read", "write"}, ConnectionFails(op)
        PROVE  \A c \in Clients : Unread(c)' => Unread(c)
    <3>1. /\ connections' = connections \ {Head(ready).of}
          /\ sockets' = sockets \ {Head(ready).of}
          /\ pending' = pending
      BY <2>4 DEF ConnectionFails, Stop
    <3>2. Accepted' \subseteq Accepted
      BY <3>1 DEF Accepted
    <3> QED
      BY <1>1, <3>1, <3>2 DEF Unread
  <2> QED
    BY <2>1, <2>2, <2>3, <2>4
<1> QED
  BY <1>1, <1>2, <1>3, ReadWholeFrame

LEMMA StopReadWhole ==
  ASSUME IInv, ReadWhole, StopAll \/ Signal \/ RunReturns \/ UNCHANGED vars
  PROVE  ReadWhole'
<1>1. UNCHANGED <<unsent, inbox, got>>
  BY DEF StopAll, Signal, RunReturns, vars, results
<1>2. CASE StopAll
  <2>1. \A d \in Done' : d \in Done \/ d.ec = "aborted"
    BY <1>2, StopAllKeeps
  <2>2. \A c \in Clients : ReadOk(c) \in Done' => ReadOk(c) \in Done
    BY <2>1 DEF ReadOk
  <2>3. \A c \in Clients : Unread(c)' => Unread(c)
    BY <1>2 DEF StopAll, Drop, Unread, Accepted
  <2>4. io' # "blocked"
    BY <1>2 DEF StopAll
  <2> QED
    BY <1>1, <2>2, <2>3, <2>4, ReadWholeFrame
<1>3. CASE Exit
  BY <1>1, <1>3, ExitReadWhole
<1>4. CASE UNCHANGED <<client, backlog, sockets, connections, pending, ready, io, reader>>
  <2>1. Done' = Done /\ \A c : Unread(c)' <=> Unread(c)
    BY <1>4 DEF Done, Unread, Accepted
  <2> QED
    BY <1>1, <1>4, <2>1, ReadWholeFrame
<1> QED
  BY <1>2, <1>3, <1>4 DEF Signal, RunReturns, vars

LEMMA StepReadWhole ==
  ASSUME BodiesUnsplit
  PROVE  IInv /\ ReadWhole /\ [Next]_vars => ReadWhole'
<1> SUFFICES ASSUME IInv, ReadWhole, [Next]_vars
             PROVE  ReadWhole'
  OBVIOUS
<1>1. CASE \E c \in Clients : Client(c)
  BY <1>1, SendReadWhole, OutsideReadWhole DEF Client
<1>2. CASE Reactor
  BY <1>2, ReadReadWhole, OutsideReadWhole DEF Reactor
<1>3. CASE Handler
  BY <1>3, ReadHandlerReadWhole, RestReadWhole, TakeReadWhole, StopReadWhole DEF Handler
<1>4. CASE Signal \/ UNCHANGED vars
  BY <1>4, StopReadWhole
<1> QED
  BY <1>1, <1>2, <1>3, <1>4 DEF Next

LEMMA InitReadWhole == Init => ReadWhole
<1> SUFFICES ASSUME Init
             PROVE  ReadWhole
  OBVIOUS
<1>1. Done = {}
  BY DEF Init, Done, Range
<1>2. \A c \in Clients : /\ unsent[c] = 1 + Body[c] /\ inbox[c] = 0 /\ got[c] = 0
                         /\ Body[c] \in Nat
  BY ServerAssumption DEF Init
<1> QED
  BY <1>1, <1>2 DEF Init, ReadWhole

LEMMA ReadWholeInvariance ==
  ASSUME BodiesUnsplit
  PROVE  Spec => []ReadWhole
<1> QED
  BY InitReadWhole, StepReadWhole, Invariance, PTL DEF Spec

(* A client that is refused has been read from, and garbage was behind     *)
(* what it had sent.                                                       *)
RefusedForGarbage ==
  \A c \in Clients :
    Small(c) /\ reply[c] = "bad_request" => memory[c] # {} /\ got[c] > 0

(* What was read from a client, and what was behind it, stays.             *)
LEMMA ReadStays ==
  ASSUME IInv, ReadWhole, [Next]_vars, NEW c \in Clients, Small(c), got[c] > 0
  PROVE  got'[c] = got[c] /\ memory'[c] = memory[c]
<1>1. got[c] # 0 /\ got \in [Clients -> Nat] /\ memory \in [Clients -> SUBSET Remains]
  BY DEF IInv, TypeOK
<1>2. ~Unread(c)
  BY <1>1 DEF ReadWhole
<1>3. CASE UNCHANGED <<got, memory>>
  BY <1>3
<1>4. ASSUME NEW x \in Clients, ReadCompletes(x)
      PROVE  UNCHANGED memory /\ got'[c] = got[c]
  <2>1. <<"read", x>> \in pending
    BY <1>4 DEF ReadCompletes, Completes
  <2>2. x # c
    BY <1>2, <2>1 DEF Unread
  <2> QED
    BY <1>1, <1>4, <2>2 DEF ReadCompletes
<1>5. CASE StartConnection
  <2>1. c \notin Accepted
    BY <1>2 DEF Unread
  <2> QED
    BY <1>1, <1>5, <2>1 DEF StartConnection
<1>6. ASSUME NEW x, NEW whose, NEW queue, Handle(x, whose, queue)
      PROVE  UNCHANGED <<got, memory>>
  BY <1>6 DEF Handle, results
<1>7. ASSUME NEW x \in Clients, ReadHandler(x)
      PROVE  UNCHANGED <<got, memory>>
  <2>1. CASE ReadWithoutBody(x) \/ ReadWholeBody(x) \/ ReadOldBody(x)
    BY <1>6, <2>1 DEF ReadWithoutBody, ReadWholeBody, ReadOldBody
  <2>2. CASE ReadBrokenBody(x) \/ ReadOn(x) \/ ReadOnClosed(x)
    BY <2>2 DEF ReadBrokenBody, Refuse, ReadOn, ReadOnClosed, results
  <2> QED
    BY <1>7, <2>1, <2>2 DEF ReadHandler
<1>8. CASE RestArrives
  BY <1>6, <1>8 DEF RestArrives
<1>9. CASE \/ AcceptAgain \/ AcceptTooLate \/ RestCutOff \/ RestUnmapped \/ RestNeverArrives
           \/ \E op \in {"read", "write"} : ConnectionFails(op) \/ ConnectionAborted(op)
           \/ ReplyWritten \/ StopAll \/ RunReturns
  BY <1>9 DEF AcceptAgain, AcceptTooLate, RestCutOff, RestUnmapped, RestNeverArrives,
     ConnectionFails, ConnectionAborted, ReplyWritten, StopAll, RunReturns, results
<1>10. CASE \/ \E x \in Clients : Client(x) \/ WriteCompletes(x)
            \/ AcceptCompletes \/ SignalCompletes \/ Signal \/ UNCHANGED vars
  BY <1>10 DEF Client, Connect, Send, Leave, AcceptCompletes, WriteCompletes,
     SignalCompletes, Signal, vars, results
<1> QED
  BY <1>3, <1>4, <1>5, <1>7, <1>8, <1>9, <1>10 DEF Next, Handler, Reactor

(* A request that fits the buffer and has nothing behind it is not         *)
(* refused: the read gets all of it, or the head alone and then the whole  *)
(* body.                                                                   *)
LEMMA StepRefused ==
  ASSUME IInv, ReadWhole, RefusedForGarbage, [Next]_vars
  PROVE  RefusedForGarbage'
<1> SUFFICES ASSUME NEW c \in Clients, Small(c), reply'[c] = "bad_request"
             PROVE  memory'[c] # {} /\ got'[c] > 0
  BY DEF RefusedForGarbage, Small
<1>1. SUFFICES memory[c] # {} /\ got[c] > 0
  BY ReadStays
<1>2. CASE reply[c] = "bad_request"
  BY <1>2 DEF RefusedForGarbage
<1>3. CASE reply[c] # "bad_request"
  <2>1. reply \in [Clients -> {"none", "ok", "bad_request"}] /\ Body[c] \in Nat
        /\ BufferSize \in Nat /\ DateAt \in Nat \ {0} /\ got[c] \in Nat
    BY ServerAssumption DEF IInv, TypeOK
  <2>2. CASE ReadBrokenBody(c)
    <3>1. got[c] \in {0, 1, 1 + Body[c]} /\ (ReadOk(c) \in Done => got[c] > 0)
      BY DEF ReadWhole, ReadOk
    <3>2. ready # <<>> /\ Head(ready) = ReadOk(c)
      BY <2>2 DEF ReadBrokenBody, ReadRuns, ReadOk
    <3>3. got[c] > 0
      BY <3>1, <3>2, HeadFacts
    <3>4. ASSUME memory[c] = {}
          PROVE  FALSE
      <4>1. got[c] - 1 >= DateAt /\ got[c] - 1 < Body[c]
        BY <2>2, <3>4 DEF ReadBrokenBody, DateFound, DateGot, BodyGot
      <4> QED
        BY <2>1, <3>1, <4>1
    <3> QED
      BY <3>3, <3>4
  <2>3. CASE ~ReadBrokenBody(c)
    <3>1. ~(RestCutOff /\ reader = c)
      BY <2>1 DEF RestCutOff, RestFits, Small
    <3>2. ASSUME NEW x, NEW whose, NEW queue, Handle(x, whose, queue)
          PROVE  FALSE
      BY <1>3, <2>1, <3>2 DEF Handle, results
    <3>3. reply' # reply
      BY <1>3
    <3>4. ASSUME NEW x \in Clients, ReadHandler(x)
          PROVE  FALSE
      <4>1. CASE ReadWithoutBody(x) \/ ReadWholeBody(x) \/ ReadOldBody(x)
        BY <3>2, <4>1 DEF ReadWithoutBody, ReadWholeBody, ReadOldBody
      <4>2. CASE ReadOn(x) \/ ReadOnClosed(x)
        BY <3>3, <4>2 DEF ReadOn, ReadOnClosed, results
      <4>3. CASE ReadBrokenBody(x)
        BY <1>3, <2>1, <2>3, <4>3 DEF ReadBrokenBody, Refuse
      <4> QED
        BY <3>4, <4>1, <4>2, <4>3 DEF ReadHandler
    <3>5. CASE RestCutOff
      BY <1>3, <2>1, <3>1, <3>5 DEF RestCutOff
    <3>6. CASE RestArrives
      BY <3>2, <3>6 DEF RestArrives
    <3>7. CASE \/ StartConnection \/ AcceptAgain \/ AcceptTooLate
               \/ RestUnmapped \/ RestNeverArrives
               \/ \E op \in {"read", "write"} : ConnectionFails(op) \/ ConnectionAborted(op)
               \/ ReplyWritten \/ StopAll \/ RunReturns
      BY <3>3, <3>7 DEF StartConnection, AcceptAgain, AcceptTooLate, RestUnmapped,
         RestNeverArrives, ConnectionFails, ConnectionAborted, ReplyWritten, StopAll,
         RunReturns, results
    <3>8. CASE (\E x \in Clients : Client(x)) \/ Reactor \/ Signal \/ UNCHANGED vars
      BY <3>3, <3>8 DEF Client, Connect, Send, Leave, Reactor, AcceptCompletes,
         ReadCompletes, WriteCompletes, SignalCompletes, Signal, vars, results
    <3> QED
      BY <3>4, <3>5, <3>6, <3>7, <3>8 DEF Next, Handler
  <2> QED
    BY <2>2, <2>3
<1> QED
  BY <1>2, <1>3

(* No request that fits the buffer is refused because of how its client    *)
(* sent it, as long as none sends a part of a body that fits, but only for *)
(* what its memory held before; also while clients leave, handlers throw   *)
(* and the server stops.  The assumption is needed: a date in the first    *)
(* part of a body makes Connection::Read take that part for the whole      *)
(* (Connection.cpp:29-47).                                                 *)
THEOREM ValidRequestsServed ==
  ASSUME BodiesUnsplit
  PROVE  Spec => []ValidNotRefused
<1>1. Init => RefusedForGarbage
  BY DEF Init, RefusedForGarbage
<1>2. IInv /\ ReadWhole /\ RefusedForGarbage /\ [Next]_vars => RefusedForGarbage'
  BY StepRefused
<1>3. RefusedForGarbage => ValidNotRefused
  BY DEF RefusedForGarbage, ValidNotRefused
<1> QED
  BY <1>1, <1>2, <1>3, ReadWholeInvariance, Invariance, PTL DEF Spec

(* As long as no client leaves before it is answered, nothing fails while  *)
(* the server listens: every connection that is still to be served is in   *)
(* connections_, its client waits, and no connection is freed; if no       *)
(* handler throws either and no body is longer than what is mapped, the    *)
(* wait for the signal is never lost; and a request that fits and is not   *)
(* split is read as the head or as a whole                                 *)
(* (Connection.cpp:18-70, ConnectionManager.cpp:5-19, Server.cpp:31-62).   *)
THEOREM PatientInvariantHolds == Spec => []PatientInvariant
<1>1. Spec => [](Impatient = {} => NothingFails)
  <2>1. CASE Impatient = {}
    <3>1. NothingFails => (Impatient = {} => NothingFails)
      OBVIOUS
    <3> QED
      BY <2>1, <3>1, PatientInvariance, PTL
  <2>2. CASE Impatient # {}
    <3>1. Impatient = {} => NothingFails
      BY <2>2
    <3> QED
      BY <3>1, PTL
  <2> QED
    BY <2>1, <2>2
<1>2. Spec => [](Impatient = {} /\ Throwing = {} /\ BodiesMapped => AwaitsSignal)
  <2>1. CASE Impatient = {} /\ Throwing = {} /\ BodiesMapped
    <3>1. AwaitsSignal => (Impatient = {} /\ Throwing = {} /\ BodiesMapped => AwaitsSignal)
      OBVIOUS
    <3> QED
      BY <2>1, <3>1, SignalAwaited, PTL
  <2>2. CASE ~(Impatient = {} /\ Throwing = {} /\ BodiesMapped)
    <3>1. Impatient = {} /\ Throwing = {} /\ BodiesMapped => AwaitsSignal
      BY <2>2
    <3> QED
      BY <3>1, PTL
  <2> QED
    BY <2>1, <2>2
<1>3. Spec => [](BodiesUnsplit => ReadWhole)
  <2>1. CASE BodiesUnsplit
    <3>1. ReadWhole => (BodiesUnsplit => ReadWhole)
      OBVIOUS
    <3> QED
      BY <2>1, <3>1, ReadWholeInvariance, PTL
  <2>2. CASE ~BodiesUnsplit
    <3>1. BodiesUnsplit => ReadWhole
      BY <2>2
    <3> QED
      BY <3>1, PTL
  <2> QED
    BY <2>1, <2>2
<1>4. /\ (Impatient = {} => NothingFails)
      /\ (Impatient = {} /\ Throwing = {} /\ BodiesMapped => AwaitsSignal)
      /\ (BodiesUnsplit => ReadWhole)
      => PatientInvariant
  BY DEF PatientInvariant
<1> QED
  BY <1>1, <1>2, <1>3, <1>4, PTL
=============================================================================
