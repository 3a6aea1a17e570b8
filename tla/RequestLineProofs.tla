-------------------------- MODULE RequestLineProofs --------------------------
(***************************************************************************)
(* The invariants of RequestLine, for every set of request lines of the    *)
(* class it assumes: facts about texts, numbers and the operators of the   *)
(* model, what the client's line looks like from each parameter on, the    *)
(* inductive invariant of the parser and, from it, where a request goes    *)
(* and what it is handled with; last, the length of a POST.                *)
(***************************************************************************)
EXTENDS RequestLine, FiniteSums, SequenceTheorems

(* Symbols and texts.  The symbols the code knows are strings, which the   *)
(* provers have to be told.                                                *)
Known == {Blank, EndOfLine, "&", "=", "+", "/", "?", ":", "{", "history", "HTTP/1.1",
          "Content-Length", "content-length", "%26", "%3D", "%2B", "%2F", "%3F", "%20"}
Symbol == STRING \cup Known
Text == Seq(Symbol)

(* The blank and the end of the line are no other symbol. *)
LEMMA NamedSymbols ==
  /\ Blank # EndOfLine
  /\ \A c \in Known \ {Blank} : c # Blank
  /\ \A c \in {"&", "=", "+", "/", "?", ":", "{", "history", "HTTP/1.1", "Content-Length",
                "content-length", "%26", "%3D", "%2B", "%2F", "%3F", "%20"} :
       c # Blank /\ c # EndOfLine
<1>1. Blank # EndOfLine
  BY Zenon DEF Blank, EndOfLine
<1> QED
  BY <1>1, Zenon DEF Blank, EndOfLine

(* Texts of the model are texts here.                                      *)
LEMMA KnownSymbols ==
  Known \subseteq Symbol /\ Seq(STRING) \subseteq Text
<1>1. Known \subseteq Symbol /\ STRING \subseteq Symbol
  BY DEF Symbol
<1>2. \A s \in Seq(STRING) : s \in Seq(Symbol)
  BY <1>1, SeqMonotonic
<1> QED
  BY <1>1, <1>2 DEF Text
-----------------------------------------------------------------------------
(* A sequence of one element, and a text of one symbol. *)
LEMMA OneElement ==
  ASSUME NEW S, NEW c \in S
  PROVE  <<c>> \in Seq(S) /\ Len(<<c>>) = 1 /\ <<c>>[1] = c
OBVIOUS

LEMMA OneSymbol ==
  ASSUME NEW c \in Symbol
  PROVE  <<c>> \in Text /\ Len(<<c>>) = 1 /\ <<c>>[1] = c
BY OneElement, Zenon DEF Text

(* The symbols of two texts, one behind the other. *)
LEMMA ConcatFacts ==
  ASSUME NEW S, NEW u \in Seq(S), NEW v \in Seq(S)
  PROVE  /\ u \o v \in Seq(S)
         /\ Len(u \o v) = Len(u) + Len(v)
         /\ Len(u) \in Nat /\ Len(v) \in Nat
         /\ \A i \in 1 .. Len(u) : (u \o v)[i] = u[i]
         /\ \A i \in 1 .. Len(v) : (u \o v)[Len(u) + i] = v[i]
<1>1. \A i \in 1 .. Len(u) + Len(v) :
         (u \o v)[i] = IF i <= Len(u) THEN u[i] ELSE v[i - Len(u)]
  BY ConcatProperties
<1>2. Len(u) \in Nat /\ Len(v) \in Nat
  BY LenProperties
<1>3. u \o v \in Seq(S) /\ Len(u \o v) = Len(u) + Len(v)
  BY ConcatProperties
<1>4. ASSUME NEW i \in 1 .. Len(v)
      PROVE  (u \o v)[Len(u) + i] = v[i]
  <2>1. Len(u) + i \in 1 .. Len(u) + Len(v) /\ ~(Len(u) + i <= Len(u)) /\ Len(u) + i - Len(u) = i
    BY <1>2
  <2> QED
    BY <1>1, <2>1
<1>5. ASSUME NEW i \in 1 .. Len(u)
      PROVE  (u \o v)[i] = u[i]
  <2>1. i \in 1 .. Len(u) + Len(v) /\ i <= Len(u)
    BY <1>2
  <2> QED
    BY <1>1, <2>1
<1> QED
  BY <1>2, <1>3, <1>4, <1>5

(* The same for texts.                                                     *)
LEMMA TextConcat ==
  ASSUME NEW u \in Text, NEW v \in Text
  PROVE  /\ u \o v \in Text
         /\ Len(u \o v) = Len(u) + Len(v)
         /\ Len(u) \in Nat /\ Len(v) \in Nat
         /\ \A i \in 1 .. Len(u) : (u \o v)[i] = u[i]
         /\ \A i \in 1 .. Len(v) : (u \o v)[Len(u) + i] = v[i]
BY ConcatFacts DEF Text

LEMMA TextAssociative ==
  ASSUME NEW u \in Text, NEW v \in Text, NEW w \in Text
  PROVE  (u \o v) \o w = u \o (v \o w)
BY ConcatAssociative DEF Text

(* The same with a name for "\o", which the provers need not look into.    *)
Joined(u, v) == u \o v

LEMMA JoinedFacts ==
  /\ \A u, v \in Text : Joined(u, v) \in Text
  /\ \A u, v, w \in Text : Joined(Joined(u, v), w) = Joined(u, Joined(v, w))
BY TextConcat, TextAssociative, Zenon DEF Joined

(* A symbol is in a joined text if it is in one of its parts.              *)
LEMMA ContainsConcat ==
  ASSUME NEW u \in Text, NEW v \in Text, NEW c
  PROVE  Contains(u \o v, c) <=> (Contains(u, c) \/ Contains(v, c))
<1>1. Len(u) \in Nat /\ Len(v) \in Nat /\ Len(u \o v) = Len(u) + Len(v)
  BY TextConcat
<1>2. ASSUME NEW i \in 1 .. Len(u \o v), (u \o v)[i] = c
      PROVE  Contains(u, c) \/ Contains(v, c)
  <2>1. CASE i <= Len(u)
    <3>1. i \in 1 .. Len(u)
      BY <2>1
    <3> QED
      BY <1>2, <3>1, TextConcat DEF Contains
  <2>2. CASE ~(i <= Len(u))
    <3>1. i - Len(u) \in 1 .. Len(v) /\ Len(u) + (i - Len(u)) = i
      BY <1>1, <2>2
    <3>2. (u \o v)[Len(u) + (i - Len(u))] = v[i - Len(u)]
      BY <3>1, TextConcat
    <3> QED
      BY <1>2, <3>1, <3>2 DEF Contains
  <2> QED
    BY <2>1, <2>2
<1>3. ASSUME NEW i \in 1 .. Len(u), u[i] = c
      PROVE  Contains(u \o v, c)
  <2>1. i \in 1 .. Len(u \o v) /\ (u \o v)[i] = c
    BY <1>1, <1>3, TextConcat
  <2> QED
    BY <2>1 DEF Contains
<1>4. ASSUME NEW i \in 1 .. Len(v), v[i] = c
      PROVE  Contains(u \o v, c)
  <2>1. Len(u) + i \in 1 .. Len(u \o v)
    BY <1>1
  <2>2. (u \o v)[Len(u) + i] = c
    BY <1>4, TextConcat
  <2> QED
    BY <2>1, <2>2 DEF Contains
<1> QED
  BY <1>2, <1>3, <1>4 DEF Contains

LEMMA ContainsOne ==
  ASSUME NEW c \in Symbol, NEW d
  PROVE  Contains(<<c>>, d) <=> c = d
<1>1. 1 .. 1 = {1}
  OBVIOUS
<1> QED
  BY <1>1, OneSymbol DEF Contains
-----------------------------------------------------------------------------
(* The least and the greatest number of a set are the ones that all others *)
(* are compared with.                                                      *)
LEMMA MinIs ==
  ASSUME NEW I, I \subseteq Int, NEW p \in I, \A i \in I : p <= i
  PROVE  Min(I) = p
<1>1. PICK x : x = Min(I)
  OBVIOUS
<1>2. x \in I /\ \A i \in I : x <= i
  BY <1>1 DEF Min
<1>3. p <= x /\ x <= p /\ p \in Int /\ x \in Int
  BY <1>2
<1> QED
  BY <1>1, <1>3

LEMMA MaxIs ==
  ASSUME NEW I, I \subseteq Int, NEW p \in I, \A i \in I : i <= p
  PROVE  Max(I) = p
<1>1. PICK x : x = Max(I)
  OBVIOUS
<1>2. x \in I /\ \A i \in I : x >= i
  BY <1>1 DEF Max
<1>3. p <= x /\ x <= p /\ p \in Int /\ x \in Int
  BY <1>2
<1> QED
  BY <1>1, <1>3

(* Where a search ends. *)
LEMMA FindAt ==
  ASSUME NEW text \in Text, NEW c, NEW p \in 1 .. Len(text), text[p] = c,
         \A i \in 1 .. p - 1 : text[i] # c
  PROVE  Find(text, c) = p
<1>1. Len(text) \in Nat
  BY LenProperties DEF Text
<1>2. PICK I : I = {i \in 1 .. Len(text) : text[i] = c}
  OBVIOUS
<1>3. I \subseteq Int /\ p \in I
  BY <1>2
<1>4. ASSUME NEW i \in I, ~(p <= i)
      PROVE  FALSE
  <2>1. i \in 1 .. Len(text) /\ text[i] = c
    BY <1>2
  <2>2. i \in 1 .. p - 1
    BY <1>1, <1>4, <2>1
  <2> QED
    BY <2>1, <2>2
<1>5. Min(I) = p
  BY <1>3, <1>4, MinIs
<1>6. Find(text, c) = IF I # {} THEN Min(I) ELSE 0
  BY <1>2 DEF Find, SelectInSeq
<1> QED
  BY <1>3, <1>5, <1>6

LEMMA FindNone ==
  ASSUME NEW text, NEW c, ~Contains(text, c)
  PROVE  Find(text, c) = 0
<1>1. {i \in 1 .. Len(text) : text[i] = c} = {}
  BY DEF Contains
<1> QED
  BY <1>1 DEF Find, SelectInSeq

(* A text around a symbol: what comes before and what comes behind it.     *)
LEMMA AroundFacts ==
  ASSUME NEW u \in Text, NEW v \in Text, NEW c \in Symbol
  PROVE  /\ u \o <<c>> \o v \in Text
         /\ Len(u) \in Nat /\ Len(v) \in Nat
         /\ Len(u \o <<c>> \o v) = Len(u) + 1 + Len(v)
         /\ \A i \in 1 .. Len(u) : (u \o <<c>> \o v)[i] = u[i]
         /\ (u \o <<c>> \o v)[Len(u) + 1] = c
         /\ \A i \in 1 .. Len(v) : (u \o <<c>> \o v)[Len(u) + 1 + i] = v[i]
<1>1. PICK uc : uc = u \o <<c>>
  OBVIOUS
<1>2. <<c>> \in Text /\ Len(<<c>>) = 1 /\ <<c>>[1] = c
  BY OneSymbol
<1>3. /\ uc \in Text /\ Len(uc) = Len(u) + 1 /\ Len(u) \in Nat
      /\ \A i \in 1 .. Len(u) : uc[i] = u[i]
      /\ \A i \in 1 .. 1 : uc[Len(u) + i] = <<c>>[i]
  BY <1>1, <1>2, TextConcat
<1>4. /\ uc \o v \in Text /\ Len(uc \o v) = Len(uc) + Len(v) /\ Len(v) \in Nat
      /\ \A i \in 1 .. Len(uc) : (uc \o v)[i] = uc[i]
      /\ \A i \in 1 .. Len(v) : (uc \o v)[Len(uc) + i] = v[i]
  BY <1>3, TextConcat
<1>5. uc[Len(u) + 1] = c
  <2>1. 1 \in 1 .. 1
    OBVIOUS
  <2> QED
    BY <1>2, <1>3, <2>1
<1>6. \A i \in 1 .. Len(u) : i \in 1 .. Len(uc)
  BY <1>3
<1>7. Len(u) + 1 \in 1 .. Len(uc)
  BY <1>3
<1> QED
  BY <1>1, <1>3, <1>4, <1>5, <1>6, <1>7

(* find_first_of and substr around the first of a symbol.                  *)
LEMMA Around ==
  ASSUME NEW u \in Text, NEW v \in Text, NEW c \in Symbol, ~Contains(u, c)
  PROVE  /\ Contains(u \o <<c>> \o v, c)
         /\ Find(u \o <<c>> \o v, c) = Len(u) + 1
         /\ Before(u \o <<c>> \o v, c) = u
         /\ Behind(u \o <<c>> \o v, c) = v
<1>1. PICK t : t = u \o <<c>> \o v
  OBVIOUS
<1>2. /\ t \in Text /\ Len(u) \in Nat /\ Len(v) \in Nat
      /\ Len(t) = Len(u) + 1 + Len(v)
      /\ \A i \in 1 .. Len(u) : t[i] = u[i]
      /\ t[Len(u) + 1] = c
      /\ \A i \in 1 .. Len(v) : t[Len(u) + 1 + i] = v[i]
  BY <1>1, AroundFacts
<1>3. Len(u) + 1 \in 1 .. Len(t)
  BY <1>2
<1>4. Contains(t, c)
  BY <1>2, <1>3 DEF Contains
<1>5. \A i \in 1 .. (Len(u) + 1) - 1 : t[i] # c
  <2>1. (Len(u) + 1) - 1 = Len(u)
    BY <1>2
  <2>2. \A i \in 1 .. Len(u) : u[i] # c
    BY DEF Contains
  <2> QED
    BY <1>2, <2>1, <2>2
<1>6. Find(t, c) = Len(u) + 1
  BY <1>2, <1>3, <1>5, FindAt
<1>7. SubSeq(t, 1, Len(u)) = u
  <2>1. \A i \in 1 .. Len(u) : t[i] \in Symbol
    BY <1>2, <1>3, ElementOfSeq DEF Text
  <2>2. /\ SubSeq(t, 1, Len(u)) \in Seq(Symbol)
        /\ Len(SubSeq(t, 1, Len(u))) = IF 1 <= Len(u) THEN Len(u) - 1 + 1 ELSE 0
        /\ \A i \in 1 .. Len(u) - 1 + 1 : SubSeq(t, 1, Len(u))[i] = t[1 + i - 1]
    BY <1>2, <2>1, SubSeqProperties
  <2>3. Len(SubSeq(t, 1, Len(u))) = Len(u)
    BY <1>2, <2>2
  <2>4. \A i \in 1 .. Len(u) : SubSeq(t, 1, Len(u))[i] = u[i]
    BY <1>2, <2>2
  <2> QED
    BY <2>2, <2>3, <2>4, SeqEqual DEF Text
<1>8. SubSeq(t, Len(u) + 2, Len(t)) = v
  <2>1. \A i \in Len(u) + 2 .. Len(t) : t[i] \in Symbol
    BY <1>2, <1>3, ElementOfSeq DEF Text
  <2>2. /\ SubSeq(t, Len(u) + 2, Len(t)) \in Seq(Symbol)
        /\ Len(SubSeq(t, Len(u) + 2, Len(t))) =
             IF Len(u) + 2 <= Len(t) THEN Len(t) - (Len(u) + 2) + 1 ELSE 0
        /\ \A i \in 1 .. Len(t) - (Len(u) + 2) + 1 :
             SubSeq(t, Len(u) + 2, Len(t))[i] = t[(Len(u) + 2) + i - 1]
    BY <1>2, <2>1, SubSeqProperties
  <2>3. Len(SubSeq(t, Len(u) + 2, Len(t))) = Len(v)
    BY <1>2, <2>2
  <2>4. \A i \in 1 .. Len(v) : SubSeq(t, Len(u) + 2, Len(t))[i] = v[i]
    <3>1. ASSUME NEW i \in 1 .. Len(v)
          PROVE  /\ i \in 1 .. Len(t) - (Len(u) + 2) + 1
                 /\ (Len(u) + 2) + i - 1 = Len(u) + 1 + i
      BY <1>2
    <3> QED
      BY <1>2, <2>2, <3>1
  <2> QED
    BY <2>2, <2>3, <2>4, SeqEqual DEF Text
<1>9. Before(t, c) = u
  BY <1>2, <1>4, <1>6, <1>7 DEF Before
<1>10. Behind(t, c) = v
  <2>1. (Len(u) + 1) + 1 = Len(u) + 2
    BY <1>2
  <2> QED
    BY <1>6, <1>8, <2>1 DEF Behind
<1> QED
  BY <1>1, <1>4, <1>6, <1>9, <1>10

(* Without the symbol, what comes before it is everything, and so is what  *)
(* comes behind it.                                                        *)
LEMMA NotThere ==
  ASSUME NEW text \in Text, NEW c, ~Contains(text, c)
  PROVE  Before(text, c) = text /\ Behind(text, c) = text
<1>1. Find(text, c) = 0
  BY FindNone
<1>2. SubSeq(text, 0 + 1, Len(text)) = text
  BY SubSeqFull DEF Text
<1> QED
  BY <1>1, <1>2 DEF Before, Behind

(* What comes before the last of a symbol. *)
LEMMA BeforeTheLast ==
  ASSUME NEW u \in Text, NEW v \in Text, NEW c \in Symbol, ~Contains(v, c)
  PROVE  BeforeLast(u \o <<c>> \o v, c) = u
<1>1. PICK t : t = u \o <<c>> \o v
  OBVIOUS
<1>2. /\ t \in Text /\ Len(u) \in Nat /\ Len(v) \in Nat
      /\ Len(t) = Len(u) + 1 + Len(v)
      /\ \A i \in 1 .. Len(u) : t[i] = u[i]
      /\ t[Len(u) + 1] = c
      /\ \A i \in 1 .. Len(v) : t[Len(u) + 1 + i] = v[i]
  BY <1>1, AroundFacts
<1>3. PICK I : I = {i \in 1 .. Len(t) : t[i] = c}
  OBVIOUS
<1>4. I \subseteq Int /\ Len(u) + 1 \in I /\ Contains(t, c)
  <2>1. Len(u) + 1 \in 1 .. Len(t)
    BY <1>2
  <2>2. I \subseteq Int
    <3>1. \A i \in I : i \in 1 .. Len(t)
      BY <1>3
    <3> QED
      BY <1>2, <3>1
  <2> QED
    BY <1>2, <1>3, <2>1, <2>2 DEF Contains
<1>5. ASSUME NEW i \in I, ~(i <= Len(u) + 1)
      PROVE  FALSE
  <2>1. i \in 1 .. Len(t) /\ t[i] = c
    BY <1>3
  <2>2. i - (Len(u) + 1) \in 1 .. Len(v) /\ Len(u) + 1 + (i - (Len(u) + 1)) = i
    BY <1>2, <1>5, <2>1
  <2>3. v[i - (Len(u) + 1)] = c
    BY <1>2, <2>1, <2>2
  <2> QED
    BY <2>2, <2>3 DEF Contains
<1>6. Max(I) = Len(u) + 1
  BY <1>4, <1>5, MaxIs
<1>7. SelectLastInSeq(t, LAMBDA s : s = c) = IF I # {} THEN Max(I) ELSE 0
  BY <1>3 DEF SelectLastInSeq
<1>8. BeforeLast(t, c) = SubSeq(t, 1, Len(u))
  <2>1. SelectLastInSeq(t, LAMBDA s : s = c) = Len(u) + 1
    BY <1>4, <1>6, <1>7
  <2>2. (Len(u) + 1) - 1 = Len(u)
    BY <1>2
  <2> QED
    BY <1>4, <2>1, <2>2 DEF BeforeLast
<1>9. SubSeq(t, 1, Len(u)) = u
  <2>1. \A i \in 1 .. Len(u) : t[i] \in Symbol
    BY <1>2, ElementOfSeq DEF Text
  <2>2. /\ SubSeq(t, 1, Len(u)) \in Seq(Symbol)
        /\ Len(SubSeq(t, 1, Len(u))) = IF 1 <= Len(u) THEN Len(u) - 1 + 1 ELSE 0
        /\ \A i \in 1 .. Len(u) - 1 + 1 : SubSeq(t, 1, Len(u))[i] = t[1 + i - 1]
    BY <1>2, <2>1, SubSeqProperties
  <2>3. Len(SubSeq(t, 1, Len(u))) = Len(u)
    BY <1>2, <2>2
  <2>4. \A i \in 1 .. Len(u) : SubSeq(t, 1, Len(u))[i] = u[i]
    BY <1>2, <2>2
  <2> QED
    BY <2>2, <2>3, <2>4, SeqEqual DEF Text
<1> QED
  BY <1>1, <1>8, <1>9
-----------------------------------------------------------------------------
(* A recursion over the positions of a text: there is one function that    *)
(* begins with base and goes on by step.                                   *)
Recursion(f, base, step, N) ==
  f[0] = base /\ \A i \in 1 .. N : f[i] = step[<<i, f[i - 1]>>]

LEMMA RecursionExists ==
  ASSUME NEW S, NEW base \in S, NEW N \in Nat, NEW step,
         \A i \in 1 .. N : \A x \in S : step[<<i, x>>] \in S
  PROVE  \E f \in [0 .. N -> S] : Recursion(f, base, step, N)
<1>1. PICK A : A = {n \in Nat : n <= N => \E f \in [0 .. n -> S] : Recursion(f, base, step, n)}
  OBVIOUS
<1>2. 0 \in A
  <2>1. PICK f : f = [i \in 0 .. 0 |-> base]
    OBVIOUS
  <2>2. f \in [0 .. 0 -> S] /\ f[0] = base
    BY <2>1
  <2>3. Recursion(f, base, step, 0)
    BY <2>2 DEF Recursion
  <2> QED
    BY <1>1, <2>2, <2>3
<1>3. ASSUME NEW n \in Nat, n \in A
      PROVE  n + 1 \in A
  <2>1. SUFFICES ASSUME n + 1 <= N
                 PROVE  \E f \in [0 .. n + 1 -> S] : Recursion(f, base, step, n + 1)
    BY <1>1
  <2>2. PICK f \in [0 .. n -> S] : Recursion(f, base, step, n)
    BY <1>1, <1>3, <2>1
  <2>3. PICK x : x = step[<<n + 1, f[n]>>]
    OBVIOUS
  <2>4. x \in S
    <3>1. n + 1 \in 1 .. N /\ n \in 0 .. n
      BY <2>1
    <3> QED
      BY <2>2, <2>3, <3>1
  <2>5. PICK g : g = [i \in 0 .. n + 1 |-> IF i = n + 1 THEN x ELSE f[i]]
    OBVIOUS
  <2>6. /\ g[n + 1] = x
        /\ \A i \in 0 .. n : g[i] = f[i]
    BY <2>5
  <2>7. g \in [0 .. n + 1 -> S]
    <3>1. \A i \in 0 .. n + 1 : i # n + 1 => i \in 0 .. n
      OBVIOUS
    <3> QED
      BY <2>2, <2>4, <2>5, <3>1
  <2>8. ASSUME NEW i \in 1 .. n + 1
        PROVE  g[i] = step[<<i, g[i - 1]>>]
    <3>1. CASE i = n + 1
      <4>1. g[n] = f[n] /\ i - 1 = n
        BY <2>6, <3>1
      <4> QED
        BY <2>3, <2>6, <3>1, <4>1
    <3>2. CASE i # n + 1
      <4>1. i \in 1 .. n /\ i \in 0 .. n /\ i - 1 \in 0 .. n
        BY <3>2
      <4>2. f[i] = step[<<i, f[i - 1]>>]
        BY <2>2, <4>1 DEF Recursion
      <4> QED
        BY <2>6, <4>1, <4>2
    <3> QED
      BY <3>1, <3>2
  <2>9. g[0] = base
    BY <2>2, <2>6 DEF Recursion
  <2>10. Recursion(g, base, step, n + 1)
    BY <2>8, <2>9 DEF Recursion
  <2> QED
    BY <2>7, <2>10
<1>4. N \in A
  BY <1>2, <1>3, NumbersInductive
<1> QED
  BY <1>1, <1>4

(* The number a text of digits stands for, digit by digit. *)
LEMMA DigitFacts ==
  \A d \in DOMAIN Digit : Digit[d] \in Nat
<1>1. DOMAIN Numerals = 1 .. 10
  BY DEF Numerals
<1>2. DOMAIN Digit = Range(Numerals)
  BY DEF Digit
<1>3. ASSUME NEW d \in Range(Numerals)
      PROVE  Digit[d] \in Nat
  <2>1. \E i \in 1 .. 10 : Numerals[i] = d
    BY <1>1 DEF Range
  <2>2. PICK i : i = CHOOSE j \in 1 .. 10 : Numerals[j] = d
    OBVIOUS
  <2>3. i \in 1 .. 10
    BY <2>1, <2>2
  <2>4. Digit[d] = i - 1
    BY <2>2 DEF Digit
  <2> QED
    BY <2>3, <2>4
<1> QED
  BY <1>2, <1>3

LEMMA NumberFacts ==
  ASSUME NEW digits \in Seq(DOMAIN Digit)
  PROVE  \E f \in [0 .. Len(digits) -> Nat] :
           /\ f[0] = 0
           /\ \A i \in 1 .. Len(digits) : f[i] = 10 * f[i - 1] + Digit[digits[i]]
           /\ Number(digits) = f[Len(digits)]
<1>1. PICK N \in Nat : N = Len(digits)
  BY LenProperties
<1>2. \A i \in 1 .. N : Digit[digits[i]] \in Nat
  BY <1>1, ElementOfSeq, DigitFacts
<1>3. PICK step : step = [p \in (1 .. N) \X Nat |-> 10 * p[2] + Digit[digits[p[1]]]]
  OBVIOUS
<1>4. \A i \in 1 .. N : \A x \in Nat : step[<<i, x>>] = 10 * x + Digit[digits[i]]
  BY <1>3
<1>5. ASSUME NEW i \in 1 .. N, NEW x \in Nat
      PROVE  step[<<i, x>>] \in Nat
  <2>1. Digit[digits[i]] \in Nat /\ step[<<i, x>>] = 10 * x + Digit[digits[i]]
    BY <1>2, <1>4
  <2> QED
    BY <2>1
<1>6. PICK f \in [0 .. N -> Nat] : Recursion(f, 0, step, N)
  BY <1>5, RecursionExists
<1>7. \A i \in 1 .. N : f[i] = 10 * f[i - 1] + Digit[digits[i]]
  <2>1. ASSUME NEW i \in 1 .. N
        PROVE  i - 1 \in 0 .. N
    BY <1>1
  <2>2. ASSUME NEW i \in 1 .. N
        PROVE  f[i - 1] \in Nat
    BY <1>6, <2>1
  <2> QED
    BY <1>4, <1>6, <2>2 DEF Recursion
<1>8. f = [n \in 0 .. N |-> IF n = 0 THEN 0 ELSE 10 * f[n - 1] + Digit[digits[n]]]
  <2>1. \A n \in 0 .. N : f[n] = IF n = 0 THEN 0 ELSE 10 * f[n - 1] + Digit[digits[n]]
    <3>1. \A n \in 0 .. N : n # 0 => n \in 1 .. N
      OBVIOUS
    <3>2. f[0] = 0
      BY <1>6 DEF Recursion
    <3> QED
      BY <1>7, <3>1, <3>2
  <2> QED
    BY <2>1
<1>9. PICK g : g = CHOOSE h :
         h = [n \in 0 .. N |-> IF n = 0 THEN 0 ELSE 10 * h[n - 1] + Digit[digits[n]]]
  OBVIOUS
<1>10. g = [n \in 0 .. N |-> IF n = 0 THEN 0 ELSE 10 * g[n - 1] + Digit[digits[n]]]
  BY <1>8, <1>9
<1>11. Number(digits) = g[N]
  BY <1>1, <1>9 DEF Number
<1>12. g[0] = 0 /\ \A i \in 1 .. N : g[i] = 10 * g[i - 1] + Digit[digits[i]]
  BY <1>1, <1>10
<1>13. PICK A : A = {n \in Nat : n <= N => f[n] = g[n]}
  OBVIOUS
<1>14. 0 \in A
  BY <1>6, <1>12, <1>13 DEF Recursion
<1>15. ASSUME NEW n \in Nat, n \in A
       PROVE  n + 1 \in A
  <2>1. SUFFICES ASSUME n + 1 <= N
                 PROVE  f[n + 1] = g[n + 1]
    BY <1>13
  <2>2. f[n] = g[n]
    BY <1>13, <1>15, <2>1
  <2>3. n + 1 \in 1 .. N /\ (n + 1) - 1 = n
    BY <2>1
  <2> QED
    BY <1>7, <1>12, <2>2, <2>3
<1>16. N \in A
  BY <1>14, <1>15, NumbersInductive
<1>17. f[N] = g[N]
  BY <1>13, <1>16
<1> QED
  BY <1>1, <1>6, <1>7, <1>11, <1>17 DEF Recursion

LEMMA TenTimes ==
  ASSUME NEW p \in Nat, NEW q \in Nat, NEW d \in Nat, p <= q
  PROVE  10 * p + d <= 10 * q + d
<1>1. 10 * p <= 10 * q
  OBVIOUS
<1> QED
  BY <1>1

(* Without its first digit, a number is not greater. *)
LEMMA NumberOfTail ==
  ASSUME NEW digits \in Seq(DOMAIN Digit), digits # <<>>
  PROVE  Number(Tail(digits)) <= Number(digits)
<1>1. PICK tail : tail = Tail(digits)
  OBVIOUS
<1>2. PICK N \in Nat : Len(digits) = N + 1
  <2>1. Len(digits) \in Nat /\ Len(digits) # 0
    BY EmptySeq, LenProperties
  <2> QED
    BY <2>1
<1>3. /\ tail \in Seq(DOMAIN Digit) /\ Len(tail) = N
      /\ \A i \in 1 .. N : tail[i] = digits[i + 1]
  BY <1>1, <1>2, HeadTailProperties
<1>4. PICK f \in [0 .. N + 1 -> Nat] :
         /\ f[0] = 0
         /\ \A i \in 1 .. N + 1 : f[i] = 10 * f[i - 1] + Digit[digits[i]]
         /\ Number(digits) = f[N + 1]
  BY <1>2, NumberFacts
<1>5. PICK g \in [0 .. N -> Nat] :
         /\ g[0] = 0
         /\ \A i \in 1 .. N : g[i] = 10 * g[i - 1] + Digit[tail[i]]
         /\ Number(tail) = g[N]
  BY <1>3, NumberFacts
<1>6. PICK A : A = {n \in Nat : n <= N => g[n] <= f[n + 1]}
  OBVIOUS
<1>7. 0 \in A
  <2>1. f[0 + 1] \in Nat
    BY <1>4
  <2> QED
    BY <1>5, <1>6, <2>1
<1>8. ASSUME NEW n \in Nat, n \in A
      PROVE  n + 1 \in A
  <2>1. SUFFICES ASSUME n + 1 <= N
                 PROVE  g[n + 1] <= f[(n + 1) + 1]
    BY <1>6
  <2>2. g[n] <= f[n + 1]
    BY <1>6, <1>8, <2>1
  <2>3. /\ n + 1 \in 1 .. N /\ (n + 1) - 1 = n
        /\ (n + 1) + 1 \in 1 .. N + 1 /\ ((n + 1) + 1) - 1 = n + 1
    BY <2>1
  <2>4. g[n + 1] = 10 * g[n] + Digit[tail[n + 1]]
    BY <1>5, <2>3
  <2>5. f[(n + 1) + 1] = 10 * f[n + 1] + Digit[digits[(n + 1) + 1]]
    BY <1>4, <2>3
  <2>6. tail[n + 1] = digits[(n + 1) + 1]
    BY <1>3, <2>3
  <2>7. g[n] \in Nat /\ f[n + 1] \in Nat
    BY <1>4, <1>5, <2>3
  <2>8. Digit[tail[n + 1]] \in Nat
    BY <1>3, <2>3, ElementOfSeq, DigitFacts
  <2> QED
    <3>1. PICK d \in Nat : d = Digit[tail[n + 1]]
      BY <2>8
    <3>2. g[n + 1] = 10 * g[n] + d /\ f[(n + 1) + 1] = 10 * f[n + 1] + d
      BY <2>4, <2>5, <2>6, <3>1
    <3>3. PICK p \in Nat, q \in Nat : p = g[n] /\ q = f[n + 1] /\ p <= q
      BY <2>2, <2>7
    <3>4. 10 * p + d <= 10 * q + d
      BY <3>3, TenTimes
    <3> QED
      BY <3>2, <3>3, <3>4
<1>9. N \in A
  BY <1>7, <1>8, NumbersInductive
<1> QED
  BY <1>1, <1>4, <1>5, <1>6, <1>9

(* No digits, no number. *)
LEMMA NumberOfNone ==
  /\ Number(<<>>) = 0
  /\ \A digits \in Seq(DOMAIN Digit) : Number(digits) \in Nat
<1>1. \A digits \in Seq(DOMAIN Digit) : Number(digits) \in Nat
  <2>1. SUFFICES ASSUME NEW digits \in Seq(DOMAIN Digit)
                 PROVE  Number(digits) \in Nat
    OBVIOUS
  <2>2. Len(digits) \in 0 .. Len(digits)
    BY LenProperties
  <2> QED
    BY <2>2, NumberFacts
<1>2. <<>> \in Seq(DOMAIN Digit) /\ Len(<<>>) = 0
  BY EmptySeq
<1>3. Number(<<>>) = 0
  BY <1>2, NumberFacts
<1> QED
  BY <1>1, <1>3

-----------------------------------------------------------------------------
(* StripSpaces, symbol by symbol. *)
LEMMA StripSpacesFacts ==
  ASSUME NEW text \in Text
  PROVE  \E f :
           /\ f[0] = <<>>
           /\ \A i \in 1 .. Len(text) :
                f[i] = IF text[i] = Blank THEN f[i - 1] ELSE Append(f[i - 1], text[i])
           /\ StripSpaces(text) = f[Len(text)]
<1>1. PICK N \in Nat : N = Len(text)
  BY LenProperties DEF Text
<1>2. \A i \in 1 .. N : text[i] \in Symbol
  BY <1>1, ElementOfSeq DEF Text
<1>3. PICK step : step = [p \in (1 .. N) \X Text |->
                            IF text[p[1]] = Blank THEN p[2] ELSE Append(p[2], text[p[1]])]
  OBVIOUS
<1>4. \A i \in 1 .. N : \A x \in Text :
         step[<<i, x>>] = IF text[i] = Blank THEN x ELSE Append(x, text[i])
  BY <1>3
<1>5. ASSUME NEW i \in 1 .. N, NEW x \in Text
      PROVE  step[<<i, x>>] \in Text
  <2>1. Append(x, text[i]) \in Text
    BY <1>2, AppendProperties DEF Text
  <2> QED
    BY <1>4, <2>1
<1>6. <<>> \in Text
  BY EmptySeq DEF Text
<1>7. PICK f \in [0 .. N -> Text] : Recursion(f, <<>>, step, N)
  BY <1>5, <1>6, RecursionExists
<1>8. f = [n \in 0 .. N |->
             IF n = 0 THEN <<>>
             ELSE IF text[n] = Blank THEN f[n - 1] ELSE Append(f[n - 1], text[n])]
  <2>1. \A n \in 0 .. N : n # 0 => n \in 1 .. N /\ n - 1 \in 0 .. N
    BY <1>1
  <2>2. \A n \in 1 .. N : f[n] = IF text[n] = Blank THEN f[n - 1] ELSE Append(f[n - 1], text[n])
    <3>1. SUFFICES ASSUME NEW n \in 1 .. N
                   PROVE  f[n] = IF text[n] = Blank THEN f[n - 1] ELSE Append(f[n - 1], text[n])
      OBVIOUS
    <3>2. n - 1 \in 0 .. N
      BY <1>1
    <3>3. f[n - 1] \in Text
      BY <1>7, <3>2
    <3> QED
      BY <1>4, <1>7, <3>3 DEF Recursion
  <2>3. f[0] = <<>>
    BY <1>7 DEF Recursion
  <2>4. \A n \in 0 .. N : f[n] = IF n = 0 THEN <<>>
             ELSE IF text[n] = Blank THEN f[n - 1] ELSE Append(f[n - 1], text[n])
    BY <2>1, <2>2, <2>3
  <2> QED
    BY <2>4, <1>7
<1>9. PICK g : g = CHOOSE h :
         h = [n \in 0 .. N |->
                IF n = 0 THEN <<>>
                ELSE IF text[n] = Blank THEN h[n - 1] ELSE Append(h[n - 1], text[n])]
  OBVIOUS
<1>10. g = [n \in 0 .. N |->
              IF n = 0 THEN <<>>
              ELSE IF text[n] = Blank THEN g[n - 1] ELSE Append(g[n - 1], text[n])]
  BY <1>8, <1>9
<1>11. StripSpaces(text) = g[N]
  BY <1>1, <1>9 DEF StripSpaces
<1>12. g[0] = <<>>
  <2>1. 0 \in 0 .. N
    OBVIOUS
  <2> QED
    BY <1>10, <2>1
<1>13. \A i \in 1 .. N :
         g[i] = IF text[i] = Blank THEN g[i - 1] ELSE Append(g[i - 1], text[i])
  <2>1. \A i \in 1 .. N : i \in 0 .. N /\ i # 0
    OBVIOUS
  <2> QED
    BY <1>10, <2>1
<1> QED
  BY <1>1, <1>11, <1>12, <1>13

(* It leaves a text without blanks as it is, and takes off a blank behind. *)
LEMMA StripSpacesPlain ==
  ASSUME NEW text \in Text, NEW blank \in BOOLEAN, ~Contains(text, Blank)
  PROVE  StripSpaces(IF blank THEN text \o <<Blank>> ELSE text) = text
<1>1. PICK whole : whole = IF blank THEN text \o <<Blank>> ELSE text
  OBVIOUS
<1>2. PICK N \in Nat : N = Len(text)
  BY LenProperties DEF Text
<1>3. <<Blank>> \in Text /\ Len(<<Blank>>) = 1 /\ <<Blank>>[1] = Blank
  BY OneSymbol, KnownSymbols DEF Known
<1>4. /\ text \o <<Blank>> \in Text
      /\ Len(text \o <<Blank>>) = N + 1
      /\ \A i \in 1 .. N : (text \o <<Blank>>)[i] = text[i]
      /\ (text \o <<Blank>>)[N + 1] = Blank
  <2>1. 1 \in 1 .. 1
    OBVIOUS
  <2> QED
    BY <1>2, <1>3, <2>1, TextConcat
<1>5. /\ whole \in Text /\ Len(whole) = IF blank THEN N + 1 ELSE N
      /\ \A i \in 1 .. N : whole[i] = text[i]
      /\ blank => whole[N + 1] = Blank
  BY <1>1, <1>2, <1>4
<1>6. PICK f : /\ f[0] = <<>>
               /\ \A i \in 1 .. Len(whole) :
                    f[i] = IF whole[i] = Blank THEN f[i - 1] ELSE Append(f[i - 1], whole[i])
               /\ StripSpaces(whole) = f[Len(whole)]
  BY <1>5, StripSpacesFacts
<1>7. PICK A : A = {n \in Nat : n <= N => f[n] = SubSeq(text, 1, n)}
  OBVIOUS
<1>8. 0 \in A
  <2>1. SubSeq(text, 1, 0) = <<>>
    BY SubSeqEmpty
  <2> QED
    BY <1>6, <1>7, <2>1
<1>9. ASSUME NEW n \in Nat, n \in A
      PROVE  n + 1 \in A
  <2>1. SUFFICES ASSUME n + 1 <= N
                 PROVE  f[n + 1] = SubSeq(text, 1, n + 1)
    BY <1>7
  <2>2. f[n] = SubSeq(text, 1, n)
    BY <1>7, <1>9, <2>1
  <2>3. n + 1 \in 1 .. N /\ (n + 1) - 1 = n /\ n + 1 \in 1 .. Len(whole)
    BY <1>5, <2>1
  <2>4. whole[n + 1] = text[n + 1] /\ text[n + 1] # Blank
    BY <1>2, <1>5, <2>3 DEF Contains
  <2>5. f[n + 1] = Append(f[n], text[n + 1])
    BY <1>6, <2>3, <2>4
  <2>6. SubSeq(text, 1, n + 1) = SubSeq(text, 1, n) \o <<text[n + 1]>>
    <3>1. 1 \in 1 .. Len(text) /\ n + 1 \in 1 .. Len(text)
      BY <1>2, <2>3
    <3> QED
      BY <2>3, <3>1, SubSeqRecursiveSecond DEF Text
  <2>7. SubSeq(text, 1, n) \in Seq(Symbol) /\ text[n + 1] \in Symbol
    <3>1. \A i \in 1 .. n : text[i] \in Symbol
      BY <1>2, <2>1, ElementOfSeq DEF Text
    <3>2. n + 1 \in 1 .. Len(text)
      BY <1>2, <2>3
    <3> QED
      BY <3>1, <3>2, ElementOfSeq, SubSeqProperties DEF Text
  <2> QED
    BY <2>2, <2>5, <2>6, <2>7, AppendIsConcat
<1>10. N \in A
  BY <1>8, <1>9, NumbersInductive
<1>11. f[N] = text
  BY <1>2, <1>7, <1>10, SubSeqFull DEF Text
<1>12. CASE blank
  <2>1. N + 1 \in 1 .. Len(whole) /\ (N + 1) - 1 = N
    BY <1>5, <1>12
  <2>2. f[N + 1] = f[N]
    BY <1>5, <1>6, <1>12, <2>1
  <2> QED
    BY <1>1, <1>5, <1>6, <1>11, <1>12, <2>2
<1>13. CASE ~blank
  BY <1>1, <1>5, <1>6, <1>11, <1>13
<1> QED
  BY <1>12, <1>13
-----------------------------------------------------------------------------
(* FlattenSeq, piece by piece. *)
LEMMA FlattenFacts ==
  ASSUME NEW S, NEW s \in Seq(Seq(S))
  PROVE  \E f \in [0 .. Len(s) -> Seq(S)] :
           /\ f[0] = <<>>
           /\ \A i \in 1 .. Len(s) : f[i] = f[i - 1] \o s[i]
           /\ FlattenSeq(s) = f[Len(s)]
<1>1. PICK N \in Nat : N = Len(s)
  BY LenProperties
<1>2. \A i \in 1 .. N : s[i] \in Seq(S)
  BY <1>1, ElementOfSeq
<1>3. PICK step : step = [p \in (1 .. N) \X Seq(S) |-> p[2] \o s[p[1]]]
  OBVIOUS
<1>4. \A i \in 1 .. N : \A x \in Seq(S) : step[<<i, x>>] = x \o s[i]
  BY <1>3
<1>5. ASSUME NEW i \in 1 .. N, NEW x \in Seq(S)
      PROVE  step[<<i, x>>] \in Seq(S)
  <2>1. x \o s[i] \in Seq(S)
    BY <1>2, ConcatProperties
  <2> QED
    BY <1>4, <2>1
<1>6. <<>> \in Seq(S)
  BY EmptySeq
<1>7. PICK f \in [0 .. N -> Seq(S)] : Recursion(f, <<>>, step, N)
  BY <1>5, <1>6, RecursionExists
<1>8. f[0] = <<>> /\ \A i \in 1 .. N : f[i] = f[i - 1] \o s[i]
  <2>1. ASSUME NEW i \in 1 .. N
        PROVE  f[i] = f[i - 1] \o s[i]
    <3>1. i - 1 \in 0 .. N
      BY <1>1
    <3>2. f[i - 1] \in Seq(S)
      BY <1>7, <3>1
    <3> QED
      BY <1>4, <1>7, <3>2 DEF Recursion
  <2> QED
    BY <1>7, <2>1 DEF Recursion
<1>9. CASE N = 0
  <2>1. s = <<>>
    BY <1>1, <1>9, EmptySeq
  <2>2. FlattenSeq(s) = s
    BY <1>1, <1>9 DEF FlattenSeq
  <2> QED
    BY <1>1, <1>7, <1>8, <1>9, <2>1, <2>2
<1>10. CASE N # 0
  <2>1. PICK h : h = [i \in 1 .. N |-> f[i]]
    OBVIOUS
  <2>2. h = [i \in 1 .. N |-> IF i = 1 THEN s[i] ELSE h[i - 1] \o s[i]]
    <3>1. ASSUME NEW i \in 1 .. N
          PROVE  h[i] = IF i = 1 THEN s[i] ELSE h[i - 1] \o s[i]
      <4>1. CASE i = 1
        <5>1. f[1] = f[0] \o s[1] /\ s[1] \in Seq(S)
          <6>1. 1 \in 1 .. N /\ 1 - 1 = 0
            BY <4>1
          <6> QED
            BY <1>2, <1>8, <6>1
        <5>2. f[1] = s[1]
          BY <1>8, <5>1, ConcatEmptySeq
        <5> QED
          BY <2>1, <4>1, <5>2
      <4>2. CASE i # 1
        <5>1. i - 1 \in 1 .. N
          BY <1>1, <4>2
        <5> QED
          BY <1>8, <2>1, <4>2, <5>1
      <4> QED
        BY <4>1, <4>2
    <3> QED
      BY <2>1, <3>1
  <2>3. PICK g : g = CHOOSE k :
           k = [i \in 1 .. N |-> IF i = 1 THEN s[i] ELSE k[i - 1] \o s[i]]
    OBVIOUS
  <2>4. g = [i \in 1 .. N |-> IF i = 1 THEN s[i] ELSE g[i - 1] \o s[i]]
    BY <2>2, <2>3
  <2>5. FlattenSeq(s) = g[N]
    BY <1>1, <1>10, <2>3 DEF FlattenSeq
  <2>6. PICK A : A = {n \in Nat : n + 1 <= N => g[n + 1] = f[n + 1]}
    OBVIOUS
  <2>7. 0 \in A
    <3>1. 1 \in 1 .. N
      BY <1>1, <1>10
    <3>2. g[1] = s[1]
      BY <2>4, <3>1
    <3>3. h[1] = s[1] /\ h[1] = f[1]
      BY <2>1, <2>2, <3>1
    <3> QED
      BY <2>6, <3>2, <3>3
  <2>8. ASSUME NEW n \in Nat, n \in A
        PROVE  n + 1 \in A
    <3>1. SUFFICES ASSUME (n + 1) + 1 <= N
                   PROVE  g[(n + 1) + 1] = f[(n + 1) + 1]
      BY <2>6
    <3>2. g[n + 1] = f[n + 1]
      BY <2>6, <2>8, <3>1
    <3>3. (n + 1) + 1 \in 1 .. N /\ (n + 1) + 1 # 1 /\ ((n + 1) + 1) - 1 = n + 1
      BY <3>1
    <3> QED
      <4>1. PICK m : m = (n + 1) + 1
        OBVIOUS
      <4>2. m \in 1 .. N /\ m # 1 /\ m - 1 = n + 1
        BY <3>3, <4>1
      <4>3. g[m] = g[m - 1] \o s[m]
        BY <2>4, <4>2
      <4>4. f[m] = f[m - 1] \o s[m]
        BY <1>8, <4>2
      <4> QED
        BY <3>2, <4>1, <4>2, <4>3, <4>4
  <2>9. N - 1 \in Nat /\ (N - 1) + 1 = N
    BY <1>10
  <2>10. Nat \subseteq A
    BY <2>7, <2>8, NumbersInductive
  <2>11. g[N] = f[N]
    <3>1. N - 1 \in A
      BY <2>9, <2>10
    <3> QED
      BY <2>6, <2>9, <3>1
  <2> QED
    BY <1>1, <1>7, <1>8, <2>5, <2>11
<1> QED
  BY <1>9, <1>10

(* A last piece is put behind the others.                                  *)
LEMMA FlattenAppend ==
  ASSUME NEW S, NEW s \in Seq(Seq(S)), NEW x \in Seq(S)
  PROVE  /\ FlattenSeq(s) \in Seq(S)
         /\ FlattenSeq(Append(s, x)) = FlattenSeq(s) \o x
<1>1. PICK N \in Nat : N = Len(s)
  BY LenProperties
<1>2. PICK t : t = Append(s, x)
  OBVIOUS
<1>3. /\ t \in Seq(Seq(S)) /\ Len(t) = N + 1
      /\ \A i \in 1 .. N : t[i] = s[i]
      /\ t[N + 1] = x
  BY <1>1, <1>2, AppendProperties
<1>4. PICK f \in [0 .. N -> Seq(S)] :
           /\ f[0] = <<>>
           /\ \A i \in 1 .. N : f[i] = f[i - 1] \o s[i]
           /\ FlattenSeq(s) = f[N]
  BY <1>1, FlattenFacts
<1>5. PICK g \in [0 .. N + 1 -> Seq(S)] :
           /\ g[0] = <<>>
           /\ \A i \in 1 .. N + 1 : g[i] = g[i - 1] \o t[i]
           /\ FlattenSeq(t) = g[N + 1]
  <2>1. \E g \in [0 .. Len(t) -> Seq(S)] :
           /\ g[0] = <<>>
           /\ \A i \in 1 .. Len(t) : g[i] = g[i - 1] \o t[i]
           /\ FlattenSeq(t) = g[Len(t)]
    BY <1>3, FlattenFacts
  <2> QED
    BY <1>3, <2>1
<1>6. PICK A : A = {n \in Nat : n <= N => g[n] = f[n]}
  OBVIOUS
<1>7. 0 \in A
  BY <1>4, <1>5, <1>6
<1>8. ASSUME NEW n \in Nat, n \in A
      PROVE  n + 1 \in A
  <2>1. SUFFICES ASSUME n + 1 <= N
                 PROVE  g[n + 1] = f[n + 1]
    BY <1>6
  <2>2. g[n] = f[n]
    BY <1>6, <1>8, <2>1
  <2>3. n + 1 \in 1 .. N /\ n + 1 \in 1 .. N + 1 /\ (n + 1) - 1 = n
    BY <2>1
  <2> QED
    BY <1>3, <1>4, <1>5, <2>2, <2>3
<1>9. N \in A
  BY <1>7, <1>8, NumbersInductive
<1>10. g[N] = f[N] /\ f[N] \in Seq(S)
  BY <1>4, <1>6, <1>9
<1>11. g[N + 1] = g[N] \o x
  <2>1. N + 1 \in 1 .. N + 1 /\ (N + 1) - 1 = N
    OBVIOUS
  <2> QED
    BY <1>3, <1>5, <2>1
<1> QED
  BY <1>2, <1>4, <1>5, <1>10, <1>11

(* No pieces, no text.                                                     *)
LEMMA FlattenEmpty ==
  FlattenSeq(<<>>) = <<>>
BY DEF FlattenSeq

(* A first piece and the pieces behind it. *)
LEMMA FlattenFirst ==
  ASSUME NEW S
  PROVE  \A s \in Seq(Seq(S)) : s # <<>> =>
           FlattenSeq(s) = s[1] \o FlattenSeq(Tail(s))
<1>1. PICK A : A = {n \in Nat : \A s \in Seq(Seq(S)) : Len(s) = n + 1 =>
                      FlattenSeq(s) = s[1] \o FlattenSeq(Tail(s))}
  OBVIOUS
<1>2. 0 \in A
  <2>1. SUFFICES ASSUME NEW s \in Seq(Seq(S)), Len(s) = 1
                 PROVE  FlattenSeq(s) = s[1] \o FlattenSeq(Tail(s))
    BY <1>1
  <2>2. s # <<>> /\ s[1] \in Seq(S) /\ 1 \in 1 .. Len(s)
    BY <2>1, EmptySeq, ElementOfSeq
  <2>3. Tail(s) = <<>>
    <3>1. Tail(s) \in Seq(Seq(S)) /\ Len(Tail(s)) = 0
      BY <2>1, <2>2, HeadTailProperties
    <3> QED
      BY <3>1, EmptySeq
  <2>4. PICK f \in [0 .. 1 -> Seq(S)] :
                 /\ f[0] = <<>>
                 /\ \A i \in 1 .. 1 : f[i] = f[i - 1] \o s[i]
                 /\ FlattenSeq(s) = f[1]
    <3>1. \E f \in [0 .. Len(s) -> Seq(S)] :
             /\ f[0] = <<>>
             /\ \A i \in 1 .. Len(s) : f[i] = f[i - 1] \o s[i]
             /\ FlattenSeq(s) = f[Len(s)]
      BY FlattenFacts
    <3> QED
      BY <2>1, <3>1
  <2>5. f[1] = <<>> \o s[1]
    <3>1. 1 \in 1 .. 1 /\ 1 - 1 = 0
      OBVIOUS
    <3> QED
      BY <2>4, <3>1
  <2> QED
    <3>1. <<>> \o s[1] = s[1] /\ s[1] \o <<>> = s[1]
      BY <2>2, ConcatEmptySeq
    <3> QED
      <4>1. FlattenSeq(Tail(s)) = <<>>
        BY <2>3, FlattenEmpty, Zenon
      <4>2. FlattenSeq(s) = s[1]
        BY <2>4, <2>5, <3>1, Zenon
      <4> QED
        BY <3>1, <4>1, <4>2, Zenon
<1>3. ASSUME NEW n \in Nat, n \in A
      PROVE  n + 1 \in A
  <2>1. SUFFICES ASSUME NEW t \in Seq(Seq(S)), Len(t) = (n + 1) + 1
                 PROVE  FlattenSeq(t) = t[1] \o FlattenSeq(Tail(t))
    BY <1>1
  <2>2. t # <<>>
    BY <2>1, EmptySeq
  <2>3. PICK s \in Seq(Seq(S)), x \in Seq(S) : t = Append(s, x)
    BY <2>2, SequenceEmptyOrAppend
  <2>4. Len(s) = n + 1 /\ Len(s) \in Nat /\ \A i \in 1 .. Len(s) : t[i] = s[i]
    <3>1. Len(s) \in Nat
      BY LenProperties
    <3>2. Len(t) = Len(s) + 1 /\ \A i \in 1 .. Len(s) : t[i] = s[i]
      BY <2>3, AppendProperties
    <3> QED
      BY <2>1, <3>1, <3>2
  <2>5. s # <<>> /\ 1 \in 1 .. Len(s)
    BY <2>4, EmptySeq
  <2>6. FlattenSeq(s) = s[1] \o FlattenSeq(Tail(s))
    BY <1>1, <1>3, <2>4
  <2>7. t[1] = s[1] /\ s[1] \in Seq(S)
    BY <2>4, <2>5, ElementOfSeq
  <2>8. Tail(t) = Append(Tail(s), x)
    BY <2>3, <2>5, HeadTailAppend
  <2>9. Tail(s) \in Seq(Seq(S))
    BY <2>5, HeadTailProperties
  <2>10. /\ FlattenSeq(Tail(t)) = FlattenSeq(Tail(s)) \o x
         /\ FlattenSeq(Tail(s)) \in Seq(S)
    BY <2>8, <2>9, FlattenAppend
  <2>11. FlattenSeq(t) = FlattenSeq(s) \o x
    BY <2>3, FlattenAppend
  <2>12. (s[1] \o FlattenSeq(Tail(s))) \o x = s[1] \o (FlattenSeq(Tail(s)) \o x)
    <3>1. PICK a \in Seq(S) : a = s[1]
      BY <2>7
    <3>2. PICK b \in Seq(S) : b = FlattenSeq(Tail(s))
      BY <2>10
    <3>3. (a \o b) \o x = a \o (b \o x)
      BY ConcatAssociative
    <3> QED
      BY <3>1, <3>2, <3>3
  <2> QED
    BY <2>6, <2>7, <2>10, <2>11, <2>12
<1>4. Nat \subseteq A
  BY <1>2, <1>3, NumbersInductive
<1>5. ASSUME NEW s \in Seq(Seq(S)), s # <<>>
      PROVE  FlattenSeq(s) = s[1] \o FlattenSeq(Tail(s))
  <2>1. PICK n \in Nat : Len(s) = n + 1
    <3>1. Len(s) \in Nat /\ Len(s) # 0
      BY <1>5, EmptySeq, LenProperties
    <3>2. Len(s) - 1 \in Nat /\ Len(s) = (Len(s) - 1) + 1
      BY <3>1
    <3> QED
      BY <3>2
  <2> QED
    BY <1>1, <1>4, <2>1
<1> QED
  BY <1>5

(* What is left of a text of pieces from the k-th piece on. *)
Suffix(pieces, end, k) == FlattenSeq(SubSeq(pieces, k, Len(pieces))) \o end

(* It is a piece and what is left behind it.                               *)
LEMMA SuffixFacts ==
  ASSUME NEW S, NEW pieces \in Seq(Seq(S)), NEW end \in Seq(S)
  PROVE  /\ Suffix(pieces, end, 1) = FlattenSeq(pieces) \o end
         /\ Suffix(pieces, end, Len(pieces) + 1) = end
         /\ \A k \in 1 .. Len(pieces) + 1 : Suffix(pieces, end, k) \in Seq(S)
         /\ \A k \in 1 .. Len(pieces) :
              Suffix(pieces, end, k) = pieces[k] \o Suffix(pieces, end, k + 1)
<1>1. PICK N \in Nat : N = Len(pieces)
  BY LenProperties
<1>2. SubSeq(pieces, 1, N) = pieces
  BY <1>1, SubSeqFull
<1>3. SubSeq(pieces, N + 1, N) = <<>>
  BY <1>1, SubSeqEmpty
<1>4. ASSUME NEW k \in 1 .. N + 1
      PROVE  SubSeq(pieces, k, N) \in Seq(Seq(S))
  <2>1. \A i \in k .. N : pieces[i] \in Seq(S)
    BY <1>1, ElementOfSeq
  <2> QED
    BY <1>1, <2>1, SubSeqProperties
<1>5. ASSUME NEW k \in 1 .. N + 1
      PROVE  Suffix(pieces, end, k) \in Seq(S)
  <2>1. FlattenSeq(SubSeq(pieces, k, N)) \in Seq(S)
    BY <1>4, EmptySeq, FlattenAppend
  <2> QED
    BY <1>1, <2>1, ConcatProperties DEF Suffix
<1>6. ASSUME NEW k \in 1 .. N
      PROVE  Suffix(pieces, end, k) = pieces[k] \o Suffix(pieces, end, k + 1)
  <2>1. PICK s \in Seq(Seq(S)) : s = SubSeq(pieces, k, N)
    <3>1. k \in 1 .. N + 1
      BY <1>1
    <3> QED
      BY <1>4, <3>1
  <2>2. PICK t \in Seq(Seq(S)) : t = SubSeq(pieces, k + 1, N)
    <3>1. k + 1 \in 1 .. N + 1
      BY <1>1
    <3> QED
      BY <1>4, <3>1
  <2>3. pieces[k] \in Seq(S)
    BY <1>1, ElementOfSeq
  <2>4. Head(s) = pieces[k] /\ Tail(s) = t
    <3>1. k \in 1 .. Len(pieces) /\ N \in k .. Len(pieces)
      BY <1>1
    <3> QED
      BY <2>1, <2>2, <3>1, HeadTailOfSubSeq
  <2>5. Len(s) = N - k + 1 /\ Len(s) > 0
    <3>1. \A i \in k .. N : pieces[i] \in Seq(S)
      BY <1>1, ElementOfSeq
    <3>2. Len(s) = IF k <= N THEN N - k + 1 ELSE 0
      BY <1>1, <2>1, <3>1, SubSeqProperties
    <3> QED
      BY <1>1, <3>2
  <2>6. s # <<>>
    BY <2>5, EmptySeq
  <2>7. s[1] = pieces[k]
    <3>1. \A i \in k .. N : pieces[i] \in Seq(S)
      BY <1>1, ElementOfSeq
    <3>2. \A i \in 1 .. N - k + 1 : s[i] = pieces[k + i - 1]
      BY <1>1, <2>1, <3>1, SubSeqProperties
    <3>3. 1 \in 1 .. N - k + 1 /\ k + 1 - 1 = k
      BY <1>1
    <3> QED
      BY <3>2, <3>3
  <2>8. FlattenSeq(s) = pieces[k] \o FlattenSeq(t)
    BY <2>4, <2>6, <2>7, FlattenFirst
  <2>9. FlattenSeq(t) \in Seq(S)
    BY <2>3, FlattenAppend
  <2>10. (pieces[k] \o FlattenSeq(t)) \o end = pieces[k] \o (FlattenSeq(t) \o end)
    <3>1. PICK a \in Seq(S) : a = pieces[k]
      BY <2>3
    <3>2. PICK b \in Seq(S) : b = FlattenSeq(t)
      BY <2>9
    <3>3. (a \o b) \o end = a \o (b \o end)
      BY ConcatAssociative
    <3> QED
      BY <3>1, <3>2, <3>3
  <2>11. Suffix(pieces, end, k) = FlattenSeq(s) \o end
    BY <1>1, <2>1 DEF Suffix
  <2>12. Suffix(pieces, end, k + 1) = FlattenSeq(t) \o end
    BY <1>1, <2>2 DEF Suffix
  <2> QED
    BY <2>8, <2>10, <2>11, <2>12
<1>7. Suffix(pieces, end, N + 1) = end
  <2>1. FlattenSeq(SubSeq(pieces, N + 1, N)) = <<>>
    BY <1>3, FlattenEmpty, Zenon
  <2>2. <<>> \o end = end
    BY ConcatEmptySeq
  <2> QED
    BY <1>1, <2>1, <2>2 DEF Suffix
<1>8. Suffix(pieces, end, 1) = FlattenSeq(pieces) \o end
  BY <1>1, <1>2 DEF Suffix
<1> QED
  BY <1>1, <1>5, <1>6, <1>7, <1>8
-----------------------------------------------------------------------------
(* The escapes: one for each symbol that has one, and none of them is such *)
(* a symbol.                                                               *)
LEMMA EscapedFacts ==
  /\ DOMAIN Escaped = {"&", "=", "+", "/", "?", Blank}
  /\ Escaped["&"] = "%26" /\ Escaped["="] = "%3D" /\ Escaped["+"] = "%2B"
  /\ Escaped["/"] = "%2F" /\ Escaped["?"] = "%3F" /\ Escaped[Blank] = "%20"
<1>1. DOMAIN Escaped = {"&", "=", "+", "/", "?", Blank}
  BY DEF Escaped
<1>2. Blank \notin {"&", "=", "+", "/", "?"}
  BY NamedSymbols
<1>3. /\ Escaped["&"] = "%26" /\ Escaped["="] = "%3D" /\ Escaped["+"] = "%2B"
      /\ Escaped["/"] = "%2F" /\ Escaped["?"] = "%3F"
  BY DEF Escaped
<1>4. Escaped[Blank] = "%20"
  BY <1>2 DEF Escaped
<1> QED
  BY <1>1, <1>3, <1>4

(* No two symbols have one escape.                                         *)
LEMMA EscapedApart ==
  /\ \A ch \in DOMAIN Escaped : Escaped[ch] \in Known \ (DOMAIN Escaped)
  /\ \A ch, d \in DOMAIN Escaped : Escaped[ch] = Escaped[d] => ch = d
<1>1. \A ch \in DOMAIN Escaped :
         Escaped[ch] \in {"%26", "%3D", "%2B", "%2F", "%3F", "%20"}
  BY EscapedFacts
<1>2. \A e \in {"%26", "%3D", "%2B", "%2F", "%3F", "%20"} :
         e \in Known /\ e \notin {"&", "=", "+", "/", "?"}
  BY DEF Known
<1>3. \A e \in {"%26", "%3D", "%2B", "%2F", "%3F", "%20"} : e # Blank
  BY NamedSymbols
<1>4. \A ch, d \in DOMAIN Escaped : Escaped[ch] = Escaped[d] => ch = d
  BY EscapedFacts
<1> QED
  BY <1>1, <1>2, <1>3, <1>4, EscapedFacts

(* A sequence has one length. *)
LEMMA SameLength ==
  ASSUME NEW m \in Nat, NEW n \in Nat, 1 .. m = 1 .. n
  PROVE  m = n
<1>1. CASE m > n
  <2>1. m \in 1 .. m /\ m \notin 1 .. n
    BY <1>1
  <2> QED
    BY <2>1
<1>2. CASE n > m
  <2>1. n \in 1 .. n /\ n \notin 1 .. m
    BY <1>2
  <2> QED
    BY <2>1
<1> QED
  BY <1>1, <1>2

(* A symbol with an escape is not in a path. *)
LEMMA PathEncoded ==
  ASSUME NEW text \in Seq(STRING)
  PROVE  /\ PathEncode(text) \in Text
         /\ \A ch \in DOMAIN Escaped : ~Contains(PathEncode(text), ch)
<1>1. DOMAIN text = 1 .. Len(text) /\ Len(text) \in Nat
  BY LenProperties
<1>2. \A i \in 1 .. Len(text) : text[i] \in STRING
  BY ElementOfSeq
<1>3. PICK path : path = PathEncode(text)
  OBVIOUS
<1>4. path = [i \in 1 .. Len(text) |->
                IF text[i] \in DOMAIN Escaped THEN Escaped[text[i]] ELSE text[i]]
  BY <1>1, <1>3 DEF PathEncode
<1>5. \A i \in 1 .. Len(text) : path[i] \in Symbol
  BY <1>2, <1>4, EscapedApart DEF Symbol
<1>6. path \in [1 .. Len(text) -> Symbol]
  BY <1>4, <1>5
<1>7. path \in Seq(Symbol)
  BY <1>1, <1>6, SeqDef
<1>8. Len(path) = Len(text)
  <2>1. DOMAIN path = 1 .. Len(path) /\ Len(path) \in Nat
    BY <1>7, LenProperties
  <2>2. DOMAIN path = 1 .. Len(text)
    BY <1>6
  <2> QED
    BY <1>1, <2>1, <2>2, SameLength
<1>9. \A i \in 1 .. Len(text) : path[i] \notin DOMAIN Escaped
  BY <1>4, EscapedApart
<1>10. \A ch \in DOMAIN Escaped : ~Contains(path, ch)
  BY <1>8, <1>9 DEF Contains
<1> QED
  BY <1>3, <1>7, <1>10 DEF Text

(* The parser reads back the value that was encoded. *)
LEMMA QueryEncoded ==
  ASSUME NEW v \in Seq(STRING), Range(v) \cap Range(Escaped) = {}
  PROVE  /\ QueryEncode(v) \in Text /\ Len(QueryEncode(v)) = Len(v)
         /\ \A i \in 1 .. Len(v) :
              /\ QueryEncode(v)[i] \notin {"&", "=", Blank}
              /\ UrlDecode(QueryEncode(v))[i] = v[i]
<1>1. DOMAIN v = 1 .. Len(v) /\ Len(v) \in Nat
  BY LenProperties
<1>2. \A i \in 1 .. Len(v) : v[i] \in STRING
  BY ElementOfSeq
<1>3. PICK code : code = QueryEncode(v)
  OBVIOUS
<1>4. code = [i \in 1 .. Len(v) |->
                IF v[i] = Blank THEN "+"
                ELSE IF v[i] \in DOMAIN Escaped THEN Escaped[v[i]] ELSE v[i]]
  BY <1>1, <1>3 DEF QueryEncode, PathEncode
<1>5. \A i \in 1 .. Len(v) : code[i] \in Symbol
  BY <1>2, <1>4, EscapedApart DEF Symbol, Known
<1>6. code \in [1 .. Len(v) -> Symbol]
  BY <1>4, <1>5
<1>7. code \in Seq(Symbol)
  BY <1>1, <1>6, SeqDef
<1>8. Len(code) = Len(v) /\ DOMAIN code = 1 .. Len(v)
  <2>1. DOMAIN code = 1 .. Len(code) /\ Len(code) \in Nat
    BY <1>7, LenProperties
  <2>2. DOMAIN code = 1 .. Len(v)
    BY <1>6
  <2> QED
    BY <1>1, <2>1, <2>2, SameLength
<1>9. ASSUME NEW i \in 1 .. Len(v)
      PROVE  /\ code[i] \notin {"&", "=", Blank}
             /\ UrlDecode(code)[i] = v[i]
  <2>1. v[i] \notin Range(Escaped)
    BY <1>1 DEF Range
  <2>2. \A ch \in DOMAIN Escaped : Escaped[ch] # v[i]
    BY <2>1 DEF Range
  <2>3. UrlDecode(code)[i] =
          IF code[i] = "+" THEN Blank
          ELSE IF \E ch \in DOMAIN Escaped : Escaped[ch] = code[i]
          THEN CHOOSE ch \in DOMAIN Escaped : Escaped[ch] = code[i]
          ELSE code[i]
    BY <1>8 DEF UrlDecode
  <2>4. CASE v[i] = Blank
    <3>1. code[i] = "+"
      BY <1>4, <2>4
    <3> QED
      BY <2>3, <2>4, <3>1, NamedSymbols
  <2>5. CASE v[i] # Blank /\ v[i] \in DOMAIN Escaped
    <3>1. code[i] = Escaped[v[i]]
      BY <1>4, <2>5
    <3>2. code[i] \notin DOMAIN Escaped
      BY <2>5, <3>1, EscapedApart
    <3>3. code[i] # "+"
      BY <3>2, EscapedFacts
    <3>4. UrlDecode(code)[i] = CHOOSE ch \in DOMAIN Escaped : Escaped[ch] = code[i]
      BY <2>3, <2>5, <3>1, <3>3
    <3>5. (CHOOSE ch \in DOMAIN Escaped : Escaped[ch] = code[i]) = v[i]
      BY <2>5, <3>1, EscapedApart
    <3> QED
      BY <3>2, <3>4, <3>5, EscapedFacts
  <2>6. CASE v[i] \notin DOMAIN Escaped
    <3>1. v[i] # Blank
      BY <2>6, EscapedFacts
    <3>2. code[i] = v[i]
      BY <1>4, <2>6, <3>1
    <3> QED
      BY <2>2, <2>3, <2>6, <3>2, EscapedFacts
  <2> QED
    BY <2>4, <2>5, <2>6
<1> QED
  BY <1>3, <1>7, <1>8, <1>9 DEF Text

(* With the blank of the request line behind it, too.                      *)
LEMMA Decoded ==
  ASSUME NEW v \in Seq(STRING), NEW last \in BOOLEAN, Range(v) \cap Range(Escaped) = {}
  PROVE  UrlDecode(QueryEncode(v) \o (IF last THEN <<Blank>> ELSE <<>>))
           = v \o (IF last THEN <<Blank>> ELSE <<>>)
<1>1. PICK code \in Text : code = QueryEncode(v)
  BY QueryEncoded
<1>2. PICK end : end = IF last THEN <<Blank>> ELSE <<>>
  OBVIOUS
<1>3. end \in Text /\ Len(end) \in {0, 1} /\ (Len(end) = 1 => end[1] = Blank)
  <2>1. <<Blank>> \in Text /\ Len(<<Blank>>) = 1 /\ <<Blank>>[1] = Blank
    BY OneSymbol, KnownSymbols DEF Known
  <2>2. <<>> \in Text /\ Len(<<>>) = 0
    BY EmptySeq DEF Text
  <2> QED
    BY <1>2, <2>1, <2>2
<1>4. v \in Text /\ Len(v) \in Nat /\ Len(code) = Len(v)
  BY <1>1, KnownSymbols, LenProperties, QueryEncoded
<1>5. PICK coded \in Text : coded = code \o end
  BY <1>3, TextConcat
<1>6. PICK plain \in Text : plain = v \o end
  BY <1>3, <1>4, TextConcat
<1>7. /\ Len(coded) = Len(v) + Len(end) /\ Len(plain) = Len(v) + Len(end)
      /\ \A i \in 1 .. Len(v) : coded[i] = code[i] /\ plain[i] = v[i]
      /\ \A i \in 1 .. Len(end) : coded[Len(v) + i] = end[i] /\ plain[Len(v) + i] = end[i]
  <2>1. /\ Len(coded) = Len(v) + Len(end)
        /\ \A i \in 1 .. Len(v) : coded[i] = code[i]
        /\ \A i \in 1 .. Len(end) : coded[Len(v) + i] = end[i]
    <3>1. /\ Len(coded) = Len(code) + Len(end)
          /\ \A i \in 1 .. Len(code) : coded[i] = code[i]
          /\ \A i \in 1 .. Len(end) : coded[Len(code) + i] = end[i]
      BY <1>3, <1>5, TextConcat
    <3> QED
      BY <1>4, <3>1
  <2>2. /\ Len(plain) = Len(v) + Len(end)
        /\ \A i \in 1 .. Len(v) : plain[i] = v[i]
        /\ \A i \in 1 .. Len(end) : plain[Len(v) + i] = end[i]
    BY <1>3, <1>4, <1>6, TextConcat
  <2> QED
    BY <2>1, <2>2
<1>8. /\ DOMAIN coded = 1 .. Len(v) + Len(end) /\ DOMAIN plain = 1 .. Len(v) + Len(end)
      /\ DOMAIN code = 1 .. Len(v)
  BY <1>4, <1>7, LenProperties DEF Text
<1>9. ASSUME NEW i \in 1 .. Len(v) + Len(end)
      PROVE  UrlDecode(coded)[i] = plain[i]
  <2>1. UrlDecode(coded)[i] =
          IF coded[i] = "+" THEN Blank
          ELSE IF \E ch \in DOMAIN Escaped : Escaped[ch] = coded[i]
          THEN CHOOSE ch \in DOMAIN Escaped : Escaped[ch] = coded[i]
          ELSE coded[i]
    BY <1>8 DEF UrlDecode
  <2>2. CASE i \in 1 .. Len(v)
    <3>1. UrlDecode(code)[i] = v[i]
      BY <1>1, <2>2, QueryEncoded
    <3>2. UrlDecode(code)[i] =
            IF code[i] = "+" THEN Blank
            ELSE IF \E ch \in DOMAIN Escaped : Escaped[ch] = code[i]
            THEN CHOOSE ch \in DOMAIN Escaped : Escaped[ch] = code[i]
            ELSE code[i]
      BY <1>8, <2>2 DEF UrlDecode
    <3>3. coded[i] = code[i] /\ plain[i] = v[i]
      BY <1>7, <2>2
    <3> QED
      BY <2>1, <3>1, <3>2, <3>3
  <2>3. CASE i \notin 1 .. Len(v)
    <3>1. Len(end) = 1 /\ i = Len(v) + 1
      <4>1. PICK m \in Nat : m = Len(v)
        BY <1>4
      <4>2. PICK e \in {0, 1} : e = Len(end)
        BY <1>3
      <4>3. i \in 1 .. m + e /\ i \notin 1 .. m
        BY <2>3, <4>1, <4>2
      <4>4. e = 1 /\ i = m + 1
        BY <4>3
      <4> QED
        BY <4>1, <4>2, <4>4
    <3>2. 1 \in 1 .. Len(end)
      BY <3>1
    <3>3. coded[i] = Blank /\ plain[i] = Blank
      BY <1>3, <1>7, <3>1, <3>2
    <3>4. Blank # "+" /\ \A ch \in DOMAIN Escaped : Escaped[ch] # Blank
      BY NamedSymbols, EscapedApart, EscapedFacts
    <3> QED
      BY <2>1, <3>3, <3>4
  <2> QED
    BY <2>2, <2>3
<1>10. UrlDecode(coded) = [i \in 1 .. Len(v) + Len(end) |-> UrlDecode(coded)[i]]
  BY <1>8 DEF UrlDecode
<1>11. plain = [i \in 1 .. Len(v) + Len(end) |-> plain[i]]
  BY <1>6, <1>8, LenProperties DEF Text
<1>12. UrlDecode(coded) = plain
  BY <1>9, <1>10, <1>11
<1> QED
  BY <1>1, <1>2, <1>5, <1>6, <1>12
-----------------------------------------------------------------------------
(***************************************************************************)
(* The line a client sends: the path and, for each parameter, a piece.     *)
(***************************************************************************)
Separator(i) == IF i = 1 THEN "?" ELSE "&"
Pieces(l) ==
  [i \in DOMAIN l.params |-> <<Separator(i)>> \o SentParameter(l.params[i])]
Path(l) ==
  <<l.command>>
  \o (IF l.id = <<>> THEN <<>> ELSE <<"/">> \o PathEncode(l.id))
  \o (IF l.command = "node" THEN <<"/", "history">> ELSE <<>>)

(* What is left from the separator before a parameter on, and from the     *)
(* parameter on.                                                           *)
Left(l, k) == Suffix(Pieces(l), <<Blank>>, k)
After(l, k) == SentParameter(l.params[k]) \o Left(l, k + 1)

(* What a line is made of.                                                 *)
LEMMA LineFacts ==
  ASSUME NEW l \in Lines
  PROVE  /\ l.method \in {"GET", "DELETE", "POST"} /\ l.command \in STRING
         /\ l.command \notin {"/", "?", Blank}
         /\ l.id \in Seq(STRING) /\ l.params \in Seq(Parameter)
         /\ l.headers \in Seq(Header)
         /\ DOMAIN l.params = 1 .. Len(l.params) /\ Len(l.params) \in Nat
BY RequestLineAssumption, LenProperties DEF Line

(* What a parameter is made of.                                            *)
LEMMA ParameterFacts ==
  ASSUME NEW l \in Lines, NEW i \in DOMAIN l.params
  PROVE  /\ l.params[i].key \in Symbol /\ l.params[i].key \notin {"=", "&"}
         /\ l.params[i].flag \in BOOLEAN
         /\ l.params[i].value \in Seq(STRING)
         /\ Range(l.params[i].value) \cap Range(Escaped) = {}
         /\ \A j \in DOMAIN l.params : l.params[i].key = l.params[j].key => i = j
<1>1. l.params[i] \in Parameter
  BY LineFacts, ElementOfSeq
<1>2. /\ l.params[i].key \in STRING /\ l.params[i].flag \in BOOLEAN
      /\ l.params[i].value \in Seq(STRING)
  BY <1>1 DEF Parameter
<1> QED
  BY <1>2, RequestLineAssumption DEF Symbol

(* Two symbols are one and another.                                        *)
LEMMA PairIsConcat ==
  ASSUME NEW S, NEW a \in S, NEW b \in S
  PROVE  <<a, b>> = <<a>> \o <<b>>
<1>1. /\ <<a, b>> \in Seq(S) /\ Len(<<a, b>>) = 2
      /\ <<a, b>>[1] = a /\ <<a, b>>[2] = b
  OBVIOUS
<1>2. PICK s \in Seq(S), t \in Seq(S) : s = <<a>> /\ t = <<b>>
  BY OneElement
<1>3. Len(s) = 1 /\ s[1] = a /\ Len(t) = 1 /\ t[1] = b
  BY <1>2, OneElement
<1>4. s \o t \in Seq(S) /\ Len(s \o t) = 2
  BY <1>3, ConcatFacts
<1>5. (s \o t)[1] = a /\ (s \o t)[1 + 1] = b
  <2>1. 1 \in 1 .. 1
    OBVIOUS
  <2>2. /\ \A i \in 1 .. Len(s) : (s \o t)[i] = s[i]
        /\ \A i \in 1 .. Len(t) : (s \o t)[Len(s) + i] = t[i]
    BY ConcatFacts
  <2> QED
    BY <1>3, <2>1, <2>2
<1>6. \A i \in 1 .. 2 : <<a, b>>[i] = (s \o t)[i]
  <2>1. 1 + 1 = 2 /\ \A i \in 1 .. 2 : i = 1 \/ i = 2
    OBVIOUS
  <2> QED
    BY <1>1, <1>5, <2>1
<1>7. <<a, b>> = s \o t
  BY <1>1, <1>4, <1>6, SeqEqual
<1> QED
  BY <1>2, <1>7

(* A flag is sent as its key, a value behind its key and a "=".            *)
LEMMA SentParameterFacts ==
  ASSUME NEW l \in Lines, NEW i \in DOMAIN l.params
  PROVE  /\ SentParameter(l.params[i]) \in Text
         /\ l.params[i].flag => SentParameter(l.params[i]) = <<l.params[i].key>>
         /\ ~l.params[i].flag =>
              SentParameter(l.params[i])
                = <<l.params[i].key>> \o <<"=">> \o QueryEncode(l.params[i].value)
<1>1. PICK key \in Symbol : key = l.params[i].key
  BY ParameterFacts
<1>2. PICK value \in Text : value = QueryEncode(l.params[i].value)
  BY ParameterFacts, QueryEncoded
<1>3. "=" \in Symbol
  BY KnownSymbols DEF Known
<1>4. <<key>> \in Text
  BY OneSymbol
<1>5. <<key, "=">> = <<key>> \o <<"=">>
  BY <1>3, PairIsConcat
<1>6. <<key>> \o <<"=">> \o value \in Text
  BY <1>3, <1>4, AroundFacts
<1>7. l.params[i].flag \in BOOLEAN
  BY ParameterFacts
<1> QED
  BY <1>1, <1>2, <1>4, <1>5, <1>6, <1>7 DEF SentParameter

(* The pieces of the query string, from each parameter on.                 *)
LEMMA LeftFacts ==
  ASSUME NEW l \in Lines
  PROVE  /\ FlattenSeq(Pieces(l)) \in Text
         /\ Left(l, 1) = FlattenSeq(Pieces(l)) \o <<Blank>>
         /\ Left(l, Len(l.params) + 1) = <<Blank>>
         /\ \A k \in 1 .. Len(l.params) + 1 : Left(l, k) \in Text
         /\ \A k \in 1 .. Len(l.params) :
              /\ After(l, k) \in Text
              /\ Left(l, k) = <<Separator(k)>> \o After(l, k)
<1>1. PICK n \in Nat : n = Len(l.params)
  BY LineFacts
<1>2. DOMAIN l.params = 1 .. n
  BY <1>1, LineFacts
<1>3. \A i \in 1 .. n : Separator(i) \in Symbol
  BY KnownSymbols DEF Known, Separator
<1>4. \A i \in 1 .. n : SentParameter(l.params[i]) \in Text
  BY <1>2, SentParameterFacts
<1>5. \A i \in 1 .. n : <<Separator(i)>> \in Text
  BY <1>3, OneSymbol
<1>6. \A i \in 1 .. n : <<Separator(i)>> \o SentParameter(l.params[i]) \in Text
  BY <1>4, <1>5, TextConcat
<1>7. PICK pieces : pieces = Pieces(l)
  OBVIOUS
<1>8. pieces = [i \in 1 .. n |-> <<Separator(i)>> \o SentParameter(l.params[i])]
  BY <1>2, <1>7 DEF Pieces
<1>9. pieces \in [1 .. n -> Seq(Symbol)]
  BY <1>6, <1>8 DEF Text
<1>10. pieces \in Seq(Seq(Symbol))
  BY <1>9, SeqDef
<1>11. Len(pieces) = n
  <2>1. DOMAIN pieces = 1 .. Len(pieces) /\ Len(pieces) \in Nat
    BY <1>10, LenProperties
  <2>2. DOMAIN pieces = 1 .. n
    BY <1>9
  <2> QED
    BY <2>1, <2>2, SameLength
<1>12. <<Blank>> \in Text
  BY OneSymbol, KnownSymbols DEF Known
<1>13. /\ Left(l, 1) = FlattenSeq(pieces) \o <<Blank>>
       /\ Left(l, n + 1) = <<Blank>>
       /\ \A k \in 1 .. n + 1 : Left(l, k) \in Text
       /\ \A k \in 1 .. n : Left(l, k) = pieces[k] \o Left(l, k + 1)
  <2>1. /\ Suffix(pieces, <<Blank>>, 1) = FlattenSeq(pieces) \o <<Blank>>
        /\ Suffix(pieces, <<Blank>>, Len(pieces) + 1) = <<Blank>>
        /\ \A k \in 1 .. Len(pieces) + 1 : Suffix(pieces, <<Blank>>, k) \in Seq(Symbol)
        /\ \A k \in 1 .. Len(pieces) :
             Suffix(pieces, <<Blank>>, k) = pieces[k] \o Suffix(pieces, <<Blank>>, k + 1)
    BY <1>10, <1>12, SuffixFacts DEF Text
  <2>2. \A k : Left(l, k) = Suffix(pieces, <<Blank>>, k)
    BY <1>7 DEF Left
  <2> QED
    BY <1>11, <2>1, <2>2 DEF Text
<1>14. FlattenSeq(pieces) \in Text
  <2>1. <<>> \in Seq(Symbol)
    BY EmptySeq
  <2> QED
    BY <1>10, <2>1, FlattenAppend DEF Text
<1>15. ASSUME NEW k \in 1 .. n
       PROVE  After(l, k) \in Text /\ Left(l, k) = <<Separator(k)>> \o After(l, k)
  <2>1. PICK sent \in Text : sent = SentParameter(l.params[k])
    BY <1>4
  <2>2. PICK left \in Text : left = Left(l, k + 1)
    <3>1. k + 1 \in 1 .. n + 1
      OBVIOUS
    <3> QED
      BY <1>13, <3>1
  <2>3. PICK separator \in Text : separator = <<Separator(k)>>
    BY <1>5
  <2>4. (separator \o sent) \o left = separator \o (sent \o left)
    BY TextAssociative
  <2>5. sent \o left \in Text
    BY TextConcat
  <2>6. Left(l, k) = (separator \o sent) \o left
    BY <1>8, <1>13, <2>1, <2>2, <2>3
  <2>7. After(l, k) = sent \o left
    BY <2>1, <2>2 DEF After
  <2> QED
    BY <2>3, <2>4, <2>5, <2>6, <2>7
<1> QED
  BY <1>1, <1>7, <1>13, <1>14, <1>15
-----------------------------------------------------------------------------
(* The path: the command and, behind a "/", what belongs to the id.        *)
LEMMA PathFacts ==
  ASSUME NEW l \in Lines
  PROVE  /\ Path(l) \in Text /\ ~Contains(Path(l), "?")
         /\ \/ l.id = <<>> /\ Path(l) = <<l.command>>
            \/ \E x \in Text :
                 /\ Path(l) = <<l.command>> \o <<"/">> \o x
                 /\ l.id # <<>> =>
                      x = IF l.command = "node"
                          THEN PathEncode(l.id) \o <<"/">> \o <<"history">>
                          ELSE PathEncode(l.id)
<1>1. PICK c \in Symbol : c = l.command
  BY LineFacts DEF Symbol
<1>2. c \notin {"/", "?", Blank}
  BY <1>1, LineFacts
<1>3. "/" \in Symbol /\ "history" \in Symbol /\ "?" \in Symbol
  BY KnownSymbols DEF Known
<1>4. PICK a \in Text : a = <<c>>
  BY OneSymbol
<1>5. PICK s \in Text : s = <<"/">>
  BY <1>3, OneSymbol
<1>6. PICK h \in Text : h = <<"history">>
  BY <1>3, OneSymbol
<1>7. PICK p \in Text : p = PathEncode(l.id)
  BY LineFacts, PathEncoded
<1>8. <<"/", "history">> = s \o h
  BY <1>3, <1>5, <1>6, PairIsConcat
<1>9. ~Contains(a, "?") /\ ~Contains(s, "?") /\ ~Contains(h, "?")
  BY <1>1, <1>2, <1>3, <1>4, <1>5, <1>6, ContainsOne
<1>10. ~Contains(p, "?")
  BY <1>7, LineFacts, PathEncoded, EscapedFacts
<1>11. a \o s \in Text /\ s \o p \in Text /\ s \o h \in Text
  BY TextConcat
<1>12. p \o s \in Text /\ p \o s \o h \in Text
  BY TextConcat
<1>13. <<>> \in Text /\ a \o <<>> = a
  BY EmptySeq, ConcatEmptySeq DEF Text
<1>14. Path(l) = a \o (IF l.id = <<>> THEN <<>> ELSE s \o p)
                   \o (IF l.command = "node" THEN s \o h ELSE <<>>)
  BY <1>1, <1>4, <1>5, <1>7, <1>8 DEF Path
<1>15. CASE l.id = <<>> /\ l.command # "node"
  <2>1. Path(l) = a
    BY <1>13, <1>14, <1>15
  <2> QED
    BY <1>1, <1>4, <1>9, <1>15, <2>1
<1>16. ASSUME NEW x \in Text, ~Contains(x, "?"), Path(l) = a \o s \o x
       PROVE  Path(l) \in Text /\ ~Contains(Path(l), "?")
  BY <1>9, <1>11, <1>16, TextConcat, ContainsConcat
<1>17. CASE l.id = <<>> /\ l.command = "node"
  <2>1. Path(l) = a \o (s \o h)
    BY <1>13, <1>14, <1>17
  <2>2. (a \o s) \o h = a \o (s \o h)
    BY TextAssociative
  <2> QED
    BY <1>1, <1>4, <1>5, <1>9, <1>16, <1>17, <2>1, <2>2
<1>18. CASE l.id # <<>> /\ l.command # "node"
  <2>1. Path(l) = (a \o (s \o p)) \o <<>>
    BY <1>14, <1>18
  <2>2. a \o (s \o p) \in Text /\ (a \o s) \o p = a \o (s \o p)
    <3>1. PICK sp \in Text : sp = s \o p
      BY <1>11
    <3>2. a \o sp \in Text
      BY TextConcat
    <3>3. (a \o s) \o p = a \o (s \o p)
      BY TextAssociative, Zenon
    <3> QED
      BY <3>1, <3>2, <3>3
  <2>3. (a \o (s \o p)) \o <<>> = a \o (s \o p)
    BY <2>2, ConcatEmptySeq DEF Text
  <2> QED
    BY <1>1, <1>4, <1>5, <1>7, <1>10, <1>16, <1>18, <2>1, <2>2, <2>3
<1>19. CASE l.id # <<>> /\ l.command = "node"
  <2>1. Path(l) = (a \o (s \o p)) \o (s \o h)
    BY <1>14, <1>19
  <2>2. a \o (s \o p) = (a \o s) \o p
    BY TextAssociative
  <2>3. PICK as \in Text, sh \in Text, ps \in Text : as = a \o s /\ sh = s \o h /\ ps = p \o s
    BY <1>11, <1>12
  <2>4. (as \o p) \o sh = as \o (p \o sh)
    BY TextAssociative
  <2>5. p \o sh = ps \o h
    <3>1. Joined(Joined(p, s), h) = Joined(p, Joined(s, h))
      BY JoinedFacts
    <3>2. (p \o s) \o h = p \o (s \o h)
      BY <3>1, Zenon DEF Joined
    <3> QED
      BY <2>3, <3>2
  <2>6. Path(l) = as \o (ps \o h)
    BY <2>1, <2>2, <2>3, <2>4, <2>5
  <2>7. ps \o h \in Text /\ ~Contains(ps \o h, "?")
    BY <1>9, <1>10, <2>3, TextConcat, ContainsConcat
  <2> QED
    BY <1>1, <1>4, <1>5, <1>6, <1>7, <1>16, <1>19, <2>3, <2>6, <2>7
<1> QED
  BY <1>15, <1>17, <1>18, <1>19

(* ParseHead finds the first parameter, CutUri the end of the path: a      *)
(* blank follows it if there are no parameters.                            *)
LEMMA SentFacts ==
  ASSUME NEW l \in Lines
  PROVE  /\ Sent(l) \in Text
         /\ Len(l.params) = 0 =>
              /\ ~Contains(Sent(l), "?")
              /\ Sent(l) = Path(l) \o <<Blank>>
              /\ Before(Sent(l), "?") = Path(l) \o <<Blank>>
         /\ Len(l.params) # 0 =>
              /\ Contains(Sent(l), "?")
              /\ Behind(Sent(l), "?") = After(l, 1)
              /\ Before(Sent(l), "?") = Path(l)
<1>1. PICK path \in Text : path = Path(l)
  BY PathFacts
<1>2. ~Contains(path, "?")
  BY <1>1, PathFacts
<1>3. PICK flat \in Text : flat = FlattenSeq(Pieces(l))
  BY LeftFacts
<1>4. PICK b \in Text : b = <<Blank>>
  BY OneSymbol, KnownSymbols DEF Known
<1>5. Sent(l) = (path \o flat) \o b
  BY <1>1, <1>3, <1>4 DEF Sent, Path, Pieces, Separator
<1>6. (path \o flat) \o b = path \o (flat \o b)
  BY TextAssociative
<1>7. Left(l, 1) = flat \o b
  BY <1>3, <1>4, LeftFacts
<1>8. path \o flat \in Text
  BY TextConcat
<1>9. Sent(l) = path \o Left(l, 1)
  BY <1>5, <1>6, <1>7
<1>10. Sent(l) \in Text
  BY <1>5, <1>8, TextConcat
<1>11. Len(l.params) \in Nat
  BY LineFacts
<1>12. CASE Len(l.params) = 0
  <2>1. Left(l, 1) = b
    <3>1. Left(l, Len(l.params) + 1) = <<Blank>> /\ Len(l.params) + 1 = 1
      BY <1>12, LeftFacts
    <3> QED
      BY <1>4, <3>1
  <2>2. ~Contains(b, "?")
    BY <1>4, ContainsOne, NamedSymbols, KnownSymbols DEF Known
  <2>3. ~Contains(path \o b, "?")
    BY <1>2, <2>2, ContainsConcat
  <2>4. Before(path \o b, "?") = path \o b
    BY <1>9, <1>10, <2>1, <2>3, NotThere
  <2> QED
    BY <1>1, <1>4, <1>9, <1>10, <1>12, <2>1, <2>3, <2>4
<1>13. CASE Len(l.params) # 0
  <2>1. 1 \in 1 .. Len(l.params)
    BY <1>11, <1>13
  <2>2. PICK after \in Text : after = After(l, 1)
    BY <2>1, LeftFacts
  <2>3. Left(l, 1) = <<"?">> \o after
    BY <2>1, <2>2, LeftFacts DEF Separator
  <2>4. "?" \in Symbol
    BY KnownSymbols DEF Known
  <2>5. PICK q \in Text : q = <<"?">>
    BY <2>4, OneSymbol
  <2>6. (path \o q) \o after = path \o (q \o after)
    BY TextAssociative
  <2>7. Sent(l) = path \o <<"?">> \o after
    BY <1>9, <2>3, <2>5, <2>6
  <2> QED
    BY <1>1, <1>2, <1>10, <1>13, <2>2, <2>4, <2>7, Around
<1> QED
  BY <1>11, <1>12, <1>13
-----------------------------------------------------------------------------
(* What the parser finds at parameter k: flags, and then, behind the next  *)
(* "=", the value of the next parameter that has one.                      *)
FlagsFrom(l, k, m) == \A i \in k .. m : l.params[i].flag

(* With flags only there is no "=" left.                                   *)
LEMMA FlagsOnly ==
  ASSUME NEW l \in Lines, NEW k \in 1 .. Len(l.params), FlagsFrom(l, k, Len(l.params))
  PROVE  ~Contains(After(l, k), "=")
<1>1. PICK n \in Nat : n = Len(l.params)
  BY LineFacts
<1>2. \A i \in 1 .. n : i \in DOMAIN l.params
  BY <1>1, LineFacts
<1>3. PICK A : A = {d \in Nat : n + 1 - d >= k + 1 => ~Contains(Left(l, n + 1 - d), "=")}
  OBVIOUS
<1>4. "=" \in Known /\ "?" # "=" /\ "&" # "=" /\ Blank # "="
  BY NamedSymbols DEF Known
<1>5. 0 \in A
  <2>1. Left(l, n + 1 - 0) = <<Blank>>
    <3>1. n + 1 - 0 = n + 1
      BY <1>1
    <3> QED
      BY <1>1, <3>1, LeftFacts
  <2>2. ~Contains(<<Blank>>, "=")
    BY <1>4, ContainsOne, KnownSymbols DEF Known
  <2> QED
    BY <1>3, <2>1, <2>2
<1>6. ASSUME NEW j \in k .. n, ~Contains(Left(l, j + 1), "=")
      PROVE  ~Contains(After(l, j), "=")
  <2>1. j \in 1 .. n /\ j + 1 \in 1 .. n + 1
    BY <1>1
  <2>2. l.params[j].flag /\ j \in DOMAIN l.params
    BY <1>1, <1>2, <2>1 DEF FlagsFrom
  <2>3. SentParameter(l.params[j]) = <<l.params[j].key>>
    BY <2>2, SentParameterFacts
  <2>4. PICK key \in Symbol : key = l.params[j].key /\ key # "="
    BY <2>2, ParameterFacts
  <2>5. <<key>> \in Text /\ ~Contains(<<key>>, "=")
    BY <2>4, OneSymbol, ContainsOne
  <2>6. Left(l, j + 1) \in Text
    BY <1>1, <2>1, LeftFacts
  <2> QED
    BY <1>6, <2>3, <2>4, <2>5, <2>6, ContainsConcat DEF After
<1>7. ASSUME NEW d \in Nat, d \in A
      PROVE  d + 1 \in A
  <2>1. SUFFICES ASSUME n + 1 - (d + 1) >= k + 1
                 PROVE  ~Contains(Left(l, n + 1 - (d + 1)), "=")
    BY <1>3
  <2>2. PICK j \in k .. n : j = n + 1 - (d + 1) /\ j + 1 = n + 1 - d /\ j + 1 >= k + 1 /\ j \in 1 .. n
    <3>1. PICK i \in Nat : i = k /\ i >= 1
      BY <1>1
    <3>2. n + 1 - (d + 1) >= i + 1
      BY <2>1, <3>1
    <3>3. /\ n - d \in i .. n /\ n - d = n + 1 - (d + 1) /\ (n - d) + 1 = n + 1 - d
          /\ (n - d) + 1 >= i + 1 /\ n - d \in 1 .. n
      BY <3>1, <3>2
    <3> QED
      BY <3>1, <3>3
  <2>3. ~Contains(Left(l, j + 1), "=")
    BY <1>3, <1>7, <2>2
  <2>4. ~Contains(After(l, j), "=")
    BY <1>6, <2>3
  <2>5. Separator(j) \in Symbol /\ Separator(j) # "="
    BY <1>4, KnownSymbols DEF Separator, Known
  <2>6. <<Separator(j)>> \in Text /\ ~Contains(<<Separator(j)>>, "=")
    BY <2>5, OneSymbol, ContainsOne
  <2>7. After(l, j) \in Text /\ Left(l, j) = <<Separator(j)>> \o After(l, j)
    BY <1>1, <2>2, LeftFacts
  <2> QED
    <3>1. ~Contains(<<Separator(j)>> \o After(l, j), "=")
      BY <2>4, <2>6, <2>7, ContainsConcat
    <3> QED
      BY <2>2, <2>7, <3>1
<1>8. n - k \in Nat /\ n + 1 - (n - k) = k + 1
  BY <1>1
<1>9. n - k \in A
  BY <1>5, <1>7, <1>8, NumbersInductive
<1>10. ~Contains(Left(l, k + 1), "=")
  BY <1>3, <1>8, <1>9
<1>11. k \in k .. n
  BY <1>1
<1> QED
  BY <1>6, <1>10, <1>11

(* There is text before a key if flags are there, and only then.           *)
NoneBefore(u, k, m) == u = <<>> <=> k = m

(* Flags add text without a "=" in front of what follows.                  *)
LEMMA FlagsInFront ==
  ASSUME NEW l \in Lines, NEW m \in 1 .. Len(l.params),
         NEW k \in 1 .. m, FlagsFrom(l, k, m - 1), NEW t \in Text, After(l, m) = t
  PROVE  \E u \in Text : /\ ~Contains(u, "=")
                         /\ After(l, k) = u \o t
                         /\ NoneBefore(u, k, m)
<1>1. PICK n \in Nat : n = Len(l.params)
  BY LineFacts
<1>2. \A i \in 1 .. n : i \in DOMAIN l.params
  BY <1>1, LineFacts
<1> DEFINE P(d) == \E u \in Text : /\ ~Contains(u, "=")
                                   /\ After(l, m - d) = u \o t
                                   /\ NoneBefore(u, d, 0)
<1>3. PICK A : A = {d \in Nat : m - d >= k => P(d)}
  OBVIOUS
<1>4. 0 \in A
  <2>1. <<>> \in Text /\ <<>> \o t = t
    BY EmptySeq, ConcatEmptySeq DEF Text
  <2>2. ~Contains(<<>>, "=")
    <3>1. 1 .. Len(<<>>) = {}
      OBVIOUS
    <3> QED
      BY <3>1 DEF Contains
  <2>3. m - 0 = m
    BY <1>1
  <2> QED
    <3>1. P(0)
      BY <2>1, <2>2, <2>3 DEF NoneBefore
    <3> HIDE DEF P
    <3> QED
      BY <1>3, <3>1
<1>5. ASSUME NEW d \in Nat, d \in A
       PROVE  d + 1 \in A
  <2>1. SUFFICES ASSUME m - (d + 1) >= k
                 PROVE  P(d + 1)
    <3> HIDE DEF P
    <3> QED
      BY <1>3
  <2>2. PICK j \in k .. m - 1 : /\ j = m - (d + 1) /\ j + 1 = m - d
                                /\ j \in 1 .. n /\ j + 1 \in 1 .. n /\ j + 1 # 1
    BY <1>1, <2>1
  <2>3. PICK u \in Text : ~Contains(u, "=") /\ After(l, j + 1) = u \o t
    <3>1. P(d)
      <4> HIDE DEF P
      <4> QED
        BY <1>3, <1>5, <2>2
    <3> QED
      BY <2>2, <3>1
  <2>4. l.params[j].flag /\ j \in DOMAIN l.params
    BY <1>1, <1>2, <2>2 DEF FlagsFrom
  <2>5. PICK f \in Text : f = <<l.params[j].key>> /\ ~Contains(f, "=")
    <3>1. PICK key \in Symbol : key = l.params[j].key /\ key # "="
      BY <2>4, ParameterFacts
    <3>2. <<key>> \in Text /\ ~Contains(<<key>>, "=")
      BY <3>1, OneSymbol, ContainsOne
    <3> QED
      BY <3>1, <3>2
  <2>6. "&" \in Symbol
    BY KnownSymbols DEF Known
  <2>7. PICK amp \in Text : amp = <<"&">> /\ ~Contains(amp, "=")
    BY <2>6, OneSymbol, ContainsOne
  <2>8. Left(l, j + 1) = amp \o (u \o t)
    BY <1>1, <2>2, <2>3, <2>7, LeftFacts DEF Separator
  <2>9. After(l, j) = f \o (amp \o (u \o t))
    BY <2>4, <2>5, <2>8, SentParameterFacts DEF After
  <2>10. ((f \o amp) \o u) \o t = f \o (amp \o (u \o t))
    <3>1. Joined(Joined(Joined(f, amp), u), t) = Joined(f, Joined(amp, Joined(u, t)))
      BY JoinedFacts
    <3> QED
      BY <3>1, Zenon DEF Joined
  <2>11. PICK fa \in Text : fa = f \o amp /\ ~Contains(fa, "=")
    BY <2>5, <2>7, TextConcat, ContainsConcat
  <2>12. PICK w \in Text : w = fa \o u /\ ~Contains(w, "=") /\ w # <<>>
    <3>1. fa \o u \in Text /\ ~Contains(fa \o u, "=")
      BY <2>3, <2>11, TextConcat, ContainsConcat
    <3>2. Len(f) = 1 /\ Len(amp) = 1
      <4>1. l.params[j].key \in Symbol
        BY <2>4, ParameterFacts
      <4> QED
        BY <2>5, <2>6, <2>7, <4>1, OneSymbol
    <3>3. Len(fa) = 2 /\ Len(fa \o u) = Len(fa) + Len(u) /\ Len(u) \in Nat
      <4>1. Len(f \o amp) = Len(f) + Len(amp)
        BY TextConcat
      <4>2. Len(fa \o u) = Len(fa) + Len(u) /\ Len(u) \in Nat
        BY TextConcat
      <4> QED
        BY <2>11, <3>2, <4>1, <4>2
    <3>4. fa \o u # <<>>
      <4>1. Len(<<>>) = 0
        BY EmptySeq
      <4> QED
        BY <3>3, <4>1
    <3> QED
      BY <3>1, <3>4
  <2>13. After(l, m - (d + 1)) = w \o t
    BY <2>2, <2>9, <2>10, <2>11, <2>12
  <2>14. d + 1 # 0
    OBVIOUS
  <2>15. NoneBefore(w, d + 1, 0)
    BY <2>12, <2>14 DEF NoneBefore
  <2> QED
    BY <2>12, <2>13, <2>15
<1>6. m - k \in Nat /\ m - (m - k) = k /\ (k = m <=> m - k = 0)
  BY <1>1
<1>7. P(m - k)
  <2> HIDE DEF P
  <2>1. m - k \in A
    BY <1>4, <1>5, <1>6, NumbersInductive
  <2> QED
    BY <1>3, <1>6, <2>1
<1> QED
  <2>1. PICK u \in Text : /\ ~Contains(u, "=")
                          /\ After(l, m - (m - k)) = u \o t
                          /\ NoneBefore(u, m - k, 0)
    BY <1>7
  <2>2. After(l, k) = u \o t /\ NoneBefore(u, k, m)
    BY <1>6, <2>1 DEF NoneBefore
  <2> QED
    BY <2>1, <2>2

(* So the next "=" is the one behind the key of the next value.            *)
LEMMA FlagsBefore ==
  ASSUME NEW l \in Lines, NEW m \in 1 .. Len(l.params), ~l.params[m].flag,
         NEW k \in 1 .. m, FlagsFrom(l, k, m - 1)
  PROVE  \E u \in Text :
           /\ ~Contains(u, "=")
           /\ After(l, k) = (u \o <<l.params[m].key>>) \o <<"=">>
                              \o (QueryEncode(l.params[m].value) \o Left(l, m + 1))
           /\ NoneBefore(u, k, m)
<1>1. PICK n \in Nat : n = Len(l.params)
  BY LineFacts
<1>2. \A i \in 1 .. n : i \in DOMAIN l.params
  BY <1>1, LineFacts
<1>3. PICK key \in Text : key = <<l.params[m].key>>
  BY <1>1, <1>2, ParameterFacts, OneSymbol
<1>4. PICK value \in Text : value = QueryEncode(l.params[m].value)
  BY <1>1, <1>2, ParameterFacts, QueryEncoded
<1>5. PICK left \in Text : left = Left(l, m + 1)
  <2>1. m + 1 \in 1 .. n + 1
    BY <1>1
  <2> QED
    BY <1>1, <2>1, LeftFacts
<1>6. PICK tail \in Text : tail = <<"=">> \o (value \o left)
  <2>1. "=" \in Symbol
    BY KnownSymbols DEF Known
  <2> QED
    BY <2>1, OneSymbol, TextConcat
<1>7. PICK eq \in Text : eq = <<"=">>
  BY OneSymbol, KnownSymbols DEF Known
<1>8. value \o left \in Text
  BY TextConcat
<1>9. After(l, m) = key \o tail
  <2>1. SentParameter(l.params[m]) = (key \o eq) \o value
    BY <1>1, <1>2, <1>3, <1>4, <1>7, SentParameterFacts
  <2>2. key \o eq \in Text
    BY TextConcat
  <2>3. ((key \o eq) \o value) \o left = (key \o eq) \o (value \o left)
    BY <2>2, TextAssociative
  <2>4. (key \o eq) \o (value \o left) = key \o (eq \o (value \o left))
    <3>1. Joined(Joined(key, eq), Joined(value, left))
            = Joined(key, Joined(eq, Joined(value, left)))
      BY JoinedFacts
    <3> QED
      BY <3>1, Zenon DEF Joined
  <2> QED
    BY <1>5, <1>6, <1>7, <2>1, <2>3, <2>4 DEF After
<1>10. key \o tail \in Text
  BY TextConcat
<1>11. FlagsFrom(l, k, m - 1) /\ l.params[m].flag \in BOOLEAN
  BY <1>1, <1>2, ParameterFacts
<1>12. PICK u \in Text : /\ ~Contains(u, "=")
                         /\ After(l, k) = u \o (key \o tail)
                         /\ NoneBefore(u, k, m)
  BY <1>9, <1>10, FlagsInFront
<1>13. u \o (key \o tail) = (u \o key) \o <<"=">> \o (value \o left)
  <2>1. u \o (key \o tail) = (u \o key) \o tail
    BY TextAssociative
  <2>2. u \o key \in Text
    BY TextConcat
  <2>3. (u \o key) \o (eq \o (value \o left)) = ((u \o key) \o eq) \o (value \o left)
    BY <1>8, <2>2, TextAssociative
  <2> QED
    BY <1>6, <1>7, <2>1, <2>3
<1> QED
  BY <1>3, <1>4, <1>5, <1>12, <1>13

(* Of the parameters from k on, the first that has a value. *)
LEMMA NextValued ==
  ASSUME NEW l \in Lines, NEW k \in 1 .. Len(l.params)
  PROVE  \/ FlagsFrom(l, k, Len(l.params))
         \/ \E m \in k .. Len(l.params) : ~l.params[m].flag /\ FlagsFrom(l, k, m - 1)
<1>1. PICK n \in Nat : n = Len(l.params)
  BY LineFacts
<1>2. SUFFICES ASSUME \A m \in k .. n : FlagsFrom(l, k, m - 1) => l.params[m].flag
               PROVE  FlagsFrom(l, k, n)
  BY <1>1
<1>3. PICK A : A = {d \in Nat : k + d <= n + 1 => FlagsFrom(l, k, k + d - 1)}
  OBVIOUS
<1>4. 0 \in A
  <2>1. k .. k + 0 - 1 = {}
    BY <1>1
  <2> QED
    BY <1>3, <2>1 DEF FlagsFrom
<1>5. ASSUME NEW d \in Nat, d \in A
      PROVE  d + 1 \in A
  <2>1. SUFFICES ASSUME k + (d + 1) <= n + 1
                 PROVE  FlagsFrom(l, k, k + (d + 1) - 1)
    BY <1>3
  <2>2. FlagsFrom(l, k, k + d - 1)
    BY <1>1, <1>3, <1>5, <2>1
  <2>3. k + d \in k .. n /\ k + (d + 1) - 1 = k + d
    BY <1>1, <2>1
  <2>4. l.params[k + d].flag
    BY <1>2, <2>2, <2>3
  <2>5. \A i \in k .. k + d : i = k + d \/ i \in k .. k + d - 1
    BY <1>1
  <2> QED
    BY <2>2, <2>3, <2>4, <2>5 DEF FlagsFrom
<1>6. (n + 1) - k \in Nat /\ k + ((n + 1) - k) <= n + 1 /\ k + ((n + 1) - k) - 1 = n
  BY <1>1
<1>7. (n + 1) - k \in A
  BY <1>4, <1>5, <1>6, NumbersInductive
<1> QED
  BY <1>3, <1>6, <1>7

(* One turn of the loop, with parameter m the next that has a value. *)
Turned(l, k, m, text, u) ==
  /\ Contains(text, "=")
  /\ Before(text, "=") = u \o <<l.params[m].key>>
  /\ NoneBefore(u, k, m)
  /\ Before(Behind(text, "="), "&")
       = QueryEncode(l.params[m].value)
           \o (IF m = Len(l.params) THEN <<Blank>> ELSE <<>>)
  /\ m = Len(l.params) => ~Contains(Behind(text, "="), "&")
  /\ m # Len(l.params) =>
       /\ Contains(Behind(text, "="), "&")
       /\ Behind(Behind(text, "="), "&") = After(l, m + 1)

LEMMA Turn ==
  ASSUME NEW l \in Lines, NEW m \in 1 .. Len(l.params), ~l.params[m].flag,
         NEW k \in 1 .. m, FlagsFrom(l, k, m - 1),
         NEW text, text = After(l, k)
  PROVE  \E u \in Text : Turned(l, k, m, text, u)
<1>1. PICK n \in Nat : n = Len(l.params)
  BY LineFacts
<1>2. m \in DOMAIN l.params
  BY <1>1, LineFacts
<1>3. PICK key \in Symbol : key = l.params[m].key /\ key # "="
  BY <1>2, ParameterFacts
<1>4. PICK value \in Text : value = QueryEncode(l.params[m].value)
  BY <1>2, ParameterFacts, QueryEncoded
<1>5. ~Contains(value, "&")
  <2>1. /\ Len(value) = Len(l.params[m].value)
        /\ \A i \in 1 .. Len(l.params[m].value) : value[i] # "&"
    BY <1>2, <1>4, ParameterFacts, QueryEncoded
  <2> QED
    BY <2>1 DEF Contains
<1>6. PICK left \in Text : left = Left(l, m + 1)
  <2>1. m + 1 \in 1 .. n + 1
    BY <1>1
  <2> QED
    BY <1>1, <2>1, LeftFacts
<1>7. PICK u \in Text : /\ ~Contains(u, "=")
                        /\ text = (u \o <<key>>) \o <<"=">> \o (value \o left)
                        /\ NoneBefore(u, k, m)
  BY <1>3, <1>4, <1>6, FlagsBefore
<1>8. <<key>> \in Text /\ ~Contains(<<key>>, "=")
  BY <1>3, OneSymbol, ContainsOne
<1>9. u \o <<key>> \in Text /\ ~Contains(u \o <<key>>, "=")
  BY <1>7, <1>8, TextConcat, ContainsConcat
<1>10. PICK more \in Text : more = value \o left
  BY TextConcat
<1>11. "=" \in Symbol /\ "&" \in Symbol /\ Blank \in Symbol /\ Blank # "&"
  BY KnownSymbols, NamedSymbols DEF Known
<1>12. PICK before \in Text : before = u \o <<key>> /\ ~Contains(before, "=")
  BY <1>9
<1>13. text = before \o <<"=">> \o more
  BY <1>7, <1>10, <1>12
<1>14. Contains(text, "=") /\ Before(text, "=") = before /\ Behind(text, "=") = more
  <2>1. /\ Contains(before \o <<"=">> \o more, "=")
        /\ Before(before \o <<"=">> \o more, "=") = before
        /\ Behind(before \o <<"=">> \o more, "=") = more
    BY <1>11, <1>12, Around, Zenon
  <2> QED
    BY <1>13, <2>1, Zenon
<1>15. CASE m = n
  <2>1. left = <<Blank>>
    BY <1>1, <1>6, <1>15, LeftFacts
  <2>2. ~Contains(left, "&")
    BY <1>11, <2>1, ContainsOne
  <2>3. ~Contains(more, "&")
    BY <1>5, <1>10, <2>2, ContainsConcat
  <2>4. Before(more, "&") = more
    BY <2>3, NotThere
  <2> QED
    BY <1>1, <1>3, <1>4, <1>7, <1>10, <1>12, <1>14, <1>15, <2>1, <2>3, <2>4 DEF Turned
<1>16. CASE m # n
  <2>1. m + 1 \in 1 .. n /\ m + 1 # 1
    BY <1>1, <1>16
  <2>2. PICK after \in Text : after = After(l, m + 1)
    BY <1>1, <2>1, LeftFacts
  <2>3. left = <<"&">> \o after
    BY <1>1, <1>6, <2>1, <2>2, LeftFacts DEF Separator
  <2>4. PICK amp \in Text : amp = <<"&">>
    BY <1>11, OneSymbol
  <2>5. (value \o amp) \o after = value \o (amp \o after)
    <3>1. Joined(Joined(value, amp), after) = Joined(value, Joined(amp, after))
      BY JoinedFacts
    <3> QED
      BY <3>1, Zenon DEF Joined
  <2>6. more = value \o <<"&">> \o after
    BY <1>10, <2>3, <2>4, <2>5
  <2>7. /\ Contains(more, "&") /\ Before(more, "&") = value
        /\ Behind(more, "&") = after
    BY <1>5, <1>11, <2>6, Around
  <2>8. value \o <<>> = value
    BY ConcatEmptySeq DEF Text
  <2> QED
    BY <1>1, <1>3, <1>4, <1>7, <1>12, <1>14, <1>16, <2>2, <2>7, <2>8 DEF Turned
<1> QED
  BY <1>15, <1>16
-----------------------------------------------------------------------------
(***************************************************************************)
(* The inductive invariant.  The loop stands in front of a parameter, and  *)
(* the map holds what was read before it.  A key ends in the key that was  *)
(* meant, behind the flags that were sent before it; nothing before it was *)
(* a flag with no value behind, or an empty value.                         *)
(***************************************************************************)
ValuedIn(l) == {i \in DOMAIN l.params : ~l.params[i].flag}
ReadIn(l, i) == l.params[i].value \o (IF i = Len(l.params) THEN <<Blank>> ELSE <<>>)
SwallowedIn(l, i) == i > 1 /\ l.params[i - 1].flag
GivenUpIn(l) ==
  \E i \in DOMAIN l.params :
    IF l.params[i].flag THEN i = Len(l.params) ELSE l.params[i].value = <<>>

Taken(l, ps, k) ==
  /\ \A key \in DOMAIN ps :
       \E i \in ValuedIn(l) \cap 1 .. k :
         key[Len(key)] = l.params[i].key /\ ps[key] = ReadIn(l, i)
  /\ \A i \in ValuedIn(l) \cap 1 .. k :
       /\ <<l.params[i].key>> \in DOMAIN ps <=> ~SwallowedIn(l, i)
       /\ l.params[i].value # <<>>
  /\ k > 0 => ~l.params[k].flag
  /\ ValuedIn(l) = DOMAIN l.params => DOMAIN ps = {<<l.params[i].key>> : i \in 1 .. k}

Outcome(l, ps) ==
  (ps = NoParameters /\ GivenUpIn(l)) \/ Taken(l, ps, Len(l.params))

HandledAs ==
  IF Len(Command) = 1 /\ Command[1] \in Commands
  THEN [command |-> Command[1], id |-> IdFor(Command[1]), params |-> params]
  ELSE [Nothing EXCEPT !.command = "not_found"]

ParserInv ==
  /\ meant \in Lines
  /\ pc \in {"head", "params", "cut", "length", "dispatch", "done"}
  /\ pc = "head" => params = NoParameters
  /\ pc = "params" =>
       /\ meant.method # "POST" /\ uri = Sent(meant)
       /\ \E k \in 0 .. Len(meant.params) :
            /\ Taken(meant, params, k)
            /\ rest = IF k = Len(meant.params) THEN <<>> ELSE After(meant, k + 1)
  /\ pc = "cut" =>
       meant.method # "POST" /\ uri = Sent(meant) /\ Outcome(meant, params)
  /\ pc = "length" =>
       meant.method = "POST" /\ uri = Sent(meant) /\ rest = SentHead(meant)
  /\ pc \in {"dispatch", "done"} =>
       /\ meant.method # "POST" =>
            uri = Before(Sent(meant), "?") /\ Outcome(meant, params)
       /\ meant.method = "POST" =>
            uri = Sent(meant) /\ length = GetContentLength(SentHead(meant))
  /\ pc = "done" => handled = HandledAs
-----------------------------------------------------------------------------
(* There is text left as long as there is a parameter left.                *)
LEMMA AfterNotEmpty ==
  ASSUME NEW l \in Lines, NEW k \in 1 .. Len(l.params)
  PROVE  After(l, k) # <<>>
<1>1. PICK n \in Nat : n = Len(l.params)
  BY LineFacts
<1>2. k \in DOMAIN l.params /\ k + 1 \in 1 .. n + 1
  BY <1>1, LineFacts
<1>3. PICK key \in Symbol : key = l.params[k].key
  BY <1>2, ParameterFacts
<1>4. PICK sent \in Text : sent = SentParameter(l.params[k])
  BY <1>2, SentParameterFacts
<1>5. PICK left \in Text : left = Left(l, k + 1)
  BY <1>1, <1>2, LeftFacts
<1>6. PICK a \in Text : a = <<key>> /\ Contains(a, key)
  <2>1. <<key>> \in Text /\ Contains(<<key>>, key)
    BY OneSymbol, ContainsOne
  <2> QED
    BY <2>1
<1>7. Contains(sent, key)
  <2>1. CASE l.params[k].flag
    BY <1>2, <1>3, <1>4, <1>6, <2>1, SentParameterFacts
  <2>2. CASE ~l.params[k].flag
    <3>1. PICK eq \in Text : eq = <<"=">>
      BY OneSymbol, KnownSymbols DEF Known
    <3>2. PICK value \in Text : value = QueryEncode(l.params[k].value)
      BY <1>2, ParameterFacts, QueryEncoded
    <3>3. sent = a \o eq \o value
      BY <1>2, <1>3, <1>4, <1>6, <2>2, <3>1, <3>2, SentParameterFacts
    <3>4. PICK b \in Text : b = a \o eq /\ Contains(b, key)
      <4>1. a \o eq \in Text /\ Contains(a \o eq, key)
        BY <1>6, TextConcat, ContainsConcat
      <4> QED
        BY <4>1
    <3> QED
      BY <3>3, <3>4, ContainsConcat
  <2> QED
    BY <1>2, <2>1, <2>2, ParameterFacts
<1>8. Contains(sent \o left, key)
  BY <1>7, ContainsConcat
<1>9. ~Contains(<<>>, key)
  <2>1. 1 .. Len(<<>>) = {}
    OBVIOUS
  <2> QED
    BY <2>1 DEF Contains
<1> QED
  BY <1>4, <1>5, <1>8, <1>9 DEF After

(* Nothing is taken before the first parameter. *)
LEMMA TakenNone ==
  ASSUME NEW l \in Lines
  PROVE  Taken(l, NoParameters, 0)
<1>1. DOMAIN NoParameters = {}
  BY DEF NoParameters
<1>2. 1 .. 0 = {}
  OBVIOUS
<1>3. ~(0 > 0)
  OBVIOUS
<1>4. ValuedIn(l) \cap 1 .. 0 = {}
  BY <1>2
<1>5. {<<l.params[i].key>> : i \in 1 .. 0} = {}
  BY <1>2
<1> QED
  BY <1>1, <1>3, <1>4, <1>5 DEF Taken

(* A turn of the loop takes the next parameter that has a value. *)
LEMMA TakenMore ==
  ASSUME NEW l \in Lines, NEW ps, NEW m \in 1 .. Len(l.params), ~l.params[m].flag,
         l.params[m].value # <<>>,
         NEW k \in 0 .. m - 1, FlagsFrom(l, k + 1, m - 1), Taken(l, ps, k),
         NEW u \in Text, NoneBefore(u, k + 1, m)
  PROVE  Taken(l, Put(ps, u \o <<l.params[m].key>>, ReadIn(l, m)), m)
<1>1. PICK n \in Nat : n = Len(l.params)
  BY LineFacts
<1>2. DOMAIN l.params = 1 .. n
  BY <1>1, LineFacts
<1>3. PICK sym \in Symbol : sym = l.params[m].key
  BY <1>1, <1>2, ParameterFacts
<1>4. PICK key \in Text : key = u \o <<sym>> /\ key[Len(key)] = sym
  <2>1. <<sym>> \in Text /\ Len(<<sym>>) = 1 /\ <<sym>>[1] = sym
    BY OneSymbol
  <2>2. /\ u \o <<sym>> \in Text /\ Len(u \o <<sym>>) = Len(u) + 1
        /\ \A i \in 1 .. 1 : (u \o <<sym>>)[Len(u) + i] = <<sym>>[i]
    BY <2>1, TextConcat
  <2>3. 1 \in 1 .. 1
    OBVIOUS
  <2> QED
    BY <2>1, <2>2, <2>3
<1>5. PICK V : V = ValuedIn(l)
  OBVIOUS
<1>6. m \in V /\ V \subseteq 1 .. n
  BY <1>1, <1>2, <1>5 DEF ValuedIn
<1>7. V \cap 1 .. m = (V \cap 1 .. k) \cup {m} /\ m \notin V \cap 1 .. k
  <2>1. ASSUME NEW i \in V, i \in 1 .. m, i \notin 1 .. k, i # m
        PROVE  FALSE
    <3>1. i \in k + 1 .. m - 1
      BY <2>1
    <3>2. l.params[i].flag
      BY <3>1 DEF FlagsFrom
    <3> QED
      BY <1>5, <3>2 DEF ValuedIn
  <2>2. \A i \in 1 .. k : i \in 1 .. m /\ i # m
    OBVIOUS
  <2>3. m \in 1 .. m
    OBVIOUS
  <2> QED
    BY <1>6, <2>1, <2>2, <2>3
<1>8. /\ \A q \in DOMAIN ps :
           \E i \in V \cap 1 .. k : q[Len(q)] = l.params[i].key /\ ps[q] = ReadIn(l, i)
      /\ \A i \in V \cap 1 .. k :
           /\ <<l.params[i].key>> \in DOMAIN ps <=> ~SwallowedIn(l, i)
           /\ l.params[i].value # <<>>
      /\ k > 0 => ~l.params[k].flag
      /\ V = DOMAIN l.params => DOMAIN ps = {<<l.params[i].key>> : i \in 1 .. k}
  BY <1>5 DEF Taken
<1>9. key \notin DOMAIN ps
  <2>1. SUFFICES ASSUME key \in DOMAIN ps
                 PROVE  FALSE
    OBVIOUS
  <2>2. PICK i \in V \cap 1 .. k : key[Len(key)] = l.params[i].key
    BY <1>8, <2>1
  <2>3. i \in DOMAIN l.params /\ m \in DOMAIN l.params
    BY <1>2, <1>6, <2>2
  <2>4. i = m
    BY <1>3, <1>4, <2>2, <2>3, ParameterFacts
  <2> QED
    BY <1>7, <2>2, <2>4
<1>10. PICK qs : qs = Put(ps, key, ReadIn(l, m))
  OBVIOUS
<1>11. /\ DOMAIN qs = DOMAIN ps \cup {key}
       /\ qs[key] = ReadIn(l, m)
       /\ \A q \in DOMAIN ps : qs[q] = ps[q]
  BY <1>9, <1>10 DEF Put
<1>12. key = <<sym>> <=> ~SwallowedIn(l, m)
  <2>1. <<sym>> \in Text /\ Len(<<sym>>) = 1 /\ <<>> \o <<sym>> = <<sym>>
    BY OneSymbol, ConcatEmptySeq DEF Text
  <2>2. Len(key) = Len(u) + 1 /\ Len(u) \in Nat /\ (Len(u) = 0 => u = <<>>)
    BY <1>4, <2>1, TextConcat, EmptySeq
  <2>3. key = <<sym>> <=> u = <<>>
    <3>1. u = <<>> => key = <<sym>>
      BY <1>4, <2>1
    <3>2. key = <<sym>> => u = <<>>
      BY <2>1, <2>2
    <3> QED
      BY <3>1, <3>2
  <2>4. CASE k + 1 = m
    <3>1. u = <<>> /\ ~SwallowedIn(l, m)
      BY <1>8, <2>4 DEF SwallowedIn, NoneBefore
    <3> QED
      BY <2>3, <3>1
  <2>5. CASE k + 1 # m
    <3>1. m - 1 \in k + 1 .. m - 1 /\ m > 1
      BY <2>5
    <3>2. l.params[m - 1].flag
      BY <3>1 DEF FlagsFrom
    <3> QED
      BY <2>3, <2>5, <3>1, <3>2 DEF SwallowedIn, NoneBefore
  <2> QED
    BY <2>4, <2>5
<1>13. ASSUME NEW i \in V \cap 1 .. m
       PROVE  /\ <<l.params[i].key>> \in DOMAIN qs <=> ~SwallowedIn(l, i)
              /\ l.params[i].value # <<>>
  <2>1. CASE i = m
    <3>1. ASSUME <<sym>> \in DOMAIN ps
          PROVE  FALSE
      <4>1. PICK j \in V \cap 1 .. k : <<sym>>[Len(<<sym>>)] = l.params[j].key
        BY <1>8, <3>1
      <4>2. <<sym>>[Len(<<sym>>)] = sym
        BY OneSymbol
      <4>3. j \in DOMAIN l.params /\ m \in DOMAIN l.params
        BY <1>2, <1>6, <4>1
      <4>4. j = m
        BY <1>3, <4>1, <4>2, <4>3, ParameterFacts
      <4> QED
        BY <1>7, <4>4
    <3> QED
      BY <1>3, <1>11, <1>12, <2>1, <3>1
  <2>2. CASE i # m
    <3>1. i \in V \cap 1 .. k /\ i \in DOMAIN l.params /\ m \in DOMAIN l.params
      BY <1>2, <1>6, <1>7, <2>2
    <3>2. PICK other \in Symbol : other = l.params[i].key /\ other # sym
      BY <1>3, <2>2, <3>1, ParameterFacts
    <3>3. <<other>> # key
      BY <1>4, <3>2, OneSymbol
    <3> QED
      BY <1>8, <1>11, <3>1, <3>2, <3>3
  <2> QED
    BY <2>1, <2>2
<1>14. ASSUME NEW q \in DOMAIN qs
       PROVE  \E i \in V \cap 1 .. m :
                q[Len(q)] = l.params[i].key /\ qs[q] = ReadIn(l, i)
  <2>1. CASE q = key
    BY <1>3, <1>4, <1>7, <1>11, <2>1
  <2>2. CASE q # key
    BY <1>7, <1>8, <1>11, <2>2
  <2> QED
    BY <2>1, <2>2
<1>15. ASSUME V = DOMAIN l.params
       PROVE  DOMAIN qs = {<<l.params[i].key>> : i \in 1 .. m}
  <2>1. k + 1 = m
    <3>1. SUFFICES ASSUME k + 1 # m
                   PROVE  FALSE
      OBVIOUS
    <3>2. k + 1 \in k + 1 .. m - 1 /\ k + 1 \in 1 .. n
      BY <1>1, <3>1
    <3>3. l.params[k + 1].flag
      BY <3>2 DEF FlagsFrom
    <3> QED
      BY <1>2, <1>5, <1>15, <3>2, <3>3 DEF ValuedIn
  <2>2. key = <<l.params[m].key>>
    <3>1. <<sym>> \in Text
      BY OneSymbol
    <3>2. <<>> \o <<sym>> = <<sym>>
      BY <3>1, ConcatEmptySeq DEF Text
    <3> QED
      BY <1>3, <1>4, <2>1, <3>2 DEF NoneBefore
  <2>3. 1 .. m = (1 .. k) \cup {m}
    BY <2>1
  <2> QED
    BY <1>8, <1>11, <1>15, <2>2, <2>3
<1>16. Taken(l, qs, m)
  BY <1>5, <1>8, <1>12, <1>13, <1>14, <1>15 DEF Taken
<1> QED
  BY <1>3, <1>4, <1>10, <1>16
-----------------------------------------------------------------------------
(* The initial states and each action keep the invariant. *)
LEMMA InitParserInv == Init => ParserInv
BY DEF Init, ParserInv

(* ParseHead puts the loop in front of the first parameter.                *)
LEMMA ParseHeadInv ==
  ASSUME ParserInv, ParseHead
  PROVE  ParserInv'
<1>1. meant \in Lines /\ meant' = meant /\ params' = NoParameters /\ uri' = Sent(meant)
  BY DEF ParserInv, ParseHead
<1>2. meant.method \in {"GET", "DELETE", "POST"} /\ Len(meant.params) \in Nat
  BY <1>1, LineFacts
<1>3. CASE meant.method \in {"GET", "DELETE"}
  <2>1. /\ pc' = "params" /\ meant.method # "POST"
        /\ rest' = IF Contains(Sent(meant), "?") THEN Behind(Sent(meant), "?") ELSE <<>>
    BY <1>1, <1>3 DEF ParseHead
  <2>2. rest' = IF 0 = Len(meant.params) THEN <<>> ELSE After(meant, 0 + 1)
    BY <1>1, <1>2, <2>1, SentFacts
  <2>3. Taken(meant, NoParameters, 0) /\ 0 \in 0 .. Len(meant.params)
    BY <1>1, <1>2, TakenNone
  <2> QED
    BY <1>1, <2>1, <2>2, <2>3 DEF ParserInv
<1>4. CASE meant.method = "POST"
  <2>1. pc' = "length" /\ rest' = SentHead(meant)
    BY <1>4 DEF ParseHead
  <2> QED
    BY <1>1, <1>4, <2>1 DEF ParserInv
<1> QED
  BY <1>2, <1>3, <1>4

(* What a turn of the loop finds: nothing more with a value, or the next.  *)
LEMMA TurnFacts ==
  ASSUME NEW l \in Lines, NEW k \in 0 .. Len(l.params) - 1, rest = After(l, k + 1)
  PROVE  \/ ~Contains(rest, "=") /\ l.params[Len(l.params)].flag
         \/ \E m \in k + 1 .. Len(l.params), u \in Text :
              /\ ~l.params[m].flag /\ FlagsFrom(l, k + 1, m - 1)
              /\ NoneBefore(u, k + 1, m)
              /\ Contains(rest, "=") /\ Key = u \o <<l.params[m].key>>
              /\ Value = QueryEncode(l.params[m].value)
                           \o (IF m = Len(l.params) THEN <<Blank>> ELSE <<>>)
              /\ m = Len(l.params) => ~Contains(Behind(rest, "="), "&")
              /\ m # Len(l.params) =>
                   /\ Contains(Behind(rest, "="), "&")
                   /\ Behind(Behind(rest, "="), "&") = After(l, m + 1)
<1>1. PICK n \in Nat : n = Len(l.params)
  BY LineFacts
<1>2. k + 1 \in 1 .. n /\ n \in k + 1 .. n
  BY <1>1
<1>3. CASE FlagsFrom(l, k + 1, n)
  <2>1. ~Contains(rest, "=")
    BY <1>1, <1>2, <1>3, FlagsOnly
  <2> QED
    BY <1>1, <1>2, <1>3, <2>1 DEF FlagsFrom
<1>4. ASSUME NEW m \in k + 1 .. n, ~l.params[m].flag, FlagsFrom(l, k + 1, m - 1)
      PROVE  \E u \in Text :
              /\ NoneBefore(u, k + 1, m)
              /\ Contains(rest, "=") /\ Key = u \o <<l.params[m].key>>
              /\ Value = QueryEncode(l.params[m].value)
                           \o (IF m = Len(l.params) THEN <<Blank>> ELSE <<>>)
              /\ m = Len(l.params) => ~Contains(Behind(rest, "="), "&")
              /\ m # Len(l.params) =>
                   /\ Contains(Behind(rest, "="), "&")
                   /\ Behind(Behind(rest, "="), "&") = After(l, m + 1)
  <2>1. m \in 1 .. Len(l.params) /\ k + 1 \in 1 .. m
    BY <1>1, <1>2
  <2> QED
    <3>1. PICK j \in 1 .. m : j = k + 1
      BY <2>1
    <3>2. FlagsFrom(l, j, m - 1) /\ rest = After(l, j) /\ ~l.params[m].flag
      BY <1>4, <3>1
    <3>3. PICK u \in Text : Turned(l, j, m, rest, u)
      BY <2>1, <3>2, Turn
    <3> QED
      BY <3>1, <3>3, Zenon DEF Turned, Key, Value
<1>5. FlagsFrom(l, k + 1, n) \/ \E m \in k + 1 .. n : ~l.params[m].flag /\ FlagsFrom(l, k + 1, m - 1)
  BY <1>1, <1>2, NextValued
<1> QED
  BY <1>1, <1>3, <1>4, <1>5

(* A turn takes the next parameter that has a value.                       *)
LEMMA TakeParameterInv ==
  ASSUME ParserInv, TakeParameter
  PROVE  ParserInv'
<1>1. /\ meant \in Lines /\ pc = "params" /\ rest # <<>> /\ ~Broken
      /\ meant.method # "POST" /\ uri = Sent(meant)
      /\ meant' = meant /\ pc' = pc /\ uri' = uri
      /\ params' = Put(params, Key, UrlDecode(Value))
      /\ rest' = IF Contains(Behind(rest, "="), "&") THEN Behind(Behind(rest, "="), "&") ELSE <<>>
  BY DEF ParserInv, TakeParameter
<1>2. PICK k \in 0 .. Len(meant.params) :
         /\ Taken(meant, params, k)
         /\ rest = IF k = Len(meant.params) THEN <<>> ELSE After(meant, k + 1)
  BY <1>1 DEF ParserInv
<1>3. PICK n \in Nat : n = Len(meant.params)
  BY <1>1, LineFacts
<1>4. k \in 0 .. n - 1 /\ rest = After(meant, k + 1)
  BY <1>1, <1>2, <1>3
<1>5. Contains(rest, "=")
  BY <1>1 DEF Broken
<1>6. PICK m \in k + 1 .. n, u \in Text :
              /\ ~meant.params[m].flag /\ FlagsFrom(meant, k + 1, m - 1)
              /\ NoneBefore(u, k + 1, m)
              /\ Contains(rest, "=") /\ Key = u \o <<meant.params[m].key>>
              /\ Value = QueryEncode(meant.params[m].value)
                           \o (IF m = n THEN <<Blank>> ELSE <<>>)
              /\ m = n => ~Contains(Behind(rest, "="), "&")
              /\ m # n =>
                   /\ Contains(Behind(rest, "="), "&")
                   /\ Behind(Behind(rest, "="), "&") = After(meant, m + 1)
  BY <1>1, <1>3, <1>4, <1>5, TurnFacts
<1>7. m \in 1 .. n /\ k \in 0 .. m - 1 /\ m \in DOMAIN meant.params
  BY <1>1, <1>3, <1>4, LineFacts
<1>8. UrlDecode(Value) = ReadIn(meant, m)
  <2>1. PICK v \in Seq(STRING) : v = meant.params[m].value /\ Range(v) \cap Range(Escaped) = {}
    BY <1>1, <1>7, ParameterFacts
  <2>2. UrlDecode(QueryEncode(v) \o (IF m = n THEN <<Blank>> ELSE <<>>))
          = v \o (IF m = n THEN <<Blank>> ELSE <<>>)
    <3>1. \A last \in BOOLEAN :
             UrlDecode(QueryEncode(v) \o (IF last THEN <<Blank>> ELSE <<>>))
               = v \o (IF last THEN <<Blank>> ELSE <<>>)
      BY <2>1, Decoded
    <3> QED
      BY <3>1
  <2> QED
    BY <1>3, <1>6, <2>1, <2>2 DEF ReadIn
<1>9. Taken(meant, Put(params, u \o <<meant.params[m].key>>, ReadIn(meant, m)), m)
  <2>1. meant.params[m].value # <<>>
    <3>1. SUFFICES ASSUME meant.params[m].value = <<>>
                   PROVE  FALSE
      OBVIOUS
    <3>2. QueryEncode(<<>>) = <<>>
      <4>1. QueryEncode(meant.params[m].value) \in Text
            /\ Len(QueryEncode(meant.params[m].value)) = Len(meant.params[m].value)
        BY <1>1, <1>7, ParameterFacts, QueryEncoded
      <4> QED
        BY <3>1, <4>1, EmptySeq DEF Text
    <3>3. <<>> \o <<Blank>> = <<Blank>> /\ <<>> \o <<>> = <<>>
      BY ConcatEmptySeq, EmptySeq, OneSymbol, KnownSymbols DEF Known, Text
    <3>4. Value \in {<<>>, <<Blank>>}
      BY <1>6, <3>1, <3>2, <3>3
    <3> QED
      BY <1>1, <3>4 DEF Broken
  <2> QED
    BY <1>1, <1>2, <1>3, <1>6, <1>7, <2>1, TakenMore
<1>10. Taken(meant, params', m)
  BY <1>1, <1>6, <1>8, <1>9
<1>11. rest' = IF m = n THEN <<>> ELSE After(meant, m + 1)
  BY <1>1, <1>6
<1>12. m \in 0 .. Len(meant.params)
  BY <1>3, <1>7
<1> QED
  BY <1>1, <1>3, <1>10, <1>11, <1>12 DEF ParserInv

(* The loop gives up at an empty value, or where only flags are left. *)
LEMMA GiveUpInv ==
  ASSUME ParserInv, GiveUp
  PROVE  ParserInv'
<1>1. /\ meant \in Lines /\ pc = "params" /\ rest # <<>> /\ Broken
      /\ meant.method # "POST" /\ uri = Sent(meant)
      /\ meant' = meant /\ pc' = "cut" /\ uri' = uri /\ params' = NoParameters
  BY DEF ParserInv, GiveUp
<1>2. PICK k \in 0 .. Len(meant.params) :
         rest = IF k = Len(meant.params) THEN <<>> ELSE After(meant, k + 1)
  BY <1>1 DEF ParserInv
<1>3. PICK n \in Nat : n = Len(meant.params)
  BY <1>1, LineFacts
<1>4. k \in 0 .. n - 1 /\ rest = After(meant, k + 1)
  BY <1>1, <1>2, <1>3
<1>5. DOMAIN meant.params = 1 .. n
  BY <1>1, <1>3, LineFacts
<1>6. ASSUME ~Contains(rest, "=")
      PROVE  GivenUpIn(meant)
  <2>1. meant.params[n].flag \/ \E m \in k + 1 .. n, u \in Text : Contains(rest, "=")
    BY <1>1, <1>3, <1>4, TurnFacts
  <2>2. meant.params[n].flag /\ n \in DOMAIN meant.params
    BY <1>4, <1>5, <1>6, <2>1
  <2> QED
    BY <1>3, <2>2 DEF GivenUpIn
<1>7. ASSUME Contains(rest, "=")
      PROVE  GivenUpIn(meant)
  <2>1. PICK m \in k + 1 .. n, u \in Text :
              /\ ~meant.params[m].flag
              /\ Contains(rest, "=") /\ Key = u \o <<meant.params[m].key>>
              /\ Value = QueryEncode(meant.params[m].value)
                           \o (IF m = n THEN <<Blank>> ELSE <<>>)
    BY <1>1, <1>3, <1>4, <1>7, TurnFacts
  <2>2. m \in DOMAIN meant.params
    BY <1>4, <1>5
  <2>3. Key # <<>>
    <3>1. PICK key \in Symbol : key = meant.params[m].key
      BY <1>1, <2>2, ParameterFacts
    <3>2. <<key>> \in Text /\ Len(<<key>>) = 1
      BY OneSymbol
    <3>3. Len(u \o <<key>>) = Len(u) + 1 /\ Len(u) \in Nat
      BY <3>2, TextConcat
    <3> QED
      BY <2>1, <3>1, <3>3, EmptySeq
  <2>4. Value \in {<<>>, <<Blank>>}
    BY <1>1, <2>1, <2>3 DEF Broken
  <2>5. PICK v \in Seq(STRING) : v = meant.params[m].value /\ Range(v) \cap Range(Escaped) = {}
    BY <1>1, <2>2, ParameterFacts
  <2>6. PICK code \in Text : /\ code = QueryEncode(v) /\ Len(code) = Len(v)
                             /\ \A i \in 1 .. Len(v) : code[i] # Blank
    BY <2>5, QueryEncoded
  <2>7. SUFFICES ASSUME v # <<>>
                 PROVE  FALSE
    BY <2>1, <2>2, <2>5, Zenon DEF GivenUpIn
  <2>8. Len(v) \in Nat /\ Len(v) >= 1
    <3>1. Len(v) \in Nat /\ Len(v) # 0
      BY <2>7, EmptySeq, LenProperties
    <3> QED
      BY <3>1
  <2>9. <<Blank>> \in Text /\ Len(<<Blank>>) = 1 /\ <<Blank>>[1] = Blank /\ Len(<<>>) = 0
    BY OneSymbol, KnownSymbols DEF Known
  <2>10. CASE m = n
    <3>1. Value = code \o <<Blank>>
      BY <2>1, <2>5, <2>6, <2>10
    <3>2. Len(code \o <<Blank>>) = Len(v) + 1
      <4>1. Len(code \o <<Blank>>) = Len(code) + Len(<<Blank>>)
        BY <2>9, TextConcat
      <4> QED
        BY <2>6, <2>9, <4>1
    <3> QED
      BY <2>4, <2>8, <2>9, <3>1, <3>2
  <2>11. CASE m # n
    <3>1. Value = code
      BY <2>1, <2>5, <2>6, <2>11, ConcatEmptySeq DEF Text
    <3>2. code[1] # Blank
      BY <2>6, <2>8
    <3> QED
      BY <2>4, <2>6, <2>8, <2>9, <3>1, <3>2
  <2> QED
    BY <2>10, <2>11
<1>8. GivenUpIn(meant)
  BY <1>6, <1>7
<1> QED
  BY <1>1, <1>8 DEF ParserInv, Outcome

(* With nothing left, every parameter has been taken. *)
LEMMA AllTakenInv ==
  ASSUME ParserInv, AllTaken
  PROVE  ParserInv'
<1>1. /\ meant \in Lines /\ pc = "params" /\ rest = <<>>
      /\ meant.method # "POST" /\ uri = Sent(meant)
      /\ meant' = meant /\ pc' = "cut" /\ uri' = uri /\ params' = params
  BY DEF ParserInv, AllTaken
<1>2. PICK k \in 0 .. Len(meant.params) :
         /\ Taken(meant, params, k)
         /\ rest = IF k = Len(meant.params) THEN <<>> ELSE After(meant, k + 1)
  BY <1>1 DEF ParserInv
<1>3. k = Len(meant.params)
  <2>1. SUFFICES ASSUME k # Len(meant.params)
                 PROVE  FALSE
    OBVIOUS
  <2>2. PICK n \in Nat : n = Len(meant.params)
    BY <1>1, LineFacts
  <2>3. PICK j \in 1 .. n : j = k + 1
    BY <2>1, <2>2
  <2>4. After(meant, j) # <<>>
    BY <1>1, <2>2, <2>3, AfterNotEmpty
  <2> QED
    BY <1>1, <1>2, <2>1, <2>3, <2>4
<1>4. Outcome(meant, params)
  BY <1>2, <1>3 DEF Outcome
<1>5. Outcome(meant', params')
  BY <1>1, <1>4
<1> QED
  BY <1>1, <1>5 DEF ParserInv

(* The parameters are cut off the uri.                                     *)
LEMMA CutUriInv ==
  ASSUME ParserInv, CutUri
  PROVE  ParserInv'
<1>1. /\ meant \in Lines /\ meant.method # "POST" /\ uri = Sent(meant)
      /\ Outcome(meant, params)
      /\ meant' = meant /\ pc' = "dispatch" /\ params' = params /\ uri' = Before(uri, "?")
  BY DEF ParserInv, CutUri
<1>2. Outcome(meant', params')
  BY <1>1
<1> QED
  BY <1>1, <1>2 DEF ParserInv

(* The length is read from the head.                                       *)
LEMMA ReadLengthInv ==
  ASSUME ParserInv, ReadLength
  PROVE  ParserInv'
BY DEF ParserInv, ReadLength

(* The request goes to a handler.                                          *)
LEMMA DispatchInv ==
  ASSUME ParserInv, Dispatch
  PROVE  ParserInv'
<1>1. /\ meant \in Lines /\ pc = "dispatch"
      /\ meant' = meant /\ pc' = "done" /\ params' = params /\ uri' = uri
      /\ length' = length /\ handled' = HandledAs
  BY DEF ParserInv, Dispatch, HandledAs
<1>2. HandledAs' = HandledAs
  BY <1>1 DEF HandledAs, Command, IdFor
<1>3. Outcome(meant, params) => Outcome(meant', params')
  BY <1>1
<1> QED
  BY <1>1, <1>2, <1>3 DEF ParserInv

(* A step of something else changes nothing.                               *)
LEMMA StutterInv ==
  ASSUME ParserInv, UNCHANGED vars
  PROVE  ParserInv'
<1>1. /\ meant' = meant /\ pc' = pc /\ uri' = uri /\ rest' = rest /\ params' = params
      /\ length' = length /\ handled' = handled
  BY DEF vars
<1>2. HandledAs' = HandledAs
  BY <1>1 DEF HandledAs, Command, IdFor
<1> QED
  BY <1>1, <1>2 DEF ParserInv

(* The inductive invariant of the parser.  *)
THEOREM ParserInvariant == Spec => []ParserInv
<1>1. Init => ParserInv
  BY InitParserInv
<1>2. ParserInv /\ [Next]_vars => ParserInv'
  BY ParseHeadInv, TakeParameterInv, GiveUpInv, AllTakenInv, CutUriInv, ReadLengthInv,
     DispatchInv, StutterInv DEF Next
<1> QED
  BY <1>1, <1>2, PTL DEF Spec
-----------------------------------------------------------------------------
(* A text with a blank behind it, or without. *)
WithBlank(text, blank) == IF blank THEN text \o <<Blank>> ELSE text

(* The blank behind a text is behind its last part.                        *)
LEMMA WithBlankFacts ==
  ASSUME NEW blank \in BOOLEAN, NEW v \in Text
  PROVE  /\ WithBlank(v, blank) \in Text
         /\ \A c : ~Contains(v, c) /\ c # Blank => ~Contains(WithBlank(v, blank), c)
         /\ \A u \in Text : WithBlank(u \o v, blank) = u \o WithBlank(v, blank)
<1>1. PICK end \in Text : end = <<Blank>> /\ \A c : c # Blank => ~Contains(end, c)
  <2>1. Blank \in Symbol
    BY KnownSymbols DEF Known
  <2> QED
    BY <2>1, OneSymbol, ContainsOne
<1>2. CASE blank
  <2>1. v \o end \in Text
    BY TextConcat
  <2>2. \A c : ~Contains(v, c) /\ c # Blank => ~Contains(v \o end, c)
    BY <1>1, ContainsConcat
  <2>3. \A u \in Text : (u \o v) \o end = u \o (v \o end)
    BY TextAssociative
  <2> QED
    BY <1>1, <1>2, <2>1, <2>2, <2>3, Zenon DEF WithBlank
<1>3. CASE ~blank
  BY <1>3, Zenon DEF WithBlank
<1> QED
  BY <1>2, <1>3

(* HandleRequest finds the command and the handlers the id, with its       *)
(* escapes, in a uri that is the path and, perhaps, a blank.               *)
LEMMA CommandFound ==
  ASSUME NEW l \in Lines, NEW blank \in BOOLEAN, uri = WithBlank(Path(l), blank)
  PROVE  Command = <<l.command>>
<1>1. PICK c \in Symbol : c = l.command /\ c # "/" /\ c # Blank
  BY LineFacts DEF Symbol
<1>2. <<c>> \in Text /\ ~Contains(<<c>>, "/") /\ ~Contains(<<c>>, Blank)
  BY <1>1, OneSymbol, ContainsOne
<1>3. "/" \in Symbol /\ "/" # Blank
  BY KnownSymbols, NamedSymbols DEF Known
<1>4. StripSpaces(WithBlank(<<c>>, blank)) = <<c>> /\ StripSpaces(<<c>>) = <<c>>
  <2>1. \A b \in BOOLEAN : StripSpaces(IF b THEN <<c>> \o <<Blank>> ELSE <<c>>) = <<c>>
    BY <1>2, StripSpacesPlain
  <2> QED
    BY <2>1 DEF WithBlank
<1>5. CASE Path(l) = <<c>>
  <2>1. uri \in Text /\ ~Contains(uri, "/")
    BY <1>2, <1>3, <1>5, WithBlankFacts
  <2>2. Before(uri, "/") = uri
    BY <2>1, NotThere
  <2> QED
    BY <1>1, <1>4, <1>5, <2>2 DEF Command
<1>6. ASSUME NEW x \in Text, Path(l) = <<c>> \o <<"/">> \o x
      PROVE  Command = <<l.command>>
  <2>1. PICK y \in Text : y = WithBlank(x, blank)
    BY WithBlankFacts
  <2>2. <<c>> \o <<"/">> \in Text
    BY <1>2, <1>3, OneSymbol, TextConcat
  <2>3. uri = <<c>> \o <<"/">> \o y
    <3>1. PICK p \in Text : p = <<c>> \o <<"/">>
      BY <2>2
    <3>2. WithBlank(p \o x, blank) = p \o y
      BY <2>1, WithBlankFacts
    <3> QED
      BY <1>6, <3>1, <3>2
  <2>4. Before(uri, "/") = <<c>>
    BY <1>2, <1>3, <2>3, Around
  <2> QED
    BY <1>1, <1>4, <2>4 DEF Command
<1> QED
  BY <1>1, <1>5, <1>6, PathFacts

(* And the id, with its escapes.                                           *)
LEMMA IdFound ==
  ASSUME NEW l \in Lines, NEW blank \in BOOLEAN, uri = WithBlank(Path(l), blank),
         l.id # <<>>, l.command \in {"delete", "nodes", "node"},
         l.command = "delete" => ~blank
  PROVE  IdFor(l.command) = PathEncode(l.id)
<1>1. PICK c \in Symbol : c = l.command /\ c # "/"
  BY LineFacts DEF Symbol
<1>2. <<c>> \in Text /\ ~Contains(<<c>>, "/")
  BY <1>1, OneSymbol, ContainsOne
<1>3. "/" \in Symbol /\ "/" # Blank /\ "history" \in Symbol /\ "history" # "/"
  BY KnownSymbols, NamedSymbols DEF Known
<1>4. <<"/">> \in Text /\ <<"history">> \in Text /\ ~Contains(<<"history">>, "/")
  BY <1>3, OneSymbol, ContainsOne
<1>5. PICK id \in Text : id = PathEncode(l.id) /\ ~Contains(id, Blank)
  <2>1. l.id \in Seq(STRING) /\ Blank \in DOMAIN Escaped
    BY LineFacts, EscapedFacts
  <2> QED
    BY <2>1, PathEncoded
<1>6. PICK x \in Text :
         /\ Path(l) = <<c>> \o <<"/">> \o x
         /\ x = IF c = "node" THEN id \o <<"/">> \o <<"history">> ELSE id
  BY <1>1, <1>5, PathFacts
<1>7. PICK y \in Text : y = WithBlank(x, blank)
  BY WithBlankFacts
<1>8. <<c>> \o <<"/">> \in Text
  BY <1>2, <1>4, TextConcat
<1>9. uri = <<c>> \o <<"/">> \o y
  <2>1. PICK p \in Text : p = <<c>> \o <<"/">>
    BY <1>8
  <2>2. WithBlank(p \o x, blank) = p \o y
    BY <1>7, WithBlankFacts
  <2> QED
    BY <1>6, <2>1, <2>2
<1>10. Behind(uri, "/") = y
  BY <1>2, <1>3, <1>9, Around
<1>11. CASE c = "delete"
  <2>1. ~blank /\ x = id
    BY <1>1, <1>6, <1>11
  <2>2. y = id
    BY <1>7, <2>1 DEF WithBlank
  <2> QED
    BY <1>1, <1>5, <1>10, <1>11, <2>2 DEF IdFor
<1>12. CASE c = "nodes"
  <2>1. x = id
    BY <1>6, <1>12
  <2>2. StripSpaces(y) = id
    BY <1>5, <1>7, <2>1, StripSpacesPlain DEF WithBlank
  <2> QED
    BY <1>1, <1>5, <1>10, <1>12, <2>2 DEF IdFor
<1>13. CASE c = "node"
  <2>1. PICK z \in Text : z = WithBlank(<<"history">>, blank) /\ ~Contains(z, "/")
    BY <1>3, <1>4, WithBlankFacts
  <2>2. id \o <<"/">> \in Text
    BY <1>4, TextConcat
  <2>3. y = id \o <<"/">> \o z
    BY <1>4, <1>6, <1>7, <1>13, <2>1, <2>2, WithBlankFacts
  <2>4. BeforeLast(y, "/") = id
    BY <1>3, <2>1, <2>3, BeforeTheLast
  <2> QED
    BY <1>1, <1>5, <1>10, <1>13, <2>4 DEF IdFor
<1> QED
  BY <1>1, <1>11, <1>12, <1>13

(* The uri a request is dispatched with. *)
LEMMA UriAtDispatch ==
  ASSUME ParserInv, pc = "done", meant.method = "POST" => meant.params = <<>>
  PROVE  uri = WithBlank(Path(meant), meant.params = <<>>)
<1>1. meant \in Lines /\ (meant.params = <<>> <=> Len(meant.params) = 0)
  BY LineFacts, EmptySeq DEF ParserInv
<1>2. CASE meant.params = <<>>
  <2>1. /\ Sent(meant) = Path(meant) \o <<Blank>>
        /\ Before(Sent(meant), "?") = Path(meant) \o <<Blank>>
    BY <1>1, <1>2, SentFacts
  <2>2. uri = Path(meant) \o <<Blank>>
    BY <2>1 DEF ParserInv
  <2> QED
    BY <1>2, <2>2 DEF WithBlank
<1>3. CASE meant.params # <<>>
  <2>1. Before(Sent(meant), "?") = Path(meant)
    BY <1>1, <1>3, SentFacts
  <2> QED
    BY <1>3, <2>1 DEF ParserInv, WithBlank
<1> QED
  BY <1>2, <1>3

(* A request goes to the handler of its command, or to none if there is    *)
(* none (RequestHandler.cpp:11-20).                                        *)
LEMMA RoutedInv == ParserInv => Routed
<1>1. SUFFICES ASSUME ParserInv, pc = "done", meant.method = "POST" => meant.params = <<>>
               PROVE  handled.command = IF meant.command \in Commands
                                        THEN meant.command ELSE "not_found"
  BY DEF Routed
<1>2. Command = <<meant.command>>
  BY <1>1, CommandFound, UriAtDispatch DEF ParserInv
<1>3. Len(Command) = 1 /\ Command[1] = meant.command
  <2>1. meant.command \in Symbol
    BY <1>1, LineFacts DEF ParserInv, Symbol
  <2> QED
    BY <1>2, <2>1, OneSymbol
<1> QED
  BY <1>1, <1>3 DEF ParserInv, HandledAs, Nothing

(* Every request goes to the handler of its command, or to none, whatever  *)
(* else is in its line (RequestHandler.cpp:11-20,                          *)
(* RequestParser.cpp:56-59).                                               *)
THEOREM RequestsRouted == Spec => []Routed
BY ParserInvariant, RoutedInv, PTL

(* The id a handler looks up is the one that was meant, with its escapes.  *)
LEMMA IdArrivesInv == ParserInv => IdArrives
<1>1. SUFFICES ASSUME ParserInv, Read, meant.id # <<>>,
                      handled.command \in {"delete", "nodes", "node"},
                      handled.command = "delete" => meant.params # <<>>
               PROVE  handled.id = PathEncode(meant.id)
  BY DEF IdArrives
<1>2. pc = "done" /\ meant.method # "POST" /\ meant \in Lines /\ handled = HandledAs
      /\ handled.command # "not_found"
  BY <1>1 DEF Read, Done, ParserInv
<1>3. uri = WithBlank(Path(meant), meant.params = <<>>)
  BY <1>1, <1>2, UriAtDispatch
<1>4. Command = <<meant.command>>
  BY <1>2, <1>3, CommandFound
<1>5. Len(Command) = 1 /\ Command[1] = meant.command
  <2>1. meant.command \in Symbol
    BY <1>2, LineFacts DEF Symbol
  <2> QED
    BY <1>4, <2>1, OneSymbol
<1>6. handled.command = meant.command /\ handled.id = IdFor(meant.command)
  BY <1>2, <1>5 DEF HandledAs, Nothing
<1>7. IdFor(meant.command) = PathEncode(meant.id)
  BY <1>1, <1>2, <1>3, <1>6, IdFound
<1> QED
  BY <1>6, <1>7

(* So a handler finds exactly the ids that need no escapes                 *)
(* (Main.cpp:121-129, 155-157, 183-185).                                   *)
THEOREM IdsArrive == Spec => []IdArrives
BY ParserInvariant, IdArrivesInv, PTL

(* A request whose parameters are read gets what the loop came to. *)
LEMMA ReadFacts ==
  ASSUME ParserInv, Read
  PROVE  /\ meant \in Lines /\ handled.params = params /\ Outcome(meant, params)
         /\ DOMAIN meant.params = 1 .. Len(meant.params)
<1>1. pc = "done" /\ meant.method # "POST" /\ handled.command # "not_found"
  BY DEF Read, Done
<1>2. meant \in Lines /\ handled = HandledAs /\ Outcome(meant, params)
  BY <1>1 DEF ParserInv
<1>3. handled.params = params
  BY <1>1, <1>2 DEF HandledAs, Nothing
<1> QED
  BY <1>2, <1>3, LineFacts

(* The value the map has for a key that was meant is the one meant for it. *)
LEMMA OwnValue ==
  ASSUME NEW l \in Lines, NEW ps, NEW k, Taken(l, ps, k),
         NEW i \in DOMAIN l.params, <<l.params[i].key>> \in DOMAIN ps
  PROVE  ps[<<l.params[i].key>>] = ReadIn(l, i)
<1>1. PICK key : key = <<l.params[i].key>> /\ key \in DOMAIN ps
  OBVIOUS
<1>2. PICK j \in ValuedIn(l) \cap 1 .. k :
         key[Len(key)] = l.params[j].key /\ ps[key] = ReadIn(l, j)
  BY <1>1 DEF Taken
<1>3. key[Len(key)] = l.params[i].key
  <2>1. l.params[i].key \in Symbol
    BY ParameterFacts
  <2> QED
    BY <1>1, <2>1, OneSymbol
<1>4. j \in DOMAIN l.params
  BY DEF ValuedIn
<1>5. i = j
  BY <1>2, <1>3, <1>4, ParameterFacts
<1> QED
  BY <1>1, <1>2, <1>5

(* Nothing makes the loop give up when every parameter has a value.        *)
LEMMA ParametersArriveInv == ParserInv => ParametersArrive
<1>1. SUFFICES ASSUME ParserInv, Read,
                      \A i \in DOMAIN meant.params :
                        ~meant.params[i].flag /\ meant.params[i].value # <<>>
               PROVE  /\ DOMAIN params = {<<meant.params[i].key>> : i \in DOMAIN meant.params}
                      /\ \A i \in DOMAIN meant.params :
                           params[<<meant.params[i].key>>] = ReadIn(meant, i)
  BY ReadFacts DEF ParametersArrive, AsRead, ReadIn
<1>2. PICK n : n = Len(meant.params)
  OBVIOUS
<1>3. Taken(meant, params, n) /\ meant \in Lines /\ DOMAIN meant.params = 1 .. n
  <2>1. ~GivenUpIn(meant)
    BY <1>1, Zenon DEF GivenUpIn
  <2> QED
    BY <1>1, <1>2, <2>1, ReadFacts DEF Outcome
<1>4. ValuedIn(meant) = DOMAIN meant.params
  BY <1>1, Zenon DEF ValuedIn
<1>5. DOMAIN params = {<<meant.params[i].key>> : i \in DOMAIN meant.params}
  BY <1>3, <1>4 DEF Taken
<1>6. ASSUME NEW i \in DOMAIN meant.params
      PROVE  params[<<meant.params[i].key>>] = ReadIn(meant, i)
  BY <1>3, <1>5, OwnValue
<1> QED
  BY <1>5, <1>6

(* Then all values reach the handler as they were meant, the last one with *)
(* a blank behind it (RequestParser.cpp:14-38, 54; Utils.h:33-57).         *)
THEOREM AllParametersArrive == Spec => []ParametersArrive
BY ParserInvariant, ParametersArriveInv, PTL

(* What the loop came to, read key by key.                                 *)
LEMMA KeysArriveInv == ParserInv => KeysArrive
<1>1. SUFFICES ASSUME ParserInv, Read, NEW i \in ValuedIn(meant),
                      NEW key, key = <<meant.params[i].key>>
               PROVE  /\ key \in DOMAIN params <=> ~GivenUpIn(meant) /\ ~SwallowedIn(meant, i)
                      /\ key \in DOMAIN params => params[key] = ReadIn(meant, i)
  BY ReadFacts DEF KeysArrive, AsRead, ReadIn, Valued, ValuedIn, GivenUp, GivenUpIn,
     Swallowed, SwallowedIn
<1>2. CASE params = NoParameters /\ GivenUpIn(meant)
  BY <1>2 DEF NoParameters
<1>3. CASE Taken(meant, params, Len(meant.params))
  <2>1. PICK n \in Nat : n = Len(meant.params) /\ DOMAIN meant.params = 1 .. n
    BY <1>1, ReadFacts, LineFacts
  <2>2. meant \in Lines /\ i \in DOMAIN meant.params /\ i \in ValuedIn(meant) \cap 1 .. n
    BY <1>1, <2>1, ReadFacts DEF ValuedIn
  <2>3. ~GivenUpIn(meant)
    <3>1. SUFFICES ASSUME NEW j \in 1 .. n,
                          IF meant.params[j].flag THEN j = n ELSE meant.params[j].value = <<>>
                   PROVE  FALSE
      BY <2>1 DEF GivenUpIn
    <3>2. j = n => ~meant.params[j].flag
      BY <1>3, <2>1 DEF Taken
    <3>3. j \in ValuedIn(meant) \cap 1 .. n => meant.params[j].value # <<>>
      BY <1>3, <2>1 DEF Taken
    <3> QED
      BY <2>1, <3>1, <3>2, <3>3 DEF ValuedIn
  <2>4. key \in DOMAIN params <=> ~SwallowedIn(meant, i)
    BY <1>1, <1>3, <2>1, <2>2 DEF Taken
  <2>5. key \in DOMAIN params => params[key] = ReadIn(meant, i)
    BY <1>1, <1>3, <2>1, <2>2, OwnValue
  <2> QED
    BY <2>3, <2>4, <2>5
<1> QED
  BY <1>1, <1>2, <1>3, ReadFacts DEF Outcome

(* Of the parameters with a value a handler gets none, if the loop gave    *)
(* up, or those that do not follow a flag, and for no key the value of     *)
(* another (RequestParser.cpp:22-35).                                      *)
THEOREM KeysThatArrive == Spec => []KeysArrive
BY ParserInvariant, KeysArriveInv, PTL
-----------------------------------------------------------------------------
(***************************************************************************)
(* The length.                                                             *)
(***************************************************************************)
LEMMA NoDigits ==
  \A c \in {Blank, EndOfLine, "{", "Content-Length"} : c \notin DOMAIN Digit
<1>1. DOMAIN Digit \subseteq {"0", "1", "2", "3", "4", "5", "6", "7", "8", "9"}
  <2>1. DOMAIN Digit = {Numerals[i] : i \in DOMAIN Numerals}
    BY DEF Digit, Range
  <2>2. DOMAIN Numerals = 1 .. 10
    BY DEF Numerals
  <2>3. \A i \in 1 .. 10 :
          Numerals[i] \in {"0", "1", "2", "3", "4", "5", "6", "7", "8", "9"}
    BY DEF Numerals
  <2> QED
    BY <2>1, <2>2, <2>3, Zenon
<1>2. \A c \in {Blank, EndOfLine, "{", "Content-Length"} :
        c \notin {"0", "1", "2", "3", "4", "5", "6", "7", "8", "9"}
  BY Zenon DEF Blank, EndOfLine
<1> QED
  BY <1>1, <1>2, Zenon

(* atoi, where its blanks and its digits end. *)
Ends(text, from, start, stop) ==
  /\ text[start] \notin {Blank, EndOfLine}
  /\ \A i \in from .. start - 1 : text[i] \in {Blank, EndOfLine}
  /\ text[stop] \notin DOMAIN Digit
  /\ \A i \in start .. stop - 1 : text[i] \in DOMAIN Digit

LEMMA AtoiFacts ==
  ASSUME NEW text \in Text, NEW start \in 1 .. Len(text), NEW from \in 1 .. start,
         NEW stop \in start .. Len(text), Ends(text, from, start, stop)
  PROVE  Atoi(text, from) = Number(SubSeq(text, start, stop - 1))
<1>1. PICK n \in Nat : n = Len(text)
  BY LenProperties DEF Text
<1>2. PICK I : I = {i \in from .. n : text[i] \notin {Blank, EndOfLine}}
  OBVIOUS
<1>3. Min(I) = start
  <2>1. I \subseteq Int /\ start \in I
    BY <1>1, <1>2 DEF Ends
  <2>2. ASSUME NEW i \in I, ~(start <= i)
        PROVE  FALSE
    <3>1. i \in from .. start - 1 /\ text[i] \notin {Blank, EndOfLine}
      BY <1>1, <1>2, <2>2
    <3> QED
      BY <3>1 DEF Ends
  <2> QED
    BY <2>1, <2>2, MinIs
<1>4. PICK J : J = {i \in start .. n : text[i] \notin DOMAIN Digit}
  OBVIOUS
<1>5. Min(J) = stop
  <2>1. J \subseteq Int /\ stop \in J
    BY <1>1, <1>4 DEF Ends
  <2>2. ASSUME NEW i \in J, ~(stop <= i)
        PROVE  FALSE
    <3>1. i \in start .. stop - 1 /\ text[i] \notin DOMAIN Digit
      BY <1>1, <1>4, <2>2
    <3> QED
      BY <3>1 DEF Ends
  <2> QED
    BY <2>1, <2>2, MinIs
<1> QED
  BY <1>1, <1>2, <1>3, <1>4, <1>5, Zenon DEF Atoi

(* It reads digits that are followed by anything else, and gets 0 out of   *)
(* what has none in front.                                                 *)
LEMMA AtoiReads ==
  ASSUME NEW before \in Text, NEW digits \in Seq(DOMAIN Digit), NEW behind \in Text,
         digits \in Text, digits # <<>>, behind # <<>>, behind[1] \notin DOMAIN Digit
  PROVE  Atoi(before \o (digits \o behind), Len(before) + 1) = Number(digits)
<1>1. PICK a \in Nat, d \in Nat, b \in Nat :
         a = Len(before) /\ d = Len(digits) /\ b = Len(behind)
  BY LenProperties DEF Text
<1>2. d # 0 /\ b # 0
  BY <1>1, EmptySeq
<1>3. PICK more \in Text : more = digits \o behind
  BY TextConcat
<1>4. /\ Len(more) = d + b
      /\ \A i \in 1 .. d : more[i] = digits[i]
      /\ more[d + 1] = behind[1]
  <2>1. /\ Len(more) = Len(digits) + Len(behind)
        /\ \A i \in 1 .. Len(digits) : more[i] = digits[i]
        /\ \A i \in 1 .. Len(behind) : more[Len(digits) + i] = behind[i]
    BY <1>3, TextConcat
  <2> QED
    BY <1>1, <1>2, <2>1
<1>5. PICK text \in Text : text = before \o more
  BY TextConcat
<1>6. Len(text) = a + d + b /\ \A i \in 1 .. d + b : text[a + i] = more[i]
  <2>1. /\ Len(text) = Len(before) + Len(more)
        /\ \A i \in 1 .. Len(more) : text[Len(before) + i] = more[i]
    BY <1>5, TextConcat
  <2> QED
    BY <1>1, <1>4, <2>1
<1>7. PICK start \in 1 .. Len(text) : start = a + 1
  BY <1>2, <1>6
<1>8. PICK stop \in start .. Len(text) : stop = a + d + 1
  BY <1>2, <1>6, <1>7
<1>9. \A i \in 1 .. d : digits[i] \in DOMAIN Digit
  BY <1>1, ElementOfSeq
<1>10. ASSUME NEW i \in start .. stop - 1
       PROVE  text[i] \in DOMAIN Digit
  <2>1. PICK j \in 1 .. d : i = a + j
    BY <1>7, <1>8
  <2> QED
    <3>1. text[a + j] = more[j] /\ more[j] = digits[j]
      <4>1. j \in 1 .. d + b
        BY <1>1
      <4> QED
        BY <1>4, <1>6, <4>1
    <3> QED
      BY <1>9, <2>1, <3>1
<1>11. text[stop] \notin DOMAIN Digit
  <2>1. d + 1 \in 1 .. d + b /\ stop = a + (d + 1)
    BY <1>2, <1>8
  <2> QED
    BY <1>4, <1>6, <2>1
<1>12. text[start] \notin {Blank, EndOfLine}
  <2>1. start \in start .. stop - 1
    BY <1>1, <1>2, <1>7, <1>8
  <2>2. text[start] \in DOMAIN Digit
    BY <1>10, <2>1
  <2> QED
    BY <2>2, NoDigits
<1>13. Atoi(text, start) = Number(SubSeq(text, start, stop - 1))
  <2>1. start \in 1 .. start /\ \A i \in start .. start - 1 : FALSE
    BY <1>7
  <2>2. \A i \in start .. start - 1 : text[i] \in {Blank, EndOfLine}
    BY <2>1
  <2> QED
    <3>1. Ends(text, start, start, stop)
      BY <1>10, <1>11, <1>12, <2>2 DEF Ends
    <3> QED
      BY <2>1, <3>1, AtoiFacts
<1>14. SubSeq(text, start, stop - 1) = digits
  <2>1. PICK part : part = SubSeq(text, start, stop - 1)
    OBVIOUS
  <2>2. start - 1 = a /\ stop - 1 \in start - 1 .. Len(text) /\ stop - 1 - start + 1 = d
    BY <1>1, <1>7, <1>8
  <2>3. part \in Text /\ Len(part) = d /\ \A i \in 1 .. d : part[i] = text[a + i]
    BY <1>5, <1>7, <1>8, <2>1, <2>2, SubSeqProperties DEF Text
  <2>4. \A i \in 1 .. d : part[i] = digits[i]
    <3>1. \A i \in 1 .. d : i \in 1 .. d + b
      BY <1>1
    <3> QED
      BY <1>4, <1>6, <2>3, <3>1
  <2> QED
    BY <1>1, <2>1, <2>3, <2>4, SeqEqual DEF Text
<1> QED
  BY <1>1, <1>3, <1>5, <1>7, <1>13, <1>14

LEMMA AtoiNothing ==
  ASSUME NEW text \in Text, NEW start \in 1 .. Len(text), NEW from \in 1 .. start,
         text[start] \notin {Blank, EndOfLine} \cup DOMAIN Digit,
         \A i \in from .. start - 1 : text[i] \in {Blank, EndOfLine}
  PROVE  Atoi(text, from) = 0
<1>1. Len(text) \in Nat
  BY LenProperties DEF Text
<1>2. start \in start .. Len(text) /\ start .. start - 1 = {}
  BY <1>1
<1>3. Atoi(text, from) = Number(SubSeq(text, start, start - 1))
  BY <1>2, AtoiFacts DEF Ends
<1>4. SubSeq(text, start, start - 1) = <<>>
  BY <1>1, SubSeqProperties, EmptySeq DEF Text
<1> QED
  BY <1>3, <1>4, NumberOfNone

(* A header as it is sent: it begins with its name and contains nothing    *)
(* but it and its value. *)
LEMMA HeaderFacts ==
  ASSUME NEW l \in Lines, NEW i \in DOMAIN l.headers
  PROVE  /\ l.headers[i].name \in Text /\ l.headers[i].value \in Text
         /\ l.headers[i].spaced \in BOOLEAN
         /\ l.headers[i].name # <<>>
         /\ l.headers[i].name[1] \notin {Blank, EndOfLine} \cup DOMAIN Digit
         /\ DOMAIN l.headers = 1 .. Len(l.headers) /\ Len(l.headers) \in Nat
<1>1. PICK h \in Header : h = l.headers[i]
  BY LineFacts, ElementOfSeq
<1>2. h.name \in Seq(STRING) /\ h.value \in Seq(STRING) /\ h.spaced \in BOOLEAN
  BY Zenon DEF Header
<1>3. h.name \in Text /\ h.value \in Text
  BY <1>2, KnownSymbols
<1>4. DOMAIN l.headers = 1 .. Len(l.headers) /\ Len(l.headers) \in Nat
  BY LineFacts, LenProperties
<1>5. h.name # <<>> /\ h.name[1] \notin {Blank, EndOfLine} \cup DOMAIN Digit
  BY <1>1, RequestLineAssumption
<1> QED
  BY <1>1, <1>2, <1>3, <1>4, <1>5, Zenon

Spaces(h) == IF h.spaced THEN <<Blank>> ELSE <<>>

LEMMA SentHeaderFacts ==
  ASSUME NEW l \in Lines, NEW i \in DOMAIN l.headers, NEW h, h = l.headers[i]
  PROVE  /\ SentHeader(h) \in Text /\ Spaces(h) \in Text
         /\ SentHeader(h) = h.name \o (<<":">> \o (Spaces(h) \o (h.value \o <<EndOfLine>>)))
         /\ Len(SentHeader(h)) >= 1 /\ SentHeader(h)[1] = h.name[1]
         /\ ~Contains(h.name \o h.value, "Content-Length")
              => ~Contains(SentHeader(h), "Content-Length")
<1>1. PICK name \in Text, value \in Text :
         name = h.name /\ value = h.value /\ name # <<>>
  BY HeaderFacts
<1>2. "Content-Length" # ":" /\ "Content-Length" # Blank /\ "Content-Length" # EndOfLine
  BY NamedSymbols
<1>3. ":" \in Symbol /\ Blank \in Symbol /\ EndOfLine \in Symbol
  BY KnownSymbols DEF Known
<1>4. PICK colon \in Text : colon = <<":">> /\ ~Contains(colon, "Content-Length")
  BY <1>2, <1>3, OneSymbol, ContainsOne
<1>5. PICK end \in Text : end = <<EndOfLine>> /\ ~Contains(end, "Content-Length")
  BY <1>2, <1>3, OneSymbol, ContainsOne
<1>6. PICK spaces \in Text : spaces = Spaces(h) /\ ~Contains(spaces, "Content-Length")
  <2>1. <<Blank>> \in Text /\ ~Contains(<<Blank>>, "Content-Length")
    BY <1>2, <1>3, OneSymbol, ContainsOne
  <2>2. <<>> \in Text /\ Len(<<>>) = 0
    BY EmptySeq DEF Text
  <2>3. ~Contains(<<>>, "Content-Length")
    <3>1. 1 .. Len(<<>>) = {}
      BY <2>2
    <3> QED
      BY <3>1 DEF Contains
  <2> QED
    BY <2>1, <2>2, <2>3, Zenon DEF Spaces
<1>7. SentHeader(h) = (((name \o colon) \o spaces) \o value) \o end
  BY <1>1, <1>4, <1>5, <1>6, Zenon DEF SentHeader, Spaces
<1>8. (((name \o colon) \o spaces) \o value) \o end
        = name \o (colon \o (spaces \o (value \o end)))
  <2>1. Joined(Joined(Joined(Joined(name, colon), spaces), value), end)
          = Joined(name, Joined(colon, Joined(spaces, Joined(value, end))))
    <3>1. PICK a \in Text, b \in Text : a = Joined(name, colon) /\ b = Joined(a, spaces)
      BY JoinedFacts
    <3>2. PICK c \in Text, d \in Text : c = Joined(value, end) /\ d = Joined(spaces, c)
      BY JoinedFacts
    <3>3. Joined(Joined(b, value), end) = Joined(b, c)
      BY <3>2, JoinedFacts
    <3>4. Joined(b, c) = Joined(a, d)
      BY <3>1, <3>2, JoinedFacts
    <3>5. Joined(a, d) = Joined(name, Joined(colon, d))
      BY <3>1, JoinedFacts
    <3> QED
      BY <3>1, <3>2, <3>3, <3>4, <3>5
  <2> QED
    BY <2>1, Zenon DEF Joined
<1>9. PICK behind \in Text : behind = colon \o (spaces \o (value \o end))
  BY TextConcat, Zenon
<1>10. SentHeader(h) = name \o behind
  BY <1>7, <1>8, <1>9
<1>11. /\ Len(name \o behind) = Len(name) + Len(behind) /\ name \o behind \in Text
       /\ Len(name) \in Nat /\ Len(behind) \in Nat
       /\ \A k \in 1 .. Len(name) : (name \o behind)[k] = name[k]
  BY TextConcat
<1>12. Len(name) # 0
  BY <1>1, EmptySeq
<1>13. /\ SentHeader(h) \in Text
       /\ Len(SentHeader(h)) >= 1 /\ SentHeader(h)[1] = name[1]
  BY <1>10, <1>11, <1>12
<1>14. ASSUME ~Contains(name \o value, "Content-Length")
       PROVE  ~Contains(SentHeader(h), "Content-Length")
  <2>1. ~Contains(name, "Content-Length") /\ ~Contains(value, "Content-Length")
    BY <1>14, ContainsConcat
  <2>2. PICK w \in Text : w = value \o end /\ ~Contains(w, "Content-Length")
    BY <1>5, <2>1, TextConcat, ContainsConcat
  <2>3. PICK v \in Text : v = spaces \o w /\ ~Contains(v, "Content-Length")
    <3>1. PICK sp \in Text : sp = spaces /\ ~Contains(sp, "Content-Length")
      BY <1>6
    <3>2. sp \o w \in Text
      BY TextConcat
    <3>3. ~Contains(sp \o w, "Content-Length")
      BY <2>2, <3>1, ContainsConcat
    <3> QED
      BY <3>1, <3>2, <3>3
  <2>4. behind = colon \o v /\ ~Contains(colon \o v, "Content-Length")
    BY <1>4, <1>9, <2>2, <2>3, ContainsConcat
  <2> QED
    BY <1>10, <2>1, <2>4, ContainsConcat
<1> QED
  BY <1>1, <1>4, <1>5, <1>6, <1>7, <1>8, <1>13, <1>14

(* The headers from one on, with the end of the head behind them.          *)
Headers(l) == [i \in DOMAIN l.headers |-> SentHeader(l.headers[i])]
HeadersFrom(l, k) == Suffix(Headers(l), <<EndOfLine, "{">>, k)

LEMMA HeadersFacts ==
  ASSUME NEW l \in Lines
  PROVE  /\ <<"HTTP/1.1", EndOfLine>> \in Text /\ <<EndOfLine, "{">> \in Text
         /\ Len(l.headers) \in Nat /\ DOMAIN l.headers = 1 .. Len(l.headers)
         /\ HeadersFrom(l, Len(l.headers) + 1) = <<EndOfLine, "{">>
         /\ \A k \in 1 .. Len(l.headers) + 1 : HeadersFrom(l, k) \in Text
         /\ \A k \in 1 .. Len(l.headers) :
              HeadersFrom(l, k) = SentHeader(l.headers[k]) \o HeadersFrom(l, k + 1)
         /\ SentHead(l) = (Sent(l) \o <<"HTTP/1.1", EndOfLine>>) \o HeadersFrom(l, 1)
<1>1. PICK n \in Nat : n = Len(l.headers)
  BY LineFacts, LenProperties
<1>2. DOMAIN l.headers = 1 .. n
  BY <1>1, LineFacts, LenProperties
<1>3. "HTTP/1.1" \in Symbol /\ EndOfLine \in Symbol /\ "{" \in Symbol
  BY KnownSymbols DEF Known
<1>4. PICK top \in Text : top = <<"HTTP/1.1", EndOfLine>>
  <2>1. <<"HTTP/1.1", EndOfLine>> = <<"HTTP/1.1">> \o <<EndOfLine>>
    BY <1>3, PairIsConcat
  <2>2. <<"HTTP/1.1">> \in Text /\ <<EndOfLine>> \in Text
    BY <1>3, OneSymbol
  <2> QED
    BY <2>1, <2>2, TextConcat
<1>5. PICK end \in Text : end = <<EndOfLine, "{">>
  <2>1. <<EndOfLine, "{">> = <<EndOfLine>> \o <<"{">>
    BY <1>3, PairIsConcat
  <2>2. <<EndOfLine>> \in Text /\ <<"{">> \in Text
    BY <1>3, OneSymbol
  <2> QED
    BY <2>1, <2>2, TextConcat
<1>6. PICK headers : headers = Headers(l)
  OBVIOUS
<1>7. \A i \in 1 .. n : SentHeader(l.headers[i]) \in Text
  BY <1>2, SentHeaderFacts
<1>8. headers = [i \in 1 .. n |-> SentHeader(l.headers[i])]
  BY <1>2, <1>6 DEF Headers
<1>9. headers \in [1 .. n -> Seq(Symbol)]
  BY <1>7, <1>8 DEF Text
<1>10. headers \in Seq(Seq(Symbol))
  BY <1>9, SeqDef
<1>11. Len(headers) = n
  <2>1. DOMAIN headers = 1 .. Len(headers) /\ Len(headers) \in Nat
    BY <1>10, LenProperties
  <2>2. DOMAIN headers = 1 .. n
    BY <1>9
  <2> QED
    BY <2>1, <2>2, SameLength
<1>12. /\ HeadersFrom(l, 1) = FlattenSeq(headers) \o end
       /\ HeadersFrom(l, n + 1) = end
       /\ \A k \in 1 .. n + 1 : HeadersFrom(l, k) \in Text
       /\ \A k \in 1 .. n : HeadersFrom(l, k) = headers[k] \o HeadersFrom(l, k + 1)
  <2>1. /\ Suffix(headers, end, 1) = FlattenSeq(headers) \o end
        /\ Suffix(headers, end, Len(headers) + 1) = end
        /\ \A k \in 1 .. Len(headers) + 1 : Suffix(headers, end, k) \in Seq(Symbol)
        /\ \A k \in 1 .. Len(headers) :
             Suffix(headers, end, k) = headers[k] \o Suffix(headers, end, k + 1)
    BY <1>10, SuffixFacts DEF Text
  <2>2. \A k : HeadersFrom(l, k) = Suffix(headers, end, k)
    BY <1>5, <1>6 DEF HeadersFrom
  <2> QED
    BY <1>11, <2>1, <2>2 DEF Text
<1>13. PICK flat \in Text : flat = FlattenSeq(headers)
  <2>1. <<>> \in Seq(Symbol)
    BY EmptySeq
  <2> QED
    BY <1>10, <2>1, FlattenAppend DEF Text
<1>14. PICK sent \in Text : sent = Sent(l)
  BY SentFacts
<1>15. SentHead(l) = ((sent \o top) \o flat) \o end
  BY <1>4, <1>5, <1>6, <1>13, <1>14, Zenon DEF SentHead, Headers
<1>16. ((sent \o top) \o flat) \o end = (sent \o top) \o (flat \o end)
  <2>1. Joined(Joined(Joined(sent, top), flat), end)
          = Joined(Joined(sent, top), Joined(flat, end))
    BY JoinedFacts
  <2> QED
    BY <2>1, Zenon DEF Joined
<1>17. SentHead(l) = (Sent(l) \o top) \o HeadersFrom(l, 1)
  BY <1>12, <1>13, <1>14, <1>15, <1>16
<1>18. \A k \in 1 .. n : headers[k] = SentHeader(l.headers[k])
  BY <1>8
<1> QED
  BY <1>1, <1>2, <1>4, <1>5, <1>12, <1>17, <1>18

(* With nothing of the name in the line and in the headers before one,     *)
(* the head is a text without the name and the headers from that one on.   *)
LEMMA HeadersInFront ==
  ASSUME NEW l \in Lines, NEW m \in 1 .. Len(l.headers) + 1,
         ~Contains(Sent(l), "Content-Length"),
         \A j \in 1 .. m - 1 : ~Contains(SentHeader(l.headers[j]), "Content-Length")
  PROVE  \E u \in Text : /\ ~Contains(u, "Content-Length")
                         /\ SentHead(l) = u \o HeadersFrom(l, m)
<1>1. PICK n \in Nat : n = Len(l.headers) /\ DOMAIN l.headers = 1 .. n
  BY HeadersFacts
<1> DEFINE P(k) == \E u \in Text : /\ ~Contains(u, "Content-Length")
                                   /\ SentHead(l) = u \o HeadersFrom(l, k)
<1>2. PICK A : A = {d \in Nat : d + 1 <= m => P(d + 1)}
  OBVIOUS
<1>3. 0 \in A
  <2>1. PICK top \in Text :
          top = <<"HTTP/1.1", EndOfLine>> /\ ~Contains(top, "Content-Length")
    <3>1. "HTTP/1.1" \in Symbol /\ EndOfLine \in Symbol
      BY KnownSymbols DEF Known
    <3>2. <<"HTTP/1.1", EndOfLine>> = <<"HTTP/1.1">> \o <<EndOfLine>>
      BY <3>1, PairIsConcat
    <3>3. <<"HTTP/1.1">> \in Text /\ <<EndOfLine>> \in Text
      BY <3>1, OneSymbol
    <3>4. ~Contains(<<"HTTP/1.1">>, "Content-Length")
      BY <3>1, ContainsOne
    <3>5. ~Contains(<<EndOfLine>>, "Content-Length")
      BY <3>1, ContainsOne, NamedSymbols
    <3> QED
      BY <3>2, <3>3, <3>4, <3>5, TextConcat, ContainsConcat
  <2>2. PICK u \in Text : u = Sent(l) \o top /\ ~Contains(u, "Content-Length")
    <3>1. PICK sent \in Text : sent = Sent(l)
      BY SentFacts
    <3> QED
      BY <2>1, <3>1, TextConcat, ContainsConcat
  <2>3. SentHead(l) = u \o HeadersFrom(l, 1)
    BY <2>1, <2>2, HeadersFacts
  <2>4. P(1)
    BY <2>2, <2>3
  <2> HIDE DEF P
  <2> QED
    BY <1>2, <2>4
<1>4. ASSUME NEW d \in Nat, d \in A
      PROVE  d + 1 \in A
  <2>1. SUFFICES ASSUME (d + 1) + 1 <= m
                 PROVE  P((d + 1) + 1)
    <3> HIDE DEF P
    <3> QED
      BY <1>2
  <2>2. PICK k \in 1 .. n : k = d + 1 /\ k + 1 = (d + 1) + 1 /\ k \in 1 .. m - 1
    BY <1>1, <2>1
  <2>3. PICK u \in Text : ~Contains(u, "Content-Length") /\ SentHead(l) = u \o HeadersFrom(l, k)
    <3>1. P(d + 1)
      <4> HIDE DEF P
      <4> QED
        BY <1>2, <1>4, <2>1
    <3> QED
      BY <2>2, <3>1
  <2>4. PICK header \in Text : /\ header = SentHeader(l.headers[k])
                               /\ ~Contains(header, "Content-Length")
    BY <1>1, <2>2, SentHeaderFacts
  <2>5. PICK more \in Text : more = HeadersFrom(l, k + 1)
    <3>1. k + 1 \in 1 .. n + 1
      BY <1>1
    <3> QED
      BY <1>1, <3>1, HeadersFacts
  <2>6. HeadersFrom(l, k) = header \o more
    BY <1>1, <2>4, <2>5, HeadersFacts
  <2>7. (u \o header) \o more = u \o (header \o more)
    BY TextAssociative
  <2>8. PICK w \in Text : w = u \o header /\ ~Contains(w, "Content-Length")
    <3>1. u \o header \in Text
      BY TextConcat
    <3>2. ~Contains(u \o header, "Content-Length")
      BY <2>3, <2>4, ContainsConcat
    <3> QED
      BY <3>1, <3>2
  <2>9. SentHead(l) = w \o HeadersFrom(l, k + 1)
    BY <2>3, <2>5, <2>6, <2>7, <2>8
  <2> QED
    BY <2>2, <2>8, <2>9
<1>5. m - 1 \in Nat /\ (m - 1) + 1 = m
  BY <1>1
<1>6. P(m)
  <2> HIDE DEF P
  <2>1. m - 1 \in A
    BY <1>3, <1>4, <1>5, NumbersInductive
  <2> QED
    BY <1>2, <1>5, <2>1
<1> QED
  BY <1>6

(* Without the name in the head, the length is 0. *)
LEMMA NoLength ==
  ASSUME NEW l \in Lines, ~Contains(Sent(l), "Content-Length"),
         \A j \in DOMAIN l.headers : ~Contains(SentHeader(l.headers[j]), "Content-Length")
  PROVE  GetContentLength(SentHead(l)) = 0
<1>1. PICK n \in Nat : n = Len(l.headers) /\ DOMAIN l.headers = 1 .. n
  BY HeadersFacts
<1>2. PICK m \in 1 .. n + 1 : m = n + 1 /\ m - 1 = n
  BY <1>1
<1>3. PICK u \in Text : ~Contains(u, "Content-Length") /\ SentHead(l) = u \o HeadersFrom(l, m)
  BY <1>1, <1>2, HeadersInFront
<1>4. PICK end \in Text : end = <<EndOfLine, "{">> /\ ~Contains(end, "Content-Length")
  <2>1. EndOfLine \in Symbol /\ "{" \in Symbol
    BY KnownSymbols DEF Known
  <2>2. <<EndOfLine, "{">> = <<EndOfLine>> \o <<"{">>
    BY <2>1, PairIsConcat
  <2>3. <<"{">> \in Text /\ <<EndOfLine>> \in Text
    BY <2>1, OneSymbol
  <2>4. ~Contains(<<"{">>, "Content-Length")
    BY <2>1, ContainsOne
  <2>5. ~Contains(<<EndOfLine>>, "Content-Length")
    BY <2>1, ContainsOne, NamedSymbols
  <2> QED
    BY <2>2, <2>3, <2>4, <2>5, TextConcat, ContainsConcat
<1>5. SentHead(l) = u \o end
  BY <1>1, <1>2, <1>3, <1>4, HeadersFacts
<1>6. ~Contains(SentHead(l), "Content-Length")
  <2>1. ~Contains(u \o end, "Content-Length")
    BY <1>3, <1>4, ContainsConcat
  <2> QED
    BY <1>5, <2>1
<1> QED
  BY <1>6 DEF GetContentLength

(* A text around a symbol, with a name for the whole. *)
LEMMA AroundNamed ==
  ASSUME NEW u \in Text, NEW v \in Text, NEW c \in Symbol,
         NEW t, t = u \o <<c>> \o v
  PROVE  /\ Len(t) = Len(u) + 1 + Len(v) /\ Len(u) \in Nat
         /\ t[Len(u) + 1] = c
         /\ \A i \in 1 .. Len(v) : t[Len(u) + 1 + i] = v[i]
BY AroundFacts

(* The first ":" behind the name is the one behind the name. *)
LEMMA LengthFound ==
  ASSUME NEW u \in Text, ~Contains(u, "Content-Length"), NEW more \in Text
  PROVE  LET head == u \o (<<"Content-Length">> \o (<<":">> \o more))
         IN  GetContentLength(head) = Atoi(head, Len(u) + 4)
<1>1. "Content-Length" \in Symbol /\ ":" \in Symbol /\ "Content-Length" # ":"
  BY KnownSymbols DEF Known
<1>2. PICK name \in Text, colon \in Text :
        /\ name = <<"Content-Length">> /\ Len(name) = 1 /\ name[1] = "Content-Length"
        /\ colon = <<":">> /\ Len(colon) = 1 /\ colon[1] = ":"
  BY <1>1, OneSymbol
<1>3. PICK rear \in Text : rear = colon \o more
  BY TextConcat
<1>4. Len(rear) >= 1 /\ Len(rear) \in Nat /\ rear[1] = ":"
  <2>1. /\ Len(rear) = Len(colon) + Len(more) /\ Len(more) \in Nat
        /\ \A i \in 1 .. Len(colon) : rear[i] = colon[i]
    BY <1>3, TextConcat
  <2> QED
    BY <1>2, <2>1
<1>5. PICK head \in Text : head = u \o name \o rear
  BY TextConcat
<1>6. head = u \o (name \o rear)
  BY <1>5, TextAssociative
<1>7. /\ Contains(head, "Content-Length") /\ Find(head, "Content-Length") = Len(u) + 1
  BY <1>1, <1>2, <1>5, Around
<1>8. /\ Len(head) = Len(u) + 1 + Len(rear) /\ Len(u) \in Nat
      /\ head[Len(u) + 1] = "Content-Length"
      /\ \A i \in 1 .. Len(rear) : head[Len(u) + 1 + i] = rear[i]
  <2>1. PICK c \in Symbol : c = "Content-Length"
    BY <1>1
  <2>2. head = u \o <<c>> \o rear
    BY <1>2, <1>5, <2>1
  <2>3. /\ Len(head) = Len(u) + 1 + Len(rear) /\ Len(u) \in Nat
        /\ head[Len(u) + 1] = c
        /\ \A i \in 1 .. Len(rear) : head[Len(u) + 1 + i] = rear[i]
    BY <2>2, AroundNamed
  <2> QED
    BY <2>1, <2>3
<1>9. PICK a \in Nat : a = Len(u)
  BY <1>8
<1>10. head[a + 2] = ":" /\ a + 2 \in a + 1 .. Len(head)
  <2>1. 1 \in 1 .. Len(rear) /\ a + 1 + 1 = a + 2
    BY <1>4
  <2>2. head[a + 1 + 1] = rear[1]
    BY <1>8, <1>9, <2>1
  <2> QED
    BY <1>4, <1>8, <1>9, <2>1, <2>2
<1>11. PICK I : I = {i \in a + 1 .. Len(head) : head[i] = ":"}
  OBVIOUS
<1>12. Min(I) = a + 2
  <2>1. I \subseteq Int /\ a + 2 \in I
    BY <1>10, <1>11
  <2>2. ASSUME NEW i \in I, ~(a + 2 <= i)
        PROVE  FALSE
    <3>1. i = a + 1 /\ head[i] = ":"
      BY <1>11, <2>2
    <3> QED
      BY <1>1, <1>8, <1>9, <3>1
  <2> QED
    BY <2>1, <2>2, MinIs
<1>13. GetContentLength(head) = Atoi(head, Min(I) + 2)
  BY <1>7, <1>9, <1>11, Zenon DEF GetContentLength
<1>14. (a + 2) + 2 = a + 4
  OBVIOUS
<1> QED
  BY <1>2, <1>3, <1>6, <1>9, <1>12, <1>13, <1>14

(* What follows the end of a header's line has no digit in front.          *)
LEMMA NextLine ==
  ASSUME NEW l \in Lines, NEW k \in 1 .. Len(l.headers) + 1
  PROVE  LET r == HeadersFrom(l, k)
         IN  \/ Len(r) >= 1 /\ r[1] \notin {Blank, EndOfLine} \cup DOMAIN Digit
             \/ Len(r) >= 2 /\ r[1] = EndOfLine
                /\ r[2] \notin {Blank, EndOfLine} \cup DOMAIN Digit
<1>1. PICK n \in Nat : n = Len(l.headers) /\ DOMAIN l.headers = 1 .. n
  BY HeadersFacts
<1>2. PICK r \in Text : r = HeadersFrom(l, k)
  BY HeadersFacts
<1>3. CASE k = n + 1
  <2>1. r = <<EndOfLine, "{">>
    BY <1>1, <1>2, <1>3, HeadersFacts
  <2>2. Len(r) >= 2 /\ r[1] = EndOfLine /\ r[2] = "{"
    <3>1. Len(<<EndOfLine, "{">>) >= 2
      OBVIOUS
    <3>2. <<EndOfLine, "{">>[1] = EndOfLine
      OBVIOUS
    <3>3. <<EndOfLine, "{">>[2] = "{"
      OBVIOUS
    <3> QED
      BY <2>1, <3>1, <3>2, <3>3, Zenon
  <2>3. "{" \notin {Blank, EndOfLine} \cup DOMAIN Digit
    BY NamedSymbols, NoDigits
  <2>4. Len(r) >= 2 /\ r[1] = EndOfLine /\ r[2] \notin {Blank, EndOfLine} \cup DOMAIN Digit
    BY <2>2, <2>3, Zenon
  <2> QED
    BY <1>2, <2>4
<1>4. CASE k # n + 1
  <2>1. k \in 1 .. n /\ k + 1 \in 1 .. n + 1
    BY <1>1, <1>4
  <2>2. PICK header \in Text, more \in Text :
          /\ header = SentHeader(l.headers[k]) /\ more = HeadersFrom(l, k + 1)
          /\ r = header \o more
    BY <1>1, <1>2, <2>1, HeadersFacts, SentHeaderFacts
  <2>3. /\ Len(header) >= 1
        /\ header[1] \notin {Blank, EndOfLine} \cup DOMAIN Digit
    <3>1. Len(header) >= 1 /\ header[1] = l.headers[k].name[1]
      BY <1>1, <2>1, <2>2, SentHeaderFacts
    <3>2. l.headers[k].name[1] \notin {Blank, EndOfLine} \cup DOMAIN Digit
      BY <1>1, <2>1, HeaderFacts
    <3> QED
      BY <3>1, <3>2
  <2>4. Len(r) >= 1 /\ r[1] = header[1]
    <3>1. /\ Len(header \o more) = Len(header) + Len(more)
          /\ Len(header) \in Nat /\ Len(more) \in Nat
          /\ \A i \in 1 .. Len(header) : (header \o more)[i] = header[i]
      BY TextConcat
    <3> QED
      BY <2>2, <2>3, <3>1
  <2> QED
    BY <1>2, <2>3, <2>4
<1> QED
  BY <1>3, <1>4

(* A text is its first symbol and the others.                              *)
LEMMA FirstAndTail ==
  ASSUME NEW v \in Text, v # <<>>
  PROVE  Tail(v) \in Text /\ \E c \in Symbol : v = <<c>> \o Tail(v)
<1>1. PICK n \in Nat : Len(v) = n + 1
  <2>1. Len(v) \in Nat /\ Len(v) # 0
    BY EmptySeq, LenProperties DEF Text
  <2> QED
    BY <2>1
<1>2. PICK tail \in Text : tail = Tail(v) /\ Len(tail) = n /\ \A i \in 1 .. n : tail[i] = v[i + 1]
  <2>1. v \in Seq(Symbol)
    BY DEF Text
  <2>2. /\ Tail(v) \in Seq(Symbol) /\ Len(Tail(v)) = Len(v) - 1
        /\ \A i \in 1 .. Len(Tail(v)) : Tail(v)[i] = v[i + 1]
    BY <2>1, HeadTailProperties
  <2>3. Len(Tail(v)) = n
    BY <1>1, <2>2
  <2> QED
    BY <2>2, <2>3 DEF Text
<1>3. PICK c \in Symbol : c = v[1]
  <2>1. 1 \in 1 .. Len(v)
    BY <1>1
  <2> QED
    BY <2>1, ElementOfSeq DEF Text
<1>4. PICK w \in Text :
        /\ w = <<c>> \o tail /\ Len(w) = n + 1
        /\ w[1] = c /\ \A i \in 1 .. n : w[1 + i] = tail[i]
  <2>1. <<c>> \in Text /\ Len(<<c>>) = 1 /\ <<c>>[1] = c /\ 1 \in 1 .. 1
    BY OneSymbol
  <2>2. /\ <<c>> \o tail \in Text /\ Len(<<c>> \o tail) = Len(<<c>>) + Len(tail)
        /\ \A i \in 1 .. Len(<<c>>) : (<<c>> \o tail)[i] = <<c>>[i]
        /\ \A i \in 1 .. Len(tail) : (<<c>> \o tail)[Len(<<c>>) + i] = tail[i]
    BY <2>1, TextConcat
  <2> QED
    <3>1. PICK w \in Text : w = <<c>> \o tail
      BY <2>2
    <3>2. Len(w) = n + 1 /\ w[1] = c
      BY <1>2, <2>1, <2>2, <3>1
    <3>3. \A i \in 1 .. n : w[1 + i] = tail[i]
      BY <1>2, <2>1, <2>2, <3>1
    <3> QED
      BY <3>1, <3>2, <3>3
<1>5. \A i \in 1 .. n + 1 : v[i] = w[i]
  <2>1. SUFFICES ASSUME NEW i \in 1 .. n + 1, i # 1
                 PROVE  v[i] = w[i]
    BY <1>3, <1>4
  <2>2. PICK j \in 1 .. n : i = 1 + j /\ i = j + 1
    BY <2>1
  <2> QED
    BY <1>2, <1>4, <2>2
<1>6. v = w
  BY <1>1, <1>4, <1>5, SeqEqual DEF Text
<1> QED
  BY <1>2, <1>4, <1>6

(* Three symbols behind a text.  *)
InFront(u, a, b, c, f) ==
  /\ Len(f) = Len(u) + 3
  /\ \A v \in Text : u \o (<<a>> \o (<<b>> \o (<<c>> \o v))) = f \o v

LEMMA ThreeBehind ==
  ASSUME NEW u \in Text, NEW a \in Symbol, NEW b \in Symbol, NEW c \in Symbol
  PROVE  \E f \in Text : InFront(u, a, b, c, f)
<1>1. \A t \in Text, x \in Symbol :
        t \o <<x>> \in Text /\ Len(t \o <<x>>) = Len(t) + 1 /\ Len(t) \in Nat
  BY OneSymbol, TextConcat
<1>2. \A t, w \in Text, x \in Symbol :
        <<x>> \o w \in Text /\ (t \o <<x>>) \o w = t \o (<<x>> \o w)
  <2>1. SUFFICES ASSUME NEW t \in Text, NEW w \in Text, NEW x \in Symbol
                 PROVE  <<x>> \o w \in Text /\ (t \o <<x>>) \o w = t \o (<<x>> \o w)
    OBVIOUS
  <2>2. <<x>> \in Text
    BY OneSymbol
  <2>3. <<x>> \o w \in Text
    BY <2>2, TextConcat
  <2>4. (t \o <<x>>) \o w = t \o (<<x>> \o w)
    BY <2>2, TextAssociative
  <2> QED
    BY <2>3, <2>4
<1>3. PICK d \in Text : d = u \o <<a>> /\ Len(d) = Len(u) + 1 /\ Len(u) \in Nat
  BY <1>1, Zenon
<1>4. PICK e \in Text : e = d \o <<b>> /\ Len(e) = Len(d) + 1
  BY <1>1, Zenon
<1>5. PICK f \in Text : f = e \o <<c>> /\ Len(f) = Len(e) + 1
  BY <1>1, Zenon
<1>6. ASSUME NEW v \in Text
      PROVE  u \o (<<a>> \o (<<b>> \o (<<c>> \o v))) = f \o v
  <2>1. <<c>> \o v \in Text /\ (e \o <<c>>) \o v = e \o (<<c>> \o v)
    BY <1>2, Zenon
  <2>2. PICK x \in Text : x = <<c>> \o v
    BY <2>1, Zenon
  <2>3. <<b>> \o x \in Text /\ (d \o <<b>>) \o x = d \o (<<b>> \o x)
    BY <1>2, Zenon
  <2>4. PICK y \in Text : y = <<b>> \o x
    BY <2>3, Zenon
  <2>5. (u \o <<a>>) \o y = u \o (<<a>> \o y)
    BY <1>2, Zenon
  <2> QED
    BY <1>3, <1>4, <1>5, <2>1, <2>2, <2>3, <2>4, <2>5, Zenon
<1>7. Len(f) = Len(u) + 3
  BY <1>3, <1>4, <1>5
<1> QED
  BY <1>6, <1>7 DEF InFront

(* Past the end of a line, atoi finds no number in what comes next. *)
LEMMA AtoiPastLine ==
  ASSUME NEW f \in Text, NEW r \in Text,
         \/ Len(r) >= 1 /\ r[1] \notin {Blank, EndOfLine} \cup DOMAIN Digit
         \/ Len(r) >= 2 /\ r[1] = EndOfLine
            /\ r[2] \notin {Blank, EndOfLine} \cup DOMAIN Digit
  PROVE  Atoi(f \o (<<EndOfLine>> \o r), Len(f) + 1) = 0
<1>1. EndOfLine \in Symbol
  BY KnownSymbols DEF Known
<1>2. PICK end \in Text : end = <<EndOfLine>>
  BY <1>1, OneSymbol
<1>3. PICK text \in Text : text = f \o <<EndOfLine>> \o r
  BY <1>1, AroundFacts
<1>4. text = f \o (<<EndOfLine>> \o r)
  BY <1>2, <1>3, TextAssociative
<1>5. /\ Len(text) = Len(f) + 1 + Len(r) /\ Len(f) \in Nat
      /\ text[Len(f) + 1] = EndOfLine
      /\ \A i \in 1 .. Len(r) : text[Len(f) + 1 + i] = r[i]
  BY <1>1, <1>3, AroundNamed
<1>6. PICK a \in Nat, b \in Nat : a = Len(f) /\ b = Len(r)
  BY LenProperties DEF Text
<1>7. CASE b >= 1 /\ r[1] \notin {Blank, EndOfLine} \cup DOMAIN Digit
  <2>1. PICK start \in 1 .. Len(text) : start = a + 2
    BY <1>5, <1>6, <1>7
  <2>2. text[start] \notin {Blank, EndOfLine} \cup DOMAIN Digit
    <3>1. 1 \in 1 .. b /\ a + 1 + 1 = start
      BY <1>7, <2>1
    <3> QED
      BY <1>5, <1>6, <1>7, <3>1
  <2>3. a + 1 \in 1 .. start
    BY <2>1
  <2>4. \A i \in a + 1 .. start - 1 : text[i] \in {Blank, EndOfLine}
    <3>1. \A i \in a + 1 .. start - 1 : i = a + 1
      BY <2>1
    <3> QED
      BY <1>5, <1>6, <3>1
  <2>5. Atoi(text, a + 1) = 0
    BY <2>2, <2>3, <2>4, AtoiNothing
  <2> QED
    BY <1>4, <1>6, <2>5
<1>8. CASE b >= 2 /\ r[1] = EndOfLine /\ r[2] \notin {Blank, EndOfLine} \cup DOMAIN Digit
  <2>1. PICK start \in 1 .. Len(text) : start = a + 3
    BY <1>5, <1>6, <1>8
  <2>2. text[start] = r[2] /\ text[a + 2] = EndOfLine
    <3>1. 1 \in 1 .. b /\ 2 \in 1 .. b /\ a + 1 + 2 = start /\ a + 1 + 1 = a + 2
      BY <1>8, <2>1
    <3>2. text[a + 1 + 2] = r[2] /\ text[a + 1 + 1] = r[1]
      BY <1>5, <1>6, <3>1
    <3> QED
      BY <1>8, <3>1, <3>2
  <2>3. a + 1 \in 1 .. start
    BY <2>1
  <2>4. \A i \in a + 1 .. start - 1 : text[i] \in {Blank, EndOfLine}
    <3>1. \A i \in a + 1 .. start - 1 : i = a + 1 \/ i = a + 2
      BY <2>1
    <3> QED
      BY <1>5, <1>6, <2>2, <3>1
  <2>5. text[start] \notin {Blank, EndOfLine} \cup DOMAIN Digit
    BY <1>8, <2>2
  <2>6. Atoi(text, a + 1) = 0
    BY <2>3, <2>4, <2>5, AtoiNothing
  <2> QED
    BY <1>4, <1>6, <2>6
<1> QED
  BY <1>6, <1>7, <1>8

(* Five texts and a sixth behind them. *)
Regrouped(a, b, c, d, e, r) ==
  (a \o (b \o (c \o (d \o e)))) \o r = a \o (b \o (c \o (d \o (e \o r))))

LEMMA HeaderInHead ==
  ASSUME NEW a \in Text, NEW b \in Text, NEW c \in Text, NEW d \in Text, NEW e \in Text,
         NEW r \in Text
  PROVE  Regrouped(a, b, c, d, e, r)
<1>1. PICK x \in Text : x = Joined(d, e) /\ Joined(x, r) = Joined(d, Joined(e, r))
  BY JoinedFacts
<1>2. PICK y \in Text : y = Joined(c, x) /\ Joined(y, r) = Joined(c, Joined(x, r))
  BY JoinedFacts
<1>3. PICK z \in Text : z = Joined(b, y) /\ Joined(z, r) = Joined(b, Joined(y, r))
  BY JoinedFacts
<1>4. Joined(Joined(a, z), r) = Joined(a, Joined(z, r))
  BY JoinedFacts
<1>5. Joined(Joined(a, Joined(b, Joined(c, Joined(d, e)))), r)
        = Joined(a, Joined(b, Joined(c, Joined(d, Joined(e, r)))))
  BY <1>1, <1>2, <1>3, <1>4
<1> QED
  BY <1>5, Zenon DEF Joined, Regrouped

(* A symbol in front of two texts. *)
Shifted(c, v, w) == (<<c>> \o v) \o w = <<c>> \o (v \o w)

LEMMA FirstShifted ==
  ASSUME NEW c \in Symbol, NEW v \in Text, NEW w \in Text
  PROVE  Shifted(c, v, w)
<1>1. <<c>> \in Text
  BY OneSymbol
<1> QED
  BY <1>1, TextAssociative DEF Shifted

(* The length that is read at the header: all of its digits, or all but    *)
(* the first if there is no blank in front of them.                        *)
LEMMA LengthAtHeader ==
  ASSUME NEW u \in Text, ~Contains(u, "Content-Length"),
         NEW digits \in Seq(DOMAIN Digit), digits \in Text, digits # <<>>,
         NEW spaced \in BOOLEAN, NEW r \in Text,
         \/ Len(r) >= 1 /\ r[1] \notin {Blank, EndOfLine} \cup DOMAIN Digit
         \/ Len(r) >= 2 /\ r[1] = EndOfLine
            /\ r[2] \notin {Blank, EndOfLine} \cup DOMAIN Digit
  PROVE  LET head == u \o (<<"Content-Length">> \o (<<":">>
                        \o ((IF spaced THEN <<Blank>> ELSE <<>>)
                              \o (digits \o (<<EndOfLine>> \o r)))))
         IN  /\ GetContentLength(head) <= Number(digits)
             /\ spaced => GetContentLength(head) = Number(digits)
<1>1. /\ "Content-Length" \in Symbol /\ ":" \in Symbol
      /\ Blank \in Symbol /\ EndOfLine \in Symbol
  BY KnownSymbols DEF Known
<1>2. PICK behind \in Text : behind = <<EndOfLine>> \o r /\ behind # <<>> /\ behind[1] = EndOfLine
  <2>1. <<EndOfLine>> \in Text /\ Len(<<EndOfLine>>) = 1 /\ <<EndOfLine>>[1] = EndOfLine
    BY <1>1, OneSymbol
  <2>2. PICK b \in Text : b = <<EndOfLine>> \o r
    BY <2>1, TextConcat
  <2>3. /\ Len(b) = Len(<<EndOfLine>>) + Len(r) /\ Len(r) \in Nat
        /\ \A i \in 1 .. Len(<<EndOfLine>>) : b[i] = <<EndOfLine>>[i]
    BY <2>1, <2>2, TextConcat
  <2>4. 1 \in 1 .. 1
    OBVIOUS
  <2>5. Len(b) # 0 /\ b[1] = EndOfLine
    BY <2>1, <2>3, <2>4
  <2> QED
    BY <2>2, <2>5, EmptySeq
<1>3. EndOfLine \notin DOMAIN Digit /\ Number(digits) \in Nat
  BY NoDigits, NumberOfNone
<1>4. PICK rear \in Text : rear = digits \o behind
  BY TextConcat
<1>5. Len(u) \in Nat /\ Len(u) + 3 + 1 = Len(u) + 4
  BY LenProperties DEF Text
<1>6. CASE spaced
  <2>1. PICK f \in Text : InFront(u, "Content-Length", ":", Blank, f)
    BY <1>1, ThreeBehind
  <2>2. PICK more \in Text : more = <<Blank>> \o rear
    BY <1>1, OneSymbol, TextConcat
  <2>3. PICK head : head = u \o (<<"Content-Length">> \o (<<":">> \o more))
    OBVIOUS
  <2>4. GetContentLength(head) = Atoi(head, Len(u) + 4)
    BY <2>3, LengthFound
  <2>5. head = f \o (digits \o behind)
    BY <1>4, <2>1, <2>2, <2>3, Zenon DEF InFront
  <2>6. Atoi(f \o (digits \o behind), Len(f) + 1) = Number(digits)
    BY <1>2, <1>3, AtoiReads
  <2>7. Len(f) + 1 = Len(u) + 4
    BY <1>5, <2>1 DEF InFront
  <2>8. GetContentLength(head) = Number(digits)
    BY <2>4, <2>5, <2>6, <2>7
  <2>9. Number(digits) <= Number(digits)
    BY <1>3
  <2> QED
    BY <1>2, <1>4, <1>6, <2>2, <2>3, <2>8, <2>9, Zenon
<1>7. CASE ~spaced
  <2>1. PICK tail : tail = Tail(digits)
    OBVIOUS
  <2>2. tail \in Seq(DOMAIN Digit) /\ Number(tail) <= Number(digits)
    BY <2>1, HeadTailProperties, NumberOfTail
  <2>3. PICK d \in Symbol : digits = <<d>> \o tail /\ tail \in Text
    BY <2>1, FirstAndTail
  <2>4. PICK f \in Text : InFront(u, "Content-Length", ":", d, f)
    BY <1>1, ThreeBehind
  <2>5. PICK v \in Text : v = tail \o behind
    BY <2>3, TextConcat
  <2>6. rear = <<d>> \o v
    <3>1. Shifted(d, tail, behind)
      BY <2>3, FirstShifted
    <3> QED
      BY <1>4, <2>3, <2>5, <3>1, Zenon DEF Shifted
  <2>7. PICK head : head = u \o (<<"Content-Length">> \o (<<":">> \o rear))
    OBVIOUS
  <2>8. GetContentLength(head) = Atoi(head, Len(u) + 4)
    BY <2>7, LengthFound
  <2>9. head = f \o (tail \o behind)
    BY <2>4, <2>5, <2>6, <2>7, Zenon DEF InFront
  <2>10. Len(f) + 1 = Len(u) + 4
    BY <1>5, <2>4 DEF InFront
  <2>11. Atoi(f \o (tail \o behind), Len(f) + 1) <= Number(digits)
    <3>1. CASE tail # <<>>
      <4>1. Atoi(f \o (tail \o behind), Len(f) + 1) = Number(tail)
        BY <1>2, <1>3, <2>2, <2>3, <3>1, AtoiReads
      <4> QED
        BY <2>2, <4>1
    <3>2. CASE tail = <<>>
      <4>1. tail \o behind = behind
        BY <3>2, ConcatEmptySeq DEF Text
      <4>2. Atoi(f \o (<<EndOfLine>> \o r), Len(f) + 1) = 0
        BY AtoiPastLine
      <4>3. 0 <= Number(digits)
        BY <1>3
      <4> QED
        BY <1>2, <4>1, <4>2, <4>3, Zenon
    <3> QED
      BY <3>1, <3>2
  <2>12. GetContentLength(head) <= Number(digits)
    BY <2>8, <2>9, <2>10, <2>11
  <2>13. <<>> \o rear = rear
    BY ConcatEmptySeq DEF Text
  <2> QED
    BY <1>2, <1>4, <1>7, <2>7, <2>12, <2>13, Zenon
<1> QED
  BY <1>6, <1>7

(* A header that gives the length. *)
LEMMA LengthHeaderFacts ==
  ASSUME NEW l \in Lines, NEW i \in LengthHeaders(l)
  PROVE  /\ i \in DOMAIN l.headers /\ l.headers[i].name \in LengthNames
         /\ l.headers[i].value \in Seq(DOMAIN Digit) /\ l.headers[i].value # <<>>
         /\ Number(l.headers[i].value) \in Nat
         /\ ~Contains(l.headers[i].value, "Content-Length")
<1>1. i \in DOMAIN l.headers /\ l.headers[i].name \in LengthNames
  BY DEF LengthHeaders
<1>2. PICK v : v = l.headers[i].value /\ v \in Seq(DOMAIN Digit) /\ v # <<>>
  BY RequestLineAssumption
<1>3. Number(v) \in Nat
  BY <1>2, NumberOfNone
<1>4. ~Contains(v, "Content-Length")
  <2>1. \A k \in 1 .. Len(v) : v[k] \in DOMAIN Digit
    BY <1>2, ElementOfSeq
  <2>2. "Content-Length" \notin DOMAIN Digit
    BY NoDigits
  <2> QED
    BY <2>1, <2>2 DEF Contains
<1> QED
  BY <1>1, <1>2, <1>3, <1>4

(* The blocking read waits for as many bytes as the header says, or for    *)
(* fewer. *)
LEMMA LengthRead ==
  ASSUME NEW l \in Lines, NEW i \in LengthHeaders(l),
         ~Contains(Sent(l), "Content-Length"),
         \A j \in DOMAIN l.headers \ {i} :
           ~Contains(l.headers[j].name \o l.headers[j].value, "Content-Length")
  PROVE  /\ GetContentLength(SentHead(l)) <= Number(l.headers[i].value)
         /\ l.headers[i].spaced /\ l.headers[i].name = <<"Content-Length">>
              => GetContentLength(SentHead(l)) = Number(l.headers[i].value)
<1>1. PICK n \in Nat : n = Len(l.headers) /\ DOMAIN l.headers = 1 .. n
  BY HeadersFacts
<1>2. PICK h : h = l.headers[i]
  OBVIOUS
<1>3. /\ i \in 1 .. n /\ h.name \in LengthNames
      /\ h.value \in Seq(DOMAIN Digit) /\ h.value # <<>> /\ Number(h.value) \in Nat
      /\ ~Contains(h.value, "Content-Length")
  BY <1>1, <1>2, LengthHeaderFacts
<1>4. h.name \in Text /\ h.value \in Text /\ h.spaced \in BOOLEAN
  BY <1>1, <1>2, <1>3, HeaderFacts
<1>5. \A j \in 1 .. n : j # i => ~Contains(SentHeader(l.headers[j]), "Content-Length")
  BY <1>1, SentHeaderFacts
<1>6. CASE h.name = <<"content-length">>
  <2>1. ~Contains(<<"content-length">>, "Content-Length")
    <3>1. "content-length" \in Symbol /\ "content-length" # "Content-Length"
      BY KnownSymbols DEF Known
    <3> QED
      BY <3>1, ContainsOne
  <2>2. ~Contains(h.name \o h.value, "Content-Length")
    BY <1>3, <1>4, <1>6, <2>1, ContainsConcat
  <2>3. ~Contains(SentHeader(h), "Content-Length")
    BY <1>1, <1>2, <1>3, <2>2, SentHeaderFacts
  <2>4. GetContentLength(SentHead(l)) = 0
    BY <1>1, <1>2, <1>5, <2>3, NoLength
  <2>5. <<"content-length">>[1] # <<"Content-Length">>[1]
    OBVIOUS
  <2>6. h.name # <<"Content-Length">>
    BY <1>6, <2>5
  <2> QED
    BY <1>2, <1>3, <2>4, <2>6
<1>7. CASE h.name = <<"Content-Length">>
  <2>1. \A j \in 1 .. i - 1 : j \in 1 .. n /\ j # i
    BY <1>3
  <2>2. i \in 1 .. n + 1 /\ i + 1 \in 1 .. n + 1
    BY <1>3
  <2>3. PICK u \in Text : ~Contains(u, "Content-Length") /\ SentHead(l) = u \o HeadersFrom(l, i)
    BY <1>1, <1>5, <2>1, <2>2, HeadersInFront
  <2>4. PICK r \in Text : r = HeadersFrom(l, i + 1)
    BY <1>1, <2>2, HeadersFacts
  <2>5. \/ Len(r) >= 1 /\ r[1] \notin {Blank, EndOfLine} \cup DOMAIN Digit
        \/ Len(r) >= 2 /\ r[1] = EndOfLine
           /\ r[2] \notin {Blank, EndOfLine} \cup DOMAIN Digit
    BY <1>1, <2>2, <2>4, NextLine
  <2>6. HeadersFrom(l, i) = SentHeader(h) \o r
    BY <1>1, <1>2, <1>3, <2>4, HeadersFacts
  <2>7. /\ SentHeader(h) = h.name \o (<<":">> \o (Spaces(h) \o (h.value \o <<EndOfLine>>)))
        /\ Spaces(h) \in Text
    BY <1>1, <1>2, <1>3, SentHeaderFacts
  <2>8. <<":">> \in Text /\ <<EndOfLine>> \in Text
    <3>1. ":" \in Symbol /\ EndOfLine \in Symbol
      BY KnownSymbols DEF Known
    <3> QED
      BY <3>1, OneSymbol
  <2>9. (h.name \o (<<":">> \o (Spaces(h) \o (h.value \o <<EndOfLine>>)))) \o r
          = h.name \o (<<":">> \o (Spaces(h) \o (h.value \o (<<EndOfLine>> \o r))))
    <3>1. Regrouped(h.name, <<":">>, Spaces(h), h.value, <<EndOfLine>>, r)
      BY <1>4, <2>7, <2>8, HeaderInHead
    <3> QED
      BY <3>1, Zenon DEF Regrouped
  <2>10. SentHead(l) = u \o (<<"Content-Length">> \o (<<":">>
                         \o ((IF h.spaced THEN <<Blank>> ELSE <<>>)
                               \o (h.value \o (<<EndOfLine>> \o r)))))
    BY <1>7, <2>3, <2>6, <2>7, <2>9, Zenon DEF Spaces
  <2>11. LET head == u \o (<<"Content-Length">> \o (<<":">>
                        \o ((IF h.spaced THEN <<Blank>> ELSE <<>>)
                              \o (h.value \o (<<EndOfLine>> \o r)))))
         IN  /\ GetContentLength(head) <= Number(h.value)
             /\ h.spaced => GetContentLength(head) = Number(h.value)
    BY <1>3, <1>4, <2>3, <2>5, LengthAtHeader
  <2> QED
    BY <1>2, <2>10, <2>11, Zenon
<1> QED
  BY <1>3, <1>6, <1>7 DEF LengthNames

(* The length in the state is the one read from the head.                  *)
LEMMA LengthArrivesInv == ParserInv => LengthArrives
<1>1. SUFFICES ASSUME ParserInv, meant.method = "POST", pc = "done",
                      NEW i \in LengthHeaders(meant),
                      ~Contains(Sent(meant), "Content-Length"),
                      \A j \in DOMAIN meant.headers \ {i} :
                        ~Contains(meant.headers[j].name \o meant.headers[j].value,
                                  "Content-Length")
               PROVE  /\ length <= Number(meant.headers[i].value)
                      /\ meant.headers[i].spaced
                           /\ meant.headers[i].name = <<"Content-Length">>
                           => length = Number(meant.headers[i].value)
  BY Zenon DEF LengthArrives
<1>2. meant \in Lines /\ length = GetContentLength(SentHead(meant))
  BY <1>1 DEF ParserInv
<1> QED
  BY <1>1, <1>2, LengthRead, Zenon

(* The blocking read never waits for more than was sent, and waits for all *)
(* of it when the header is spelled as the code expects                    *)
(* (RequestParser.cpp:7-12, Connection.cpp:34-36).                         *)
THEOREM LengthsArrive == Spec => []LengthArrives
BY ParserInvariant, LengthArrivesInv, PTL
=============================================================================
