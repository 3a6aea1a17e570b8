----------------------------- MODULE RequestLine -----------------------------
(***************************************************************************)
(* From the head of a request to the arguments of a handler: ParseHead,    *)
(* ParseParameters and GetContentLength of RequestParser, HandleRequest,   *)
(* and the id each handler of Main.cpp takes out of the uri.               *)
(*                                                                         *)
(* Text is a sequence of symbols.  A symbol is a word or character that    *)
(* the code compares or passes on as it is, or an escape, "%" and two hex  *)
(* digits, which only UrlDecode takes apart.                               *)
(***************************************************************************)
EXTENDS Integers, Sequences, FiniteSets, SequencesExt

CONSTANTS
  Lines,      \* the request lines clients mean to send, in the class below
  Commands    \* the commands of the service

Blank == " "
EndOfLine == "\n"

(* The character an escape stands for, and the escapes of text in a path   *)
(* and of text in a query string, as HTTP clients write them.              *)
Escaped == [ch \in {"&", "=", "+", "/", "?", Blank} |->
              CASE ch = "&" -> "%26" [] ch = "=" -> "%3D" [] ch = "+" -> "%2B"
                [] ch = "/" -> "%2F" [] ch = "?" -> "%3F" [] OTHER -> "%20"]
PathEncode(text) ==
  [i \in DOMAIN text |->
     IF text[i] \in DOMAIN Escaped THEN Escaped[text[i]] ELSE text[i]]
QueryEncode(text) ==
  [i \in DOMAIN text |-> IF text[i] = Blank THEN "+" ELSE PathEncode(text)[i]]

(* A parameter that is a flag is sent without "=" and value.               *)
Parameter == [key : STRING, value : Seq(STRING), flag : BOOLEAN]
(* A header, with or without the blank behind the colon.  Names are told   *)
(* apart where find("Content-Length") does: in parts of a name.            *)
Header == [name : Seq(STRING), spaced : BOOLEAN, value : Seq(STRING)]
Line == [method : {"GET", "DELETE", "POST"}, command : STRING, id : Seq(STRING),
         params : Seq(Parameter), headers : Seq(Header)]

LengthNames == {<<"Content-Length">>, <<"content-length">>}
LengthHeaders(l) == {i \in DOMAIN l.headers : l.headers[i].name \in LengthNames}

Numerals == <<"0", "1", "2", "3", "4", "5", "6", "7", "8", "9">>
Digit == [d \in Range(Numerals) |-> (CHOOSE i \in 1 .. 10 : Numerals[i] = d) - 1]
Number(digits) ==
  LET number[n \in 0 .. Len(digits)] ==
        IF n = 0 THEN 0 ELSE 10 * number[n - 1] + Digit[digits[n]]
  IN  number[Len(digits)]

(* Commands and keys are words, and no key is sent twice; a value is meant *)
(* text, with no escapes in it; the name of a header begins like a name;   *)
(* and a header that gives the length gives a number that fits an int.     *)
ASSUME RequestLineAssumption ==
  \A l \in Lines :
    /\ l \in Line
    /\ l.command \notin {"/", "?", Blank}
    /\ \A i \in DOMAIN l.params :
         /\ l.params[i].key \notin {"=", "&", Blank}
         /\ \A j \in DOMAIN l.params : l.params[i].key = l.params[j].key => i = j
         /\ Range(l.params[i].value) \cap Range(Escaped) = {}
    /\ \A i \in DOMAIN l.headers :
         /\ l.headers[i].name # <<>>
         /\ l.headers[i].name[1] \notin {Blank, EndOfLine} \cup DOMAIN Digit
    /\ \A i \in LengthHeaders(l) :
         /\ l.headers[i].value \in Seq(DOMAIN Digit) \ {<<>>}
         /\ Number(l.headers[i].value) <= 2147483647

VARIABLES
  meant,    \* what the client means
  pc,       \* what comes next: "head", "params", "cut", "length", "dispatch",
            \* "done"
  uri,      \* Request::uri
  rest,     \* the string_view of ParseParameters or GetContentLength
  params,   \* the map of parameters: Request::params
  length,   \* content_length of Connection::Read
  handled   \* the arguments of the handler

vars == <<meant, pc, uri, rest, params, length, handled>>

NoParameters == [key \in {} |-> <<>>]
Nothing == [command |-> "none", id |-> <<>>, params |-> NoParameters]

Init ==
  /\ meant \in Lines
  /\ pc = "head"
  /\ uri = <<>>
  /\ rest = <<>>
  /\ params = NoParameters
  /\ length = 0
  /\ handled = Nothing
-----------------------------------------------------------------------------
(* find_first_of, find_last_of and substr.  Without the symbol the first   *)
(* two are npos: the part before it is everything, also where a position   *)
(* is subtracted from a smaller one, and so is the part behind, since      *)
(* npos + 1 is 0.                                                          *)
Find(text, symbol) == SelectInSeq(text, LAMBDA s : s = symbol)
Before(text, symbol) ==
  IF Contains(text, symbol) THEN SubSeq(text, 1, Find(text, symbol) - 1) ELSE text
Behind(text, symbol) == SubSeq(text, Find(text, symbol) + 1, Len(text))
BeforeLast(text, symbol) ==
  IF Contains(text, symbol)
  THEN SubSeq(text, 1, SelectLastInSeq(text, LAMBDA s : s = symbol) - 1)
  ELSE text

StripSpaces(text) ==
  LET stripped[n \in 0 .. Len(text)] ==
        IF n = 0 THEN <<>>
        ELSE IF text[n] = Blank THEN stripped[n - 1]
        ELSE Append(stripped[n - 1], text[n])
  IN  stripped[Len(text)]

UrlDecode(text) ==
  [i \in DOMAIN text |->
     IF text[i] = "+" THEN Blank
     ELSE IF \E ch \in DOMAIN Escaped : Escaped[ch] = text[i]
     THEN CHOOSE ch \in DOMAIN Escaped : Escaped[ch] = text[i]
     ELSE text[i]]

(* The client's line, from behind the first "/" to the blank before        *)
(* "HTTP/1.1".                                                             *)
SentParameter(p) ==
  IF p.flag THEN <<p.key>> ELSE <<p.key, "=">> \o QueryEncode(p.value)

Sent(l) ==
  <<l.command>>
  \o (IF l.id = <<>> THEN <<>> ELSE <<"/">> \o PathEncode(l.id))
  \o (IF l.command = "node" THEN <<"/", "history">> ELSE <<>>)
  \o FlattenSeq([i \in DOMAIN l.params |->
                   <<IF i = 1 THEN "?" ELSE "&">> \o SentParameter(l.params[i])])
  \o <<Blank>>

SentHeader(h) ==
  h.name \o <<":">> \o (IF h.spaced THEN <<Blank>> ELSE <<>>) \o h.value \o <<EndOfLine>>
SentHead(l) ==
  Sent(l) \o <<"HTTP/1.1", EndOfLine>>
  \o FlattenSeq([i \in DOMAIN l.headers |-> SentHeader(l.headers[i])]) \o <<EndOfLine, "{">>
-----------------------------------------------------------------------------
(* ParseHead: substr(1, find_pos) drops the "/" and keeps the blank.       *)
ParseHead ==
  /\ pc = "head"
  /\ uri' = Sent(meant)
  /\ IF meant.method \in {"GET", "DELETE"}
     THEN /\ pc' = "params"
          /\ rest' = IF Contains(uri', "?") THEN Behind(uri', "?") ELSE <<>>
     ELSE /\ pc' = "length"
          /\ rest' = SentHead(meant)
  /\ UNCHANGED <<meant, params, length, handled>>

(* ParseParameters, one turn of its loop.  The value ends at the next "&", *)
(* the key at the next "=", wherever that is.                              *)
Key == Before(rest, "=")
Value == Before(Behind(rest, "="), "&")
Broken == ~Contains(rest, "=") \/ Key = <<>> \/ Value \in {<<>>, <<Blank>>}

(* The map with one entry more, or another value for the key.              *)
Put(map, key, value) ==
  [k \in DOMAIN map \cup {key} |-> IF k = key THEN value ELSE map[k]]

(* Two slips: the value is decoded before its end is looked for; the last  *)
(* parameter is not taken off.                                             *)
TakeDecoded ==
  /\ pc = "params" /\ rest # <<>>
  /\ ~Broken
  /\ LET decoded == UrlDecode(Behind(rest, "="))
     IN  /\ params' = Put(params, Key, Before(decoded, "&"))
         /\ rest' = IF Contains(decoded, "&") THEN Behind(decoded, "&") ELSE <<>>
  /\ UNCHANGED <<meant, pc, uri, length, handled>>
TakeAllButLast ==
  /\ pc = "params" /\ rest # <<>>
  /\ ~Broken
  /\ params' = Put(params, Key, UrlDecode(Value))
  /\ rest' = IF Contains(rest, "&") THEN Behind(Behind(rest, "="), "&") ELSE rest
  /\ UNCHANGED <<meant, pc, uri, length, handled>>

TakeParameter ==
  /\ pc = "params" /\ rest # <<>>
  /\ ~Broken
  /\ params' = Put(params, Key, UrlDecode(Value))
  /\ rest' = LET more == Behind(rest, "=")
             IN  IF Contains(more, "&") THEN Behind(more, "&") ELSE <<>>
  /\ UNCHANGED <<meant, pc, uri, length, handled>>

(* The map is given up, with what is in it already.  The slip keeps that.  *)
StopAtBroken ==
  /\ pc = "params" /\ rest # <<>>
  /\ Broken
  /\ pc' = "cut"
  /\ UNCHANGED <<meant, uri, rest, params, length, handled>>
GiveUp ==
  /\ pc = "params" /\ rest # <<>>
  /\ Broken
  /\ params' = NoParameters
  /\ pc' = "cut"
  /\ UNCHANGED <<meant, uri, rest, length, handled>>

AllTaken ==
  /\ pc = "params" /\ rest = <<>>
  /\ pc' = "cut"
  /\ UNCHANGED <<meant, uri, rest, params, length, handled>>

CutUri ==
  /\ pc = "cut"
  /\ uri' = Before(uri, "?")
  /\ pc' = "dispatch"
  /\ UNCHANGED <<meant, rest, params, length, handled>>
-----------------------------------------------------------------------------
(* atoi, on text that does not end in the middle of a number. *)
Atoi(text, from) ==
  LET start == Min({i \in from .. Len(text) : text[i] \notin {Blank, EndOfLine}})
      stop == Min({i \in start .. Len(text) : text[i] \notin DOMAIN Digit})
  IN  Number(SubSeq(text, start, stop - 1))

(* GetContentLength takes the first "Content-Length", goes to the next ":" *)
(* and skips it and one more character.  Without that header all positions *)
(* are npos, and the text it ends up with is the method.  The slip goes to *)
(* the first ":" of the head.                                              *)
LengthAtFirstColon(head) ==
  IF Contains(head, "Content-Length") THEN Atoi(head, Find(head, ":") + 2) ELSE 0
GetContentLength(head) ==
  IF Contains(head, "Content-Length")
  THEN LET colon == Min({i \in Find(head, "Content-Length") .. Len(head) : head[i] = ":"})
       IN  Atoi(head, colon + 2)
  ELSE 0

(* Connection::Read wants the length when the body did not come with the   *)
(* head, as here.                                                          *)
ReadLength ==
  /\ pc = "length"
  /\ length' = GetContentLength(rest)
  /\ pc' = "dispatch"
  /\ UNCHANGED <<meant, uri, rest, params, handled>>
-----------------------------------------------------------------------------
(* HandleRequest looks at the command only, not at the method; the handler *)
(* then takes the id.  Two slips forget the blank of a uri without "?".    *)
CommandWithBlank == Before(uri, "/")
Command == StripSpaces(Before(uri, "/"))

IdWithBlank(command) ==
  IF command = "node" THEN BeforeLast(Behind(uri, "/"), "/") ELSE Behind(uri, "/")
IdFor(command) ==
  CASE command = "delete" -> Behind(uri, "/")
    [] command = "nodes"  -> StripSpaces(Behind(uri, "/"))
    [] command = "node"   -> BeforeLast(Behind(uri, "/"), "/")
    [] OTHER              -> <<>>

Dispatch ==
  /\ pc = "dispatch"
  /\ handled' =
       IF Len(Command) = 1 /\ Command[1] \in Commands
       THEN [command |-> Command[1], id |-> IdFor(Command[1]), params |-> params]
       ELSE [Nothing EXCEPT !.command = "not_found"]
  /\ pc' = "done"
  /\ UNCHANGED <<meant, uri, rest, params, length>>

Next ==
  \/ ParseHead
  \/ TakeParameter
  \/ GiveUp
  \/ AllTaken
  \/ CutUri
  \/ ReadLength
  \/ Dispatch

Spec == Init /\ [][Next]_vars /\ WF_vars(Next)
-----------------------------------------------------------------------------
Done == pc = "done" /\ handled.command # "not_found"
Read == Done /\ meant.method # "POST"   \* a request whose parameters are read

Valued == {i \in DOMAIN meant.params : ~meant.params[i].flag}

(* What the code makes of the value of a parameter: the last one is        *)
(* followed by the blank of the request line.                              *)
AsRead(i) ==
  meant.params[i].value \o (IF i = Len(meant.params) THEN <<Blank>> ELSE <<>>)

(* When every parameter has a value, all of them reach the handler, with   *)
(* the text the client meant, "&", "=", "+" and blanks in it included, and *)
(* a blank behind the last (RequestParser.cpp:14-38, 54; Utils.h:33-57).   *)
ParametersArrive ==
  Read /\ (\A i \in DOMAIN meant.params :
             ~meant.params[i].flag /\ meant.params[i].value # <<>>) =>
    /\ DOMAIN handled.params = {<<meant.params[i].key>> : i \in DOMAIN meant.params}
    /\ \A i \in DOMAIN meant.params :
         handled.params[<<meant.params[i].key>>] = AsRead(i)

(* The loop comes to an empty value, or to flags that no "=" follows. *)
GivenUp ==
  \E i \in DOMAIN meant.params :
    IF meant.params[i].flag THEN i = Len(meant.params) ELSE meant.params[i].value = <<>>

(* The key the loop finds begins at the flags before it. *)
Swallowed(i) == i > 1 /\ meant.params[i - 1].flag

(* What reaches the handler when not all is well: none of the parameters   *)
(* if one is empty or a flag is the last, however many were read before;   *)
(* else exactly those that do not follow a flag, so that dateEnd may be    *)
(* missing where dateStart is there.  And none has the value of another    *)
(* (RequestParser.cpp:22-35).                                              *)
KeysArrive ==
  Read =>
    \A i \in Valued :
      LET key == <<meant.params[i].key>>
      IN  /\ key \in DOMAIN handled.params <=> ~GivenUp /\ ~Swallowed(i)
          /\ key \in DOMAIN handled.params => handled.params[key] = AsRead(i)

(* The id a handler looks up is the id the client meant, exactly if it     *)
(* needs no escapes: ids are never decoded.  A deletion without parameters *)
(* has no date and is refused before it looks for its id                   *)
(* (Main.cpp:121-129, 155-157, 183-185).                                   *)
IdArrives ==
  /\ Read
  /\ meant.id # <<>> /\ handled.command \in {"delete", "nodes", "node"}
  /\ handled.command = "delete" => meant.params # <<>>
  => ((handled.id = meant.id) <=> (PathEncode(meant.id) = meant.id))

(* The blocking read waits for as many bytes as the client sends, wherever *)
(* the header stands among the others, when it is spelled as the code      *)
(* expects; spelled in another way, it never waits for more, unless the    *)
(* line or another header holds this one's name                            *)
(* (RequestParser.cpp:7-12, Connection.cpp:34-36).                         *)
LengthArrives ==
  meant.method = "POST" /\ pc = "done" =>
    \A i \in LengthHeaders(meant) :
      LET header == meant.headers[i]
          alone == /\ ~Contains(Sent(meant), "Content-Length")
                   /\ \A j \in DOMAIN meant.headers \ {i} :
                        ~Contains(meant.headers[j].name \o meant.headers[j].value,
                                  "Content-Length")
      IN  /\ alone => length <= Number(header.value)
          /\ alone /\ header.spaced /\ header.name = <<"Content-Length">>
               => length = Number(header.value)

(* A request goes to the handler of its command, or to none if there is    *)
(* none, whatever its id, parameters and method are; only a POST with      *)
(* parameters, which are not cut off its uri, may miss its handler         *)
(* (RequestHandler.cpp:11-20, RequestParser.cpp:56-59).                    *)
Routed ==
  pc = "done" /\ (meant.method = "POST" => meant.params = <<>>) =>
    handled.command =
      IF meant.command \in Commands THEN meant.command ELSE "not_found"

(* The loop over the parameters ends, and the request is dispatched        *)
(* (RequestParser.cpp:22-35).                                              *)
Parsed == <>(pc = "done")
=============================================================================
