---------------------------- MODULE MCRequestLine ----------------------------
(***************************************************************************)
(* Request lines for TLC: texts of up to two symbols with everything in    *)
(* them that the parser gives a meaning to, and none to three parameters.  *)
(***************************************************************************)
EXTENDS RequestLine

Texts == BoundedSeq({"d", Blank, "&", "=", "+"}, 2)

Valued1(key, values) == {[key |-> key, value |-> v, flag |-> FALSE] : v \in values}
Flag(key) == [key |-> key, value |-> <<>>, flag |-> TRUE]

ParameterLists ==
  {<<>>, <<Flag("full")>>}
  \cup {<<p>> : p \in Valued1("date", Texts)}
  \cup {<<p, q>> : p \in Valued1("dateStart", Texts), q \in Valued1("dateEnd", Texts)}
  \cup {<<Flag("full"), p>> : p \in Valued1("date", Texts)}
  \cup {<<p, Flag("full"), q>> : p \in Valued1("dateStart", {<<>>, <<"d">>}),
                                 q \in Valued1("dateEnd", {<<>>, <<"d">>})}
  \cup {<<p, Flag("full")>> : p \in Valued1("date", {<<>>, <<"d">>})}
  \cup {<<Flag("full"), Flag("all"), p>> : p \in Valued1("date", {<<>>, <<"d">>})}

LineOf(method, command, id, ps, headers) ==
  [method |-> method, command |-> command, id |-> id, params |-> ps,
   headers |-> headers]

HeaderOf(name, spaced, value) == [name |-> name, spaced |-> spaced, value |-> value]
Host == HeaderOf(<<"Host">>, TRUE, <<"host", ":", "8", "0">>)
OtherLength == HeaderOf(<<"X-", "Content-Length">>, TRUE, <<"8", "8">>)

(* The header of the length, before and behind others. *)
HeaderLists ==
  UNION {{<<h>>, <<Host, h>>, <<h, Host>>, <<OtherLength, h>>, <<h, OtherLength>>} :
           h \in {HeaderOf(name, spaced, value) :
                    name \in LengthNames, spaced \in BOOLEAN,
                    value \in {<<"5">>, <<"1", "2">>, <<"2", "0", "1">>}}}
Plain == <<HeaderOf(<<"Content-Length">>, TRUE, <<"5">>)>>

MCLines ==
  {LineOf("GET", "node", <<"d">>, ps, <<>>) : ps \in ParameterLists}
  \cup {LineOf(m, command, id, ps, IF m = "POST" THEN Plain ELSE <<>>) :
          m \in {"GET", "DELETE", "POST"},
          command \in {"imports", "delete", "nodes", "updates", "node", "other"},
          id \in BoundedSeq({"d", Blank, "/"}, 2),
          ps \in {<<>>} \cup {<<p>> : p \in Valued1("date", {<<>>, <<"d", "+">>})}}
  \cup {LineOf("POST", "imports", <<>>, <<>>, hs) : hs \in HeaderLists}
=============================================================================
