------------------------------- MODULE MCServer -------------------------------
(***************************************************************************)
(* Instances of Server: a client that sends a request without a body and   *)
(* clients that post one of three or five pieces, the second with the date.*)
(***************************************************************************)
EXTENDS Server

CONSTANTS getter, poster, other

MCBody == [c \in Clients |-> CASE c = getter -> 0 [] c = poster -> 3 [] OTHER -> 5]

(* What fresh memory may hold. *)
CleanOnly == {{}}
SomeGarbage == {{}, {"date"}, {"brace"}}
=============================================================================
