------------------------------ MODULE MCClient ------------------------------
(***************************************************************************)
(* A small instance of Client for TLC.                                     *)
(***************************************************************************)
EXTENDS Client

Attempt(scheme, who, deflate) ==
    [scheme |-> scheme, server |-> who, deflate |-> deflate]

MCAttempts ==
    {Attempt("wss", "wscpp", TRUE), Attempt("ws", "other", TRUE),
     Attempt("ws", "http", TRUE)}

(* A message, a message with a header a server may not send, and a close.  *)
From(op, masked, word) ==
    [op |-> op, fin |-> TRUE, rsv |-> FALSE, mask |-> masked, pl |-> <<word>>]

ServerFrames ==
    {From("BINARY", FALSE, 77), From("BINARY", TRUE, 77), From("CLOSE", FALSE, 1000)}
=============================================================================
