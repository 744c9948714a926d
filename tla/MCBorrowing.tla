----------------------------- MODULE MCBorrowing -----------------------------
(* A small instance of Borrowing: two requests for loans of one wallet, two   *)
(* calls that track them, which may name another wallet, and two calls that   *)
(* verify one token.                                                          *)
EXTENDS Borrowing
=============================================================================
