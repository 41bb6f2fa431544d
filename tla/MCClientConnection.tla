------------------------- MODULE MCClientConnection -------------------------
(* Model-checking instance of ClientConnection: two rounds on one          *)
(* connection (a late callback of round 1's timer can meet round 2), and  *)
(* up to two writes of two distinct pieces per request, so that chunks    *)
(* follow chunks and an order or a repetition shows.                       *)
EXTENDS ClientConnection

CONSTANTS d1, d2, c

MCMaxReads == 2
MCData == {d1, d2}
MCMaxWrites == 2
=============================================================================
