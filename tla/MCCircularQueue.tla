--------------------------- MODULE MCCircularQueue ---------------------------
(* A queue of four slots that holds either of two values.                  *)
EXTENDS CircularQueue
=============================================================================
