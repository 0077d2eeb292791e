------------------------------ MODULE MCService ------------------------------
(* A small instance of Service for TLC: two drives whose jobs share one slot. *)
EXTENDS Service

CONSTANTS films, music, t1, t2, account

OwnTrigger == [d \in Drive |-> IF d = music THEN t2 ELSE t1]
OneAccount == [d \in Drive |-> account]
=============================================================================
