------------------------ MODULE MCTimeoutInterceptor ------------------------
(* A unary call; a stream shares the error alone, one word pair less.      *)
EXTENDS TimeoutInterceptor

UnaryFields == {"resp", "err"}
=============================================================================
