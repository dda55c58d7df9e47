------------------------- MODULE MCInterceptorChain -------------------------
(* Every configuration of the eight optional middlewares. *)
EXTENDS InterceptorChain

AllOptional == {"log", "prom", "trace", "jwt", "meta", "auth", "timeout",
                "ratelimit"}
=============================================================================
