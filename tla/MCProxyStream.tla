---------------------------- MODULE MCProxyStream ----------------------------
(* Small instances of ProxyStream for TLC. *)
EXTENDS ProxyStream

CONSTANTS m1, m2, big

(* Two ordinary messages, to tell an order from its reverse, and one above *)
(* the receive limit.                                                      *)
MCMsg == {m1, m2, big}
MCOversize == {big}
=============================================================================
