----------------------------- MODULE MCSessions -----------------------------
(* Sessions for TLC. *)
EXTENDS Sessions, FiniteSets

\* Bound: one thing at most went wrong about each player.
OneCause == \A c \in Conn : Cardinality(cause[c]) <= 1

=============================================================================
