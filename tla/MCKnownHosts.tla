---------------------------- MODULE MCKnownHosts ----------------------------
(* Small instances of KnownHosts for TLC. *)
EXTENDS KnownHosts, TLC
CONSTANTS t1, t2, p1, p2, h1, h2, k1, k2

Ask(kind, host, pairs, hash) == [kind |-> kind, host |-> host, pairs |-> pairs, hash |-> hash]

\* An initial line with two patterns, so that removing one host keeps the other.
MCFile == {[hosts |-> <<h1, h2>>, key |-> k1, hashed |-> FALSE]}
MCRequests ==
  {Ask("add", h2, {<<h2, k2>>}, FALSE), Ask("add", h1, {<<h1, k1>>}, FALSE),
   Ask("add", h2, {<<h2, k2>>}, TRUE), Ask("remove", h1, {}, FALSE), Ask("remove", h2, {}, FALSE),
   Ask("save", h1, {<<h1, k2>>, <<h2, k2>>}, TRUE), Ask("save", h1, {<<h1, k1>>, <<h2, k2>>}, FALSE)}

OneProcess == (t1 :> p1) @@ (t2 :> p1)
=============================================================================
