------------------------------ MODULE MCRuntime ------------------------------
(* Small instances of Runtime for TLC. *)
EXTENDS Runtime

\* One signal that ends the process and one after which the script goes on.
MCSignals == {"interrupt", "hangup"}

\* The script handles the first of them.
MCOnSignalNames == {"interrupt"}

=============================================================================
