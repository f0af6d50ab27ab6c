-------------------------- MODULE MCConsoleChannel --------------------------
(* Small instances of ConsoleChannel for TLC. *)
EXTENDS ConsoleChannel

=============================================================================
