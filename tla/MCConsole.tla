----------------------------- MODULE MCConsole -----------------------------
(***************************************************************************)
(* Small instances of the console for TLC.                                 *)
(***************************************************************************)
EXTENDS Console

CONSTANTS tracker, dump

MCPrinters == {Cli, tracker}
MCDumpers == {dump}

=============================================================================
