------------------------------ MODULE MCStartup ------------------------------
(***************************************************************************)
(* Two unikernels of two cores each.                                       *)
(***************************************************************************)
EXTENDS Startup, TLC

MCCoreCount == (0 :> 2) @@ (1 :> 2)

=============================================================================
