--------------------------- MODULE MCIrqSpinlock ---------------------------
(* Small instances of IrqSpinlock for TLC. *)
EXTENDS IrqSpinlock

=============================================================================
