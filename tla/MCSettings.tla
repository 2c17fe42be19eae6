----------------------------- MODULE MCSettings -----------------------------
(* Settings with a rejected, a disabling and a usable time step. *)
EXTENDS Settings

MCTimeSteps == {-1, 0, 24}
=============================================================================
