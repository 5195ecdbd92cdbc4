-------------------------- MODULE FrontControllerMC -------------------------
(***************************************************************************)
(* Finite instances of FrontController.                                    *)
(***************************************************************************)
EXTENDS FrontController

\* Rolling backwards fast enough to regenerate, and nearly stopped.
MCMotorVelocities == {-20, 5}
=============================================================================
