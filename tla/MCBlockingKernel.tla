-------------------------- MODULE MCBlockingKernel --------------------------
(* Values for model checking BlockingKernel. *)
EXTENDS BlockingKernel

MCTimeouts     == {-1, 0, 1, 2}
MCNoTimeout    == {-1}
MCAllLaunchers == {"plain", "syncs", "throws"}

=============================================================================
