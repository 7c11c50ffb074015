--------------------------- MODULE MCRetrainGate ----------------------------
(* Instances of RetrainGate for TLC. *)
EXTENDS RetrainGate, TLC

\* Accurate, late twice (beyond the threshold, small errors), and early by much.
MCInjections == {<<0>>, <<6, 6>>, <<-20>>}
MCChecks == {<<TRUE>>, <<FALSE>>}
\* A window exactly filled, more samples than the window holds, and a request
\* that an empty log satisfies.
MCConfigs ==
    {[mae |-> 8, late |-> 20, min |-> 1, cooldown |-> 1],
     [mae |-> 8, late |-> 20, min |-> 2, cooldown |-> 0],
     [mae |-> 8, late |-> -1, min |-> 0, cooldown |-> 0]}
MCSymmetry == Permutations(Evaluations)
=============================================================================
