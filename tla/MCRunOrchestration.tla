-------------------------- MODULE MCRunOrchestration --------------------------
(* Small instances of RunOrchestration.                                    *)
EXTENDS RunOrchestration

(* Two rows of two repeats.                                                *)
FourJobs == <<1, 1, 2, 2>>
FourRepeats == <<1, 2, 1, 2>>

=============================================================================
