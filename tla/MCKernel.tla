------------------------------- MODULE MCKernel -------------------------------
(* Instances of KernelCorrect for TLC. *)
EXTENDS KernelCorrect, TLC

CONSTANTS n1, n2

NodeSymmetry == Permutations({n1, n2})

WaitCalls == {"Wait", "OpenFeatures"}
AllCalls == {"Poll", "Wait", "OpenFeatures", "Close"}
=============================================================================
