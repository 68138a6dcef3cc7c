----------------------------- MODULE HmiKernelMC -----------------------------
(* Values of the kernel's constants for TLC.                                 *)
EXTENDS HmiKernelProperties, TLC

CONSTANTS window, service, t1, t2

(* The window thread pushes input and repaints and may quit the program; a    *)
(* service pushes its results.                                              *)
WindowTypes == [p \in {window} |-> {"input", "render"}]

WindowAndServiceTypes ==
  [p \in {window, service} |-> IF p = window THEN {"input", "render"} ELSE {"service"}]

InputOnly == [p \in {window} |-> {"input"}]

(* Addresses are only compared.                                             *)
TimerSymmetry == Permutations(Timers)
=============================================================================
