------------------------- MODULE WorkbenchReduction -------------------------
(***************************************************************************)
(* The workbench with the reducer of rho.ts (reduce(), which compile()     *)
(* calls), and what the workbench takes for granted of it.                 *)
(***************************************************************************)
EXTENDS Workbench, RhoReducer

CONSTANT Programs     \* processes for the reducer, besides those of the scenarios

\* For the processes of the scenarios, and for the listed programs, in which
\* receivers of one channel meet, the reduction ends whatever order its COMMs are
\* made in, with the same number of COMMs and of sends and receives left (reduce
\* 99-227).  Not so in general: of two receivers of one channel with different
\* continuations the code runs the first, and what is left depends on that.
ReductionAgrees ==
    ~pending => \A p \in Programs \cup {Process(scenario, mutation)} : Confluent(p)
=============================================================================
