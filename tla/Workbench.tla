------------------------------ MODULE Workbench ------------------------------
(***************************************************************************)
(* The workbench (workbench-state.tsx) compiles a scenario twice, as it is *)
(* and with a mutation, and shows where the two part.  The user changes    *)
(* either at any time; React renders first and runs the effects later, so  *)
(* a mutation that the new scenario does not have is compiled once before  *)
(* it is withdrawn.                                                        *)
(***************************************************************************)
EXTENDS ScenarioCompiler

\* null is no letter of a node and no capability.
ASSUME NullAssumption ==
    Null \notin ToSet(Nodes) \cup {"cap:room:write", "cap:exchange:bob:prepare"}

\* The reducer brings every process of a scenario to a normal form.
ASSUME ReducerAssumption ==
    \A s \in Scenarios, m \in Mutations :
        LET execution == Reducer(Process(s, m))
        IN  execution # Null /\ execution.stuck = FALSE /\ execution.comms \in Nat

VARIABLES
    scenario, mutation,
    pending,     \* a new reality is shown whose effects have not run
    playhead, playing

workbenchVars == <<scenario, mutation, pending, playhead, playing>>

Steps == 9       \* LAYER_ORDER has one more layer than the compiler uses

WorkbenchInit ==
    /\ scenario = "exchange-commit"
    /\ mutation = "none"
    /\ pending = TRUE
    /\ playhead = Steps
    /\ playing = TRUE

SetScenario(s) ==
    /\ scenario' = s
    /\ pending' = (pending \/ s # scenario)
    /\ UNCHANGED <<mutation, playhead, playing>>

\* The list offers the mutations of the scenario.
SetMutation(m) ==
    /\ scenario \in Applies(m)
    /\ mutation' = m
    /\ pending' = (pending \/ m # mutation)
    /\ UNCHANGED <<scenario, playhead, playing>>

ReplayCompile ==
    /\ pending' = TRUE
    /\ UNCHANGED <<scenario, mutation, playhead, playing>>

Reset ==
    /\ mutation' = "none"
    /\ pending' = TRUE
    /\ UNCHANGED <<scenario, playhead, playing>>

\* Withdrawing the mutation makes a new reality, whose effects run next.
Effects ==
    /\ pending
    /\ mutation' = IF scenario \in Applies(mutation) THEN mutation ELSE "none"
    /\ pending' = (mutation' # mutation)
    /\ playhead' = 0
    /\ playing' = TRUE
    /\ UNCHANGED scenario

Advance ==
    /\ playing
    /\ IF playhead >= Steps
       THEN playing' = FALSE /\ UNCHANGED playhead
       ELSE playhead' = playhead + 1 /\ UNCHANGED playing
    /\ UNCHANGED <<scenario, mutation, pending>>

WorkbenchNext ==
    \/ \E s \in Scenarios : SetScenario(s)
    \/ \E m \in Mutations : SetMutation(m)
    \/ ReplayCompile
    \/ Reset
    \/ Effects
    \/ Advance

WorkbenchSpec == WorkbenchInit /\ [][WorkbenchNext]_workbenchVars

-----------------------------------------------------------------------------
(* Properties.                                                              *)

Reality == Compile(scenario, mutation)
BaselineReality == Compile(scenario, "none")
Diff == DiffReality(BaselineReality, Reality)

\* Where each counterfactual strikes.
Struck(m) ==
    CASE m = "drop-capability" -> "quantumos"
      [] m = "force-abort" -> "qlf"
      [] m = "tamper-trace" -> "rspace"
      [] OTHER -> "sentinel"

\* Once the effects have run, the comparison tells what the mutation did: the
\* baseline passes, a deviation fails and is blamed on the layer it struck, an
\* abort instead of a commit is no failure, and no layer before the one struck
\* differs.  The sealed record diverges with the checks; a doubled identity and a
\* missing justification fail an invariant only and do not reach it (evaluate
\* 644-1017, diffReality 1033-1131, realityToRecord 199-219).
BlameLands ==
    ~pending =>
        /\ OverallStatus(BaselineReality) = "PASS" /\ Witness(BaselineReality) = Null
        /\ IF mutation = "none" THEN Diff = {}
           ELSE Diff # {} /\ Rank(RowLayers[Min(Diff)]) >= Rank(Struck(mutation))
        /\ IF mutation \in {"none", "force-abort"}
           THEN OverallStatus(Reality) = "PASS" /\ Witness(Reality) = Null
           ELSE OverallStatus(Reality) = "FAIL" /\ Witness(Reality).layer = Struck(mutation)
        /\ RecordState(Reality) = "DIVERGENT"
              <=> mutation \in {"node-c-lied", "drop-capability", "tamper-trace"}

\* What two realities differ in before the verdict is bound by the last envelope:
\* nobody can swap one reality's end for the other's (linkEnvelopes 429-642).
ChainBinds ==
    ~pending =>
        LET base == LinkEnvelopes(BaselineReality)
            chain == LinkEnvelopes(Reality) IN
        /\ (\E i \in Diff : RowLayers[i] # "verification")
              => base[Len(base)].hash # chain[Len(chain)].hash
        /\ \A i \in 2 .. Len(chain) : chain[i].prev = chain[i - 1].hash /\ chain[i].parent = chain[i - 1].id

\* A node that lies and one that cannot be reached: the lattice certifies the
\* block as long as three replicas stand by it, whoever they are; the cross check
\* fails exactly when two reachable nodes differ, also when the liar is the one
\* that it measures against; and a failed certificate never passes for a
\* warning (crossNode 235-271, latticeAnalyze 308-383).
QuorumJudges ==
    ~pending /\ Reality.blocks # <<>> =>
      \A lie, gone \in ToSet(Nodes) \cup {Null} :
        LET block == Reality.blocks[1]
            obs == ObserveBlock(block, [lie |-> lie, unreachable |-> gone, unjustified |-> Null,
                                        duplicate |-> Null])
            faulty == {lie, gone} \ {Null}
            lied == lie \notin {Null, gone}
            cross == CrossNode(obs)
            lattice == LatticeAnalyze(block, obs)
        IN  /\ lattice.committed <=> Cardinality(faulty) <= 1
            /\ cross.status = "FAIL" <=> lied
            /\ lattice.conflicting <=> lied
            /\ cross.status = "PASS" => lattice.status = "PASS" /\ cross.quorum
=============================================================================
