----------------------------- MODULE ReplayLoop -----------------------------
(***************************************************************************)
(* The two loops of replay that compute the quarantine and what is ready   *)
(* (replay.ts 79-98).  Each makes passes over the events, and another pass *)
(* whenever one changed something.  A pass visits them in the order of     *)
(* their hashes, which is any order: a visit picks an event that the pass  *)
(* has not visited.                                                        *)
(***************************************************************************)
EXTENDS ReplayView

CONSTANT Inputs      \* the sets of events replay is called with

ASSUME InputsAssumption == \A S \in Inputs : S \subseteq EventId /\ IsFiniteSet(S)

VARIABLES
    events, phase, todo, changed, poisoned, admitted

loopVars == <<events, phase, todo, changed, poisoned, admitted>>

LoopInit ==
    /\ events \in Inputs
    /\ phase = "quarantine"
    /\ todo = events
    /\ changed = FALSE
    /\ poisoned = Equivocating(events)
    /\ admitted = {}

\* Mutant: a pass that changed something is not followed by another.
PassMutant(next) ==
    /\ todo = {}
    /\ phase' = next
    /\ todo' = events
    /\ changed' = FALSE

\* A pass has ended: the next one begins, or what comes after the loop.
Pass(next) ==
    /\ todo = {}
    /\ phase' = IF changed THEN phase ELSE next
    /\ todo' = events
    /\ changed' = FALSE

\* One visit of the first loop.
Poison(e) ==
    /\ phase = "quarantine"
    /\ e \in todo
    /\ todo' = todo \ {e}
    /\ IF e \notin poisoned /\ Parents(e) \cap poisoned # {}
       THEN poisoned' = poisoned \cup {e} /\ changed' = TRUE
       ELSE UNCHANGED <<poisoned, changed>>
    /\ UNCHANGED <<events, phase, admitted>>

PoisonPass ==
    /\ phase = "quarantine"
    /\ Pass("ready")
    /\ UNCHANGED <<events, poisoned, admitted>>

\* Mutant: the flag is raised by every visit.
AdmitMutant(e) ==
    /\ phase = "ready"
    /\ e \in todo
    /\ todo' = todo \ {e}
    /\ changed' = TRUE
    /\ admitted' = IF e \notin poisoned /\ Parents(e) \subseteq admitted
                THEN admitted \cup {e} ELSE admitted
    /\ UNCHANGED <<events, phase, poisoned>>

\* Mutant: the second loop forgets the quarantine.
AdmitPoisonedMutant(e) ==
    /\ phase = "ready"
    /\ e \in todo
    /\ todo' = todo \ {e}
    /\ IF e \notin admitted /\ Parents(e) \subseteq admitted
       THEN admitted' = admitted \cup {e} /\ changed' = TRUE
       ELSE UNCHANGED <<admitted, changed>>
    /\ UNCHANGED <<events, phase, poisoned>>

\* One visit of the second loop.
Admit(e) ==
    /\ phase = "ready"
    /\ e \in todo
    /\ todo' = todo \ {e}
    /\ IF e \notin admitted \cup poisoned /\ Parents(e) \subseteq admitted
       THEN admitted' = admitted \cup {e} /\ changed' = TRUE
       ELSE UNCHANGED <<admitted, changed>>
    /\ UNCHANGED <<events, phase, poisoned>>

AdmitPass ==
    /\ phase = "ready"
    /\ Pass("done")
    /\ UNCHANGED <<events, poisoned, admitted>>

Done == phase = "done" /\ UNCHANGED loopVars

LoopNext ==
    \/ \E e \in EventId : Poison(e) \/ Admit(e)
    \/ PoisonPass
    \/ AdmitPass
    \/ Done

LoopSpec == LoopInit /\ [][LoopNext]_loopVars

\* The loops run on one thread that nothing interrupts.
LoopFairSpec == LoopSpec /\ WF_loopVars(LoopNext)

-----------------------------------------------------------------------------
(* Properties.                                                              *)

LoopTypeOK ==
    /\ events \in Inputs
    /\ phase \in {"quarantine", "ready", "done"}
    /\ todo \subseteq events
    /\ changed \in BOOLEAN
    /\ poisoned \subseteq events
    /\ admitted \subseteq events \ poisoned

\* The loops compute the least fixed points, in whatever order the hashes
\* have them visit: the view depends on the set of events alone.
LoopsAgree ==
    /\ phase \in {"ready", "done"} => poisoned = Quarantine(events)
    /\ phase = "done" => admitted = Ready(events, poisoned)

\* Replay returns.
Terminates == <>(phase = "done")
=============================================================================
