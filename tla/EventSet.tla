------------------------------- MODULE EventSet -------------------------------
(***************************************************************************)
(* What the nodes of a lattice promise together, whatever they crash, lose *)
(* or repeat: sets of signed events that only grow, into which an event    *)
(* enters at its signer, into a slot of its own, and from there spreads.   *)
(* ("Reordering and duplicates converge by immutable event-set union",     *)
(* docs/INTELLIGENCE_LATTICE_EVENT_CORE.md.)  LatticeNode implements it.   *)
(***************************************************************************)
EXTENDS Naturals

CONSTANTS
    Node,   \* the nodes, each the one signer of its identity
    Event   \* records with at least the fields actor and sequence

VARIABLE held   \* held[n]: the events n has stored

Anywhere == UNION {held[n] : n \in Node}

SameSlot(e, f) == e.actor = f.actor /\ e.sequence = f.sequence

Init == held = [n \in Node |-> {}]

New(n) == held'[n] \ held[n]

Elsewhere(n) == \A m \in Node \ {n} : held'[m] = held[m]

\* n stores what some node holds.
Learn(n) ==
    /\ held[n] \subseteq held'[n]
    /\ New(n) \subseteq Anywhere
    /\ Elsewhere(n)

\* n signs events into slots that hold nothing anywhere, one into each.
Sign(n) ==
    /\ held[n] \subseteq held'[n]
    /\ \A e \in New(n) :
        /\ e.actor = n
        /\ \A f \in Anywhere \cup New(n) : SameSlot(e, f) => e = f
    /\ Elsewhere(n)

Next ==
    /\ held' \in [Node -> SUBSET Event]
    /\ \E n \in Node : Learn(n) \/ Sign(n)

Spec == Init /\ [][Next]_held
=============================================================================
