------------------------- MODULE PropositionCalculus -------------------------
(***************************************************************************)
(* Which propositions can stand together (proposition-calculus.ts).  A     *)
(* proposition is [id, conflicts, requires]; an id is a number, whose      *)
(* order stands for the alphabetical one.  A bet is [source, target,       *)
(* claim].                                                                 *)
(***************************************************************************)
EXTENDS Naturals, Sequences, FiniteSets, SequencesExt

\* Only the proposition that is accepted first declares conflicts.
ConflictMutant(p, q) == p.id \in q.conflicts

Conflict(p, q) == q.id \in p.conflicts \/ p.id \in q.conflicts

Ids(props) == {p.id : p \in props}

Acceptable(p, accepted) ==
    /\ \A q \in accepted : ~Conflict(q, p)
    /\ p.requires \subseteq Ids(accepted)

\* The propositions in the order of their ids.
Ordered(props) ==
    CHOOSE order \in SetToSeqs(props) :
        \A i, j \in DOMAIN order : i < j => order[i].id =< order[j].id

\* One round over what remains: who is accepted early can let a later one in.
Accepting(order, remaining, accepted) ==
    LET upTo[i \in 0 .. Len(order)] ==
            IF i = 0 THEN accepted
            ELSE upTo[i - 1] \cup {p \in {order[i]} \cap remaining : Acceptable(p, upTo[i - 1])}
    IN  upTo[Len(order)]

\* A second proposition of an accepted id is neither accepted nor rejected.
Round(order, s) ==
    LET after == Accepting(order, s.remaining, s.accepted)
    IN  [accepted |-> after, remaining |-> {p \in s.remaining : p.id \notin Ids(after)}]

\* The loop ends with the first round that accepts nothing.  Each one before it
\* accepts a proposition, and any after it would change nothing.
Rounds(props) ==
    LET after[k \in 0 .. Cardinality(props) + 1] ==
            IF k = 0 THEN [accepted |-> {}, remaining |-> props] ELSE Round(Ordered(props), after[k - 1])
    IN  after[Cardinality(props) + 1]

Judged(accepted, rejected) ==
    IF \E p, q \in accepted : p # q /\ Conflict(p, q) THEN "CONFLICTING"
    ELSE IF rejected # {} THEN "INCOMPLETE" ELSE "CONSISTENT"

\* selectMaximallyConsistentPropositions, of a set of propositions
Select(props) ==
    LET r == Rounds(props)
    IN  [accepted |-> r.accepted, rejected |-> r.remaining, state |-> Judged(r.accepted, r.remaining)]

\* The sources that bet on two claims, whatever the bets are about.
Equivocators(bets) == {b.source : b \in {x \in bets : \E y \in bets : y.source = x.source /\ y.claim # x.claim}}
=============================================================================
