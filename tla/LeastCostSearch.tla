--------------------------- MODULE LeastCostSearch ---------------------------
(***************************************************************************)
(* The two searches for a witness of least cost (possibility-plane.ts and  *)
(* lexicographic-possibility.ts): Dijkstra's algorithm on a graph that the *)
(* caller expands state by state.  A search is a record; Visit is one turn *)
(* of its loop.  Costs are vectors, of one component in the possibility    *)
(* plane, compared lexicographically.  Among queue entries of equal cost   *)
(* the code takes them in the order of their names; here any may be next.  *)
(***************************************************************************)
EXTENDS Naturals, Sequences, FiniteSets

CONSTANT None

\* compareLexicographic(c, d) < 0
Cheaper(c, d) ==
    \E i \in DOMAIN c : c[i] < d[i] /\ \A j \in 1..(i - 1) : c[j] = d[j]

AddCosts(c, d) == [i \in DOMAIN c |-> c[i] + d[i]]

Free(dimensions) == [i \in 1..dimensions |-> 0]

\* What f says, and what g says where f says nothing.
Over(f, g) == [k \in DOMAIN f \cup DOMAIN g |-> IF k \in DOMAIN f THEN f[k] ELSE g[k]]

StartSearch(state, key, dimensions) ==
    [frontier |-> {[state |-> state, key |-> key, cost |-> Free(dimensions), path |-> <<>>]},
     best |-> [k \in {key} |-> Free(dimensions)],
     settled |-> {},
     prints |-> [k \in {key} |-> state],     \* the state that each key was first seen for
     found |-> None,
     status |-> "SEARCHING"]

\* Breadth first, whatever the steps cost.
NextInQueueMutant(s) == {e \in s.frontier : ~\E f \in s.frontier : Len(f.path) < Len(e.path)}

NextInQueue(s) == {e \in s.frontier : ~\E f \in s.frontier : Cheaper(f.cost, e.cost)}

\* An entry that a cheaper one for the same key has overtaken.
Stale(s, e) == e.key \in s.settled \/ Cheaper(s.best[e.key], e.cost)

\* Two states under one key, which the lexicographic search refuses.
Collides(s, out) ==
    LET seen == {<<t.key, t.to>> : t \in out} \cup {<<k, s.prints[k]>> : k \in DOMAIN s.prints}
    IN  \E a, b \in seen : a[1] = b[1] /\ a[2] # b[2]

\* Entries that improve on what is known are queued, the cheapest for each key.
Relax(s, e, out) ==
    LET price(t) == AddCosts(e.cost, t.cost)
        better == {t \in out : /\ t.key \notin s.settled
                               /\ t.key \in DOMAIN s.best => Cheaper(price(t), s.best[t.key])
                               /\ ~\E u \in out : u.key = t.key /\ Cheaper(u.cost, t.cost)}
        pick == {CHOOSE t \in better : t.key = k : k \in {t.key : t \in better}}
    IN  [s EXCEPT
            !.best = Over([k \in {t.key : t \in pick} |-> price(CHOOSE t \in pick : t.key = k)], @),
            !.prints = Over(@, [k \in {t.key : t \in out} |-> (CHOOSE t \in out : t.key = k).to]),
            !.frontier = @ \cup {[state |-> t.to, key |-> t.key, cost |-> price(t),
                                  path |-> Append(e.path, t)] : t \in pick}]

\* One turn of the loop with the entry e at the head of the queue: `out` are
\* the transitions of its state and `throws` says that listing them fails.
Visit(s, e, out, goal, throws, limit, strict) ==
    LET rest == [s EXCEPT !.frontier = @ \ {e}]
        here == [rest EXCEPT !.settled = @ \cup {e.key}]
        next ==
            IF Stale(s, e) THEN rest
            ELSE IF Cardinality(s.settled) >= limit THEN [rest EXCEPT !.status = "LIMIT_REACHED"]
            ELSE IF goal THEN [here EXCEPT !.status = "REACHABLE", !.found = e]
            ELSE IF throws \/ (strict /\ Collides(s, out)) THEN [here EXCEPT !.status = "ERROR"]
            ELSE Relax(here, e, out)
    IN  IF next.status = "SEARCHING" /\ next.frontier = {}
        THEN [next EXCEPT !.status = "UNREACHABLE"] ELSE next
=============================================================================
